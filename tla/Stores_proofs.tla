--------------------------- MODULE Stores_proofs ---------------------------
(* What the program keeps beside the wiki itself, for every value of the     *)
(* constants: the directory and hooks of the stand-alone runtime, stored     *)
(* conversations, the configuration, and the tables of users, projects and   *)
(* agents.  Four components that do not interact; their definitions have     *)
(* names of their own, so that one module can hold the proofs about them.    *)
EXTENDS Runtime, Conversations, Configuration, Registry, TLAPS

-----------------------------------------------------------------------------
(* The stand-alone runtime: the directory it serves and its hooks.          *)

LEMMA ConfigFacts ==
    ASSUME RuntimeAssumption
    PROVE  /\ PackedConfig \in Configs /\ Defaults \in Configs
           /\ Nothing \notin Configs
           /\ \A base \in {0, Default, Bad} \cup Updates, prompt \in {0} \cup Updates,
                 key \in {0, Nothing} \cup Updates :
                 [base |-> base, prompt |-> prompt, key |-> key] \in Configs
           /\ \A config \in Configs :
                 /\ config.base \in {0, Default, Bad} \cup Updates
                 /\ config.prompt \in {0} \cup Updates
                 /\ config.key \in {0, Nothing} \cup Updates
           /\ \A config \in Configs, n \in Updates : [config EXCEPT !.prompt = n] \in Configs
  BY DEF RuntimeAssumption, PackedConfig, Defaults, Configs

LEMMA NextUpdate ==
    ASSUME RuntimeAssumption, updates \in 0..MaxUpdates, updates < MaxUpdates
    PROVE  updates + 1 \in Updates /\ updates + 1 \in 0..MaxUpdates
  BY DEF RuntimeAssumption, Updates

LEMMA RuntimeStart ==
    ASSUME RuntimeAssumption, RuntimeInit
    PROVE  RuntimeInv
<1>1. RuntimeTypeOK
  <2>1. at \in [Procs -> [Runs -> 0..Scripts]]
    BY DEF RuntimeAssumption, RuntimeInit, NoRuns
  <2>2. last \in [Procs -> Seq(Results)]
    BY DEF RuntimeInit
  <2>3. /\ launches \in 0..MaxLaunches /\ updates \in 0..MaxUpdates
        /\ hookRuns \in 0..MaxHookRuns /\ deaths \in 0..MaxDeaths
    BY DEF RuntimeAssumption, RuntimeInit
  <2>4. ("config" \in dir <=> configFile # Nothing) /\ configFile \in Configs \cup {Nothing} /\ dir \subseteq Parts
    BY DEF RuntimeInit
  <2> QED BY <2>1, <2>2, <2>3, <2>4, ConfigFacts DEF RuntimeInit, RuntimeTypeOK, Extracting
<1>2. HooksInOrder
  BY DEF RuntimeInit, HooksInOrder, NoRuns
<1>3. ProcessesFit
  BY DEF RuntimeInit, ProcessesFit, NoRuns, Runs
<1>4. BundleWhole
  BY DEF RuntimeInit, BundleWhole, Extracting
<1> QED BY <1>1, <1>2, <1>3, <1>4 DEF RuntimeInv

\* What every action of extraction keeps.
LEMMA ExtractStep ==
    ASSUME RuntimeAssumption, RuntimeInv, NEW p \in Procs,
           Launch(p) \/ Unpack(p) \/ FindOld(p) \/ ExtractFails(p) \/ ChooseConfig(p)
    PROVE  RuntimeInv'
<1> USE DEF MovesTo, ExtractFrame, procVars, hookVars, savedVars, diskVars
<1>1. RuntimeTypeOK'
  <2>1. CASE Launch(p)
    BY <2>1 DEF RuntimeAssumption, RuntimeInv, RuntimeTypeOK, Launch, Begins, Extracting
  <2>2. CASE Unpack(p) \/ FindOld(p) \/ ExtractFails(p) \/ ChooseConfig(p)
    BY <2>2 DEF RuntimeInv, RuntimeTypeOK, Unpack, FindOld, ExtractFails, ChooseConfig, Extracting
  <2> QED BY <2>1, <2>2
<1>2. HooksInOrder'
  BY DEF RuntimeInv, HooksInOrder, Launch, Begins, Unpack, FindOld, ExtractFails, ChooseConfig
<1>3. ProcessesFit'
  BY DEF RuntimeInv, RuntimeTypeOK, ProcessesFit, Launch, Begins, Unpack, FindOld, ExtractFails, ChooseConfig, Extracting, RuntimeAssumption, Runs
<1>4. BundleWhole'
  <2>1. CASE Launch(p)
    BY <2>1 DEF RuntimeInv, RuntimeTypeOK, BundleWhole, Launch, Begins, Extracting, Parts
  <2>2. CASE Unpack(p)
    BY <2>2 DEF RuntimeInv, RuntimeTypeOK, BundleWhole, Unpack, Extracting
  <2>3. CASE FindOld(p)
    BY <2>3 DEF RuntimeInv, RuntimeTypeOK, BundleWhole, FindOld, Extracting
  <2>4. CASE ExtractFails(p)
    BY <2>4 DEF RuntimeInv, RuntimeTypeOK, BundleWhole, ExtractFails, Extracting
  <2>5. CASE ChooseConfig(p)
    BY <2>5 DEF RuntimeInv, RuntimeTypeOK, BundleWhole, ChooseConfig, Extracting
  <2> QED BY <2>1, <2>2, <2>3, <2>4, <2>5
<1> QED BY <1>1, <1>2, <1>3, <1>4 DEF RuntimeInv

LEMMA DirectoryStep ==
    ASSUME RuntimeAssumption, RuntimeInv, NEW p \in Procs, RemoveOld(p) \/ Place(p)
    PROVE  RuntimeInv'
<1> USE DEF MovesTo, ExtractFrame, procVars, hookVars, savedVars, diskVars
<1>1. RuntimeTypeOK'
  <2>1. CASE RemoveOld(p)
    BY <2>1 DEF RuntimeInv, RuntimeTypeOK, RemoveOld, Removed, Extracting
  <2>2. CASE Place(p)
    BY <2>2, ConfigFacts DEF RuntimeInv, RuntimeTypeOK, Place, Extracting, Parts
  <2> QED BY <2>1, <2>2
<1>2. HooksInOrder'
  BY DEF RuntimeInv, HooksInOrder, RemoveOld, Place
<1>3. ProcessesFit'
  BY DEF RuntimeInv, RuntimeTypeOK, ProcessesFit, RemoveOld, Removed, Place, Extracting, RuntimeAssumption, Runs
<1>4. BundleWhole'
  <2>1. CASE RemoveOld(p)
    BY <2>1 DEF RuntimeInv, BundleWhole, RemoveOld, Removed, Extracting
  <2>2. CASE Place(p)
    <3> SUFFICES ASSUME ~raced PROVE BundleWhole'
      BY <2>2 DEF BundleWhole, Place
    <3>1. dir = {} /\ dir' = Parts /\ configFile' = PackedConfig
      BY <2>2 DEF RuntimeInv, BundleWhole, Place, Extracting
    <3>2. \A q \in Procs : pc'[q] = IF q = p THEN "choose" ELSE pc[q]
      BY <2>2, <3>1 DEF RuntimeInv, RuntimeTypeOK, Place
    <3>3. \A q \in Procs \ {p} : pc[q] = "down"
      BY <2>2, <3>1 DEF RuntimeInv, BundleWhole, Place, Extracting, Parts
    <3> QED BY <2>2, <3>1, <3>2, <3>3 DEF RuntimeInv, BundleWhole, Place, Extracting, Parts
  <2> QED BY <2>1, <2>2
<1> QED BY <1>1, <1>2, <1>3, <1>4 DEF RuntimeInv

LEMMA ConfigStep ==
    ASSUME RuntimeAssumption, RuntimeInv, NEW p \in Procs,
           LoadConfig(p) \/ PutConfig(p) \/ PutPrompt(p)
    PROVE  RuntimeInv'
<1> USE DEF MovesTo, procVars, hookVars, savedVars, diskVars, Serving
<1>1. RuntimeTypeOK'
  <2>1. CASE LoadConfig(p)
    <3>1. configFile' \in Configs /\ dir' = dir \cup {"config"}
          /\ (mem' = mem \/ mem' = [mem EXCEPT ![p] = configFile'])
          /\ \E l \in {"loaded", "down"} : pc' = [pc EXCEPT ![p] = l]
      BY <2>1, ConfigFacts DEF RuntimeInv, RuntimeTypeOK, LoadConfig
    <3>2. pc' \in [Procs -> Extracting \cup {"down", "choose", "load", "loaded", "starting",
                                              "serving", "exit"}]
          /\ mem' \in [Procs -> Configs \cup {Nothing}]
      BY <3>1 DEF RuntimeInv, RuntimeTypeOK
    <3>3. dir' \subseteq Parts /\ ("config" \in dir' <=> configFile' # Nothing)
      BY <3>1, ConfigFacts DEF RuntimeInv, RuntimeTypeOK, Parts
    <3> QED BY <2>1, <3>1, <3>2, <3>3 DEF RuntimeInv, RuntimeTypeOK, LoadConfig
  <2>2. CASE PutConfig(p)
    <3>1. PICK base \in {Bad, updates + 1}, key \in {mem[p].key, updates + 1} :
             LET config == [base |-> base, prompt |-> mem[p].prompt, key |-> key] IN
             /\ WriteAndLoad(p, config)
             /\ saved' = IF Valid(config) THEN config ELSE saved
             /\ dirty' = ~Valid(config)
      BY <2>2 DEF PutConfig
    <3> DEFINE config == [base |-> base, prompt |-> mem[p].prompt, key |-> key]
    <3>2. updates + 1 \in Updates /\ updates + 1 \in 0..MaxUpdates
      BY <2>2, NextUpdate DEF PutConfig, RuntimeInv, RuntimeTypeOK
    <3>3. mem[p] \in Configs
      BY <2>2 DEF PutConfig, RuntimeInv, ProcessesFit
    <3>4. config \in Configs
      BY <3>2, <3>3, ConfigFacts
    <3> HIDE DEF config
    <3>5. WriteAndLoad(p, config) /\ (saved' = IF Valid(config) THEN config ELSE saved)
          /\ dirty' = ~Valid(config)
      BY <3>1 DEF config
    <3> QED BY <3>2, <3>4, <3>5, ConfigFacts DEF RuntimeInv, RuntimeTypeOK, WriteAndLoad, Valid, Parts
  <2>3. CASE PutPrompt(p)
    <3> DEFINE config == [configFile EXCEPT !.prompt = updates + 1]
    <3>2. updates + 1 \in Updates /\ updates + 1 \in 0..MaxUpdates
      BY <2>3, NextUpdate DEF PutPrompt, RuntimeInv, RuntimeTypeOK
    <3>3. configFile \in Configs
      BY <2>3 DEF PutPrompt, RuntimeInv, RuntimeTypeOK
    <3>4. config \in Configs /\ saved' \in Configs
      BY <2>3, <3>2, <3>3, ConfigFacts DEF RuntimeInv, RuntimeTypeOK, PutPrompt
    <3> HIDE DEF config
    <3>5. WriteAndLoad(p, config) /\ dirty' = dirty
      BY <2>3 DEF PutPrompt, config
    <3> QED BY <3>2, <3>4, <3>5, ConfigFacts DEF RuntimeInv, RuntimeTypeOK, WriteAndLoad, Parts
  <2> QED BY <2>1, <2>2, <2>3
<1>2. HooksInOrder'
  BY DEF RuntimeInv, HooksInOrder, LoadConfig, PutConfig, PutPrompt, WriteAndLoad
<1>3. ProcessesFit'
  <2>1. CASE LoadConfig(p)
    <3>1. (IF "config" \in dir THEN configFile ELSE Defaults) \in Configs
      BY ConfigFacts DEF RuntimeInv, RuntimeTypeOK
    <3> QED BY <2>1, <3>1 DEF RuntimeInv, RuntimeTypeOK, ProcessesFit, LoadConfig, RuntimeAssumption, Runs
  <2>2. CASE PutConfig(p) \/ PutPrompt(p)
    <3>1. \A q \in Procs : mem'[q] \in {mem[q], configFile'}
      BY <2>2 DEF RuntimeInv, RuntimeTypeOK, PutConfig, PutPrompt, WriteAndLoad
    <3>2. configFile' \in Configs
      BY <1>1, <2>2 DEF RuntimeTypeOK, PutConfig, PutPrompt, WriteAndLoad
    <3> QED BY <2>2, <3>1, <3>2 DEF RuntimeInv, RuntimeTypeOK, ProcessesFit, PutConfig, PutPrompt, WriteAndLoad
  <2> QED BY <2>1, <2>2
<1>4. BundleWhole'
  <2>1. CASE LoadConfig(p)
    <3> SUFFICES ASSUME ~raced PROVE BundleWhole'
      BY <2>1 DEF BundleWhole, LoadConfig
    <3>1. dir = Parts
      BY <2>1 DEF RuntimeInv, BundleWhole, LoadConfig, Extracting
    <3>2. dir' = dir /\ configFile' = configFile
      BY <2>1, <3>1 DEF LoadConfig, Parts
    <3> QED BY <2>1, <3>1, <3>2 DEF RuntimeInv, RuntimeTypeOK, BundleWhole, LoadConfig, Extracting, Parts
  <2>2. CASE PutConfig(p)
    <3> SUFFICES ASSUME ~raced PROVE BundleWhole'
      BY <2>2 DEF BundleWhole, PutConfig, WriteAndLoad
    <3>1. dir = Parts /\ dir' = dir
      BY <2>2 DEF RuntimeInv, BundleWhole, PutConfig, WriteAndLoad, Extracting, Parts
    <3>2. dirty' \/ configFile' = saved'
      BY <2>2 DEF PutConfig, WriteAndLoad
    <3>3. pc' = pc /\ raced' = raced
      BY <2>2 DEF PutConfig, WriteAndLoad
    <3> QED BY <3>1, <3>2, <3>3 DEF RuntimeInv, BundleWhole, Extracting, Parts
  <2>3. CASE PutPrompt(p)
    <3> SUFFICES ASSUME ~raced PROVE BundleWhole'
      BY <2>3 DEF BundleWhole, PutPrompt, WriteAndLoad
    <3>1. dir = Parts /\ dir' = dir
      BY <2>3 DEF RuntimeInv, BundleWhole, PutPrompt, WriteAndLoad, Extracting, Parts
    <3>2. dirty' \/ configFile' = saved'
      BY <2>3, <3>1 DEF RuntimeInv, BundleWhole, PutPrompt, WriteAndLoad, Parts
    <3>3. pc' = pc /\ raced' = raced
      BY <2>3 DEF PutPrompt, WriteAndLoad
    <3> QED BY <3>1, <3>2, <3>3 DEF RuntimeInv, BundleWhole, Extracting, Parts
  <2> QED BY <2>1, <2>2, <2>3
<1> QED BY <1>1, <1>2, <1>3, <1>4 DEF RuntimeInv

LEMMA StartRunInOrder ==
    ASSUME RuntimeAssumption, RuntimeInv, NEW p \in Procs, NEW r \in Runs, StartRun(p, r)
    PROVE  /\ HooksInOrder'
           /\ at' \in [Procs -> [Runs -> 0..Scripts]]
           /\ mixed' \in [Procs -> BOOLEAN]
           /\ last' \in [Procs -> Seq(Results)]
           /\ \A q \in Procs : ~mixed'[q] =>
                 \A s, t \in Runs : at'[q][s] > 0 /\ at'[q][t] > 0 => s = t
           /\ \A q \in Procs, s \in Runs : at'[q][s] > 0 =>
                 at[q][s] > 0 \/ (q = p /\ s = r)
<1>1. /\ at' \in [Procs -> [Runs -> 0..Scripts]]
      /\ mixed' \in [Procs -> BOOLEAN] /\ mixed'[p] = ~NoHooks(p)
      /\ \A q \in Procs : last'[q] = IF q = p THEN <<>> ELSE last[q]
      /\ \A q \in Procs : q # p => at'[q] = at[q] /\ mixed'[q] = mixed[q]
      /\ \A s \in Runs : at'[p][s] = IF s = r THEN 1 ELSE at[p][s]
  BY DEF RuntimeAssumption, RuntimeInv, RuntimeTypeOK, StartRun
<1>2. ~mixed'[p] => \A s \in Runs : at[p][s] = 0
  BY <1>1 DEF NoHooks, NoRuns
<1>3. last' \in [Procs -> Seq(Results)]
  BY DEF RuntimeInv, RuntimeTypeOK, StartRun
<1>4. ASSUME NEW q \in Procs, ~mixed'[q]
      PROVE  \A s, t \in Runs : at'[q][s] > 0 /\ at'[q][t] > 0 => s = t
  <2>1. CASE q = p
    <3>1. \A s \in Runs : at[p][s] = 0
      BY <1>2, <1>4, <2>1
    <3>2. \A s \in Runs : s # r => at'[p][s] = 0
      BY <1>1, <3>1
    <3>3. \A s \in Runs : at'[p][s] > 0 => s = r
      BY <3>2
    <3> QED BY <2>1, <3>3
  <2>2. CASE q # p
    BY <1>1, <1>4, <2>2 DEF RuntimeInv, ProcessesFit
  <2> QED BY <2>1, <2>2
<1>5. ASSUME NEW q \in Procs, ~mixed'[q]
      PROVE  /\ \A i \in DOMAIN last'[q] : last'[q][i].script = i
             /\ \A s \in Runs : at'[q][s] > 0 =>
                   /\ at'[q][s] = Len(last'[q]) + 1
                   /\ \A i \in DOMAIN last'[q] :
                         last'[q][i].run = s /\ (StopOnFailure => last'[q][i].ok)
  <2>1. CASE q = p
    <3>1. last'[q] = <<>> /\ Len(last'[q]) = 0 /\ DOMAIN last'[q] = {}
      BY <1>1, <2>1
    <3>2. \A s \in Runs : at[p][s] = 0
      BY <1>2, <1>5, <2>1
    <3>3. \A s \in Runs : at'[p][s] \in {0, 1}
      BY <1>1, <3>2
    <3> QED BY <2>1, <3>1, <3>3
  <2>2. CASE q # p
    <3>1. /\ \A i \in DOMAIN last[q] : last[q][i].script = i
          /\ \A s \in Runs : at[q][s] > 0 =>
                /\ at[q][s] = Len(last[q]) + 1
                /\ \A i \in DOMAIN last[q] :
                      last[q][i].run = s /\ (StopOnFailure => last[q][i].ok)
      BY <1>1, <1>5, <2>2 DEF RuntimeInv, HooksInOrder
    <3>2. last'[q] = last[q] /\ at'[q] = at[q]
      BY <1>1, <2>2
    <3> QED BY <3>1, <3>2
  <2> QED BY <2>1, <2>2
<1> QED BY <1>1, <1>3, <1>4, <1>5 DEF HooksInOrder

LEMMA StartRunStep ==
    ASSUME RuntimeAssumption, RuntimeInv, NEW p \in Procs,
           StartupHooks(p) \/ \E c \in Callers : PostHooksRun(p, c)
    PROVE  RuntimeInv'
<1> USE DEF HookFrame, procVars, hookVars, savedVars, diskVars
<1>1. PICK r \in Runs :
         /\ StartRun(p, r) /\ HookFrame
         /\ \/ /\ r = "startup" /\ pc[p] = "loaded" /\ MovesTo(p, "starting") /\ hookRuns' = hookRuns
            \/ /\ r # "startup" /\ pc' = pc /\ hookRuns' = hookRuns + 1 /\ hookRuns < MaxHookRuns
  BY DEF StartupHooks, PostHooksRun, Runs, RuntimeAssumption
<1>2. RuntimeTypeOK'
  <2>1. /\ at' \in [Procs -> [Runs -> 0..Scripts]] /\ mixed' \in [Procs -> BOOLEAN]
        /\ last' \in [Procs -> Seq(Results)]
    BY <1>1, StartRunInOrder
  <2>2. hookRuns' \in 0..MaxHookRuns
    BY <1>1 DEF RuntimeAssumption, RuntimeInv, RuntimeTypeOK
  <2>3. pc' \in [Procs -> Extracting \cup {"down", "choose", "load", "loaded", "starting",
                                            "serving", "exit"}]
    BY <1>1 DEF RuntimeInv, RuntimeTypeOK, MovesTo
  <2> QED BY <1>1, <2>1, <2>2, <2>3 DEF RuntimeInv, RuntimeTypeOK
<1>3. HooksInOrder'
  BY <1>1, StartRunInOrder
<1>4. ProcessesFit'
  <2>1. /\ \A q \in Procs : ~mixed'[q] =>
              \A s, t \in Runs : at'[q][s] > 0 /\ at'[q][t] > 0 => s = t
        /\ \A q \in Procs, s \in Runs : at'[q][s] > 0 => at[q][s] > 0 \/ (q = p /\ s = r)
    BY <1>1, StartRunInOrder
  <2>2. \A q \in Procs : pc'[q] = IF q = p /\ r = "startup" THEN "starting" ELSE pc[q]
    BY <1>1 DEF RuntimeInv, RuntimeTypeOK, MovesTo
  <2>3. "startup" \in Runs
    BY DEF Runs
  <2>4. r = "startup" => pc[p] = "loaded"
    BY <1>1
  <2>5. mem' = mem
    BY <1>1
  <2> QED BY <2>1, <2>2, <2>3, <2>4, <2>5 DEF RuntimeInv, ProcessesFit
<1>5. BundleWhole'
  BY <1>1 DEF RuntimeInv, RuntimeTypeOK, BundleWhole, MovesTo, Extracting
<1> QED BY <1>2, <1>3, <1>4, <1>5 DEF RuntimeInv

LEMMA HookStep ==
    ASSUME RuntimeAssumption, RuntimeInv, NEW p \in Procs, NEW r \in Runs, HookEnds(p, r)
    PROVE  RuntimeInv'
<1> USE DEF HookFrame, procVars, hookVars, savedVars, diskVars
<1> DEFINE ends(ok) == (StopOnFailure /\ ~ok) \/ at[p][r] = Scripts
           result(ok) == [run |-> r, script |-> at[p][r], ok |-> ok]
<1>1. PICK ok \in BOOLEAN :
         /\ last' = [last EXCEPT ![p] = Append(@, result(ok))]
         /\ at' = [at EXCEPT ![p][r] = IF ends(ok) THEN 0 ELSE @ + 1]
         /\ IF r = "startup" /\ ends(ok)
            THEN pc' = [pc EXCEPT ![p] = IF StopOnFailure /\ ~ok THEN "exit" ELSE "serving"]
            ELSE pc' = pc
  BY DEF HookEnds, MovesTo
<1>2. /\ at[p][r] > 0 /\ mixed' = mixed /\ hookRuns' = hookRuns /\ HookFrame
      /\ at[p][r] \in 1..Scripts /\ at \in [Procs -> [Runs -> 0..Scripts]]
      /\ Scripts \in Nat
  BY DEF HookEnds, RuntimeInv, RuntimeTypeOK, RuntimeAssumption
<1>3. /\ at' \in [Procs -> [Runs -> 0..Scripts]]
      /\ \A q \in Procs : q # p => at'[q] = at[q]
      /\ \A s \in Runs : s # r => at'[p][s] = at[p][s]
      /\ at'[p][r] = IF ends(ok) THEN 0 ELSE at[p][r] + 1
  <2>1. (IF ends(ok) THEN 0 ELSE at[p][r] + 1) \in 0..Scripts
    BY <1>2
  <2> HIDE DEF ends
  <2> QED BY <1>1, <1>2, <2>1
<1>4. result(ok) \in Results /\ last \in [Procs -> Seq(Results)]
  BY <1>2 DEF Results, RuntimeInv, RuntimeTypeOK
<1>5. /\ \A q \in Procs : q # p => last'[q] = last[q]
      /\ last'[p] = Append(last[p], result(ok))
  BY <1>1 DEF RuntimeInv, RuntimeTypeOK
<1>6. last' \in [Procs -> Seq(Results)]
  <2> HIDE DEF result
  <2> QED BY <1>1, <1>4
<1>7. pc' \in [Procs -> Extracting \cup {"down", "choose", "load", "loaded", "starting",
                                          "serving", "exit"}]
  BY <1>1 DEF RuntimeInv, RuntimeTypeOK
<1>8. RuntimeTypeOK'
  BY <1>2, <1>3, <1>6, <1>7 DEF RuntimeInv, RuntimeTypeOK
<1>9. HooksInOrder'
  <2> SUFFICES ASSUME NEW q \in Procs, ~mixed[q]
               PROVE  /\ \A i \in DOMAIN last'[q] : last'[q][i].script = i
                      /\ \A s \in Runs : at'[q][s] > 0 =>
                            /\ at'[q][s] = Len(last'[q]) + 1
                            /\ \A i \in DOMAIN last'[q] :
                                  last'[q][i].run = s /\ (StopOnFailure => last'[q][i].ok)
    BY <1>2 DEF HooksInOrder
  <2>1. CASE q # p
    <3>1. /\ \A i \in DOMAIN last[q] : last[q][i].script = i
          /\ \A s \in Runs : at[q][s] > 0 =>
                /\ at[q][s] = Len(last[q]) + 1
                /\ \A i \in DOMAIN last[q] :
                      last[q][i].run = s /\ (StopOnFailure => last[q][i].ok)
      BY DEF RuntimeInv, HooksInOrder
    <3>2. last'[q] = last[q] /\ at'[q] = at[q]
      BY <1>3, <1>5, <2>1
    <3> QED BY <3>1, <3>2
  <2>2. CASE q = p
    <3> DEFINE n == Len(last[p])
    <3>1. /\ n \in Nat /\ DOMAIN last[p] = 1..n
          /\ Len(last'[p]) = n + 1 /\ DOMAIN last'[p] = 1..(n + 1)
          /\ last'[p][n + 1] = result(ok)
          /\ \A i \in 1..n : last'[p][i] = last[p][i]
      <4> HIDE DEF result
      <4> QED BY <1>4, <1>5
    <3>2. at[p][r] = n + 1
      BY <1>2, <2>2 DEF RuntimeInv, HooksInOrder
    <3>3. \A i \in 1..n : last[p][i].script = i /\ last[p][i].run = r /\ (StopOnFailure => last[p][i].ok)
      BY <1>2, <2>2, <3>1 DEF RuntimeInv, HooksInOrder
    <3>4. \A s \in Runs : at'[p][s] > 0 => s = r /\ ~ends(ok)
      BY <1>2, <1>3, <2>2 DEF RuntimeInv, ProcessesFit
    <3>5. result(ok).script = n + 1 /\ result(ok).run = r /\ result(ok).ok = ok
      BY <3>2
    <3>6. ~ends(ok) => (StopOnFailure => ok) /\ at'[p][r] = n + 2
      BY <1>3, <3>1, <3>2
    <3> HIDE DEF n, ends, result
    <3> QED BY <2>2, <3>1, <3>3, <3>4, <3>5, <3>6
  <2> QED BY <2>1, <2>2
<1>10. r = "startup" => pc[p] = "starting"
  BY <1>2 DEF RuntimeInv, ProcessesFit
<1>11. \A q \in Procs, s \in Runs : at'[q][s] > 0 => at[q][s] > 0
  BY <1>2, <1>3
<1>12. "startup" \in Runs
  BY DEF Runs
<1>13. ProcessesFit'
  <2>1. \A q \in Procs : pc'[q] \in {"loaded", "starting", "serving"} => mem[q] \in Configs
    BY <1>1, <1>10 DEF RuntimeInv, RuntimeTypeOK, ProcessesFit
  <2>2. \A q \in Procs : at'[q]["startup"] > 0 => pc'[q] = "starting"
    <3> HIDE DEF ends
    <3> QED BY <1>1, <1>3, <1>11, <1>12 DEF RuntimeInv, RuntimeTypeOK, ProcessesFit
  <2>3. \A q \in Procs : ~mixed[q] => \A s, t \in Runs : at'[q][s] > 0 /\ at'[q][t] > 0 => s = t
    BY <1>11 DEF RuntimeInv, ProcessesFit
  <2> QED BY <1>2, <2>1, <2>2, <2>3 DEF ProcessesFit
<1>14. BundleWhole'
  BY <1>1, <1>2, <1>10 DEF RuntimeInv, RuntimeTypeOK, BundleWhole, Extracting
<1> QED BY <1>8, <1>9, <1>13, <1>14 DEF RuntimeInv

LEMMA ProcessGoneStep ==
    ASSUME RuntimeAssumption, RuntimeInv, NEW p \in Procs, Exit(p) \/ Die(p)
    PROVE  RuntimeInv'
<1> USE DEF procVars, hookVars, savedVars, diskVars
<1>1. /\ pc' = [pc EXCEPT ![p] = "down"] /\ todo' = [todo EXCEPT ![p] = {}]
      /\ mem' = [mem EXCEPT ![p] = Nothing] /\ at' = [at EXCEPT ![p] = NoRuns]
      /\ last' = [last EXCEPT ![p] = <<>>] /\ mixed' = [mixed EXCEPT ![p] = FALSE]
      /\ UNCHANGED <<raced, hookRuns, saved, launches>>
      /\ deaths' \in 0..MaxDeaths
      /\ \/ dir' = dir /\ configFile' = configFile /\ dirty' = dirty /\ updates' = updates
         \/ /\ pc[p] = "serving" /\ updates < MaxUpdates /\ "config" \in dir
            /\ configFile' = Defaults /\ dirty' = TRUE /\ updates' = updates + 1 /\ dir' = dir
  BY DEF Exit, Die, Gone, MovesTo, Serving, RuntimeInv, RuntimeTypeOK, RuntimeAssumption
<1>2. /\ at' \in [Procs -> [Runs -> 0..Scripts]]
      /\ \A q \in Procs : at'[q] = IF q = p THEN NoRuns ELSE at[q]
      /\ \A r \in Runs : NoRuns[r] = 0
  BY <1>1 DEF NoRuns, RuntimeInv, RuntimeTypeOK, RuntimeAssumption
<1>3. \A q \in Procs : last'[q] = IF q = p THEN <<>> ELSE last[q]
  BY <1>1 DEF RuntimeInv, RuntimeTypeOK
<1>4. RuntimeTypeOK'
  <2>1. last' \in [Procs -> Seq(Results)]
    BY <1>1 DEF RuntimeInv, RuntimeTypeOK
  <2>2. updates' \in 0..MaxUpdates
    BY <1>1, NextUpdate DEF RuntimeInv, RuntimeTypeOK
  <2>3. pc' \in [Procs -> Extracting \cup {"down", "choose", "load", "loaded", "starting",
                                            "serving", "exit"}]
        /\ todo' \in [Procs -> SUBSET Parts] /\ mem' \in [Procs -> Configs \cup {Nothing}]
        /\ mixed' \in [Procs -> BOOLEAN]
    BY <1>1 DEF RuntimeInv, RuntimeTypeOK
  <2>4. dir' \subseteq Parts /\ configFile' \in Configs \cup {Nothing} /\ ("config" \in dir' <=> configFile' # Nothing)
    BY <1>1, ConfigFacts DEF RuntimeInv, RuntimeTypeOK
  <2> QED BY <1>1, <1>2, <2>1, <2>2, <2>3, <2>4 DEF RuntimeInv, RuntimeTypeOK
<1>5. HooksInOrder'
  <2> SUFFICES ASSUME NEW q \in Procs, ~mixed'[q]
               PROVE  /\ \A i \in DOMAIN last'[q] : last'[q][i].script = i
                      /\ \A s \in Runs : at'[q][s] > 0 =>
                            /\ at'[q][s] = Len(last'[q]) + 1
                            /\ \A i \in DOMAIN last'[q] :
                                  last'[q][i].run = s /\ (StopOnFailure => last'[q][i].ok)
    BY DEF HooksInOrder
  <2>1. CASE q = p
    BY <1>2, <1>3, <2>1
  <2>2. CASE q # p
    BY <1>1, <1>2, <1>3, <2>2 DEF RuntimeInv, RuntimeTypeOK, HooksInOrder
  <2> QED BY <2>1, <2>2
<1>6. ProcessesFit'
  BY <1>1, <1>2 DEF RuntimeInv, RuntimeTypeOK, ProcessesFit, Runs
<1>7. BundleWhole'
  <2> SUFFICES ASSUME ~raced PROVE BundleWhole'
    BY <1>1 DEF BundleWhole
  <2>1. \A q \in Procs : pc'[q] = IF q = p THEN "down" ELSE pc[q]
    BY <1>1 DEF RuntimeInv, RuntimeTypeOK
  <2>2. pc[p] = "serving" => dir = Parts
    BY DEF RuntimeInv, BundleWhole, Extracting
  <2> QED BY <1>1, <2>1, <2>2 DEF RuntimeInv, BundleWhole, Extracting, Parts
<1> QED BY <1>4, <1>5, <1>6, <1>7 DEF RuntimeInv

LEMMA RuntimeStep ==
    ASSUME RuntimeAssumption, RuntimeInv, [RuntimeNext]_runtimeVars
    PROVE  RuntimeInv'
<1>1. CASE RuntimeNext
  BY <1>1, ExtractStep, DirectoryStep, ConfigStep, StartRunStep, HookStep, ProcessGoneStep DEF RuntimeNext
<1>2. CASE UNCHANGED runtimeVars
  BY <1>2 DEF runtimeVars, diskVars, procVars, hookVars, savedVars, RuntimeInv, RuntimeTypeOK, HooksInOrder,
     ProcessesFit, BundleWhole
<1> QED BY <1>1, <1>2

\* The inductive invariant, for any number of processes, hooks and updates: the
\* results of a run of hooks that no other overlaps are its own and in the order of the
\* commands (hooks.py:157-210), and unless two processes have extracted at once the
\* directory is absent or whole (bundle.py:131-182).
THEOREM RuntimeInvariant == RuntimeSpec => []RuntimeInv
<1>1. RuntimeInit => RuntimeInv
  BY RuntimeAssumption, RuntimeStart
<1>2. RuntimeInv /\ [RuntimeNext]_runtimeVars => RuntimeInv'
  BY RuntimeAssumption, RuntimeStep
<1> QED BY <1>1, <1>2, PTL DEF RuntimeSpec

\* A process that serves finds the bundle in its directory, whoever launches, fails
\* and dies beside it (bundle.py:139-156), unless two have extracted at once.
THEOREM RuntimeServesWhole == RuntimeSpec => []ServesWhole
<1>1. RuntimeInv => ServesWhole
  BY DEF RuntimeInv, BundleWhole, ServesWhole, Extracting
<1> QED BY <1>1, RuntimeInvariant, PTL

\* Accepted updates of the configuration in the bundle's directory outlive the
\* process that accepted them; they are undone neither by a later launch nor, when
\* only prompts are set, by what another process has in memory
\* (bundle.py:139, router.py:300-321).  Not so once an update was refused or cut.
THEOREM RuntimeUpdatesStay == RuntimeSpec => []UpdatesStay
<1>1. RuntimeInv => UpdatesStay
  BY DEF RuntimeInv, BundleWhole, UpdatesStay
<1> QED BY <1>1, RuntimeInvariant, PTL

-----------------------------------------------------------------------------
(* Stored conversations.                                                    *)

LEMMA AppendTurns ==
    ASSUME NEW s \in Seq(Requests), NEW x \in Requests
    PROVE  /\ Append(s, x) \in Seq(Requests) /\ Append(s, x) # <<>>
           /\ Len(Append(s, x)) = Len(s) + 1 /\ Len(s) \in Nat
           /\ Range(Append(s, x)) = Range(s) \cup {x}
<1>1. Append(s, x) \in Seq(Requests) /\ Append(s, x) # <<>>
      /\ Len(Append(s, x)) = Len(s) + 1 /\ Len(s) \in Nat
  OBVIOUS
<1>2. DOMAIN s = 1..Len(s) /\ DOMAIN Append(s, x) = 1..(Len(s) + 1)
  OBVIOUS
<1>3. /\ \A i \in 1..Len(s) : Append(s, x)[i] = s[i]
      /\ Append(s, x)[Len(s) + 1] = x
  OBVIOUS
<1>4. ASSUME NEW y PROVE y \in Range(Append(s, x)) <=> y \in Range(s) \cup {x}
  <2>1. ASSUME NEW i \in 1..(Len(s) + 1), y = Append(s, x)[i] PROVE y \in Range(s) \cup {x}
    <3>1. CASE i = Len(s) + 1
      BY <1>3, <2>1, <3>1
    <3>2. CASE i # Len(s) + 1
      <4>1. i \in 1..Len(s)
        BY <1>1, <3>2
      <4> QED BY <1>2, <1>3, <2>1, <4>1 DEF Range
    <3> QED BY <3>1, <3>2
  <2>2. ASSUME NEW i \in 1..Len(s), y = s[i] PROVE y \in Range(Append(s, x))
    <3>1. i \in 1..(Len(s) + 1)
      BY <1>1
    <3> QED BY <1>2, <1>3, <2>2, <3>1 DEF Range
  <2>3. x \in Range(Append(s, x))
    BY <1>1, <1>2, <1>3 DEF Range
  <2> QED BY <1>2, <2>1, <2>2, <2>3 DEF Range
<1> QED BY <1>1, <1>4

LEMMA LastTurns ==
    ASSUME NEW s \in Seq(Requests), NEW k \in 0..Len(s)
    PROVE  /\ SubSeq(s, k + 1, Len(s)) \in Seq(Requests)
           /\ Range(SubSeq(s, k + 1, Len(s))) \subseteq Range(s)
<1> DEFINE t == SubSeq(s, k + 1, Len(s))
<1>1. t \in Seq(Requests) /\ Len(t) = Len(s) - k /\ DOMAIN t = 1..(Len(s) - k)
  OBVIOUS
<1>2. \A i \in 1..(Len(s) - k) : t[i] = s[k + i] /\ k + i \in 1..Len(s)
  OBVIOUS
<1> HIDE DEF t
<1>3. DOMAIN s = 1..Len(s)
  OBVIOUS
<1>4. Range(t) \subseteq Range(s)
  BY <1>1, <1>2, <1>3 DEF Range
<1> QED BY <1>1, <1>4 DEF t

LEMMA NoTurns == Range(<<>>) = {} /\ <<>> \in Seq(Requests) /\ Len(<<>>) = 0
  BY DEF Range

\* A request is new, or has all fields.
LEMMA RequestFields ==
    ASSUME ConversationsTypeOK, NEW r \in Requests
    PROVE  /\ At(r, "new") <=> request[r] = New
           /\ ~At(r, "new") => request[r] \in Asked
           /\ ~At(r, "new") =>
                /\ request[r].op \in {"turn", "visit", "delete"}
                /\ Conv(r) \in Convs \cup {"none"}
                /\ request[r].hist \in Seq(Requests) /\ request[r].base \in Seq(Requests)
                /\ request[r].short \in BOOLEAN /\ request[r].copy \in {<<>>} \cup [Convs -> Nat]
                /\ request[r].pc \in Pcs \ {"new"}
           /\ At(r, "new") => request[r].op = "none"
<1>1. request[r] \in {New} \cup Asked
  BY DEF ConversationsTypeOK
<1>2. New.pc = "new" /\ New.op = "none"
  BY DEF New
<1> QED BY <1>1, <1>2 DEF Asked, At, Conv

\* What a step of r leaves of the requests: the others, and all of r but its place.
Others(r) == \A q \in Requests : q # r => request'[q] = request[q]
Moves(r, l) ==
    /\ Others(r)
    /\ request'[r].pc = l /\ request'[r].op = request[r].op /\ request'[r].conv = request[r].conv
    /\ request'[r].hist = request[r].hist /\ request'[r].base = request[r].base
    /\ request'[r].short = request[r].short /\ request'[r].copy = request[r].copy

LEMMA GotoMoves ==
    ASSUME ConversationsTypeOK, NEW r \in Requests, ~At(r, "new"), NEW l \in Pcs \ {"new"}, Goto(r, l)
    PROVE  Moves(r, l) /\ request' \in [Requests -> {New} \cup Asked]
<1>1. request[r] \in Asked
  BY RequestFields
<1>2. request \in [Requests -> {New} \cup Asked]
  BY DEF ConversationsTypeOK
<1>3. request' = [request EXCEPT ![r] = [request[r] EXCEPT !.pc = l]]
  BY DEF Goto
<1>4. [request[r] EXCEPT !.pc = l] \in Asked
  BY <1>1 DEF Asked
<1>5. request'[r] = [request[r] EXCEPT !.pc = l] /\ Others(r)
  BY <1>2, <1>3 DEF Others
<1> QED BY <1>1, <1>2, <1>3, <1>4, <1>5 DEF Moves, Asked

LEMMA BecomesRecord ==
    ASSUME ConversationsTypeOK, NEW r \in Requests, NEW x \in Asked, request' = [request EXCEPT ![r] = x]
    PROVE  Others(r) /\ request'[r] = x /\ request' \in [Requests -> {New} \cup Asked]
  BY DEF ConversationsTypeOK, Others

\* No request goes back, nor is its conversation or what it read changed.
Past == {"saved", "listed", "listing", "done", "ended"}
Forward ==
    \A q \in Requests : ~At(q, "new") =>
        /\ request'[q].pc # "new" /\ request'[q].op = request[q].op
        /\ request'[q].conv = request[q].conv /\ request'[q].hist = request[q].hist
        /\ request[q].pc \in Past => request'[q].pc \in Past
        /\ request[q].pc \in {"done", "ended"} => request'[q].pc \in {"done", "ended"}

LEMMA WroteForward ==
    ASSUME Forward, NEW q \in Requests, NEW v, Wrote(q, v)
    PROVE  Wrote(q, v)' /\ Conv(q)' = v
  BY DEF Forward, Wrote, Past, At, Conv

\* What a step adds to the files, to what a request read, to dropped and to told.
TurnsFine == \A v \in Convs : \A q \in Range(file'[v].turns) :
    q \in Requests /\ (Wrote(q, v) \/ Wrote(q, v)')
BasesFine == \A r \in Requests : request'[r].pc # "new" =>
    \/ ~At(r, "new") /\ Range(request'[r].base) \subseteq Range(request[r].hist)
    \/ /\ \A q \in Range(request'[r].hist) : q \in Requests /\ Wrote(q, request'[r].conv)
       /\ Range(request'[r].base) \subseteq Range(request'[r].hist)
DroppedFine == \A q \in dropped' : q \in Requests /\ Wrote(q, Conv(q))
ToldFine == \A q \in told' : q \in Requests /\
    (q \in told \/ (Wrote(q, Conv(q))' /\ request'[q].pc \in {"done", "ended"}))

LEMMA TurnsFitStep ==
    ASSUME ConversationsTypeOK, TurnsFit, Forward,
           TurnsFine, BasesFine, DroppedFine, ToldFine
    PROVE  TurnsFit'
<1> USE DEF TurnsFine, BasesFine, DroppedFine, ToldFine
<1>1. \A v \in Convs : \A q \in TurnsIn(v)' : Wrote(q, v)'
  BY WroteForward DEF TurnsIn
<1>2. ASSUME NEW r \in Requests, request'[r].pc # "new"
      PROVE  /\ \A q \in Range(request'[r].hist) : Wrote(q, Conv(r))'
             /\ Range(request'[r].base) \subseteq Range(request'[r].hist)
  <2>1. CASE ~At(r, "new") /\ Range(request'[r].base) \subseteq Range(request[r].hist)
    <3>1. request'[r].hist = request[r].hist /\ request'[r].conv = Conv(r)
      BY <2>1 DEF Forward, Conv
    <3>2. \A q \in Range(request[r].hist) : q \in Requests
      BY <2>1, RequestFields DEF Range
    <3>3. \A q \in Range(request[r].hist) : Wrote(q, Conv(r))
      BY <2>1 DEF TurnsFit
    <3>4. \A q \in Range(request[r].hist) : Wrote(q, Conv(r))'
      <4> SUFFICES ASSUME NEW q \in Range(request[r].hist) PROVE Wrote(q, Conv(r))'
        OBVIOUS
      <4>1. q \in Requests /\ Wrote(q, Conv(r))
        BY <3>2, <3>3
      <4> QED BY <3>1, <4>1 DEF Forward, Wrote, Past, At, Conv
    <3> QED BY <2>1, <3>1, <3>4
  <2>2. CASE /\ \A q \in Range(request'[r].hist) : q \in Requests /\ Wrote(q, request'[r].conv)
             /\ Range(request'[r].base) \subseteq Range(request'[r].hist)
    <3> SUFFICES ASSUME NEW q \in Range(request'[r].hist) PROVE Wrote(q, Conv(r))'
      BY <2>2
    <3>1. q \in Requests /\ Wrote(q, request'[r].conv)
      BY <2>2
    <3> QED BY <3>1 DEF Forward, Wrote, Past, At, Conv
  <2> QED BY <1>2, <2>1, <2>2
<1>3. \A q \in dropped' : Wrote(q, Conv(q))'
  <2> SUFFICES ASSUME NEW q \in dropped' PROVE Wrote(q, Conv(q))'
    OBVIOUS
  <2>1. q \in Requests /\ Wrote(q, Conv(q))
    OBVIOUS
  <2> QED BY <2>1 DEF Forward, Wrote, Past, At, Conv
<1>4. \A q \in told' : Wrote(q, Conv(q))' /\ request'[q].pc \in {"done", "ended"}
  <2> SUFFICES ASSUME NEW q \in told, q \in Requests
               PROVE  Wrote(q, Conv(q))' /\ request'[q].pc \in {"done", "ended"}
    OBVIOUS
  <2>1. Wrote(q, Conv(q)) /\ request[q].pc \in {"done", "ended"}
    BY DEF TurnsFit
  <2>2. ~At(q, "new")
    BY <2>1 DEF At
  <2> QED BY <2>1, <2>2 DEF Forward, Wrote, Past, Conv
<1> QED BY <1>1, <1>2, <1>3, <1>4 DEF TurnsFit, At, Conv

\* What is kept of a conversation changes with what is told and dropped only.
LEMMA KeptSame ==
    ASSUME ConversationsTypeOK, TurnsFit, Forward, told' = told, dropped' = dropped, NEW v
    PROVE  Kept(v)' = Kept(v)
<1>1. \A q \in told : q \in Requests /\ request'[q].conv = request[q].conv
  BY DEF ConversationsTypeOK, TurnsFit, Forward, At
<1> QED BY <1>1 DEF Kept, Conv

LEMMA AloneStep ==
    ASSUME Alone, NEW r \in Requests, Others(r), alone' = alone,
           Works(r)' => Works(r) /\ request'[r].conv = request[r].conv
    PROVE  Alone'
<1>1. \A q \in Requests : Works(q)' => Works(q) /\ request'[q].conv = request[q].conv
  BY DEF Others, Works, Active, Visits
<1> QED BY <1>1 DEF Alone, Conv

LEMMA AgentKeepsStep ==
    ASSUME AgentKeeps, told \subseteq Requests, ~torn' => ~torn, dropped \subseteq dropped',
           \A q \in Requests : ~At(q, "new") =>
              /\ request'[q].pc # "new" /\ request'[q].conv = request[q].conv
              /\ request[q].short => request'[q].short,
           \A q \in told' : request'[q].conv \in AgentConvs => q \in told /\ ~At(q, "new"),
           \A w \in AgentConvs : file'[w].turns = file[w].turns
    PROVE  AgentKeeps'
<1> SUFFICES ASSUME ~torn', NEW q \in told', request'[q].conv \in AgentConvs, q \notin dropped',
                    \A p \in Requests : request'[p].pc # "new" /\ request'[p].conv = request'[q].conv => ~request'[p].short
             PROVE  q \in Range(file'[request'[q].conv].turns)
  BY DEF AgentKeeps, TurnsIn, Conv, At
<1>1. q \in told /\ q \in Requests /\ request'[q].conv = request[q].conv
  OBVIOUS
<1>2. \A p \in Requests : ~At(p, "new") /\ Conv(p) = Conv(q) => ~request[p].short
  BY <1>1 DEF Conv
<1> QED BY <1>1, <1>2 DEF AgentKeeps, TurnsIn, Conv

LEMMA SameMessages ==
    ASSUME MessagesKept, \A v : Kept(v)' = Kept(v),
           \A q \in Requests :
             /\ request'[q].pc \in {"answering", "answered"} => request[q].pc \in {"answering", "answered"}
             /\ request'[q].hist = request[q].hist /\ request'[q].op = request[q].op /\ request'[q].conv = request[q].conv
             /\ request'[q].pc = "saving" <=> request[q].pc = "saving"
             /\ request[q].op = "turn" => (request'[q].pc \in {"saved", "listed", "listing"} <=>
                                          request[q].pc \in {"saved", "listed", "listing"}),
           file' = file, dropped' = dropped, alone' => alone, ~torn' => ~torn
    PROVE  MessagesKept'
<1>1. \A q \in Requests : \A v :
         (SavesTurn(q, v)' <=> SavesTurn(q, v)) /\ (StoredTurn(q, v)' <=> StoredTurn(q, v))
  BY DEF SavesTurn, StoredTurn, At, Conv
<1>2. \A v : TurnsIn(v)' = TurnsIn(v)
  BY DEF TurnsIn
<1> SUFFICES ASSUME alone, ~torn, NEW w \in Convs
             PROVE  /\ (\A q \in Requests : ~SavesTurn(q, w)' /\ ~StoredTurn(q, w)') =>
                          TurnsIn(w)' = Kept(w)' /\ file'[w].state # "cut"
                    /\ \A q \in Requests :
                          /\ SavesTurn(q, w)' => Range(request'[q].hist) = Kept(w)'
                          /\ StoredTurn(q, w)' => TurnsIn(w)' = Kept(w)' \cup {q} /\ q \notin dropped'
                          /\ request'[q].op = "turn" /\ request'[q].pc \in {"answering", "answered"} /\ request'[q].conv = w =>
                                request'[q].hist = file'[w].turns
  BY DEF MessagesKept, Conv
<1>3. /\ (\A q \in Requests : ~SavesTurn(q, w) /\ ~StoredTurn(q, w)) =>
            TurnsIn(w) = Kept(w) /\ file[w].state # "cut"
      /\ \A q \in Requests :
            /\ SavesTurn(q, w) => Range(request[q].hist) = Kept(w)
            /\ StoredTurn(q, w) => TurnsIn(w) = Kept(w) \cup {q} /\ q \notin dropped
            /\ request[q].op = "turn" /\ request[q].pc \in {"answering", "answered"} /\ request[q].conv = w =>
                  request[q].hist = file[w].turns
  BY DEF MessagesKept, Conv
<1> QED BY <1>1, <1>2, <1>3

\* Steps of a turn that leave the files, the lists and what was told alone.
LEMMA PlainStep ==
    ASSUME ConversationsAssumption, ConversationsIInv, NEW r \in Requests, Others(r),
           request' \in [Requests -> {New} \cup Asked],
           request'[r].op = request[r].op, request'[r].conv = request[r].conv, request'[r].hist = request[r].hist,
           request[r].pc \in {"answering", "answered", "done"},
           request'[r].pc \in {"answered", "done", "ended"},
           request'[r].pc = "done" => Visits(r),
           request'[r].pc = "answered" => request[r].pc = "answering",
           Range(request'[r].base) \subseteq Range(request[r].hist),
           request[r].short => request'[r].short,
           UNCHANGED <<disk, crashes, told, dropped, torn, alone>>,
           evaluated' \subseteq evaluated \cup {r}, evaluated' # evaluated => At(r, "done")
    PROVE  ConversationsIInv'
<1> USE DEF disk
<1>1. request[r] \in Asked /\ ~At(r, "new") /\ request[r].op \in {"turn", "visit", "delete"}
  BY RequestFields DEF ConversationsIInv, At
<1>2. request[r].op # "delete"
  BY <1>1 DEF ConversationsIInv, PhasesFit
<1>3. ConversationsTypeOK'
  BY DEF ConversationsIInv, ConversationsTypeOK
<1>4. PhasesFit'
  BY <1>1, <1>2 DEF ConversationsIInv, PhasesFit, Others, At, Visits, Conv, Writing
<1>5. Forward
  BY DEF Forward, Others, At, Past
<1>6. TurnsFit'
  <2>1. TurnsFine
    BY DEF ConversationsIInv, ConversationsTypeOK, TurnsFit, TurnsIn, Range, TurnsFine
  <2>2. BasesFine
    BY <1>1 DEF ConversationsIInv, TurnsFit, Others, At, BasesFine
  <2>3. DroppedFine
    BY DEF ConversationsIInv, ConversationsTypeOK, TurnsFit, DroppedFine
  <2>4. ToldFine
    BY DEF ConversationsIInv, ConversationsTypeOK, ToldFine
  <2>5. ConversationsTypeOK /\ TurnsFit
    BY DEF ConversationsIInv
  <2> QED BY <1>5, <2>1, <2>2, <2>3, <2>4, <2>5, TurnsFitStep
<1>7. Alone'
  BY <1>1, AloneStep DEF ConversationsIInv, Works, Active, Visits
<1>8. MessagesKept'
  <2>1. \A v : Kept(v)' = Kept(v)
    BY <1>5, KeptSame DEF ConversationsIInv
  <2>2. \A q \in Requests :
           /\ request'[q].pc \in {"answering", "answered"} => request[q].pc \in {"answering", "answered"}
           /\ request'[q].hist = request[q].hist /\ request'[q].op = request[q].op /\ request'[q].conv = request[q].conv
           /\ request'[q].pc = "saving" <=> request[q].pc = "saving"
           /\ request[q].op = "turn" => (request'[q].pc \in {"saved", "listed", "listing"} <=>
                                        request[q].pc \in {"saved", "listed", "listing"})
    BY DEF Others
  <2>3. MessagesKept /\ file' = file /\ dropped' = dropped /\ alone' = alone /\ torn' = torn
    BY DEF ConversationsIInv
  <2> QED BY <2>1, <2>2, <2>3, SameMessages
<1>9. CountsKept'
  <2>1. \A q \in Requests : q # r => request'[q] = request[q]
    BY DEF Others
  <2>2. request[r].pc \notin Writing /\ request'[r].pc \notin Writing
    BY DEF Writing
  <2>3. \A q \in Requests : request'[q].pc \in Writing => request'[q] = request[q]
    BY <2>1, <2>2
  <2>4. \A q \in Requests : request'[q].pc \in Writing <=> request[q].pc \in Writing
    BY <2>1, <2>2
  <2> QED BY <2>3, <2>4 DEF ConversationsIInv, CountsKept, Writing, At, Lists, Conv, Count
<1>10. ListKept'
  <2>1. \A q \in told : request'[q].conv = request[q].conv
    BY DEF ConversationsIInv, ConversationsTypeOK, Others
  <2>2. \A q \in Requests : q # r => request'[q] = request[q]
    BY DEF Others
  <2>3. \A count : Covers(count)' <=> Covers(count)
    BY <2>1 DEF Covers, Conv
  <2>4. \A q \in Requests : Lists(q)' => request'[q] = request[q]
    BY <2>2 DEF Lists
  <2>5. \A q \in Requests : request'[q].op = "delete" /\ Active(q)' => request'[q] = request[q]
    BY <1>2, <2>2
  <2>6. \A q \in Requests : At(q, "listing") => At(q, "listing")'
    BY <2>2 DEF At
  <2> QED BY <2>1, <2>3, <2>4, <2>5, <2>6 DEF ConversationsIInv, ListKept, Lists, Active, Conv
<1>11. AgentsKept'
  BY DEF ConversationsIInv, ConversationsTypeOK, AgentsKept, Others, Conv
<1>12. AgentKeeps'
  <2>1. \A q \in Requests : ~At(q, "new") =>
           request'[q].pc # "new" /\ request'[q].conv = request[q].conv /\ (request[q].short => request'[q].short)
    BY DEF Others, At
  <2>2. \A q \in told : q \in Requests /\ ~At(q, "new")
    BY DEF ConversationsIInv, ConversationsTypeOK, TurnsFit, At
  <2>3. \A w \in AgentConvs : file'[w].turns = file[w].turns
    OBVIOUS
  <2>4. told \subseteq Requests /\ AgentKeeps /\ told' = told /\ torn' = torn /\ dropped' = dropped
    BY DEF ConversationsIInv, ConversationsTypeOK
  <2> QED BY <2>1, <2>2, <2>3, <2>4, AgentKeepsStep
<1>13. EvaluatedIsTold'
  BY <1>1 DEF ConversationsIInv, ConversationsTypeOK, PhasesFit, EvaluatedIsTold, Others, Visits, At
<1> QED BY <1>3, <1>4, <1>6, <1>7, <1>8, <1>9, <1>10, <1>11, <1>12, <1>13 DEF ConversationsIInv

-----------------------------------------------------------------------------
(* The chat of a project: one request at a time while alone.                *)

LEMMA ChatAlone ==
    ASSUME ConversationsAssumption, ConversationsIInv, alone, NEW r \in Requests, Works(r), Conv(r) \in ChatConvs
    PROVE  \A q \in Requests : q # r =>
             /\ request[q].pc \notin Writing
             /\ request[q].op = "delete" => ~Active(q)
             /\ Works(q) => Conv(q) \notin ChatConvs
<1>1. \A q \in Requests : Works(q) /\ Conv(q) \in ChatConvs => q = r
  BY DEF ConversationsIInv, Alone, StoreOf
<1>2. ASSUME NEW q \in Requests, request[q].pc \in Writing
      PROVE  Works(q) /\ Conv(q) \in ChatConvs
  BY <1>2 DEF ConversationsAssumption, ConversationsIInv, PhasesFit, Writing, Works, Active, Visits, At
<1>3. ASSUME NEW q \in Requests, request[q].op = "delete", Active(q)
      PROVE  request[q].pc \in Writing
  BY <1>3 DEF ConversationsIInv, PhasesFit, Active, Writing, At
<1> QED BY <1>1, <1>2, <1>3

\* What a request is that rewrites the files of a project's chat.
LEMMA WriterFits ==
    ASSUME ConversationsAssumption, ConversationsIInv, NEW r \in Requests,
           request[r].pc \in Writing \/ (At(r, "answered") /\ Conv(r) \in ChatConvs)
    PROVE  /\ ~At(r, "new") /\ Works(r) /\ Conv(r) \in ChatConvs /\ Conv(r) \in Convs
           /\ Conv(r) \notin AgentConvs
           /\ request[r] \in Asked /\ request[r].op \in {"turn", "delete"}
           /\ request[r].pc \in {"answered", "saving", "saved"} => request[r].op = "turn"
           /\ At(r, "unlinked") => request[r].op = "delete"
           /\ r \notin told /\ (request[r].pc \in {"answered", "saving"} => r \notin dropped)
           /\ request[r].hist \in Seq(Requests) /\ request[r].base \in Seq(Requests)
<1>1. ~At(r, "new") /\ request[r] \in Asked /\ request[r].op \in {"turn", "visit", "delete"}
      /\ request[r].hist \in Seq(Requests) /\ request[r].base \in Seq(Requests)
  BY RequestFields DEF ConversationsIInv, At, Writing
<1>2. Conv(r) \in ChatConvs /\ Conv(r) \in Convs /\ Conv(r) \notin AgentConvs /\ Conv(r) # "none"
  BY <1>1 DEF ConversationsIInv, PhasesFit, ConversationsAssumption, Convs
<1>3. request[r].op \in {"turn", "delete"} /\ ~Visits(r)
  BY <1>1, <1>2 DEF ConversationsIInv, PhasesFit, Visits
<1>4. r \notin told /\ (request[r].pc \in {"answered", "saving"} => r \notin dropped)
  BY DEF ConversationsIInv, TurnsFit, Wrote, Writing, At
<1>5. request[r].pc \in {"answered", "saving", "saved"} => request[r].op = "turn"
  BY <1>1, <1>3 DEF ConversationsIInv, PhasesFit
<1>6. At(r, "unlinked") => request[r].op = "delete"
  BY <1>1 DEF ConversationsIInv, PhasesFit
<1> QED BY <1>1, <1>2, <1>3, <1>4, <1>5, <1>6 DEF Works, Active, Writing, At

LEMMA OpenMessagesStep ==
    ASSUME ConversationsAssumption, ConversationsIInv, NEW r \in Requests, NEW v, v = Conv(r), OpenMessages(r)
    PROVE  ConversationsIInv'
<1>0. At(r, "answered") /\ v \in ChatConvs
  BY DEF OpenMessages
<1>1. /\ ~At(r, "new") /\ Works(r) /\ v \in Convs /\ v \notin AgentConvs
      /\ request[r] \in Asked /\ request[r].op = "turn" /\ r \notin told /\ r \notin dropped
  BY <1>0, WriterFits DEF At
<1>2. Moves(r, "saving") /\ request' \in [Requests -> {New} \cup Asked]
  BY <1>1, GotoMoves DEF ConversationsIInv, OpenMessages, Pcs
<1>3. UNCHANGED <<listing, crashes, told, evaluated, dropped, torn, alone>>
  BY DEF OpenMessages
<1>4. /\ file'[v] = Cut /\ \A w \in Convs : w # v => file'[w] = file[w]
      /\ file' \in [Convs -> [state : {"absent", "whole", "cut"}, turns : Seq(Requests)]]
      /\ \A w \in Convs : (file'[w].state = "whole") <=> (file'[w].turns # <<>>)
  BY <1>1 DEF OpenMessages, ConversationsIInv, ConversationsTypeOK, Cut
<1>5. ConversationsTypeOK'
  BY <1>2, <1>3, <1>4 DEF ConversationsIInv, ConversationsTypeOK
<1>6. PhasesFit'
  BY <1>0, <1>1, <1>2, <1>3 DEF ConversationsIInv, PhasesFit, Moves, Others, At, Visits, Conv, Writing
<1>7. Forward
  BY <1>0, <1>2 DEF Forward, Moves, Others, At, Past
<1>8. TurnsFit'
  <2>1. TurnsFine
    <3>1. Range(file'[v].turns) = {}
      BY <1>1, <1>4, NoTurns DEF Cut
    <3>2. \A w \in Convs : w # v => Range(file'[w].turns) = TurnsIn(w)
      BY <1>4 DEF TurnsIn
    <3>3. \A w \in Convs : \A q \in TurnsIn(w) : q \in Requests /\ Wrote(q, w)
      BY DEF ConversationsIInv, ConversationsTypeOK, TurnsFit, TurnsIn, Range
    <3> QED BY <3>1, <3>2, <3>3 DEF TurnsFine
  <2>2. BasesFine
    BY <1>1, <1>2 DEF ConversationsIInv, TurnsFit, Moves, Others, At, BasesFine
  <2>3. DroppedFine
    BY <1>3 DEF ConversationsIInv, ConversationsTypeOK, TurnsFit, DroppedFine
  <2>4. ToldFine
    BY <1>3 DEF ConversationsIInv, ConversationsTypeOK, ToldFine
  <2>5. ConversationsTypeOK /\ TurnsFit
    BY DEF ConversationsIInv
  <2> QED BY <1>7, <2>1, <2>2, <2>3, <2>4, <2>5, TurnsFitStep
<1>9. Alone'
  BY <1>1, <1>2, <1>3, AloneStep DEF ConversationsIInv, Moves, Works, Active, Visits
<1>10. alone => \A q \in Requests : q # r =>
          request[q].pc \notin Writing /\ (Works(q) => Conv(q) \notin ChatConvs)
  BY <1>0, <1>1, ChatAlone
<1>11. MessagesKept'
  <2> SUFFICES ASSUME alone, ~torn, NEW w \in Convs
               PROVE  /\ (\A q \in Requests : ~SavesTurn(q, w)' /\ ~StoredTurn(q, w)') =>
                            TurnsIn(w)' = Kept(w)' /\ file'[w].state # "cut"
                      /\ \A q \in Requests :
                            /\ SavesTurn(q, w)' => Range(request'[q].hist) = Kept(w)'
                            /\ StoredTurn(q, w)' => TurnsIn(w)' = Kept(w)' \cup {q} /\ q \notin dropped'
                            /\ request'[q].op = "turn" /\ request'[q].pc \in {"answering", "answered"} /\ request'[q].conv = w =>
                                  request'[q].hist = file'[w].turns
    BY <1>3 DEF MessagesKept, Conv
  <2>1. Kept(w)' = Kept(w)
    BY <1>3, <1>7, KeptSame DEF ConversationsIInv
  <2>2. \A q \in Requests : ~SavesTurn(q, w) /\ ~StoredTurn(q, w)
    BY <1>0, <1>10 DEF SavesTurn, StoredTurn, At, Writing
  <2>3. TurnsIn(w) = Kept(w) /\ file[w].state # "cut"
    BY <2>2 DEF ConversationsIInv, MessagesKept
  <2>4. \A q \in Requests : ~StoredTurn(q, w)' /\ (SavesTurn(q, w)' => q = r /\ w = v)
    BY <1>2, <2>2 DEF SavesTurn, StoredTurn, At, Conv, Moves, Others
  <2>5. CASE w = v
    <3>1. request[r].hist = file[v].turns
      BY <1>0, <1>1, <2>5 DEF ConversationsIInv, MessagesKept, At
    <3>2. SavesTurn(r, w)' /\ Range(request'[r].hist) = Kept(w)'
      BY <1>2, <2>1, <2>3, <2>5, <3>1 DEF SavesTurn, TurnsIn, Moves, At, Conv
    <3>3. \A q \in Requests : request'[q].op = "turn" /\ request'[q].pc \in {"answering", "answered"} =>
             request'[q].conv # w
      BY <1>0, <1>2, <1>10, <2>5 DEF Works, Active, Visits, Conv, Moves, Others
    <3> QED BY <2>4, <3>2, <3>3
  <2>6. CASE w # v
    <3>1. file'[w] = file[w] /\ TurnsIn(w)' = TurnsIn(w)
      BY <1>4, <2>6 DEF TurnsIn
    <3>2. \A q \in Requests : request'[q].pc \in {"answering", "answered"} => request'[q] = request[q]
      BY <1>2 DEF Moves, Others
    <3>3. \A q \in Requests : request[q].op = "turn" /\ request[q].pc \in {"answering", "answered"} /\ request[q].conv = w =>
             request[q].hist = file[w].turns
      BY DEF ConversationsIInv, MessagesKept, Conv
    <3> QED BY <2>1, <2>3, <2>4, <2>6, <3>1, <3>2, <3>3
  <2> QED BY <2>5, <2>6
<1>12. CountsKept'
  <2> SUFFICES ASSUME alone, ~torn PROVE CountsKept'
    BY <1>3 DEF CountsKept
  <2>1. \A w \in ChatConvs : listing["chat"].count[w] = Len(file[w].turns)
    BY <1>0, <1>10 DEF ConversationsIInv, CountsKept, At, Writing
  <2>2. \A q \in Requests : q # r => request'[q].pc \notin Writing
    BY <1>2, <1>10 DEF Moves, Others
  <2>3. request'[r].pc = "saving" /\ request'[r].conv = v
    BY <1>2 DEF Moves, Conv
  <2>4. \A w \in ChatConvs : w # v => listing'["chat"].count[w] = Len(file'[w].turns)
    BY <1>3, <1>4, <2>1 DEF Convs
  <2> QED BY <2>2, <2>3, <2>4 DEF CountsKept, Writing, At, Lists, Conv
<1>13. ListKept'
  <2>1. \A q \in told : request'[q].conv = request[q].conv
    BY <1>2 DEF ConversationsIInv, ConversationsTypeOK, Moves, Others
  <2>2. \A q \in Requests : Lists(q)' => request'[q] = request[q]
    BY <1>2 DEF Lists, Moves, Others
  <2>3. \A count : Covers(count)' <=> Covers(count)
    BY <1>3, <2>1 DEF Covers, Conv
  <2>4. \A q \in Requests : request'[q].op = "delete" => request'[q] = request[q]
    BY <1>1, <1>2 DEF Moves, Others
  <2>5. \A q \in Requests : At(q, "listing") => At(q, "listing")'
    BY <1>0, <1>2 DEF At, Moves, Others
  <2> QED BY <1>3, <2>1, <2>2, <2>3, <2>4, <2>5 DEF ConversationsIInv, ListKept, Lists, Active, Conv
<1>14. AgentsKept'
  <2>1. \A q \in told : request'[q].conv = Conv(q)
    BY <1>2 DEF ConversationsIInv, ConversationsTypeOK, Moves, Others, Conv
  <2>2. \A w \in AgentConvs : file'[w] = file[w]
    BY <1>1, <1>4 DEF Convs
  <2> QED BY <1>3, <2>1, <2>2 DEF ConversationsIInv, AgentsKept, Conv
<1>15. AgentKeeps'
  <2>1. \A q \in Requests : ~At(q, "new") =>
           request'[q].pc # "new" /\ request'[q].conv = request[q].conv /\ (request[q].short => request'[q].short)
    BY <1>2 DEF Moves, Others, At
  <2>2. \A q \in told : q \in Requests /\ ~At(q, "new")
    BY DEF ConversationsIInv, ConversationsTypeOK, TurnsFit, At
  <2>3. \A w \in AgentConvs : file'[w].turns = file[w].turns
    BY <1>1, <1>4 DEF Convs
  <2> QED BY <1>3, <2>1, <2>2, <2>3, AgentKeepsStep DEF ConversationsIInv
<1>16. EvaluatedIsTold'
  BY <1>2, <1>3 DEF ConversationsIInv, ConversationsTypeOK, EvaluatedIsTold, Moves, Others, Visits
<1> QED BY <1>5, <1>6, <1>8, <1>9, <1>11, <1>12, <1>13, <1>14, <1>15, <1>16 DEF ConversationsIInv

\* What the other steps of a writer leave alone, and where it comes to.
LEMMA ChatRest ==
    ASSUME ConversationsAssumption, ConversationsIInv, NEW r \in Requests, request[r].pc \in Writing, Others(r),
           request' \in [Requests -> {New} \cup Asked],
           request'[r].op = request[r].op, request'[r].conv = request[r].conv, request'[r].hist = request[r].hist,
           request'[r].base = request[r].base, request'[r].short = request[r].short,
           request'[r].pc \in {"saved", "listed", "listing", "done", "ended"},
           request'[r].pc = "saved" => request[r].op = "turn",
           request'[r].pc \in {"listed", "listing"} => request'[r].copy \in [Convs -> Nat],
           request'[r].pc = "done" => request[r].op = "turn" /\ told' = told \cup {r},
           request'[r].pc # "done" => told' = told,
           \A w \in AgentConvs : file'[w] = file[w],
           listing'["agent"] = listing["agent"],
           dropped \subseteq dropped', dropped' \subseteq dropped \cup LeftOut(r),
           ~torn' => ~torn, alone' = alone, evaluated' = evaluated
    PROVE  /\ Forward /\ BasesFine /\ DroppedFine /\ ToldFine
           /\ PhasesFit' /\ Alone' /\ AgentsKept' /\ AgentKeeps' /\ EvaluatedIsTold'
<1>1. /\ ~At(r, "new") /\ Works(r) /\ Conv(r) \in ChatConvs /\ Conv(r) \in Convs
      /\ Conv(r) \notin AgentConvs /\ request[r].op \in {"turn", "delete"} /\ r \notin told
  BY WriterFits
<1>2. Forward
  BY <1>1 DEF Forward, Others, At, Past, Writing
<1>3. PhasesFit'
  <2>1. \A q \in Requests : q # r => request'[q] = request[q]
    BY DEF Others
  <2>2. request'[r].pc = "done" => r \in told'
    OBVIOUS
  <2>3. told \subseteq told'
    OBVIOUS
  <2>4. request'[r].op # "visit" /\ request'[r].conv # "none"
    BY <1>1 DEF ConversationsAssumption, Conv, Convs
  <2>5. \A q \in Requests : request[q].pc = "done" => Visits(q) \/ q \in told
    BY DEF ConversationsIInv, PhasesFit, At
  <2>6. ASSUME NEW q \in Requests, q # r, request[q].pc # "new"
        PROVE  /\ Visits(q) <=> Conv(q) = "none"
               /\ request[q].pc \in Writing => Conv(q) \in ChatConvs
               /\ request[q].op = "delete" => request[q].pc \in {"unlinked", "listed", "listing", "ended"}
               /\ At(q, "unlinked") => request[q].op = "delete"
               /\ At(q, "answering") => ~request[q].short
               /\ request[q].pc \in {"listed", "listing"} => request[q].copy \in [Convs -> Nat]
    BY <2>6 DEF ConversationsIInv, PhasesFit, At
  <2>7. request[r].op = "delete" => request'[r].pc \in {"listed", "listing", "ended"}
    <3>1. request[r].op = "delete" => request[r].pc # "saving"
      BY <1>1 DEF ConversationsIInv, PhasesFit
    <3> QED BY <1>1, <3>1
  <2> QED BY <1>1, <2>1, <2>2, <2>3, <2>4, <2>5, <2>6, <2>7 DEF PhasesFit, At, Visits, Conv, Writing
<1>4. BasesFine
  BY <1>1 DEF ConversationsIInv, TurnsFit, Others, At, BasesFine
<1>5. DroppedFine
  <2>1. \A q \in dropped : q \in Requests /\ Wrote(q, Conv(q))
    BY DEF ConversationsIInv, ConversationsTypeOK, TurnsFit
  <2>2. \A q \in LeftOut(r) : q \in Requests /\ Wrote(q, Conv(r))
    <3>1. \A q \in Range(request[r].hist) : q \in Requests
      BY <1>1, RequestFields DEF ConversationsIInv, Range
    <3> QED BY <1>1, <3>1 DEF LeftOut, ConversationsIInv, TurnsFit
  <2>3. \A q \in LeftOut(r) : Wrote(q, Conv(q))
    BY <2>2 DEF Wrote
  <2> QED BY <2>1, <2>2, <2>3 DEF DroppedFine
<1>6. ToldFine
  <2>1. request'[r].pc = "done" => Wrote(r, Conv(r))'
    BY DEF Wrote, Conv
  <2> QED BY <2>1 DEF ConversationsIInv, ConversationsTypeOK, ToldFine
<1>7. Alone'
  BY <1>1, AloneStep DEF ConversationsIInv, Works, Active, Visits
<1>8. \A q \in told' : request'[q].conv \in AgentConvs => q \in told /\ ~At(q, "new")
  BY <1>1 DEF ConversationsIInv, TurnsFit, At, Conv
<1>9. AgentsKept'
  <2>1. \A q \in told' : request'[q].conv \in AgentConvs => q \in told /\ request'[q].conv = request[q].conv
    BY <1>2, <1>8 DEF ConversationsIInv, ConversationsTypeOK, Forward
  <2> QED BY <2>1 DEF ConversationsIInv, AgentsKept, Conv
<1>10. AgentKeeps'
  <2>1. \A q \in Requests : ~At(q, "new") =>
           request'[q].pc # "new" /\ request'[q].conv = request[q].conv /\ (request[q].short => request'[q].short)
    BY <1>2 DEF Forward, Others, At
  <2>2. \A w \in AgentConvs : file'[w].turns = file[w].turns
    OBVIOUS
  <2>3. told \subseteq Requests /\ AgentKeeps
    BY DEF ConversationsIInv, ConversationsTypeOK
  <2> QED BY <1>8, <2>1, <2>2, <2>3, AgentKeepsStep
<1>11. EvaluatedIsTold'
  <2>1. told \subseteq told'
    OBVIOUS
  <2>2. \A q \in Requests : request'[q].op = request[q].op
    BY DEF Others
  <2> QED BY <2>1, <2>2 DEF ConversationsIInv, ConversationsTypeOK, EvaluatedIsTold, Visits
<1> QED BY <1>2, <1>3, <1>4, <1>5, <1>6, <1>7, <1>9, <1>10, <1>11

LEMMA WriteMessagesStep ==
    ASSUME ConversationsAssumption, ConversationsIInv, NEW r \in Requests, NEW v, v = Conv(r), WriteMessages(r)
    PROVE  ConversationsIInv'
<1> DEFINE new == Append(request[r].base, r)
<1>0. At(r, "saving") /\ request[r].pc \in Writing
  BY DEF WriteMessages, At, Writing
<1>1. /\ ~At(r, "new") /\ Works(r) /\ v \in ChatConvs /\ v \in Convs /\ v \notin AgentConvs
      /\ request[r] \in Asked /\ request[r].op = "turn" /\ r \notin told /\ r \notin dropped
      /\ request[r].base \in Seq(Requests) /\ request[r].hist \in Seq(Requests)
  BY <1>0, WriterFits DEF At
<1>2. Moves(r, "saved") /\ request' \in [Requests -> {New} \cup Asked]
  BY <1>1, GotoMoves DEF ConversationsIInv, WriteMessages, Pcs
<1>3. UNCHANGED <<listing, crashes, told, evaluated, torn, alone>> /\ dropped' = dropped \cup LeftOut(r)
  BY DEF WriteMessages
<1>4. /\ new \in Seq(Requests) /\ new # <<>> /\ Len(new) = Count(r)
      /\ Range(new) = Range(request[r].base) \cup {r}
  BY <1>1, AppendTurns DEF Count
<1> HIDE DEF new
<1>5. /\ file'[v] = [state |-> "whole", turns |-> new] /\ \A w \in Convs : w # v => file'[w] = file[w]
      /\ file' \in [Convs -> [state : {"absent", "whole", "cut"}, turns : Seq(Requests)]]
      /\ \A w \in Convs : (file'[w].state = "whole") <=> (file'[w].turns # <<>>)
  BY <1>1, <1>4 DEF WriteMessages, ConversationsIInv, ConversationsTypeOK, Whole, new
<1>6. /\ Forward /\ BasesFine /\ DroppedFine /\ ToldFine
      /\ PhasesFit' /\ Alone' /\ AgentsKept' /\ AgentKeeps' /\ EvaluatedIsTold'
  <2>1. \A w \in AgentConvs : file'[w] = file[w]
    BY <1>1, <1>5 DEF Convs
  <2> QED BY <1>0, <1>1, <1>2, <1>3, <2>1, ChatRest DEF Moves
<1>7. /\ Range(request[r].base) \subseteq Range(request[r].hist)
      /\ \A q \in Range(request[r].hist) : q \in Requests /\ Wrote(q, v)
  <2>1. \A q \in Range(request[r].hist) : q \in Requests
    BY <1>1 DEF Range
  <2> QED BY <1>1, <2>1 DEF ConversationsIInv, TurnsFit
<1>8. r \notin dropped'
  BY <1>0, <1>1, <1>3, <1>7 DEF LeftOut, Wrote, At
<1>9. ConversationsTypeOK'
  <2>1. dropped' \subseteq Requests
    BY <1>3, <1>7 DEF LeftOut, ConversationsIInv, ConversationsTypeOK
  <2> QED BY <1>2, <1>3, <1>5, <2>1 DEF ConversationsIInv, ConversationsTypeOK
<1>10. TurnsFit'
  <2>1. TurnsFine
    <3>1. \A q \in Range(file'[v].turns) : q \in Requests /\ (Wrote(q, v) \/ Wrote(q, v)')
      BY <1>1, <1>2, <1>4, <1>5, <1>7 DEF Moves, Wrote, Conv
    <3>2. \A w \in Convs : w # v => Range(file'[w].turns) = TurnsIn(w)
      BY <1>5 DEF TurnsIn
    <3>3. \A w \in Convs : \A q \in TurnsIn(w) : q \in Requests /\ Wrote(q, w)
      BY DEF ConversationsIInv, ConversationsTypeOK, TurnsFit, TurnsIn, Range
    <3> QED BY <3>1, <3>2, <3>3 DEF TurnsFine
  <2> QED BY <1>6, <2>1, TurnsFitStep DEF ConversationsIInv
<1>11. alone => \A q \in Requests : q # r => request[q].pc \notin Writing
  BY <1>1, ChatAlone
<1>12. MessagesKept'
  <2> SUFFICES ASSUME alone, ~torn, NEW w \in Convs
               PROVE  /\ (\A q \in Requests : ~SavesTurn(q, w)' /\ ~StoredTurn(q, w)') =>
                            TurnsIn(w)' = Kept(w)' /\ file'[w].state # "cut"
                      /\ \A q \in Requests :
                            /\ SavesTurn(q, w)' => Range(request'[q].hist) = Kept(w)'
                            /\ StoredTurn(q, w)' => TurnsIn(w)' = Kept(w)' \cup {q} /\ q \notin dropped'
                            /\ request'[q].op = "turn" /\ request'[q].pc \in {"answering", "answered"} /\ request'[q].conv = w =>
                                  request'[q].hist = file'[w].turns
    BY <1>3 DEF MessagesKept, Conv
  <2>1. \A q \in told : q \in Requests /\ request'[q].conv = request[q].conv
    BY <1>2 DEF ConversationsIInv, ConversationsTypeOK, Moves, Others
  <2>2. Kept(w)' = Kept(w) \ LeftOut(r)
    BY <1>3, <2>1 DEF Kept, Conv
  <2>3. \A q \in Requests : ~SavesTurn(q, w)' /\ (StoredTurn(q, w)' => q = r /\ w = v)
    BY <1>1, <1>2, <1>11 DEF SavesTurn, StoredTurn, Moves, Others, At, Conv, Writing
  <2>4. \A q \in Requests : request'[q].pc \in {"answering", "answered"} => q # r /\ request'[q] = request[q]
    BY <1>2 DEF Moves, Others
  <2>5. CASE w = v
    <3>1. Range(request[r].hist) = Kept(w)
      BY <1>0, <2>5 DEF ConversationsIInv, MessagesKept, SavesTurn
    <3>2. Kept(w)' = Range(request[r].base)
      BY <1>7, <2>2, <3>1 DEF LeftOut
    <3>3. TurnsIn(w)' = Kept(w)' \cup {r}
      BY <1>4, <1>5, <2>5, <3>2 DEF TurnsIn
    <3>4. StoredTurn(r, w)'
      BY <1>1, <1>2, <2>5 DEF StoredTurn, Moves, Conv
    <3>5. \A q \in Requests : request[q].op = "turn" /\ request[q].pc \in {"answering", "answered"} => request[q].conv # w
      <4>1. \A q \in Requests : q # r /\ Works(q) => Conv(q) \notin ChatConvs
        BY <1>1, ChatAlone
      <4> QED BY <1>0, <1>1, <2>5, <4>1 DEF Works, Active, Visits, Conv, At
    <3> QED BY <1>8, <2>3, <2>4, <3>3, <3>4, <3>5
  <2>6. CASE w # v
    <3>1. \A q \in Requests : ~SavesTurn(q, w) /\ ~StoredTurn(q, w)
      BY <1>1, <1>11, <2>6 DEF SavesTurn, StoredTurn, At, Conv, Writing
    <3>2. TurnsIn(w) = Kept(w) /\ file[w].state # "cut"
      BY <3>1 DEF ConversationsIInv, MessagesKept
    <3>3. Kept(w)' = Kept(w)
      <4>1. \A q \in LeftOut(r) : Conv(q) = v
        BY <1>7 DEF LeftOut, Wrote
      <4> QED BY <2>2, <2>6, <4>1 DEF Kept
    <3>4. file'[w] = file[w] /\ TurnsIn(w)' = TurnsIn(w)
      BY <1>5, <2>6 DEF TurnsIn
    <3>5. \A q \in Requests : request[q].op = "turn" /\ request[q].pc \in {"answering", "answered"} /\ request[q].conv = w =>
             request[q].hist = file[w].turns
      BY DEF ConversationsIInv, MessagesKept, Conv
    <3> QED BY <2>3, <2>4, <2>6, <3>2, <3>3, <3>4, <3>5
  <2> QED BY <2>5, <2>6
<1>13. CountsKept'
  <2> SUFFICES ASSUME alone, ~torn PROVE CountsKept'
    BY <1>3 DEF CountsKept
  <2>1. \A w \in ChatConvs : w # v => listing["chat"].count[w] = Len(file[w].turns)
    BY <1>0, <1>1 DEF ConversationsIInv, CountsKept, At
  <2>2. \A q \in Requests : q # r => request'[q].pc \notin Writing
    BY <1>2, <1>11 DEF Moves, Others
  <2>3. request'[r].pc = "saved" /\ request'[r].conv = v /\ request'[r].base = request[r].base
    BY <1>2 DEF Moves, Conv
  <2>4. \A w \in ChatConvs : w # v => listing'["chat"].count[w] = Len(file'[w].turns)
    BY <1>3, <1>5, <2>1 DEF Convs
  <2>5. Len(file'[v].turns) = Len(request'[r].base) + 1
    BY <1>4, <1>5, <2>3 DEF Count
  <2> QED BY <2>2, <2>3, <2>4, <2>5 DEF CountsKept, Writing, At, Lists, Conv, Count
<1>14. ListKept'
  <2>1. \A q \in told : request'[q].conv = request[q].conv
    BY <1>2 DEF ConversationsIInv, ConversationsTypeOK, Moves, Others
  <2>2. \A q \in Requests : Lists(q)' => request'[q] = request[q]
    BY <1>2 DEF Lists, Moves, Others
  <2>3. \A count : Covers(count) => Covers(count)'
    BY <1>3, <2>1 DEF Covers, Conv
  <2>4. \A q \in Requests : request'[q].op = "delete" => request'[q] = request[q]
    BY <1>1, <1>2 DEF Moves, Others
  <2>5. \A q \in Requests : At(q, "listing") => At(q, "listing")'
    BY <1>0, <1>2 DEF At, Moves, Others
  <2> QED BY <1>3, <2>1, <2>2, <2>3, <2>4, <2>5 DEF ConversationsIInv, ListKept, Lists, Active, Conv
<1> QED BY <1>6, <1>9, <1>10, <1>12, <1>13, <1>14 DEF ConversationsIInv

\* The list of a project's chat is read and opened: the files are not touched.
LEMMA ListRest ==
    ASSUME ConversationsAssumption, ConversationsIInv, NEW r \in Requests, Others(r),
           request[r].pc \in {"saved", "unlinked", "listed"},
           request' \in [Requests -> {New} \cup Asked],
           request'[r].op = request[r].op, request'[r].conv = request[r].conv, request'[r].hist = request[r].hist,
           request'[r].base = request[r].base, request'[r].short = request[r].short,
           request'[r].pc \in {"listed", "listing", "ended"},
           request'[r].pc \in {"listed", "listing"} => request'[r].copy \in [Convs -> Nat],
           alone /\ ~torn => request'[r].pc # "ended",
           listing' \in [Stores -> [state : {"whole", "cut"}, count : [Convs -> Nat]]],
           listing'["agent"] = listing["agent"],
           UNCHANGED <<file, crashes, told, evaluated, dropped, torn, alone>>
    PROVE  /\ ConversationsTypeOK' /\ PhasesFit' /\ TurnsFit' /\ Alone' /\ MessagesKept'
           /\ AgentsKept' /\ AgentKeeps' /\ EvaluatedIsTold'
<1>0. request[r].pc \in Writing
  BY DEF Writing
<1>1. /\ Forward /\ BasesFine /\ DroppedFine /\ ToldFine
      /\ PhasesFit' /\ Alone' /\ AgentsKept' /\ AgentKeeps' /\ EvaluatedIsTold'
  BY <1>0, ChatRest
<1>2. ConversationsTypeOK'
  BY DEF ConversationsIInv, ConversationsTypeOK
<1>3. TurnsFit'
  <2>1. TurnsFine
    BY DEF ConversationsIInv, ConversationsTypeOK, TurnsFit, TurnsIn, Range, TurnsFine
  <2> QED BY <1>1, <2>1, TurnsFitStep DEF ConversationsIInv
<1>4. MessagesKept'
  <2> SUFFICES ASSUME alone, ~torn PROVE MessagesKept'
    BY DEF MessagesKept
  <2>1. \A v : Kept(v)' = Kept(v)
    BY <1>1, KeptSame DEF ConversationsIInv
  <2>2. At(r, "unlinked") => request[r].op = "delete"
    BY <1>0, WriterFits
  <2>3. \A q \in Requests :
           /\ request'[q].pc \in {"answering", "answered"} => request[q].pc \in {"answering", "answered"}
           /\ request'[q].hist = request[q].hist /\ request'[q].op = request[q].op /\ request'[q].conv = request[q].conv
           /\ request'[q].pc = "saving" <=> request[q].pc = "saving"
           /\ request[q].op = "turn" => (request'[q].pc \in {"saved", "listed", "listing"} <=>
                                         request[q].pc \in {"saved", "listed", "listing"})
    BY <2>2 DEF Others, At
  <2>4. MessagesKept /\ file' = file /\ dropped' = dropped /\ alone' = alone /\ torn' = torn
    BY DEF ConversationsIInv
  <2> QED BY <2>1, <2>3, <2>4, SameMessages
<1> QED BY <1>1, <1>2, <1>3, <1>4

LEMMA ReadListStep ==
    ASSUME ConversationsAssumption, ConversationsIInv, NEW r \in Requests, NEW v, v = Conv(r), ReadList(r)
    PROVE  ConversationsIInv'
<1> DEFINE copied == [listing["chat"].count EXCEPT ![v] = IF request[r].op = "turn" THEN Count(r) ELSE 0]
<1>0. request[r].pc \in {"saved", "unlinked"} /\ request[r].pc \in Writing
  BY DEF ReadList, At, Writing
<1>1. /\ ~At(r, "new") /\ Works(r) /\ v \in ChatConvs /\ v \in Convs
      /\ request[r] \in Asked /\ request[r].op \in {"turn", "delete"}
      /\ At(r, "saved") <=> request[r].op = "turn"
      /\ request[r].base \in Seq(Requests)
  BY <1>0, WriterFits DEF At
<1>2. UNCHANGED <<disk, crashes, told, evaluated, dropped, torn, alone>>
  BY DEF ReadList
<1>3. listing["chat"].count \in [Convs -> Nat] /\ Count(r) \in Nat /\ Count(r) > 0
  BY <1>1 DEF ConversationsIInv, ConversationsTypeOK, Stores, Count
<1>4. /\ copied \in [Convs -> Nat]
      /\ copied[v] = IF request[r].op = "turn" THEN Count(r) ELSE 0
      /\ \A w \in Convs : w # v => copied[w] = listing["chat"].count[w]
  BY <1>1, <1>3
<1> HIDE DEF copied
<1>5. alone => \A q \in Requests : q # r => request[q].pc \notin Writing /\ (request[q].op = "delete" => ~Active(q))
  BY <1>0, <1>1, ChatAlone
<1>6. alone /\ ~torn => listing["chat"].state # "cut"
  BY <1>0, <1>5 DEF ConversationsIInv, ListKept, At, Writing
<1>7. /\ Others(r) /\ request' \in [Requests -> {New} \cup Asked]
      /\ request'[r].op = request[r].op /\ request'[r].conv = request[r].conv /\ request'[r].hist = request[r].hist
      /\ request'[r].base = request[r].base /\ request'[r].short = request[r].short
      /\ \/ listing["chat"].state = "cut" /\ request'[r].pc = "ended"
         \/ listing["chat"].state # "cut" /\ request'[r].pc = "listed" /\ request'[r].copy = copied
  <2>1. CASE listing["chat"].state = "cut"
    BY <1>1, <2>1, GotoMoves DEF ReadList, End, Moves, Pcs, ConversationsIInv
  <2>2. CASE listing["chat"].state # "cut"
    <3> DEFINE x == [request[r] EXCEPT !.pc = "listed", !.copy = copied]
    <3>1. request' = [request EXCEPT ![r] = x]
      BY <1>1, <2>2 DEF ReadList, copied
    <3>2. x \in Asked
      BY <1>1, <1>4 DEF Asked, Pcs
    <3>3. /\ x.op = request[r].op /\ x.conv = request[r].conv /\ x.hist = request[r].hist /\ x.base = request[r].base
          /\ x.short = request[r].short /\ x.pc = "listed" /\ x.copy = copied
      BY <1>1 DEF Asked
    <3> HIDE DEF x
    <3>4. ConversationsTypeOK
      BY DEF ConversationsIInv
    <3> QED BY <2>2, <3>1, <3>2, <3>3, <3>4, BecomesRecord
  <2> QED BY <2>1, <2>2
<1>8. /\ ConversationsTypeOK' /\ PhasesFit' /\ TurnsFit' /\ Alone' /\ MessagesKept'
      /\ AgentsKept' /\ AgentKeeps' /\ EvaluatedIsTold'
  <2>1. listing' \in [Stores -> [state : {"whole", "cut"}, count : [Convs -> Nat]]]
    BY <1>2 DEF ConversationsIInv, ConversationsTypeOK, disk
  <2> QED BY <1>0, <1>2, <1>4, <1>6, <1>7, <2>1, ListRest DEF disk
<1>9. CountsKept'
  <2> SUFFICES ASSUME alone, ~torn PROVE CountsKept'
    BY <1>2 DEF CountsKept
  <2>1. \A w \in ChatConvs : w # v => listing["chat"].count[w] = Len(file[w].turns)
    BY <1>0, <1>1 DEF ConversationsIInv, CountsKept
  <2>2. Len(file[v].turns) = IF request[r].op = "turn" THEN Count(r) ELSE 0
    BY <1>0, <1>1, NoTurns DEF ConversationsIInv, CountsKept, At, Absent
  <2>3. \A w \in ChatConvs : copied[w] = Len(file[w].turns)
    BY <1>4, <2>1, <2>2 DEF Convs
  <2>4. \A q \in Requests : q # r => request'[q].pc \notin Writing
    BY <1>5, <1>7 DEF Others
  <2>5. request'[r].pc = "listed" /\ request'[r].copy = copied /\ file' = file
    BY <1>2, <1>6, <1>7 DEF disk
  <2> QED BY <2>3, <2>4, <2>5 DEF CountsKept, Writing, At, Lists, Conv, Count
<1>10. ListKept'
  <2>1. \A q \in told : request'[q].conv = request[q].conv
    BY <1>7 DEF ConversationsIInv, ConversationsTypeOK, Others
  <2>3. ASSUME ~torn, listing["chat"].state = "cut" PROVE \E q \in Requests : At(q, "listing")'
    <3>1. PICK q \in Requests : At(q, "listing")
      BY <2>3 DEF ConversationsIInv, ListKept
    <3>2. q # r
      BY <1>0, <3>1 DEF At
    <3> QED BY <1>7, <3>1, <3>2 DEF Others, At
  <2>4. ASSUME alone
        PROVE  /\ listing["chat"].state = "whole" => Covers(listing["chat"].count)
               /\ request[r].op = "delete" => \A q \in told : Conv(q) = Conv(r) => q \in dropped
    BY <1>1, <2>4 DEF ConversationsIInv, ListKept, Works
  <2>5. ASSUME alone, request'[r].pc = "listed"
        PROVE  Covers(copied) /\ (request[r].op = "turn" => copied[v] > 0)
    <3>1. listing["chat"].state = "whole"
      BY <1>7, <2>5 DEF ConversationsIInv, ConversationsTypeOK, Stores
    <3>2. Covers(listing["chat"].count)
      BY <2>4, <2>5, <3>1
    <3>3. \A q \in told \ dropped : Conv(q) = v => request[r].op = "turn"
      BY <1>1, <2>4, <2>5
    <3>4. \A q \in told \ dropped : Conv(q) \in ChatConvs => copied[Conv(q)] > 0
      BY <1>3, <1>4, <3>2, <3>3 DEF Covers, Convs
    <3> QED BY <1>3, <1>4, <3>4 DEF Covers
  <2>6. \A q \in Requests : q # r => (alone => ~Lists(q)') /\ request'[q] = request[q]
    BY <1>5, <1>7 DEF Others, Lists, Writing
  <2>7. alone => \A q \in Requests : q # r => ~(request'[q].op = "delete" /\ Active(q)')
    BY <1>5, <1>7 DEF Others, Active
  <2>8. Lists(r)' => request'[r].pc = "listed" /\ request'[r].copy = copied
    BY <1>7 DEF Lists
  <2>9. UNCHANGED <<listing, told, dropped, torn, alone>>
    BY <1>2 DEF disk
  <2>10. ASSUME alone, NEW q \in Requests
         PROVE  /\ Lists(q)' => 
                     /\ \A p \in told \ dropped : request'[p].conv \in ChatConvs => request'[q].copy[request'[p].conv] > 0
                     /\ (request'[q].op = "turn" => request'[q].copy[request'[q].conv] > 0)
                /\ request'[q].op = "delete" /\ Active(q)' =>
                     \A p \in told : request'[p].conv = request'[q].conv => p \in dropped
    <3>1. CASE q = r
      <4>1. Lists(r)' =>
               \A p \in told \ dropped : request'[p].conv \in ChatConvs => request'[r].copy[request'[p].conv] > 0
        BY <2>1, <2>5, <2>8, <2>10 DEF Covers, Conv
      <4>2. Lists(r)' => (request'[r].op = "turn" => request'[r].copy[request'[r].conv] > 0)
        BY <1>7, <2>5, <2>8, <2>10 DEF Conv
      <4>3. request'[r].op = "delete" => \A p \in told : request'[p].conv = request'[r].conv => p \in dropped
        BY <1>7, <2>1, <2>4, <2>10 DEF Conv
      <4> QED BY <3>1, <4>1, <4>2, <4>3
    <3>2. CASE q # r
      <4>1. ~Lists(q)' /\ ~(request'[q].op = "delete" /\ Active(q)')
        BY <2>6, <2>7, <2>10, <3>2
      <4> QED BY <4>1
    <3> QED BY <3>1, <3>2
  <2> QED BY <2>1, <2>3, <2>4, <2>9, <2>10 DEF ListKept, Covers, Conv
<1> QED BY <1>8, <1>9, <1>10 DEF ConversationsIInv

LEMMA OpenListStep ==
    ASSUME ConversationsAssumption, ConversationsIInv, NEW r \in Requests, NEW v, v = Conv(r), OpenList(r)
    PROVE  ConversationsIInv'
<1>0. At(r, "listed") /\ request[r].pc \in Writing
  BY DEF OpenList, At, Writing
<1>1. ~At(r, "new") /\ Works(r) /\ v \in ChatConvs /\ v \in Convs
  BY <1>0, WriterFits DEF At
<1>2. Moves(r, "listing") /\ request' \in [Requests -> {New} \cup Asked]
  BY <1>1, GotoMoves DEF ConversationsIInv, OpenList, Pcs
<1>3. UNCHANGED <<file, crashes, told, evaluated, dropped, torn, alone>>
  BY DEF OpenList
<1>4. /\ listing' \in [Stores -> [state : {"whole", "cut"}, count : [Convs -> Nat]]]
      /\ listing'["agent"] = listing["agent"] /\ listing'["chat"].state = "cut"
  <2>1. EmptyList \in [state : {"whole", "cut"}, count : [Convs -> Nat]] /\ EmptyList.state = "cut"
    BY DEF EmptyList
  <2> QED BY <2>1 DEF OpenList, ConversationsIInv, ConversationsTypeOK, Stores
<1>5. request'[r].copy \in [Convs -> Nat]
  BY <1>0, <1>2 DEF Moves, ConversationsIInv, PhasesFit, At
<1>6. /\ ConversationsTypeOK' /\ PhasesFit' /\ TurnsFit' /\ Alone' /\ MessagesKept'
      /\ AgentsKept' /\ AgentKeeps' /\ EvaluatedIsTold'
  BY <1>0, <1>2, <1>3, <1>4, <1>5, ListRest DEF Moves, At
<1>7. alone => \A q \in Requests : q # r => request[q].pc \notin Writing /\ (request[q].op = "delete" => ~Active(q))
  BY <1>0, <1>1, ChatAlone
<1>8. CountsKept'
  <2> SUFFICES ASSUME alone, ~torn PROVE CountsKept'
    BY <1>3 DEF CountsKept
  <2>1. \A w \in ChatConvs : request[r].copy[w] = Len(file[w].turns)
    BY <1>0 DEF ConversationsIInv, CountsKept, At, Lists
  <2>2. \A q \in Requests : q # r => request'[q].pc \notin Writing
    BY <1>2, <1>7 DEF Moves, Others
  <2>3. request'[r].pc = "listing" /\ request'[r].copy = request[r].copy /\ file' = file
    BY <1>2, <1>3 DEF Moves
  <2> QED BY <2>1, <2>2, <2>3 DEF CountsKept, Writing, At, Lists, Conv, Count
<1>9. ListKept'
  <2>1. At(r, "listing")'
    BY <1>2 DEF Moves, At
  <2>2. \A q \in told : request'[q].conv = request[q].conv
    BY <1>2 DEF ConversationsIInv, ConversationsTypeOK, Moves, Others
  <2>3. \A q \in Requests :
           /\ (Lists(q)' => Lists(q)) /\ (Active(q)' => Active(q))
           /\ request'[q].op = request[q].op /\ request'[q].conv = request[q].conv /\ request'[q].copy = request[q].copy
    BY <1>0, <1>2 DEF Moves, Others, Lists, Active, At
  <2>4. ASSUME alone, NEW q \in Requests
        PROVE  /\ Lists(q) => /\ \A p \in told \ dropped : Conv(p) \in ChatConvs => request[q].copy[Conv(p)] > 0
                              /\ request[q].op = "turn" => request[q].copy[Conv(q)] > 0
               /\ request[q].op = "delete" /\ Active(q) => \A p \in told : Conv(p) = Conv(q) => p \in dropped
    BY <2>4 DEF ConversationsIInv, ListKept, Covers
  <2>5. ASSUME alone, NEW q \in Requests
        PROVE  /\ Lists(q)' => /\ \A p \in told \ dropped : request'[p].conv \in ChatConvs =>
                                                                     request'[q].copy[request'[p].conv] > 0
                               /\ request'[q].op = "turn" => request'[q].copy[request'[q].conv] > 0
               /\ request'[q].op = "delete" /\ Active(q)' =>
                     \A p \in told : request'[p].conv = request'[q].conv => p \in dropped
    <3>1. /\ (Lists(q)' => Lists(q)) /\ (Active(q)' => Active(q))
          /\ request'[q].op = request[q].op /\ request'[q].conv = Conv(q) /\ request'[q].copy = request[q].copy
          /\ \A p \in told : request'[p].conv = Conv(p)
      BY <2>2, <2>3 DEF Conv
    <3> QED BY <2>4, <2>5, <3>1
  <2>6. listing'["chat"].state # "whole"
    BY <1>4
  <2> QED BY <1>3, <2>1, <2>5, <2>6 DEF ListKept, Covers, Conv
<1> QED BY <1>6, <1>8, <1>9 DEF ConversationsIInv

LEMMA WriteListStep ==
    ASSUME ConversationsAssumption, ConversationsIInv, NEW r \in Requests, NEW v, v = Conv(r), WriteList(r)
    PROVE  ConversationsIInv'
<1>0. At(r, "listing") /\ request[r].pc \in Writing /\ Lists(r)
  BY DEF WriteList, At, Writing, Lists
<1>1. /\ ~At(r, "new") /\ Works(r) /\ v \in ChatConvs /\ v \in Convs /\ v \notin AgentConvs
      /\ request[r].op \in {"turn", "delete"} /\ r \notin told
  BY <1>0, WriterFits DEF At
<1>2. request[r].copy \in [Convs -> Nat]
  BY <1>0, <1>1 DEF ConversationsIInv, PhasesFit, At
<1>3. /\ UNCHANGED <<file, crashes, evaluated, dropped, torn, alone>>
      /\ \/ request[r].op = "turn" /\ told' = told \cup {r} /\ Goto(r, "done")
         \/ request[r].op = "delete" /\ told' = told /\ Goto(r, "ended")
  BY <1>1 DEF WriteList, End
<1>4. /\ request' \in [Requests -> {New} \cup Asked]
      /\ \/ request[r].op = "turn" /\ told' = told \cup {r} /\ Moves(r, "done")
         \/ request[r].op = "delete" /\ told' = told /\ Moves(r, "ended")
  BY <1>1, <1>3, GotoMoves DEF ConversationsIInv, Pcs
<1>5. /\ listing' \in [Stores -> [state : {"whole", "cut"}, count : [Convs -> Nat]]]
      /\ listing'["agent"] = listing["agent"]
      /\ listing'["chat"].state = "whole" /\ listing'["chat"].count = request[r].copy
  <2> DEFINE l == [state |-> "whole", count |-> request[r].copy]
  <2>1. l \in [state : {"whole", "cut"}, count : [Convs -> Nat]]
        /\ l.state = "whole" /\ l.count = request[r].copy
    BY <1>2
  <2>2. listing' = [listing EXCEPT !["chat"] = l]
    BY DEF WriteList
  <2> HIDE DEF l
  <2> QED BY <2>1, <2>2 DEF ConversationsIInv, ConversationsTypeOK, Stores
<1>6. /\ Forward /\ BasesFine /\ DroppedFine /\ ToldFine
      /\ PhasesFit' /\ Alone' /\ AgentsKept' /\ AgentKeeps' /\ EvaluatedIsTold'
  BY <1>0, <1>3, <1>4, <1>5, ChatRest DEF Moves
<1>7. ConversationsTypeOK'
  BY <1>3, <1>4, <1>5 DEF ConversationsIInv, ConversationsTypeOK
<1>8. TurnsFit'
  <2>1. TurnsFine
    BY <1>3 DEF ConversationsIInv, ConversationsTypeOK, TurnsFit, TurnsIn, Range, TurnsFine
  <2> QED BY <1>6, <2>1, TurnsFitStep DEF ConversationsIInv
<1>9. alone => \A q \in Requests : q # r =>
         /\ request[q].pc \notin Writing /\ (request[q].op = "delete" => ~Active(q))
         /\ (Works(q) => Conv(q) \notin ChatConvs)
  BY <1>0, <1>1, ChatAlone
<1>10. /\ \A q \in Requests : q # r => request'[q] = request[q]
       /\ request'[r].pc \in {"done", "ended"} /\ request'[r].op = request[r].op /\ request'[r].conv = v
       /\ \A q \in told : q \in Requests /\ request'[q].conv = request[q].conv
  BY <1>1, <1>4 DEF Moves, Others, Conv, ConversationsIInv, ConversationsTypeOK
<1>11. MessagesKept'
  <2> SUFFICES ASSUME alone, ~torn, NEW w \in Convs
               PROVE  /\ TurnsIn(w)' = Kept(w)' /\ file'[w].state # "cut"
                      /\ \A q \in Requests :
                            /\ ~SavesTurn(q, w)' /\ ~StoredTurn(q, w)'
                            /\ request'[q].op = "turn" /\ request'[q].pc \in {"answering", "answered"} /\ request'[q].conv = w =>
                                  request'[q].hist = file'[w].turns
    BY <1>3 DEF MessagesKept, Conv
  <2>1. \A q \in Requests : ~SavesTurn(q, w)' /\ ~StoredTurn(q, w)'
    BY <1>9, <1>10 DEF SavesTurn, StoredTurn, At, Writing
  <2>2. \A q \in Requests : request'[q].pc \in {"answering", "answered"} => request'[q] = request[q]
    BY <1>10
  <2>3. \A q \in Requests : request[q].op = "turn" /\ request[q].pc \in {"answering", "answered"} /\ request[q].conv = w =>
           request[q].hist = file[w].turns
    BY DEF ConversationsIInv, MessagesKept, Conv
  <2>4. TurnsIn(w)' = TurnsIn(w) /\ file' = file /\ dropped' = dropped
    BY <1>3 DEF TurnsIn
  <2>5. CASE w = v /\ request[r].op = "turn"
    <3>1. StoredTurn(r, w)
      BY <1>0, <2>5 DEF StoredTurn, At
    <3>2. TurnsIn(w) = Kept(w) \cup {r} /\ r \notin dropped
      BY <3>1 DEF ConversationsIInv, MessagesKept
    <3>3. told' = told \cup {r} /\ request'[r].conv = w
      BY <1>4, <1>10, <2>5
    <3>4. Kept(w)' = Kept(w) \cup {r}
      BY <1>10, <2>4, <3>2, <3>3 DEF Kept, Conv
    <3>5. file[w].state # "cut"
      <4>1. file[w].turns # <<>>
        BY <3>2, NoTurns DEF TurnsIn
      <4> QED BY <4>1 DEF ConversationsIInv, ConversationsTypeOK
    <3> QED BY <2>1, <2>2, <2>3, <2>4, <3>2, <3>4, <3>5
  <2>6. CASE ~(w = v /\ request[r].op = "turn")
    <3>1. \A q \in Requests : ~SavesTurn(q, w) /\ ~StoredTurn(q, w)
      BY <1>0, <1>1, <1>9, <2>6 DEF SavesTurn, StoredTurn, At, Conv, Writing
    <3>2. TurnsIn(w) = Kept(w) /\ file[w].state # "cut"
      BY <3>1 DEF ConversationsIInv, MessagesKept
    <3>3. Kept(w)' = Kept(w)
      <4>1. told' = told \/ (told' = told \cup {r} /\ request'[r].conv # w)
        BY <1>4, <1>10, <2>6
      <4> QED BY <1>10, <2>4, <4>1 DEF Kept, Conv
    <3> QED BY <2>1, <2>2, <2>3, <2>4, <3>2, <3>3
  <2> QED BY <2>5, <2>6
<1>12. CountsKept'
  <2> SUFFICES ASSUME alone, ~torn PROVE CountsKept'
    BY <1>3 DEF CountsKept
  <2>1. \A w \in ChatConvs : request[r].copy[w] = Len(file[w].turns)
    BY <1>0 DEF ConversationsIInv, CountsKept
  <2>2. \A q \in Requests : request'[q].pc \notin Writing
    BY <1>9, <1>10 DEF Writing
  <2> QED BY <1>3, <1>5, <2>1, <2>2 DEF CountsKept, Writing, At, Lists
<1>13. ListKept'
  <2>1. listing'["chat"].state # "cut"
    BY <1>5
  <2>2. ASSUME alone
        PROVE  \A q \in told' \ dropped : request'[q].conv \in ChatConvs => request[r].copy[request'[q].conv] > 0
    <3>1. Covers(request[r].copy) /\ (request[r].op = "turn" => request[r].copy[v] > 0)
      BY <1>0, <2>2 DEF ConversationsIInv, ListKept
    <3>2. \A q \in told \ dropped : request'[q].conv \in ChatConvs => request[r].copy[request'[q].conv] > 0
      BY <1>10, <3>1 DEF Covers, Conv
    <3> QED BY <1>4, <1>10, <3>1, <3>2
  <2>3. alone => \A q \in Requests : ~Lists(q)' /\ ~(request'[q].op = "delete" /\ Active(q)')
    <3>1. ~Lists(r)'
      BY <1>10 DEF Lists
    <3>2. request'[r].op = "delete" => ~Active(r)'
      BY <1>4 DEF Moves, Active
    <3> QED BY <1>9, <1>10, <3>1, <3>2 DEF Lists, Active, Writing
  <2>4. dropped' = dropped /\ alone' = alone
    BY <1>3
  <2> QED BY <1>5, <2>1, <2>2, <2>3, <2>4 DEF ListKept, Covers, Conv
<1> QED BY <1>6, <1>7, <1>8, <1>11, <1>12, <1>13 DEF ConversationsIInv

LEMMA AnsweredStep ==
    ASSUME ConversationsAssumption, ConversationsIInv, NEW r \in Requests, Answered(r)
    PROVE  ConversationsIInv'
<1>1. At(r, "answering") /\ UNCHANGED <<disk, crashes, told, evaluated, dropped, torn, alone>>
  BY DEF Answered
<1>2. /\ request[r] \in Asked /\ request[r].hist \in Seq(Requests) /\ request[r].base \in Seq(Requests)
      /\ request[r].short = FALSE /\ ConversationsTypeOK
  BY <1>1, RequestFields DEF ConversationsIInv, PhasesFit, At
<1>3. PICK k \in 0..Len(request[r].hist), short \in BOOLEAN :
         request' = [request EXCEPT ![r].pc = "answered", ![r].short = short,
                                    ![r].base = SubSeq(request[r].hist, k + 1, Len(request[r].hist))]
  BY DEF Answered
<1> DEFINE b == SubSeq(request[r].hist, k + 1, Len(request[r].hist))
<1> DEFINE x == [request[r] EXCEPT !.pc = "answered", !.short = short, !.base = b]
<1>4. b \in Seq(Requests) /\ Range(b) \subseteq Range(request[r].hist)
  BY <1>2, LastTurns
<1>5. request' = [request EXCEPT ![r] = x]
  BY <1>2, <1>3
<1> HIDE DEF b
<1>6. /\ x \in Asked /\ x.op = request[r].op /\ x.conv = request[r].conv /\ x.hist = request[r].hist /\ x.base = b
      /\ x.pc = "answered" /\ x.short = short /\ x.copy = request[r].copy
  BY <1>2, <1>4 DEF Asked, Pcs
<1> HIDE DEF x
<1>7. Others(r) /\ request'[r] = x /\ request' \in [Requests -> {New} \cup Asked]
  BY <1>2, <1>5, <1>6, BecomesRecord
<1>8. request[r].pc = "answering" /\ ~request[r].short
  BY <1>1, <1>2 DEF At
<1> QED BY <1>1, <1>4, <1>6, <1>7, <1>8, PlainStep

\* A turn that ends before it writes, or after: the answer fails or was given.
LEMMA LeaveStep ==
    ASSUME ConversationsAssumption, ConversationsIInv, NEW r \in Requests, NEW l,
           request[r].pc \in {"answering", "answered", "done"},
           l = "ended" \/ (l = "done" /\ Visits(r)), Goto(r, l),
           UNCHANGED <<disk, crashes, told, dropped, torn, alone>>,
           evaluated' \subseteq evaluated \cup {r}, evaluated' # evaluated => At(r, "done")
    PROVE  ConversationsIInv'
<1>1. /\ ~At(r, "new") /\ ConversationsTypeOK /\ l \in Pcs \ {"new"}
      /\ Range(request[r].base) \subseteq Range(request[r].hist)
  BY DEF ConversationsIInv, TurnsFit, At, Pcs
<1>2. Moves(r, l) /\ request' \in [Requests -> {New} \cup Asked]
  BY <1>1, GotoMoves
<1>3. /\ Others(r) /\ request'[r].pc = l /\ request'[r].op = request[r].op /\ request'[r].conv = request[r].conv
      /\ request'[r].hist = request[r].hist /\ request'[r].base = request[r].base /\ request'[r].short = request[r].short
  BY <1>2 DEF Moves
<1> QED BY <1>1, <1>2, <1>3, PlainStep

\* Steps that may cut a file: every request goes on or ends where it is.
LEMMA TornStep ==
    ASSUME ConversationsAssumption, ConversationsIInv, torn' \in BOOLEAN, alone' = alone, told' = told,
           ~torn' => /\ MessagesKept' /\ CountsKept' /\ AgentKeeps'
                     /\ listing'["chat"].state # "cut" /\ listing'["agent"].state = "whole"
                     /\ \A v \in AgentConvs : file'[v].state # "cut"
                                              /\ listing'["agent"].count[v] = Len(file'[v].turns),
           dropped' = dropped, evaluated' = evaluated, crashes' \in 0..MaxCrashes,
           request' \in [Requests -> {New} \cup Asked],
           \A q \in Requests : request'[q] = request[q] \/
              /\ ~At(q, "new") /\ request'[q].pc = "ended" /\ request'[q].op = request[q].op
              /\ request'[q].conv = request[q].conv /\ request'[q].hist = request[q].hist
              /\ request'[q].base = request[q].base /\ request'[q].short = request[q].short /\ request'[q].copy = request[q].copy,
           file' \in [Convs -> [state : {"absent", "whole", "cut"}, turns : Seq(Requests)]],
           \A v \in Convs : (file'[v].state = "whole") <=> (file'[v].turns # <<>>),
           TurnsFine,
           listing' \in [Stores -> [state : {"whole", "cut"}, count : [Convs -> Nat]]],
           alone /\ listing'["chat"].state = "whole" =>
              \A p \in told \ dropped : Conv(p) \in ChatConvs => listing'["chat"].count[Conv(p)] > 0,
           listing'["agent"].state = "whole" =>
              \A p \in told \ dropped : Conv(p) \in AgentConvs => listing'["agent"].count[Conv(p)] > 0
    PROVE  ConversationsIInv'
<1>1. ConversationsTypeOK'
  BY DEF ConversationsIInv, ConversationsTypeOK
<1>2. \A q \in Requests :
         /\ request'[q].op = request[q].op /\ request'[q].copy = request[q].copy /\ request'[q].short = request[q].short
         /\ request'[q].base = request[q].base /\ request'[q].hist = request[q].hist
         /\ request'[q].pc = "new" <=> request[q].pc = "new"
         /\ request'[q].pc = request[q].pc \/ request'[q].pc = "ended"
  BY DEF At, New
<1>3. \A q \in Requests : ~At(q, "new") => request'[q].conv = Conv(q)
  BY DEF Conv, At
<1>4. \A q \in told \cup dropped : q \in Requests /\ ~At(q, "new") /\ request'[q].conv = Conv(q)
  BY <1>3 DEF ConversationsIInv, ConversationsTypeOK, TurnsFit, Wrote, At
<1>5. PhasesFit'
  <2> SUFFICES ASSUME NEW q \in Requests, request'[q].pc # "new"
               PROVE  /\ (request'[q].op = "visit" <=> request'[q].conv = "none")
                      /\ request'[q].pc \in Writing => request'[q].conv \in ChatConvs
                      /\ request'[q].op = "delete" => request'[q].pc \in {"unlinked", "listed", "listing", "ended"}
                      /\ request'[q].pc = "unlinked" => request'[q].op = "delete"
                      /\ request'[q].pc = "answering" => ~request'[q].short
                      /\ request'[q].pc \in {"listed", "listing"} => request'[q].copy \in [Convs -> Nat]
                      /\ request'[q].pc = "done" => request'[q].op = "visit" \/ q \in told'
    BY DEF PhasesFit, At, Visits, Conv
  <2>1. ~At(q, "new") /\ request'[q].conv = Conv(q)
    BY <1>2, <1>3 DEF At
  <2>2. /\ Visits(q) <=> Conv(q) = "none"
        /\ request[q].pc \in Writing => Conv(q) \in ChatConvs
        /\ request[q].op = "delete" => request[q].pc \in {"unlinked", "listed", "listing", "ended"}
        /\ At(q, "unlinked") => request[q].op = "delete"
        /\ At(q, "answering") => ~request[q].short
        /\ request[q].pc \in {"listed", "listing"} => request[q].copy \in [Convs -> Nat]
        /\ At(q, "done") => Visits(q) \/ q \in told
    BY <2>1 DEF ConversationsIInv, PhasesFit
  <2> QED BY <1>2, <2>1, <2>2 DEF At, Visits, Writing
<1>6. Forward
  BY <1>2, <1>3 DEF Forward, At, Past, Conv
<1>7. TurnsFit'
  <2>1. BasesFine
    BY <1>2 DEF ConversationsIInv, TurnsFit, At, BasesFine
  <2>2. DroppedFine
    BY DEF ConversationsIInv, ConversationsTypeOK, TurnsFit, DroppedFine
  <2>3. ToldFine
    BY DEF ConversationsIInv, ConversationsTypeOK, ToldFine
  <2> QED BY <1>6, <2>1, <2>2, <2>3, TurnsFitStep DEF ConversationsIInv
<1>8. \A q \in Requests : (Works(q)' => Works(q)) /\ (Active(q)' => Active(q)) /\ (Lists(q)' => Lists(q))
  BY <1>2 DEF Works, Active, Visits, Lists
<1>9. Alone'
  <2>1. \A q \in Requests : Works(q)' => Works(q) /\ request'[q].conv = Conv(q)
    BY <1>3, <1>8 DEF Works, Active, At
  <2> QED BY <2>1 DEF ConversationsIInv, Alone, Conv
<1>10. MessagesKept' /\ CountsKept' /\ AgentKeeps'
  BY DEF MessagesKept, CountsKept, AgentKeeps
<1>11. ListKept'
  <2>1. ASSUME alone, NEW q \in Requests
        PROVE  /\ Lists(q) => /\ \A p \in told \ dropped : Conv(p) \in ChatConvs => request[q].copy[Conv(p)] > 0
                              /\ request[q].op = "turn" => request[q].copy[Conv(q)] > 0
               /\ request[q].op = "delete" /\ Active(q) => \A p \in told : Conv(p) = Conv(q) => p \in dropped
    BY <2>1 DEF ConversationsIInv, ListKept, Covers
  <2>2. ASSUME alone, NEW q \in Requests
        PROVE  /\ Lists(q)' => /\ \A p \in told \ dropped : request'[p].conv \in ChatConvs =>
                                                                     request'[q].copy[request'[p].conv] > 0
                               /\ request'[q].op = "turn" => request'[q].copy[request'[q].conv] > 0
               /\ request'[q].op = "delete" /\ Active(q)' =>
                     \A p \in told : request'[p].conv = request'[q].conv => p \in dropped
    <3>1. /\ (Lists(q)' => Lists(q)) /\ (Active(q)' => Active(q) /\ request'[q].conv = Conv(q))
          /\ (Lists(q)' => request'[q].conv = Conv(q))
          /\ request'[q].op = request[q].op /\ request'[q].copy = request[q].copy
          /\ \A p \in told : request'[p].conv = Conv(p)
      BY <1>2, <1>3, <1>4, <1>8 DEF Active, Lists, At
    <3> QED BY <2>1, <2>2, <3>1
  <2>3. alone /\ listing'["chat"].state = "whole" =>
           \A p \in told \ dropped : request'[p].conv \in ChatConvs => listing'["chat"].count[request'[p].conv] > 0
    BY <1>4
  <2> QED BY <2>2, <2>3 DEF ListKept, Covers, Conv
<1>12. AgentsKept'
  <2>1. listing'["agent"].state = "whole" =>
           \A p \in told \ dropped : request'[p].conv \in AgentConvs => listing'["agent"].count[request'[p].conv] > 0
    BY <1>4
  <2> QED BY <2>1 DEF AgentsKept, Conv
<1>13. EvaluatedIsTold'
  BY <1>2 DEF ConversationsIInv, ConversationsTypeOK, EvaluatedIsTold, Visits
<1> QED BY <1>1, <1>5, <1>7, <1>9, <1>10, <1>11, <1>12, <1>13 DEF ConversationsIInv

\* What an agent's turn stores.
LEMMA StoredFits ==
    ASSUME ConversationsAssumption, ConversationsIInv, NEW r \in Requests, NEW v, v = Conv(r),
           At(r, "answered"), v \in AgentConvs
    PROVE  /\ v \in Convs /\ v \notin ChatConvs /\ request[r] \in Asked /\ request[r].op = "turn"
           /\ ~At(r, "new") /\ Works(r) /\ r \notin told /\ r \notin dropped
           /\ Stored(r) \in Seq(Requests) /\ Stored(r) # <<>> /\ Len(Stored(r)) \in Nat /\ Len(Stored(r)) > 0
           /\ \A q \in Range(request[r].base) \cup LeftOut(r) : q \in Requests /\ Wrote(q, v)
           /\ \A q \in TurnsIn(v) : q \in Requests /\ Wrote(q, v)
           /\ request[r].short => Range(Stored(r)) = Range(request[r].base) \cup {r}
           /\ ~request[r].short => Range(Stored(r)) = TurnsIn(v) \cup {r}
<1>1. /\ ~At(r, "new") /\ request[r] \in Asked /\ request[r].op \in {"turn", "visit", "delete"}
      /\ request[r].hist \in Seq(Requests) /\ request[r].base \in Seq(Requests) /\ request[r].short \in BOOLEAN
  BY RequestFields DEF ConversationsIInv, At
<1>2. v \in Convs /\ v # "none" /\ v \notin ChatConvs /\ file[v].turns \in Seq(Requests)
  BY DEF ConversationsAssumption, Convs, ConversationsIInv, ConversationsTypeOK
<1>3. request[r].op = "turn"
  BY <1>1, <1>2 DEF ConversationsIInv, PhasesFit, Visits, At
<1>4. r \notin told /\ r \notin dropped
  BY DEF ConversationsIInv, TurnsFit, Wrote, At
<1>5. /\ \A q \in Range(request[r].hist) : q \in Requests /\ Wrote(q, v)
      /\ Range(request[r].base) \subseteq Range(request[r].hist)
  <2>1. \A q \in Range(request[r].hist) : q \in Requests
    BY <1>1 DEF Range
  <2> QED BY <1>1, <2>1 DEF ConversationsIInv, TurnsFit
<1>6. \A q \in TurnsIn(v) : q \in Requests /\ Wrote(q, v)
  BY <1>2 DEF ConversationsIInv, TurnsFit, TurnsIn, Range
<1>7. CASE request[r].short
  <2>1. Stored(r) = Append(request[r].base, r)
    BY <1>7 DEF Stored
  <2> QED BY <1>1, <1>2, <1>3, <1>4, <1>5, <1>6, <1>7, <2>1, AppendTurns
          DEF LeftOut, Works, Active, Visits, At
<1>8. CASE ~request[r].short
  <2>1. Stored(r) = Append(file[v].turns, r)
    BY <1>8 DEF Stored
  <2> QED BY <1>1, <1>2, <1>3, <1>4, <1>5, <1>6, <1>8, <2>1, AppendTurns
          DEF LeftOut, Works, Active, Visits, At, TurnsIn
<1> QED BY <1>7, <1>8

\* What a torn step writes into one file.
LEMMA OneFile ==
    ASSUME ConversationsIInv, NEW v \in Convs, NEW m, file' = [file EXCEPT ![v] = m],
           m \in [state : {"absent", "whole", "cut"}, turns : Seq(Requests)],
           (m.state = "whole") <=> (m.turns # <<>>),
           \A q \in Range(m.turns) : q \in Requests /\ (Wrote(q, v) \/ Wrote(q, v)')
    PROVE  /\ file' \in [Convs -> [state : {"absent", "whole", "cut"}, turns : Seq(Requests)]]
           /\ \A w \in Convs : (file'[w].state = "whole") <=> (file'[w].turns # <<>>)
           /\ TurnsFine
           /\ file'[v] = m /\ \A w \in Convs : w # v => file'[w] = file[w]
<1>1. file'[v] = m /\ \A w \in Convs : w # v => file'[w] = file[w]
  BY DEF ConversationsIInv, ConversationsTypeOK
<1>2. \A w \in Convs : w # v => Range(file'[w].turns) = TurnsIn(w)
  BY <1>1 DEF TurnsIn
<1>3. \A w \in Convs : \A q \in TurnsIn(w) : q \in Requests /\ Wrote(q, w)
  BY DEF ConversationsIInv, ConversationsTypeOK, TurnsFit, TurnsIn, Range
<1>4. TurnsFine
  BY <1>1, <1>2, <1>3 DEF TurnsFine
<1> QED BY <1>1, <1>4 DEF ConversationsIInv, ConversationsTypeOK

LEMMA SameFiles ==
    ASSUME ConversationsIInv, file' = file
    PROVE  /\ file' \in [Convs -> [state : {"absent", "whole", "cut"}, turns : Seq(Requests)]]
           /\ \A w \in Convs : (file'[w].state = "whole") <=> (file'[w].turns # <<>>)
           /\ TurnsFine
  BY DEF ConversationsIInv, ConversationsTypeOK, TurnsFit, TurnsIn, Range, TurnsFine

LEMMA DisconnectStep ==
    ASSUME ConversationsAssumption, ConversationsIInv, NEW r \in Requests, NEW v, v = Conv(r), Disconnect(r)
    PROVE  ConversationsIInv'
<1>1. ~At(r, "new") /\ request[r].op # "delete" /\ Goto(r, "ended")
      /\ UNCHANGED <<crashes, told, evaluated, dropped, alone>>
  BY DEF Disconnect, Active, At, End
<1>2. request[r] \in Asked /\ request[r].base \in Seq(Requests) /\ request[r].hist \in Seq(Requests)
      /\ request[r].op \in {"turn", "visit", "delete"} /\ request[r].pc \in Pcs \ {"new", "ended"}
  BY <1>1, RequestFields DEF ConversationsIInv, Disconnect, Active
<1>3. request[r].pc # "unlinked"
  BY <1>1 DEF ConversationsIInv, PhasesFit, At
<1>4. CASE request[r].pc \in {"answering", "answered", "done"}
  <2>1. ~At(r, "saving") /\ ~At(r, "listing")
    BY <1>4 DEF At
  <2>2. UNCHANGED disk
    BY <2>1 DEF Disconnect, disk
  <2>3. torn' = torn
    BY <1>4 DEF Disconnect, ConversationsIInv, ConversationsTypeOK
  <2> QED BY <1>1, <1>4, <2>2, <2>3, LeaveStep
<1>5. CASE request[r].pc \notin {"answering", "answered", "done"}
  <2>1. request[r].pc \in {"saving", "saved", "listed", "listing"}
    BY <1>2, <1>3, <1>5 DEF Pcs
  <2>2. torn' = TRUE /\ request[r].pc \in Writing
    BY <2>1 DEF Disconnect, Writing
  <2>3. v \in ChatConvs /\ v \in Convs /\ Stores = {"chat", "agent"}
    BY <2>2, WriterFits DEF Stores
  <2>4. Moves(r, "ended") /\ request' \in [Requests -> {New} \cup Asked]
    BY <1>1, GotoMoves DEF ConversationsIInv, Pcs
  <2>5. \A q \in Requests : request'[q] = request[q] \/
              /\ ~At(q, "new") /\ request'[q].pc = "ended" /\ request'[q].op = request[q].op
              /\ request'[q].conv = request[q].conv /\ request'[q].hist = request[q].hist
              /\ request'[q].base = request[q].base /\ request'[q].short = request[q].short /\ request'[q].copy = request[q].copy
    BY <1>1, <2>4 DEF Moves, Others
  <2>6. /\ file' \in [Convs -> [state : {"absent", "whole", "cut"}, turns : Seq(Requests)]]
        /\ \A w \in Convs : (file'[w].state = "whole") <=> (file'[w].turns # <<>>)
        /\ TurnsFine
    <3>1. CASE file' = file
      BY <3>1, SameFiles
    <3>2. CASE file' # file
      <4> DEFINE new == Append(request[r].base, r)
      <4>1. At(r, "saving") /\ file' = [file EXCEPT ![v] = Whole(new)]
        BY <3>2 DEF Disconnect
      <4>2. /\ Whole(new) \in [state : {"absent", "whole", "cut"}, turns : Seq(Requests)]
            /\ Whole(new).state = "whole" /\ Whole(new).turns = new /\ new # <<>>
            /\ Range(new) = Range(request[r].base) \cup {r}
        BY <1>2, AppendTurns DEF Whole
      <4> HIDE DEF new
      <4>3. request[r].op = "turn"
        BY <2>2, <4>1, WriterFits DEF At
      <4>4. Wrote(r, v)'
        BY <2>4, <4>3 DEF Moves, Wrote, Conv
      <4>5. \A q \in Range(request[r].base) : q \in Requests /\ Wrote(q, v)
        <5>1. \A q \in Range(request[r].base) : q \in Requests
          BY <1>2 DEF Range
        <5> QED BY <1>1, <5>1 DEF ConversationsIInv, TurnsFit
      <4>6. \A q \in Range(Whole(new).turns) : q \in Requests /\ (Wrote(q, v) \/ Wrote(q, v)')
        BY <4>2, <4>4, <4>5
      <4> QED BY <2>3, <4>1, <4>2, <4>6, OneFile
    <3> QED BY <3>1, <3>2
  <2>7. /\ listing' \in [Stores -> [state : {"whole", "cut"}, count : [Convs -> Nat]]]
        /\ listing'["agent"] = listing["agent"]
        /\ \/ listing' = listing
           \/ At(r, "listing") /\ listing'["chat"].count = request[r].copy
    <3>1. CASE listing' = listing
      BY <3>1 DEF ConversationsIInv, ConversationsTypeOK
    <3>2. CASE listing' # listing
      <4> DEFINE l == [state |-> "whole", count |-> request[r].copy]
      <4>1. At(r, "listing") /\ listing' = [listing EXCEPT !["chat"] = l]
        BY <3>2 DEF Disconnect
      <4>2. l \in [state : {"whole", "cut"}, count : [Convs -> Nat]] /\ l.count = request[r].copy
        BY <1>1, <4>1 DEF ConversationsIInv, PhasesFit, At
      <4> HIDE DEF l
      <4> QED BY <2>3, <4>1, <4>2 DEF ConversationsIInv, ConversationsTypeOK
    <3> QED BY <3>1, <3>2
  <2>8. alone /\ listing'["chat"].state = "whole" =>
           \A p \in told \ dropped : Conv(p) \in ChatConvs => listing'["chat"].count[Conv(p)] > 0
    <3>1. CASE listing' = listing
      BY <3>1 DEF ConversationsIInv, ListKept, Covers
    <3>2. CASE At(r, "listing") /\ listing'["chat"].count = request[r].copy
      <4>1. Lists(r)
        BY <3>2 DEF At, Lists
      <4> QED BY <3>2, <4>1 DEF ConversationsIInv, ListKept, Covers
    <3> QED BY <2>7, <3>1, <3>2
  <2>9. listing'["agent"].state = "whole" =>
           \A p \in told \ dropped : Conv(p) \in AgentConvs => listing'["agent"].count[Conv(p)] > 0
    BY <2>7 DEF ConversationsIInv, AgentsKept
  <2>10. crashes' \in 0..MaxCrashes
    BY <1>1 DEF ConversationsIInv, ConversationsTypeOK
  <2> QED BY <1>1, <2>2, <2>4, <2>5, <2>6, <2>7, <2>8, <2>9, <2>10, TornStep
<1> QED BY <1>4, <1>5

LEMMA CrashStep ==
    ASSUME ConversationsAssumption, ConversationsIInv, Crash
    PROVE  ConversationsIInv'
<1>1. UNCHANGED <<told, evaluated, dropped, alone>> /\ crashes' \in 0..MaxCrashes
  BY DEF Crash, ConversationsIInv, ConversationsTypeOK, ConversationsAssumption
<1>2. /\ request' \in [Requests -> {New} \cup Asked]
      /\ \A q \in Requests : request'[q] = request[q] \/
            /\ ~At(q, "new") /\ request'[q].pc = "ended" /\ request'[q].op = request[q].op
            /\ request'[q].conv = request[q].conv /\ request'[q].hist = request[q].hist
            /\ request'[q].base = request[q].base /\ request'[q].short = request[q].short /\ request'[q].copy = request[q].copy
      /\ \A q \in Requests : request'[q].pc \in {"new", "ended"}
  <2>1. ASSUME NEW q \in Requests, Active(q)
        PROVE  LET x == [request[q] EXCEPT !.pc = "ended"] IN
               /\ x \in Asked /\ ~At(q, "new") /\ x.pc = "ended" /\ x.op = request[q].op /\ x.conv = request[q].conv
               /\ x.hist = request[q].hist /\ x.base = request[q].base /\ x.short = request[q].short /\ x.copy = request[q].copy
    <3>1. ~At(q, "new") /\ request[q] \in Asked
      BY <2>1, RequestFields DEF ConversationsIInv, Active, At
    <3> QED BY <3>1 DEF Asked, Pcs
  <2>2. \A q \in Requests : request'[q] = IF Active(q) THEN [request[q] EXCEPT !.pc = "ended"] ELSE request[q]
    BY DEF Crash
  <2>3. \A q \in Requests : request'[q] \in {New} \cup Asked
    BY <2>1, <2>2 DEF ConversationsIInv, ConversationsTypeOK
  <2>4. request' \in [Requests -> {New} \cup Asked]
    <3>1. request' = [q \in Requests |-> IF Active(q) THEN [request[q] EXCEPT !.pc = "ended"] ELSE request[q]]
      BY DEF Crash
    <3> HIDE DEF Active
    <3> QED BY <2>2, <2>3, <3>1
  <2>5. ASSUME NEW q \in Requests
        PROVE  /\ request'[q] = request[q] \/
                    /\ ~At(q, "new") /\ request'[q].pc = "ended" /\ request'[q].op = request[q].op
                    /\ request'[q].conv = request[q].conv /\ request'[q].hist = request[q].hist
                    /\ request'[q].base = request[q].base /\ request'[q].short = request[q].short /\ request'[q].copy = request[q].copy
               /\ request'[q].pc \in {"new", "ended"}
    <3>1. CASE Active(q)
      BY <2>1, <2>2, <3>1
    <3>2. CASE ~Active(q)
      BY <2>2, <3>2 DEF Active
    <3> QED BY <3>1, <3>2
  <2> QED BY <2>4, <2>5
<1>3. /\ torn' = (torn \/ \E q \in Requests : Active(q) /\ request[q].pc \notin {"answering", "done"})
      /\ torn' \in BOOLEAN
  BY DEF Crash, ConversationsIInv, ConversationsTypeOK
<1>4. ASSUME UNCHANGED disk PROVE ConversationsIInv'
  <2>1. file' = file /\ listing' = listing
    BY <1>4 DEF disk
  <2>2. ASSUME ~torn'
        PROVE  /\ MessagesKept' /\ CountsKept' /\ AgentKeeps'
               /\ listing'["chat"].state # "cut" /\ listing'["agent"].state = "whole"
               /\ \A v \in AgentConvs : file'[v].state # "cut"
                                        /\ listing'["agent"].count[v] = Len(file'[v].turns)
    <3>1. ~torn /\ \A q \in Requests : request[q].pc \in {"new", "ended", "answering", "done"}
      BY <1>3, <2>2 DEF Active, ConversationsIInv, ConversationsTypeOK
    <3>2. \A q \in Requests : ~At(q, "new") => request'[q].conv = Conv(q) /\ request'[q].short = request[q].short
      BY <1>2 DEF Conv
    <3>3. \A q \in told : q \in Requests /\ ~At(q, "new") /\ request'[q].conv = Conv(q)
      BY <3>2 DEF ConversationsIInv, ConversationsTypeOK, TurnsFit, At
    <3>4. \A v : Kept(v)' = Kept(v) /\ TurnsIn(v)' = TurnsIn(v)
      BY <1>1, <2>1, <3>3 DEF Kept, TurnsIn, Conv
    <3>5. MessagesKept'
      <4>1. alone => \A v \in Convs : TurnsIn(v) = Kept(v) /\ file[v].state # "cut"
        BY <3>1 DEF ConversationsIInv, MessagesKept, SavesTurn, StoredTurn, At
      <4>2. \A q \in Requests : \A v : ~SavesTurn(q, v)' /\ ~StoredTurn(q, v)'
        BY <1>2 DEF SavesTurn, StoredTurn, At
      <4>3. \A q \in Requests : request'[q].pc \notin {"answering", "answered"}
        BY <1>2
      <4>4. alone => \A v \in Convs : TurnsIn(v)' = Kept(v)' /\ file'[v].state # "cut"
        BY <2>1, <3>4, <4>1
      <4> QED BY <1>1, <4>2, <4>3, <4>4 DEF MessagesKept
    <3>6. CountsKept'
      <4>1. alone => \A v \in ChatConvs : listing["chat"].count[v] = Len(file[v].turns)
        BY <3>1 DEF ConversationsIInv, CountsKept, Writing
      <4>2. \A q \in Requests : request'[q].pc \notin Writing
        BY <1>2 DEF Writing
      <4> QED BY <1>1, <2>1, <4>1, <4>2 DEF CountsKept, Writing, At, Lists
    <3>7. AgentKeeps'
      <4>1. \A q \in Requests : ~At(q, "new") =>
               request'[q].pc # "new" /\ request'[q].conv = request[q].conv /\ (request[q].short => request'[q].short)
        BY <1>2 DEF At
      <4>2. told \subseteq Requests /\ AgentKeeps /\ \A v \in AgentConvs : file'[v].turns = file[v].turns
        BY <2>1 DEF ConversationsIInv, ConversationsTypeOK
      <4>3. told' = told /\ dropped' = dropped
        BY <1>1
      <4> QED BY <3>1, <3>3, <4>1, <4>2, <4>3, AgentKeepsStep
    <3>8. listing["chat"].state # "cut"
      BY <3>1 DEF ConversationsIInv, ListKept, At
    <3>9. listing["agent"].state = "whole" /\ \A v \in AgentConvs : file[v].state # "cut"
             /\ listing["agent"].count[v] = Len(file[v].turns)
      BY <3>1 DEF ConversationsIInv, AgentsKept
    <3> QED BY <2>1, <3>5, <3>6, <3>7, <3>8, <3>9
  <2>3. listing' \in [Stores -> [state : {"whole", "cut"}, count : [Convs -> Nat]]]
    BY <2>1 DEF ConversationsIInv, ConversationsTypeOK
  <2>4. alone /\ listing'["chat"].state = "whole" =>
           \A p \in told \ dropped : Conv(p) \in ChatConvs => listing'["chat"].count[Conv(p)] > 0
    BY <2>1 DEF ConversationsIInv, ListKept, Covers
  <2>5. listing'["agent"].state = "whole" =>
           \A p \in told \ dropped : Conv(p) \in AgentConvs => listing'["agent"].count[Conv(p)] > 0
    BY <2>1 DEF ConversationsIInv, AgentsKept
  <2>6. /\ file' \in [Convs -> [state : {"absent", "whole", "cut"}, turns : Seq(Requests)]]
        /\ \A w \in Convs : (file'[w].state = "whole") <=> (file'[w].turns # <<>>)
        /\ TurnsFine
    BY <2>1, SameFiles
  <2> QED BY <1>1, <1>2, <1>3, <2>2, <2>3, <2>4, <2>5, <2>6, TornStep
<1>5. ASSUME NEW r \in Requests, At(r, "answered"), Conv(r) \in AgentConvs,
             \/ file' = [file EXCEPT ![Conv(r)] = Cut] /\ UNCHANGED listing
             \/ /\ file' = [file EXCEPT ![Conv(r)] = Whole(Stored(r))]
                /\ listing' \in {listing, [listing EXCEPT !["agent"] = EmptyList]}
      PROVE  ConversationsIInv'
  <2>1. torn' = TRUE
    BY <1>3, <1>5 DEF Active, At
  <2>2. /\ Conv(r) \in Convs /\ request[r].op = "turn"
        /\ Stored(r) \in Seq(Requests) /\ Stored(r) # <<>>
        /\ \A q \in Range(Stored(r)) : q = r \/ (q \in Requests /\ Wrote(q, Conv(r)))
    <3>1. PICK u : u = Conv(r)
      OBVIOUS
    <3>2. /\ u \in Convs /\ request[r].op = "turn" /\ Stored(r) \in Seq(Requests) /\ Stored(r) # <<>>
          /\ \A q \in Range(request[r].base) : q \in Requests /\ Wrote(q, u)
          /\ \A q \in TurnsIn(u) : q \in Requests /\ Wrote(q, u)
          /\ request[r].short => Range(Stored(r)) = Range(request[r].base) \cup {r}
          /\ ~request[r].short => Range(Stored(r)) = TurnsIn(u) \cup {r}
      BY <1>5, <3>1, StoredFits
    <3> QED BY <3>1, <3>2
  <2>5. PICK m : /\ file' = [file EXCEPT ![Conv(r)] = m]
                 /\ m \in [state : {"absent", "whole", "cut"}, turns : Seq(Requests)]
                 /\ (m.state = "whole") <=> (m.turns # <<>>)
                 /\ \A q \in Range(m.turns) : q = r \/ (q \in Requests /\ Wrote(q, Conv(r)))
    <3>1. Cut \in [state : {"absent", "whole", "cut"}, turns : Seq(Requests)]
          /\ Cut.state = "cut" /\ Cut.turns = <<>> /\ Range(Cut.turns) = {}
      BY NoTurns DEF Cut
    <3>2. /\ Whole(Stored(r)) \in [state : {"absent", "whole", "cut"}, turns : Seq(Requests)]
          /\ Whole(Stored(r)).state = "whole" /\ Whole(Stored(r)).turns = Stored(r)
      BY <2>2 DEF Whole
    <3> QED BY <1>5, <2>2, <3>1, <3>2
  <2>6. /\ file' \in [Convs -> [state : {"absent", "whole", "cut"}, turns : Seq(Requests)]]
        /\ \A w \in Convs : (file'[w].state = "whole") <=> (file'[w].turns # <<>>)
        /\ TurnsFine
    <3>1. PICK u \in Convs : u = Conv(r)
      BY <2>2
    <3>2. Wrote(r, u)'
      <4>1. request'[r].op = "turn" /\ request'[r].conv = u /\ request'[r].pc = "ended"
        BY <1>2, <1>5, <2>2, <3>1 DEF At, Conv
      <4> QED BY <4>1 DEF Wrote, Conv
    <3>3. \A q \in Range(m.turns) : q \in Requests /\ (Wrote(q, u) \/ Wrote(q, u)')
      BY <2>5, <3>1, <3>2
    <3>4. file' = [file EXCEPT ![u] = m]
      BY <2>5, <3>1
    <3> QED BY <2>5, <3>3, <3>4, OneFile
  <2>7. /\ listing' \in [Stores -> [state : {"whole", "cut"}, count : [Convs -> Nat]]]
        /\ listing'["chat"] = listing["chat"]
        /\ listing'["agent"] = listing["agent"] \/ listing'["agent"].state = "cut"
    <3>1. EmptyList \in [state : {"whole", "cut"}, count : [Convs -> Nat]] /\ EmptyList.state = "cut"
      BY DEF EmptyList
    <3>2. listing' = listing \/ listing' = [listing EXCEPT !["agent"] = EmptyList]
      BY <1>5
    <3> QED BY <3>1, <3>2 DEF ConversationsIInv, ConversationsTypeOK, Stores
  <2>8. alone /\ listing'["chat"].state = "whole" =>
           \A p \in told \ dropped : Conv(p) \in ChatConvs => listing'["chat"].count[Conv(p)] > 0
    BY <2>7 DEF ConversationsIInv, ListKept, Covers
  <2>9. listing'["agent"].state = "whole" =>
           \A p \in told \ dropped : Conv(p) \in AgentConvs => listing'["agent"].count[Conv(p)] > 0
    BY <2>7 DEF ConversationsIInv, AgentsKept
  <2> QED BY <1>1, <1>2, <2>1, <2>6, <2>7, <2>8, <2>9, TornStep
<1> QED BY <1>4, <1>5 DEF Crash, disk

\* A request begins: what its record must be, and what follows whatever else it does.
TurnBegins(r) ==
    /\ At(r, "new") /\ Others(r)
    /\ request' \in [Requests -> {New} \cup Asked] /\ request'[r] \in Asked
    /\ request'[r].pc \in {"answering", "unlinked", "ended"}
    /\ (request'[r].op = "visit") <=> (request'[r].conv = "none")
    /\ request'[r].op = "delete" => request'[r].pc \in {"unlinked", "ended"}
    /\ request'[r].pc = "unlinked" => request'[r].op = "delete" /\ request'[r].conv \in ChatConvs
    /\ ~request'[r].short /\ request'[r].base = <<>>
    /\ \A q \in Range(request'[r].hist) : q \in Requests /\ Wrote(q, request'[r].conv)
    /\ TurnsFine /\ DroppedFine /\ told' = told /\ evaluated' = evaluated /\ (alone' => alone)
    /\ alone' /\ request'[r].op # "visit" /\ request'[r].pc # "ended" =>
          \A q \in Requests : Works(q) => StoreOf(Conv(q)) # StoreOf(request'[r].conv)

LEMMA FreshRest ==
    ASSUME ConversationsAssumption, ConversationsIInv, NEW r \in Requests, TurnBegins(r)
    PROVE  /\ Forward /\ PhasesFit' /\ TurnsFit' /\ Alone' /\ EvaluatedIsTold'
           /\ r \notin told /\ r \notin dropped
           /\ \A q \in told : q \in Requests /\ q # r /\ ~At(q, "new") /\ request'[q] = request[q]
           /\ \A q \in Requests : request[q].pc \in Writing => request'[q] = request[q]
<1> USE DEF TurnBegins
<1>1. \A q \in Requests : q # r => request'[q] = request[q]
  BY DEF Others
<1>2. r \notin told /\ r \notin dropped /\ r \notin evaluated
  <2>1. r \notin told /\ r \notin dropped
    BY DEF ConversationsIInv, TurnsFit, Wrote, At
  <2>2. ~Visits(r)
    BY RequestFields DEF ConversationsIInv, Visits
  <2> QED BY <2>1, <2>2 DEF ConversationsIInv, EvaluatedIsTold
<1>3. Forward
  BY <1>1 DEF Forward, At
<1>4. PhasesFit'
  <2>1. ASSUME NEW q \in Requests, q # r, request[q].pc # "new"
        PROVE  /\ Visits(q) <=> Conv(q) = "none"
               /\ request[q].pc \in Writing => Conv(q) \in ChatConvs
               /\ request[q].op = "delete" => request[q].pc \in {"unlinked", "listed", "listing", "ended"}
               /\ At(q, "unlinked") => request[q].op = "delete"
               /\ At(q, "answering") => ~request[q].short
               /\ request[q].pc \in {"listed", "listing"} => request[q].copy \in [Convs -> Nat]
               /\ At(q, "done") => Visits(q) \/ q \in told
    BY <2>1 DEF ConversationsIInv, PhasesFit, At
  <2>2. request'[r].pc \in Writing => request'[r].pc = "unlinked"
    BY DEF Writing
  <2> QED BY <1>1, <2>1, <2>2 DEF PhasesFit, At, Visits, Conv
<1>5. TurnsFit'
  <2>1. BasesFine
    <3>1. Range(request'[r].base) \subseteq Range(request'[r].hist)
      BY NoTurns
    <3>2. \A q \in Requests : q # r /\ request'[q].pc # "new" =>
             ~At(q, "new") /\ Range(request'[q].base) \subseteq Range(request[q].hist)
      BY <1>1 DEF ConversationsIInv, TurnsFit, At
    <3> QED BY <3>1, <3>2 DEF BasesFine
  <2>2. ToldFine
    BY DEF ConversationsIInv, ConversationsTypeOK, ToldFine
  <2> QED BY <1>3, <2>1, <2>2, TurnsFitStep DEF ConversationsIInv
<1>6. Alone'
  <2>1. \A q \in Requests : q # r => (Works(q)' <=> Works(q)) /\ request'[q].conv = Conv(q)
    BY <1>1 DEF Works, Active, Visits, Conv
  <2>2. Works(r)' => request'[r].op # "visit" /\ request'[r].pc # "ended"
    BY DEF Works, Active, Visits
  <2> QED BY <2>1, <2>2 DEF ConversationsIInv, Alone, Conv
<1>7. EvaluatedIsTold'
  BY <1>1, <1>2 DEF ConversationsIInv, ConversationsTypeOK, EvaluatedIsTold, Visits
<1>8. \A q \in told : q \in Requests /\ q # r /\ ~At(q, "new") /\ request'[q] = request[q]
  BY <1>1, <1>2 DEF ConversationsIInv, ConversationsTypeOK, TurnsFit, At
<1>9. \A q \in Requests : request[q].pc \in Writing => request'[q] = request[q]
  BY <1>1 DEF Writing, At
<1> QED BY <1>2, <1>3, <1>4, <1>5, <1>6, <1>7, <1>8, <1>9

\* A request begins and nothing that is stored changes.
LEMMA BeginStep ==
    ASSUME ConversationsAssumption, ConversationsIInv, NEW r \in Requests, At(r, "new"), NEW x \in Asked,
           request' = [request EXCEPT ![r] = x], x.pc \in {"answering", "ended"}, x.op # "delete",
           (x.op = "visit") <=> (x.conv = "none"), ~x.short, x.base = <<>>,
           \A q \in Range(x.hist) : q \in Requests /\ Wrote(q, x.conv),
           x.op = "turn" => x.conv \in Convs /\ x.hist = file[x.conv].turns,
           UNCHANGED <<disk, crashes, told, evaluated, dropped, torn>>,
           alone' = alone \/ alone' = (alone /\ ~Overlaps(x.conv)),
           x.op = "turn" => alone' = (alone /\ ~Overlaps(x.conv))
    PROVE  ConversationsIInv'
<1>1. Others(r) /\ request'[r] = x /\ request' \in [Requests -> {New} \cup Asked]
  BY BecomesRecord DEF ConversationsIInv
<1>2. UNCHANGED <<file, listing, crashes, told, evaluated, dropped, torn>>
  BY DEF disk
<1>3. alone' \in BOOLEAN /\ (alone' => alone)
  <2>1. CASE alone' = alone
    BY <2>1 DEF ConversationsIInv, ConversationsTypeOK
  <2>2. CASE alone' = (alone /\ ~Overlaps(x.conv))
    BY <2>2
  <2> QED BY <2>1, <2>2
<1>4. x.op \in {"turn", "visit"}
  BY DEF Asked
<1>5. alone' /\ request'[r].op # "visit" =>
         \A q \in Requests : Works(q) => StoreOf(Conv(q)) # StoreOf(request'[r].conv)
  BY <1>1, <1>4 DEF Overlaps, Works
<1>6. TurnsFine /\ DroppedFine
  BY <1>2, SameFiles DEF ConversationsIInv, ConversationsTypeOK, TurnsFit, DroppedFine
<1>7. /\ Forward /\ PhasesFit' /\ TurnsFit' /\ Alone' /\ EvaluatedIsTold'
      /\ \A q \in told : q \in Requests /\ q # r /\ ~At(q, "new") /\ request'[q] = request[q]
      /\ \A q \in Requests : request[q].pc \in Writing => request'[q] = request[q]
  <2>1. TurnBegins(r)
    BY <1>1, <1>2, <1>3, <1>5, <1>6 DEF TurnBegins
  <2> QED BY <2>1, FreshRest
<1>8. ConversationsTypeOK'
  BY <1>1, <1>2, <1>3 DEF ConversationsIInv, ConversationsTypeOK
<1>9. \A q \in Requests : q # r => request'[q] = request[q]
  BY <1>1 DEF Others
<1>10. request[r].pc = "new" /\ request[r].op = "none"
  BY RequestFields DEF ConversationsIInv, At
<1>11. \A v : Kept(v)' = Kept(v) /\ TurnsIn(v)' = TurnsIn(v)
  BY <1>2, <1>7 DEF Kept, TurnsIn, Conv
<1>12. MessagesKept'
  <2> SUFFICES ASSUME alone, ~torn, NEW w \in Convs
               PROVE  /\ (\A q \in Requests : ~SavesTurn(q, w)' /\ ~StoredTurn(q, w)') =>
                            TurnsIn(w)' = Kept(w)' /\ file'[w].state # "cut"
                      /\ \A q \in Requests :
                            /\ SavesTurn(q, w)' => Range(request'[q].hist) = Kept(w)'
                            /\ StoredTurn(q, w)' => TurnsIn(w)' = Kept(w)' \cup {q} /\ q \notin dropped'
                            /\ request'[q].op = "turn" /\ request'[q].pc \in {"answering", "answered"} /\ request'[q].conv = w =>
                                  request'[q].hist = file'[w].turns
    BY <1>2, <1>3 DEF MessagesKept, Conv
  <2>1. \A q \in Requests :
           /\ (SavesTurn(q, w)' <=> SavesTurn(q, w)) /\ (StoredTurn(q, w)' <=> StoredTurn(q, w))
           /\ SavesTurn(q, w) => q # r
    BY <1>1, <1>9, <1>10 DEF SavesTurn, StoredTurn, At, Conv
  <2>2. /\ (\A q \in Requests : ~SavesTurn(q, w) /\ ~StoredTurn(q, w)) =>
               TurnsIn(w) = Kept(w) /\ file[w].state # "cut"
        /\ \A q \in Requests :
               /\ SavesTurn(q, w) => Range(request[q].hist) = Kept(w)
               /\ StoredTurn(q, w) => TurnsIn(w) = Kept(w) \cup {q} /\ q \notin dropped
               /\ request[q].op = "turn" /\ request[q].pc \in {"answering", "answered"} /\ request[q].conv = w =>
                     request[q].hist = file[w].turns
    BY DEF ConversationsIInv, MessagesKept, Conv
  <2>3. file' = file /\ dropped' = dropped
    BY <1>2
  <2>4. \A q \in Requests :
           request'[q].op = "turn" /\ request'[q].pc \in {"answering", "answered"} /\ request'[q].conv = w =>
              request'[q].hist = file'[w].turns
    BY <1>1, <1>9, <2>2, <2>3
  <2>5. \A q \in Requests : SavesTurn(q, w) => request'[q].hist = request[q].hist
    BY <1>9, <2>1
  <2> QED BY <1>11, <2>1, <2>2, <2>3, <2>4, <2>5
<1>13. CountsKept'
  <2>1. request[r].pc \notin Writing /\ request'[r].pc \notin Writing
    BY <1>1, <1>10 DEF Writing
  <2>2. \A q \in Requests : request'[q].pc \in Writing <=> request[q].pc \in Writing
    BY <1>9, <2>1
  <2>3. \A q \in Requests : request'[q].pc \in Writing => request'[q] = request[q]
    BY <1>9, <2>1
  <2> QED BY <1>2, <1>3, <2>2, <2>3 DEF ConversationsIInv, CountsKept, Writing, At, Lists, Conv, Count
<1>14. ListKept'
  <2>1. \A q \in told : request'[q].conv = Conv(q)
    BY <1>7 DEF Conv
  <2>2. \A q \in Requests :
           /\ Lists(q)' => Lists(q) /\ request'[q] = request[q]
           /\ request'[q].op = "delete" => request'[q] = request[q]
           /\ At(q, "listing") => At(q, "listing")'
    BY <1>1, <1>9, <1>10 DEF Lists, At
  <2>3. ASSUME alone, NEW q \in Requests
        PROVE  /\ Lists(q) => /\ \A p \in told \ dropped : Conv(p) \in ChatConvs => request[q].copy[Conv(p)] > 0
                              /\ request[q].op = "turn" => request[q].copy[Conv(q)] > 0
               /\ request[q].op = "delete" /\ Active(q) => \A p \in told : Conv(p) = Conv(q) => p \in dropped
    BY <2>3 DEF ConversationsIInv, ListKept, Covers
  <2>4. ASSUME alone, NEW q \in Requests
        PROVE  /\ Lists(q)' => /\ \A p \in told \ dropped : request'[p].conv \in ChatConvs =>
                                                                     request'[q].copy[request'[p].conv] > 0
                               /\ request'[q].op = "turn" => request'[q].copy[request'[q].conv] > 0
               /\ request'[q].op = "delete" /\ Active(q)' =>
                     \A p \in told : request'[p].conv = request'[q].conv => p \in dropped
    <3>1. CASE request'[q] = request[q]
      BY <2>1, <2>2, <2>3, <2>4, <3>1 DEF Conv, Active
    <3>2. CASE request'[q] # request[q]
      BY <2>2, <3>2
    <3> QED BY <3>1, <3>2
  <2>5. alone /\ listing["chat"].state = "whole" =>
           \A p \in told \ dropped : request'[p].conv \in ChatConvs => listing["chat"].count[request'[p].conv] > 0
    BY <2>1 DEF ConversationsIInv, ListKept, Covers
  <2>6. ~torn /\ listing["chat"].state = "cut" => \E q \in Requests : At(q, "listing")'
    BY <2>2 DEF ConversationsIInv, ListKept
  <2> QED BY <1>2, <1>3, <2>4, <2>5, <2>6 DEF ListKept, Covers, Conv
<1>15. AgentsKept'
  BY <1>2, <1>7 DEF ConversationsIInv, AgentsKept, Conv
<1>16. AgentKeeps'
  <2>1. \A q \in Requests : ~At(q, "new") =>
           request'[q].pc # "new" /\ request'[q].conv = request[q].conv /\ (request[q].short => request'[q].short)
    BY <1>9 DEF At
  <2>2. \A q \in told : q \in Requests /\ ~At(q, "new")
    BY <1>7
  <2>3. \A w \in AgentConvs : file'[w].turns = file[w].turns
    BY <1>2
  <2> QED BY <1>2, <2>1, <2>2, <2>3, AgentKeepsStep DEF ConversationsIInv
<1> QED BY <1>7, <1>8, <1>12, <1>13, <1>14, <1>15, <1>16 DEF ConversationsIInv

LEMMA BeginTurnStep ==
    ASSUME ConversationsAssumption, ConversationsIInv, NEW r \in Requests, NEW v \in Convs, BeginTurn(r, v)
    PROVE  ConversationsIInv'
<1> DEFINE x == [op |-> "turn", conv |-> v, hist |-> file[v].turns, base |-> <<>>, short |-> FALSE,
                 copy |-> <<>>, pc |-> IF file[v].state = "cut" THEN "ended" ELSE "answering"]
<1>1. At(r, "new") /\ request' = [request EXCEPT ![r] = x] /\ alone' = (alone /\ ~Overlaps(v))
      /\ UNCHANGED <<disk, crashes, told, evaluated, dropped, torn>>
  BY DEF BeginTurn
<1>2. file[v].turns \in Seq(Requests) /\ \A q \in TurnsIn(v) : q \in Requests /\ Wrote(q, v)
  BY DEF ConversationsIInv, ConversationsTypeOK, TurnsFit, TurnsIn, Range
<1>3. /\ x \in Asked /\ x.pc \in {"answering", "ended"} /\ x.op = "turn" /\ x.conv = v /\ v # "none"
      /\ ~x.short /\ x.base = <<>> /\ x.hist = file[v].turns /\ Range(x.hist) = TurnsIn(v)
  BY <1>2, NoTurns DEF Asked, Pcs, TurnsIn, ConversationsAssumption, Convs
<1> HIDE DEF x
<1> QED BY <1>1, <1>2, <1>3, BeginStep

LEMMA VisitStep ==
    ASSUME ConversationsAssumption, ConversationsIInv, NEW r \in Requests, Visit(r)
    PROVE  ConversationsIInv'
<1> DEFINE x == [op |-> "visit", conv |-> "none", hist |-> <<>>, base |-> <<>>, short |-> FALSE,
                 copy |-> <<>>, pc |-> "answering"]
<1>1. At(r, "new") /\ request' = [request EXCEPT ![r] = x] /\ alone' = alone
      /\ UNCHANGED <<disk, crashes, told, evaluated, dropped, torn>>
  BY DEF Visit
<1>2. /\ x \in Asked /\ x.pc \in {"answering", "ended"} /\ x.op = "visit" /\ x.conv = "none"
      /\ ~x.short /\ x.base = <<>> /\ Range(x.hist) = {}
  BY NoTurns DEF Asked, Pcs
<1> HIDE DEF x
<1> QED BY <1>1, <1>2, BeginStep

\* A conversation is deleted: its file is removed and what was told of it is given up.
Deletes(r, v) ==
    /\ At(r, "new") /\ Others(r) /\ request' \in [Requests -> {New} \cup Asked] /\ request'[r] \in Asked
    /\ request'[r].op = "delete" /\ request'[r].conv = v
    /\ request'[r].pc = "ended" \/ (request'[r].pc = "unlinked" /\ v \in ChatConvs)
    /\ request'[r].hist = <<>> /\ request'[r].base = <<>> /\ ~request'[r].short
    /\ file' = [file EXCEPT ![v] = Absent]
    /\ dropped' = dropped \cup {q \in told : Conv(q) = v}
    /\ alone' = (alone /\ ~Overlaps(v))
    /\ listing' \in [Stores -> [state : {"whole", "cut"}, count : [Convs -> Nat]]]
    /\ UNCHANGED <<crashes, told, evaluated, torn>>

LEMMA DeleteRest ==
    ASSUME ConversationsAssumption, ConversationsIInv, NEW r \in Requests, NEW v \in Convs, Deletes(r, v)
    PROVE  /\ ConversationsTypeOK' /\ PhasesFit' /\ TurnsFit' /\ Alone' /\ MessagesKept' /\ EvaluatedIsTold'
           /\ (alone' => alone)
           /\ \A q \in told : q \in Requests /\ q # r /\ ~At(q, "new") /\ request'[q] = request[q]
           /\ \A q \in Requests : request[q].pc \in Writing => request'[q] = request[q]
           /\ alone' => \A q \in Requests : Works(q) => StoreOf(Conv(q)) # StoreOf(v)
           /\ file'[v] = Absent /\ \A w \in Convs : w # v => file'[w] = file[w]
<1> USE DEF Deletes
<1>2. /\ Absent \in [state : {"absent", "whole", "cut"}, turns : Seq(Requests)]
      /\ Absent.state = "absent" /\ Absent.turns = <<>> /\ Range(Absent.turns) = {}
  BY NoTurns DEF Absent
<1>3. /\ file' \in [Convs -> [state : {"absent", "whole", "cut"}, turns : Seq(Requests)]]
      /\ \A w \in Convs : (file'[w].state = "whole") <=> (file'[w].turns # <<>>)
      /\ TurnsFine
      /\ file'[v] = Absent /\ \A w \in Convs : w # v => file'[w] = file[w]
  BY <1>2, OneFile
<1>4. alone' \in BOOLEAN /\ (alone' => alone)
  OBVIOUS
<1>5. alone' => \A q \in Requests : Works(q) => StoreOf(Conv(q)) # StoreOf(v)
  BY DEF Overlaps, Works
<1>6. DroppedFine
  BY DEF ConversationsIInv, ConversationsTypeOK, TurnsFit, DroppedFine
<1>7. v # "none" /\ Range(request'[r].hist) = {}
  BY NoTurns DEF ConversationsAssumption, Convs
<1>13. TurnBegins(r)
  BY <1>3, <1>4, <1>5, <1>6, <1>7 DEF TurnBegins
<1> HIDE DEF Deletes
<1>8. /\ Forward /\ PhasesFit' /\ TurnsFit' /\ Alone' /\ EvaluatedIsTold'
      /\ \A q \in told : q \in Requests /\ q # r /\ ~At(q, "new") /\ request'[q] = request[q]
      /\ \A q \in Requests : request[q].pc \in Writing => request'[q] = request[q]
  BY <1>13, FreshRest
<1> USE DEF Deletes
<1>9. ConversationsTypeOK'
  <2>1. dropped' \subseteq Requests
    BY DEF ConversationsIInv, ConversationsTypeOK
  <2> QED BY <1>3, <1>4, <2>1 DEF ConversationsIInv, ConversationsTypeOK
<1>10. \A q \in Requests : q # r => request'[q] = request[q]
  BY DEF Others
<1>11. request[r].pc = "new"
  BY DEF At
<1>12. MessagesKept'
  <2> SUFFICES ASSUME alone', ~torn, NEW w \in Convs
               PROVE  /\ (\A q \in Requests : ~SavesTurn(q, w)' /\ ~StoredTurn(q, w)') =>
                            TurnsIn(w)' = Kept(w)' /\ file'[w].state # "cut"
                      /\ \A q \in Requests :
                            /\ SavesTurn(q, w)' => Range(request'[q].hist) = Kept(w)'
                            /\ StoredTurn(q, w)' => TurnsIn(w)' = Kept(w)' \cup {q} /\ q \notin dropped'
                            /\ request'[q].op = "turn" /\ request'[q].pc \in {"answering", "answered"} /\ request'[q].conv = w =>
                                  request'[q].hist = file'[w].turns
    BY DEF MessagesKept, Conv
  <2>1. alone
    BY <1>4
  <2>2. \A q \in Requests :
           /\ (SavesTurn(q, w)' <=> SavesTurn(q, w)) /\ (StoredTurn(q, w)' <=> StoredTurn(q, w))
           /\ SavesTurn(q, w) => q # r /\ Works(q) /\ Conv(q) = w
           /\ StoredTurn(q, w) => q # r /\ Works(q) /\ Conv(q) = w
    <3>1. ASSUME NEW q \in Requests, q # r
          PROVE  (SavesTurn(q, w)' <=> SavesTurn(q, w)) /\ (StoredTurn(q, w)' <=> StoredTurn(q, w))
      BY <1>10, <3>1 DEF SavesTurn, StoredTurn, At, Conv
    <3>2. ~SavesTurn(r, w) /\ ~StoredTurn(r, w) /\ ~SavesTurn(r, w)' /\ ~StoredTurn(r, w)'
      BY <1>11 DEF SavesTurn, StoredTurn, At, Conv
    <3>3. ASSUME NEW q \in Requests, SavesTurn(q, w) PROVE Works(q) /\ Conv(q) = w
      <4>1. request[q].pc = "saving" /\ Conv(q) = w /\ w # "none" /\ ~At(q, "new")
        BY <3>3 DEF SavesTurn, At, ConversationsAssumption, Convs
      <4> QED BY <4>1 DEF Works, Active, ConversationsIInv, PhasesFit
    <3>4. ASSUME NEW q \in Requests, StoredTurn(q, w) PROVE Works(q) /\ Conv(q) = w
      BY <3>4 DEF StoredTurn, Works, Active, Visits
    <3> QED BY <3>1, <3>2, <3>3, <3>4
  <2>3. /\ (\A q \in Requests : ~SavesTurn(q, w) /\ ~StoredTurn(q, w)) =>
               TurnsIn(w) = Kept(w) /\ file[w].state # "cut"
        /\ \A q \in Requests :
               /\ SavesTurn(q, w) => Range(request[q].hist) = Kept(w)
               /\ StoredTurn(q, w) => TurnsIn(w) = Kept(w) \cup {q} /\ q \notin dropped
               /\ request[q].op = "turn" /\ request[q].pc \in {"answering", "answered"} /\ request[q].conv = w =>
                     request[q].hist = file[w].turns
    BY <2>1 DEF ConversationsIInv, MessagesKept, Conv
  <2>4. \A q \in told : request'[q].conv = Conv(q)
    BY <1>8 DEF Conv
  <2>5. CASE w = v
    <3>1. \A q \in Requests : ~SavesTurn(q, w)' /\ ~StoredTurn(q, w)'
      BY <1>5, <2>2, <2>5
    <3>2. Kept(w)' = {}
      BY <2>4, <2>5 DEF Kept, Conv
    <3>3. TurnsIn(w)' = {} /\ file'[w].state # "cut"
      BY <1>2, <1>3, <2>5 DEF TurnsIn
    <3>4. ASSUME NEW q \in Requests, request'[q].op = "turn", request'[q].pc \in {"answering", "answered"}, request'[q].conv = w
          PROVE  FALSE
      <4>1. q # r
        BY <3>4
      <4>2. Works(q) /\ Conv(q) = w
        BY <1>10, <3>4, <4>1 DEF Works, Active, Visits, Conv
      <4> QED BY <1>5, <2>5, <4>2
    <3> QED BY <3>1, <3>2, <3>3, <3>4
  <2>6. CASE w # v
    <3>1. Kept(w)' = Kept(w)
      BY <2>4, <2>6 DEF Kept, Conv
    <3>2. file'[w] = file[w] /\ TurnsIn(w)' = TurnsIn(w)
      BY <1>3, <2>6 DEF TurnsIn
    <3>3. \A q \in Requests : StoredTurn(q, w) => q \notin dropped'
      <4> SUFFICES ASSUME NEW q \in Requests, StoredTurn(q, w) PROVE q \notin dropped'
        OBVIOUS
      <4>1. q \notin dropped
        BY <2>3
      <4>2. q \notin told
        BY DEF StoredTurn, ConversationsIInv, TurnsFit
      <4> QED BY <4>1, <4>2
    <3>4. \A q \in Requests : SavesTurn(q, w) => request'[q].hist = request[q].hist
      BY <1>10, <2>2
    <3>5. \A q \in Requests :
             request'[q].op = "turn" /\ request'[q].pc \in {"answering", "answered"} /\ request'[q].conv = w =>
                request'[q].hist = file'[w].turns
      BY <1>10, <2>3, <3>2
    <3> QED BY <2>2, <2>3, <3>1, <3>2, <3>3, <3>4, <3>5
  <2> QED BY <2>5, <2>6
<1> QED BY <1>3, <1>4, <1>5, <1>8, <1>9, <1>12

LEMMA BeginDeleteStep ==
    ASSUME ConversationsAssumption, ConversationsIInv, NEW r \in Requests, NEW v \in Convs, BeginDelete(r, v)
    PROVE  ConversationsIInv'
<1> DEFINE x == [op |-> "delete", conv |-> v, pc |-> "unlinked", hist |-> <<>>,
                 base |-> <<>>, short |-> FALSE, copy |-> <<>>]
<1>1. /\ At(r, "new") /\ v \in ChatConvs /\ v \notin AgentConvs /\ request' = [request EXCEPT ![r] = x]
      /\ file' = [file EXCEPT ![v] = Absent]
      /\ dropped' = dropped \cup {q \in told : Conv(q) = v}
      /\ alone' = (alone /\ ~Overlaps(v))
      /\ UNCHANGED <<listing, crashes, told, evaluated, torn>>
  BY DEF BeginDelete, ConversationsAssumption
<1>2. /\ x \in Asked /\ x.op = "delete" /\ x.conv = v /\ x.pc = "unlinked"
      /\ x.hist = <<>> /\ x.base = <<>> /\ ~x.short
  BY NoTurns DEF Asked, Pcs, Convs
<1> HIDE DEF x
<1>3. listing' \in [Stores -> [state : {"whole", "cut"}, count : [Convs -> Nat]]]
  BY <1>1 DEF ConversationsIInv, ConversationsTypeOK
<1>4. /\ ConversationsTypeOK' /\ PhasesFit' /\ TurnsFit' /\ Alone' /\ MessagesKept' /\ EvaluatedIsTold'
      /\ Others(r) /\ request'[r] = x /\ (alone' => alone)
      /\ \A q \in told : q \in Requests /\ q # r /\ ~At(q, "new") /\ request'[q] = request[q]
      /\ \A q \in Requests : request[q].pc \in Writing => request'[q] = request[q]
      /\ alone' => \A q \in Requests : Works(q) => StoreOf(Conv(q)) # StoreOf(v)
      /\ file'[v] = Absent /\ \A w \in Convs : w # v => file'[w] = file[w]
  <2>1. Others(r) /\ request'[r] = x /\ request' \in [Requests -> {New} \cup Asked]
    BY <1>1, <1>2, BecomesRecord DEF ConversationsIInv
  <2>2. /\ At(r, "new") /\ file' = [file EXCEPT ![v] = Absent]
        /\ dropped' = dropped \cup {q \in told : Conv(q) = v} /\ alone' = (alone /\ ~Overlaps(v))
        /\ UNCHANGED <<crashes, told, evaluated, torn>>
    BY <1>1
  <2>3. /\ ConversationsTypeOK' /\ PhasesFit' /\ TurnsFit' /\ Alone' /\ MessagesKept' /\ EvaluatedIsTold'
        /\ (alone' => alone)
        /\ \A q \in told : q \in Requests /\ q # r /\ ~At(q, "new") /\ request'[q] = request[q]
        /\ \A q \in Requests : request[q].pc \in Writing => request'[q] = request[q]
        /\ alone' => \A q \in Requests : Works(q) => StoreOf(Conv(q)) # StoreOf(v)
        /\ file'[v] = Absent /\ \A w \in Convs : w # v => file'[w] = file[w]
    <3>1. Deletes(r, v)
      BY <1>1, <1>2, <1>3, <2>1, <2>2 DEF Deletes
    <3> QED BY <3>1, DeleteRest
  <2> QED BY <2>1, <2>3
<1>5. \A q \in Requests : q # r => request'[q] = request[q]
  BY <1>4 DEF Others
<1>6. alone' => \A q \in Requests : request[q].pc \notin Writing /\ (request[q].op = "delete" => ~Active(q))
  <2> SUFFICES ASSUME alone', NEW q \in Requests, request[q].pc \in Writing \/ (request[q].op = "delete" /\ Active(q))
               PROVE  FALSE
    OBVIOUS
  <2>1. request[q].pc \in Writing
    BY DEF ConversationsIInv, PhasesFit, Active, At, Writing
  <2>2. Works(q) /\ Conv(q) \in ChatConvs
    BY <2>1, WriterFits
  <2> QED BY <1>1, <1>4, <2>2 DEF StoreOf
<1>7. \A q \in told : request'[q].conv = Conv(q)
  BY <1>4 DEF Conv
<1>8. CountsKept'
  <2> SUFFICES ASSUME alone', ~torn PROVE CountsKept'
    BY <1>1 DEF CountsKept
  <2>1. \A w \in ChatConvs : listing["chat"].count[w] = Len(file[w].turns)
    BY <1>4, <1>6 DEF ConversationsIInv, CountsKept
  <2>2. \A q \in Requests : q # r => request'[q].pc \notin Writing
    BY <1>5, <1>6
  <2>3. \A w \in ChatConvs : w # v => listing'["chat"].count[w] = Len(file'[w].turns)
    BY <1>1, <1>4, <2>1 DEF Convs
  <2>4. request'[r].pc = "unlinked" /\ request'[r].conv = v /\ file'[v] = Absent
    BY <1>2, <1>4
  <2> QED BY <2>2, <2>3, <2>4 DEF CountsKept, Writing, At, Lists, Conv
<1>9. ListKept'
  <2>1. ASSUME ~torn, listing["chat"].state = "cut" PROVE \E q \in Requests : At(q, "listing")'
    <3>1. PICK q \in Requests : At(q, "listing")
      BY <2>1 DEF ConversationsIInv, ListKept
    <3> QED BY <1>4, <3>1 DEF At, Writing
  <2>2. alone' /\ listing["chat"].state = "whole" =>
           \A p \in told \ dropped' : request'[p].conv \in ChatConvs => listing["chat"].count[request'[p].conv] > 0
    BY <1>1, <1>4, <1>7 DEF ConversationsIInv, ListKept, Covers
  <2>3. alone' => \A q \in Requests : ~Lists(q)'
    <3>1. ~Lists(r)'
      BY <1>2, <1>4 DEF Lists
    <3> QED BY <1>5, <1>6, <3>1 DEF Lists, Writing
  <2>4. alone' => \A q \in Requests : request'[q].op = "delete" /\ Active(q)' => q = r
    BY <1>5, <1>6 DEF Active
  <2>5. \A p \in told : request'[p].conv = request'[r].conv => p \in dropped'
    BY <1>1, <1>2, <1>4, <1>7
  <2> QED BY <1>1, <2>1, <2>2, <2>3, <2>4, <2>5 DEF ListKept, Covers, Conv
<1>10. \A w \in AgentConvs : file'[w] = file[w]
  BY <1>1, <1>4 DEF Convs
<1>11. AgentsKept'
  BY <1>1, <1>7, <1>10 DEF ConversationsIInv, AgentsKept, Conv
<1>12. AgentKeeps'
  <2>1. \A q \in Requests : ~At(q, "new") =>
           request'[q].pc # "new" /\ request'[q].conv = request[q].conv /\ (request[q].short => request'[q].short)
    BY <1>1, <1>5 DEF At
  <2>2. \A q \in told : q \in Requests /\ ~At(q, "new")
    BY <1>4
  <2>3. \A w \in AgentConvs : file'[w].turns = file[w].turns
    BY <1>10
  <2> QED BY <1>1, <2>1, <2>2, <2>3, AgentKeepsStep DEF ConversationsIInv
<1> QED BY <1>4, <1>8, <1>9, <1>11, <1>12 DEF ConversationsIInv

\* An agent's step leaves what is known of a project's files and list.
LEMMA ChatUntouched ==
    ASSUME ConversationsAssumption, ConversationsIInv, NEW r \in Requests, Others(r),
           request[r].pc \notin Writing, request'[r].pc \notin Writing,
           request[r].op = "delete" => ~Active(r), request'[r].op = "delete" => ~Active(r)',
           \A w \in ChatConvs : file'[w] = file[w], listing'["chat"] = listing["chat"],
           \A q \in told : request'[q].conv = Conv(q),
           \A q \in told' : q \in told \/ request'[q].conv \notin ChatConvs,
           dropped \subseteq dropped', alone' => alone, torn' = torn
    PROVE  CountsKept' /\ ListKept'
<1>1. \A q \in Requests : q # r => request'[q] = request[q]
  BY DEF Others
<1>2. \A q \in Requests : (request'[q].pc \in Writing <=> request[q].pc \in Writing)
                          /\ (request'[q].pc \in Writing => request'[q] = request[q])
  BY <1>1
<1>3. CountsKept'
  <2> SUFFICES ASSUME alone, ~torn PROVE CountsKept'
    BY DEF CountsKept
  <2>1. (\A q \in Requests : request'[q].pc \notin Writing) =>
              \A v \in ChatConvs : listing'["chat"].count[v] = Len(file'[v].turns)
    BY <1>2 DEF ConversationsIInv, CountsKept
  <2>2. ASSUME NEW q \in Requests, request'[q].pc \in Writing
        PROVE  /\ request'[q].pc \in {"saving", "saved", "unlinked"} =>
                    \A v \in ChatConvs : v # request'[q].conv => listing'["chat"].count[v] = Len(file'[v].turns)
               /\ request'[q].pc = "saved" => Len(file'[request'[q].conv].turns) = Len(request'[q].base) + 1
               /\ request'[q].pc = "unlinked" => file'[request'[q].conv] = Absent
               /\ Lists(q)' => \A v \in ChatConvs : request'[q].copy[v] = Len(file'[v].turns)
    <3>1. request'[q] = request[q] /\ Conv(q) \in ChatConvs
      BY <1>2, <2>2, WriterFits
    <3>2. /\ request[q].pc \in {"saving", "saved", "unlinked"} =>
                    \A v \in ChatConvs : v # Conv(q) => listing["chat"].count[v] = Len(file[v].turns)
          /\ At(q, "saved") => Len(file[Conv(q)].turns) = Len(request[q].base) + 1
          /\ At(q, "unlinked") => file[Conv(q)] = Absent
          /\ Lists(q) => \A v \in ChatConvs : request[q].copy[v] = Len(file[v].turns)
      BY DEF ConversationsIInv, CountsKept, Count
    <3> QED BY <3>1, <3>2 DEF Conv, At, Lists
  <2> QED BY <2>1, <2>2 DEF CountsKept, Writing, At, Lists, Conv, Count
<1>4. ListKept'
  <2>1. ~torn /\ listing["chat"].state = "cut" => \E q \in Requests : At(q, "listing")'
    BY <1>2 DEF ConversationsIInv, ListKept, At, Writing
  <2>2. \A q \in Requests : (Lists(q)' => Lists(q) /\ request'[q] = request[q])
                            /\ (request'[q].op = "delete" /\ Active(q)' => request'[q] = request[q])
    BY <1>1, <1>2 DEF Lists, Writing
  <2>3. ASSUME alone, NEW q \in Requests
        PROVE  /\ Lists(q) => /\ \A p \in told \ dropped : Conv(p) \in ChatConvs => request[q].copy[Conv(p)] > 0
                              /\ request[q].op = "turn" => request[q].copy[Conv(q)] > 0
               /\ request[q].op = "delete" /\ Active(q) => \A p \in told : Conv(p) = Conv(q) => p \in dropped
               /\ request[q].op = "delete" /\ Active(q) => Conv(q) \in ChatConvs
    <3>1. request[q].op = "delete" /\ Active(q) => Conv(q) \in ChatConvs
      BY DEF ConversationsIInv, PhasesFit, Active, At, Writing
    <3> QED BY <2>3, <3>1 DEF ConversationsIInv, ListKept, Covers
  <2>4. ASSUME alone, NEW q \in Requests
        PROVE  /\ Lists(q)' => /\ \A p \in told' \ dropped' : request'[p].conv \in ChatConvs =>
                                                                 request'[q].copy[request'[p].conv] > 0
                               /\ request'[q].op = "turn" => request'[q].copy[request'[q].conv] > 0
               /\ request'[q].op = "delete" /\ Active(q)' =>
                     \A p \in told' : request'[p].conv = request'[q].conv => p \in dropped'
    <3>1. CASE request'[q] = request[q]
      <4>1. /\ (Lists(q)' <=> Lists(q)) /\ (Active(q)' <=> Active(q)) /\ request'[q].conv = Conv(q)
            /\ request'[q].op = request[q].op /\ request'[q].copy = request[q].copy
        BY <3>1 DEF Lists, Active, Conv
      <4>2. Lists(q) => /\ \A p \in told' \ dropped' : request'[p].conv \in ChatConvs =>
                                                                 request[q].copy[request'[p].conv] > 0
                        /\ request[q].op = "turn" => request[q].copy[Conv(q)] > 0
        BY <2>3, <2>4
      <4>3. request[q].op = "delete" /\ Active(q) =>
               \A p \in told' : request'[p].conv = Conv(q) => p \in dropped'
        BY <2>3, <2>4
      <4> QED BY <4>1, <4>2, <4>3
    <3>2. CASE request'[q] # request[q]
      BY <2>2, <3>2
    <3> QED BY <3>1, <3>2
  <2>5. alone /\ listing'["chat"].state = "whole" =>
           \A p \in told' \ dropped' : request'[p].conv \in ChatConvs => listing'["chat"].count[request'[p].conv] > 0
    BY DEF ConversationsIInv, ListKept, Covers
  <2> QED BY <2>1, <2>4, <2>5 DEF ListKept, Covers, Conv
<1> QED BY <1>3, <1>4

LEMMA DeleteAgentConvStep ==
    ASSUME ConversationsAssumption, ConversationsIInv, NEW r \in Requests, NEW v \in Convs, DeleteAgentConv(r, v)
    PROVE  ConversationsIInv'
<1> DEFINE x == [op |-> "delete", conv |-> v, pc |-> "ended", hist |-> <<>>,
                 base |-> <<>>, short |-> FALSE, copy |-> <<>>]
<1>1. /\ At(r, "new") /\ v \in AgentConvs /\ v \notin ChatConvs /\ request' = [request EXCEPT ![r] = x]
      /\ file' = [file EXCEPT ![v] = Absent]
      /\ listing' = [listing EXCEPT !["agent"].count[v] = 0]
      /\ dropped' = dropped \cup {q \in told : Conv(q) = v}
      /\ alone' = (alone /\ ~Overlaps(v))
      /\ UNCHANGED <<crashes, told, evaluated, torn>>
  BY DEF DeleteAgentConv, ConversationsAssumption
<1>2. /\ x \in Asked /\ x.op = "delete" /\ x.conv = v /\ x.pc = "ended"
      /\ x.hist = <<>> /\ x.base = <<>> /\ ~x.short
  BY NoTurns DEF Asked, Pcs, Convs
<1> HIDE DEF x
<1>3. /\ listing' \in [Stores -> [state : {"whole", "cut"}, count : [Convs -> Nat]]]
      /\ listing'["chat"] = listing["chat"] /\ listing'["agent"].state = listing["agent"].state
      /\ listing'["agent"].count[v] = 0
      /\ \A w \in Convs : w # v => listing'["agent"].count[w] = listing["agent"].count[w]
  <2>1. /\ listing["agent"] \in [state : {"whole", "cut"}, count : [Convs -> Nat]]
        /\ listing \in [Stores -> [state : {"whole", "cut"}, count : [Convs -> Nat]]]
        /\ "agent" \in Stores /\ "chat" \in Stores
    BY DEF ConversationsIInv, ConversationsTypeOK, Stores
  <2> DEFINE c == [listing["agent"].count EXCEPT ![v] = 0]
  <2> DEFINE l == [listing["agent"] EXCEPT !.count = c]
  <2>2. c \in [Convs -> Nat] /\ c[v] = 0 /\ \A w \in Convs : w # v => c[w] = listing["agent"].count[w]
    BY <2>1
  <2>3. listing' = [listing EXCEPT !["agent"] = l]
    BY <1>1, <2>1
  <2> HIDE DEF c
  <2>4. l \in [state : {"whole", "cut"}, count : [Convs -> Nat]] /\ l.count = c /\ l.state = listing["agent"].state
    BY <2>1, <2>2
  <2> HIDE DEF l
  <2> QED BY <2>1, <2>2, <2>3, <2>4
<1>4. /\ ConversationsTypeOK' /\ PhasesFit' /\ TurnsFit' /\ Alone' /\ MessagesKept' /\ EvaluatedIsTold'
      /\ Others(r) /\ request'[r] = x /\ (alone' => alone)
      /\ \A q \in told : q \in Requests /\ q # r /\ ~At(q, "new") /\ request'[q] = request[q]
      /\ \A q \in Requests : request[q].pc \in Writing => request'[q] = request[q]
      /\ alone' => \A q \in Requests : Works(q) => StoreOf(Conv(q)) # StoreOf(v)
      /\ file'[v] = Absent /\ \A w \in Convs : w # v => file'[w] = file[w]
  <2>1. Others(r) /\ request'[r] = x /\ request' \in [Requests -> {New} \cup Asked]
    BY <1>1, <1>2, BecomesRecord DEF ConversationsIInv
  <2>2. /\ At(r, "new") /\ file' = [file EXCEPT ![v] = Absent]
        /\ dropped' = dropped \cup {q \in told : Conv(q) = v} /\ alone' = (alone /\ ~Overlaps(v))
        /\ UNCHANGED <<crashes, told, evaluated, torn>>
    BY <1>1
  <2>3. listing' \in [Stores -> [state : {"whole", "cut"}, count : [Convs -> Nat]]]
    BY <1>3
  <2>4. /\ ConversationsTypeOK' /\ PhasesFit' /\ TurnsFit' /\ Alone' /\ MessagesKept' /\ EvaluatedIsTold'
        /\ (alone' => alone)
        /\ \A q \in told : q \in Requests /\ q # r /\ ~At(q, "new") /\ request'[q] = request[q]
        /\ \A q \in Requests : request[q].pc \in Writing => request'[q] = request[q]
        /\ alone' => \A q \in Requests : Works(q) => StoreOf(Conv(q)) # StoreOf(v)
        /\ file'[v] = Absent /\ \A w \in Convs : w # v => file'[w] = file[w]
    <3>1. Deletes(r, v)
      BY <1>2, <2>1, <2>2, <2>3 DEF Deletes
    <3> QED BY <3>1, DeleteRest
  <2> QED BY <2>1, <2>4
<1>5. \A q \in Requests : q # r => request'[q] = request[q]
  BY <1>4 DEF Others
<1>6. \A q \in told : request'[q].conv = Conv(q)
  BY <1>4 DEF Conv
<1>7. CountsKept' /\ ListKept'
  <2>1. /\ request[r].pc \notin Writing /\ request'[r].pc \notin Writing /\ ~Active(r) /\ ~Active(r)'
        /\ \A w \in ChatConvs : file'[w] = file[w]
    BY <1>1, <1>2, <1>4 DEF At, Writing, Active, Convs
  <2> QED BY <1>1, <1>3, <1>4, <1>6, <2>1, ChatUntouched
<1>8. AgentsKept'
  <2>1. Absent.state # "cut" /\ Len(Absent.turns) = 0
    BY NoTurns DEF Absent
  <2>2. ~torn => \A w \in AgentConvs : file'[w].state # "cut" /\ listing'["agent"].count[w] = Len(file'[w].turns)
    BY <1>3, <1>4, <2>1 DEF ConversationsIInv, AgentsKept, Convs
  <2>3. listing'["agent"].state = "whole" =>
          \A q \in told \ dropped' : request'[q].conv \in AgentConvs => listing'["agent"].count[request'[q].conv] > 0
    BY <1>1, <1>3, <1>6 DEF ConversationsIInv, AgentsKept, Convs
  <2> QED BY <1>1, <1>3, <2>2, <2>3 DEF ConversationsIInv, AgentsKept, Conv
<1>9. AgentKeeps'
  <2> SUFFICES ASSUME ~torn, NEW q \in told, request'[q].conv \in AgentConvs, q \notin dropped',
                      \A p \in Requests : request'[p].pc # "new" /\ request'[p].conv = request'[q].conv => ~request'[p].short
               PROVE  q \in Range(file'[request'[q].conv].turns)
    BY <1>1 DEF AgentKeeps, TurnsIn, Conv, At
  <2>1. Conv(q) # v /\ request'[q].conv = Conv(q) /\ Conv(q) \in AgentConvs /\ q \notin dropped
    BY <1>1, <1>6
  <2>2. \A p \in Requests : ~At(p, "new") /\ Conv(p) = Conv(q) => ~request[p].short
    BY <1>1, <1>5, <2>1 DEF Conv, At
  <2>3. q \in TurnsIn(Conv(q))
    BY <2>1, <2>2 DEF ConversationsIInv, AgentKeeps
  <2> QED BY <1>4, <2>1, <2>3 DEF TurnsIn, Convs
<1> QED BY <1>4, <1>7, <1>8, <1>9 DEF ConversationsIInv

LEMMA AppendTurnStep ==
    ASSUME ConversationsAssumption, ConversationsIInv, NEW r \in Requests, NEW v, v = Conv(r), AppendTurn(r)
    PROVE  ConversationsIInv'
<1> DEFINE unread == file[v].state = "cut" /\ ~request[r].short
<1> DEFINE after == Stored(r)
<1>0. At(r, "answered") /\ v \in AgentConvs /\ UNCHANGED <<crashes, evaluated, torn, alone>>
  BY DEF AppendTurn
<1>1. /\ v \in Convs /\ v \notin ChatConvs /\ request[r] \in Asked /\ request[r].op = "turn"
      /\ ~At(r, "new") /\ Works(r) /\ r \notin told /\ r \notin dropped
      /\ after \in Seq(Requests) /\ after # <<>> /\ Len(after) \in Nat /\ Len(after) > 0
      /\ \A q \in Range(request[r].base) \cup LeftOut(r) : q \in Requests /\ Wrote(q, v)
      /\ \A q \in TurnsIn(v) : q \in Requests /\ Wrote(q, v)
      /\ request[r].short => Range(after) = Range(request[r].base) \cup {r}
      /\ ~request[r].short => Range(after) = TurnsIn(v) \cup {r}
      /\ request[r].pc = "answered"
  BY <1>0, StoredFits DEF At
<1>2. /\ file' = IF unread THEN file ELSE [file EXCEPT ![v] = Whole(after)]
      /\ \/ dropped' = dropped
         \/ request[r].short /\ ~unread /\ dropped' = dropped \cup LeftOut(r)
      /\ request[r].short /\ ~unread => dropped' = dropped \cup LeftOut(r)
      /\ ~request[r].short => dropped' = dropped
      /\ \/ unread \/ listing["agent"].state = "cut"
         \/ ~unread /\ listing["agent"].state # "cut"
      /\ unread \/ listing["agent"].state = "cut" => Goto(r, "ended") /\ listing' = listing /\ told' = told
      /\ ~unread /\ listing["agent"].state # "cut" =>
            /\ listing' = [listing EXCEPT !["agent"].count[v] = Len(after)]
            /\ told' = told \cup {r} /\ Goto(r, "done")
  BY DEF AppendTurn, End
<1> HIDE DEF after
<1>3. PICK l \in {"done", "ended"} :
         /\ Moves(r, l) /\ request' \in [Requests -> {New} \cup Asked]
         /\ (l = "done") <=> (~unread /\ listing["agent"].state # "cut")
  <2>1. Goto(r, "ended") => Moves(r, "ended") /\ request' \in [Requests -> {New} \cup Asked]
    BY <1>1, GotoMoves DEF ConversationsIInv, Pcs
  <2>2. Goto(r, "done") => Moves(r, "done") /\ request' \in [Requests -> {New} \cup Asked]
    BY <1>1, GotoMoves DEF ConversationsIInv, Pcs
  <2> QED BY <1>2, <2>1, <2>2
<1>4. /\ \A q \in Requests : q # r => request'[q] = request[q]
      /\ request'[r].pc = l /\ request'[r].op = "turn" /\ request'[r].conv = v /\ request'[r].hist = request[r].hist
      /\ request'[r].base = request[r].base /\ request'[r].short = request[r].short /\ Others(r)
  BY <1>1, <1>3 DEF Moves, Others, Conv
<1>5. Wrote(r, v)'
  BY <1>3, <1>4 DEF Wrote, Conv
<1>6. /\ file' \in [Convs -> [state : {"absent", "whole", "cut"}, turns : Seq(Requests)]]
      /\ \A w \in Convs : (file'[w].state = "whole") <=> (file'[w].turns # <<>>)
      /\ TurnsFine
      /\ \A w \in Convs : w # v => file'[w] = file[w]
      /\ ~unread => file'[v].state = "whole" /\ file'[v].turns = after
  <2>1. CASE unread
    BY <1>2, <2>1, SameFiles
  <2>2. CASE ~unread
    <3>1. /\ Whole(after) \in [state : {"absent", "whole", "cut"}, turns : Seq(Requests)]
          /\ Whole(after).state = "whole" /\ Whole(after).turns = after
      BY <1>1 DEF Whole
    <3>2. \A q \in Range(after) : q \in Requests /\ (Wrote(q, v) \/ Wrote(q, v)')
      BY <1>1, <1>5
    <3>3. file' = [file EXCEPT ![v] = Whole(after)]
      BY <1>2, <2>2
    <3>4. file'[v] = Whole(after)
      BY <1>1, <3>3 DEF ConversationsIInv, ConversationsTypeOK
    <3> QED BY <1>1, <3>1, <3>2, <3>3, <3>4, OneFile
  <2> QED BY <2>1, <2>2
<1>7. /\ listing' \in [Stores -> [state : {"whole", "cut"}, count : [Convs -> Nat]]]
      /\ listing'["chat"] = listing["chat"]
      /\ listing'["agent"].state = listing["agent"].state
      /\ l = "ended" => listing' = listing
      /\ l = "done" => /\ listing'["agent"].count[v] = Len(after)
                       /\ \A w \in Convs : w # v => listing'["agent"].count[w] = listing["agent"].count[w]
  <2>1. /\ listing["agent"] \in [state : {"whole", "cut"}, count : [Convs -> Nat]]
        /\ listing \in [Stores -> [state : {"whole", "cut"}, count : [Convs -> Nat]]]
        /\ "agent" \in Stores /\ "chat" \in Stores
    BY DEF ConversationsIInv, ConversationsTypeOK, Stores
  <2>2. CASE l = "ended"
    BY <1>2, <1>3, <2>1, <2>2
  <2>3. CASE l = "done"
    <3> DEFINE c == [listing["agent"].count EXCEPT ![v] = Len(after)]
    <3> DEFINE m == [listing["agent"] EXCEPT !.count = c]
    <3>1. /\ c \in [Convs -> Nat] /\ c[v] = Len(after)
          /\ \A w \in Convs : w # v => c[w] = listing["agent"].count[w]
      BY <1>1, <2>1
    <3>2. listing' = [listing EXCEPT !["agent"] = m]
      BY <1>2, <1>3, <2>1, <2>3
    <3> HIDE DEF c
    <3>3. /\ m \in [state : {"whole", "cut"}, count : [Convs -> Nat]]
          /\ m.count = c /\ m.state = listing["agent"].state
      BY <2>1, <3>1
    <3> HIDE DEF m
    <3> QED BY <2>1, <2>3, <3>1, <3>2, <3>3
  <2> QED BY <1>3, <2>2, <2>3
<1>8. /\ l = "ended" => told' = told
      /\ l = "done" => told' = told \cup {r}
      /\ told \subseteq told' /\ told' \subseteq Requests
      /\ dropped \subseteq dropped' /\ dropped' \subseteq dropped \cup LeftOut(r)
      /\ dropped' \subseteq Requests
  BY <1>1, <1>2, <1>3 DEF ConversationsIInv, ConversationsTypeOK
<1>9. ~torn => l = "done" /\ ~unread
  BY <1>0, <1>2, <1>3 DEF ConversationsIInv, AgentsKept
<1>10. ConversationsTypeOK'
  BY <1>0, <1>3, <1>6, <1>7, <1>8 DEF ConversationsIInv, ConversationsTypeOK
<1>11. PhasesFit'
  <2>1. ASSUME NEW q \in Requests, q # r, request[q].pc # "new"
        PROVE  /\ Visits(q) <=> Conv(q) = "none"
               /\ request[q].pc \in Writing => Conv(q) \in ChatConvs
               /\ request[q].op = "delete" => request[q].pc \in {"unlinked", "listed", "listing", "ended"}
               /\ At(q, "unlinked") => request[q].op = "delete"
               /\ At(q, "answering") => ~request[q].short
               /\ request[q].pc \in {"listed", "listing"} => request[q].copy \in [Convs -> Nat]
               /\ At(q, "done") => Visits(q) \/ q \in told
    BY <2>1 DEF ConversationsIInv, PhasesFit, At
  <2>2. request'[r].pc \notin Writing /\ v # "none" /\ (request'[r].pc = "done" => r \in told')
    BY <1>1, <1>3, <1>4, <1>8 DEF Writing, ConversationsAssumption, Convs
  <2>3. ASSUME NEW q \in Requests, request'[q].pc # "new"
        PROVE  /\ (request'[q].op = "visit") <=> (request'[q].conv = "none")
               /\ request'[q].pc \in Writing => request'[q].conv \in ChatConvs
               /\ request'[q].op = "delete" => request'[q].pc \in {"unlinked", "listed", "listing", "ended"}
               /\ request'[q].pc = "unlinked" => request'[q].op = "delete"
               /\ request'[q].pc = "answering" => ~request'[q].short
               /\ request'[q].pc \in {"listed", "listing"} => request'[q].copy \in [Convs -> Nat]
               /\ request'[q].pc = "done" => request'[q].op = "visit" \/ q \in told'
    <3>1. CASE q = r
      BY <1>3, <1>4, <2>2, <3>1
    <3>2. CASE q # r
      <4>1. request'[q] = request[q]
        BY <1>4, <3>2
      <4> QED BY <1>8, <2>1, <2>3, <3>2, <4>1 DEF At, Visits, Conv
    <3> QED BY <3>1, <3>2
  <2> QED BY <2>3 DEF PhasesFit, At, Visits, Conv
<1>12. Forward
  BY <1>1, <1>3, <1>4 DEF Forward, At, Past, Conv
<1>13. TurnsFit'
  <2>1. BasesFine
    <3>1. \A q \in Requests : request'[q].base = request[q].base /\ (request'[q].pc # "new" => ~At(q, "new"))
      BY <1>1, <1>4 DEF At
    <3>2. \A q \in Requests : ~At(q, "new") => Range(request[q].base) \subseteq Range(request[q].hist)
      BY DEF ConversationsIInv, TurnsFit
    <3> QED BY <3>1, <3>2 DEF BasesFine
  <2>2. DroppedFine
    <3>1. \A q \in LeftOut(r) : q \in Requests /\ Wrote(q, Conv(q))
      BY <1>1 DEF Wrote
    <3> QED BY <1>8, <3>1 DEF ConversationsIInv, ConversationsTypeOK, TurnsFit, DroppedFine
  <2>3. ToldFine
    <3>1. Wrote(r, Conv(r))'
      BY <1>3, <1>4 DEF Wrote, Conv
    <3> QED BY <1>3, <1>4, <1>8, <3>1 DEF ConversationsIInv, ConversationsTypeOK, ToldFine
  <2> QED BY <1>6, <1>12, <2>1, <2>2, <2>3, TurnsFitStep DEF ConversationsIInv
<1>14. Alone'
  BY <1>0, <1>1, <1>4, AloneStep DEF ConversationsIInv, Conv
<1>15. /\ \A q \in told : q \in Requests /\ q # r /\ ~At(q, "new") /\ request'[q] = request[q]
       /\ \A q \in told : request'[q].conv = Conv(q)
  BY <1>1, <1>4 DEF ConversationsIInv, ConversationsTypeOK, TurnsFit, At, Conv
<1>16. MessagesKept'
  <2> SUFFICES ASSUME alone, ~torn, NEW w \in Convs
               PROVE  /\ (\A q \in Requests : ~SavesTurn(q, w)' /\ ~StoredTurn(q, w)') =>
                            TurnsIn(w)' = Kept(w)' /\ file'[w].state # "cut"
                      /\ \A q \in Requests :
                            /\ SavesTurn(q, w)' => Range(request'[q].hist) = Kept(w)'
                            /\ StoredTurn(q, w)' => TurnsIn(w)' = Kept(w)' \cup {q} /\ q \notin dropped'
                            /\ request'[q].op = "turn" /\ request'[q].pc \in {"answering", "answered"} /\ request'[q].conv = w =>
                                  request'[q].hist = file'[w].turns
    BY <1>0 DEF MessagesKept, Conv
  <2>1. /\ (\A q \in Requests : ~SavesTurn(q, w) /\ ~StoredTurn(q, w)) =>
               TurnsIn(w) = Kept(w) /\ file[w].state # "cut"
        /\ \A q \in Requests :
               /\ SavesTurn(q, w) => Range(request[q].hist) = Kept(w)
               /\ StoredTurn(q, w) => TurnsIn(w) = Kept(w) \cup {q} /\ q \notin dropped
               /\ request[q].op = "turn" /\ request[q].pc \in {"answering", "answered"} /\ request[q].conv = w =>
                     request[q].hist = file[w].turns
    BY DEF ConversationsIInv, MessagesKept, Conv
  <2>2. /\ ~SavesTurn(r, w) /\ ~StoredTurn(r, w) /\ ~SavesTurn(r, w)' /\ ~StoredTurn(r, w)'
        /\ \A q \in Requests : q # r =>
              (SavesTurn(q, w)' <=> SavesTurn(q, w)) /\ (StoredTurn(q, w)' <=> StoredTurn(q, w))
    <3>1. ~SavesTurn(r, w) /\ ~StoredTurn(r, w) /\ ~SavesTurn(r, w)' /\ ~StoredTurn(r, w)'
      BY <1>1, <1>3, <1>4 DEF SavesTurn, StoredTurn, At, Conv
    <3>2. ASSUME NEW q \in Requests, q # r
          PROVE  (SavesTurn(q, w)' <=> SavesTurn(q, w)) /\ (StoredTurn(q, w)' <=> StoredTurn(q, w))
      <4>1. request'[q] = request[q]
        BY <1>4, <3>2
      <4> QED BY <4>1 DEF SavesTurn, StoredTurn, At, Conv
    <3> QED BY <3>1, <3>2
  <2>3. told' = told \cup {r} /\ ~unread
    BY <1>8, <1>9
  <2>4. CASE w = v
    <3>1. \A q \in Requests : ~SavesTurn(q, w) /\ ~StoredTurn(q, w)
      BY <1>1, <2>4 DEF SavesTurn, StoredTurn, At, Conv, ConversationsIInv, PhasesFit, Writing
    <3>2. TurnsIn(w) = Kept(w) /\ request[r].hist = file[w].turns
      BY <1>0, <1>1, <2>1, <2>4, <3>1 DEF Conv
    <3>3. Range(request[r].hist) = Kept(w)
      BY <3>2 DEF TurnsIn
    <3>4. r \notin LeftOut(r)
      BY <1>1 DEF Wrote
    <3>5. Kept(w)' = (Kept(w) \cup {r}) \ (dropped' \ dropped)
      BY <1>1, <1>4, <1>8, <1>15, <2>3, <2>4 DEF Kept, Conv
    <3>6. TurnsIn(w)' = Range(after)
      BY <1>6, <2>3, <2>4 DEF TurnsIn
    <3>7. TurnsIn(w)' = Kept(w)'
      <4>1. CASE request[r].short
        <5>1. dropped' = dropped \cup LeftOut(r)
          BY <1>2, <2>3, <4>1
        <5>2. LeftOut(r) = Kept(w) \ Range(request[r].base) /\ LeftOut(r) \cap dropped = {}
          BY <3>3 DEF LeftOut, Kept
        <5>3. Range(request[r].base) \subseteq Kept(w)
          BY <1>1, <3>3 DEF ConversationsIInv, TurnsFit
        <5> QED BY <1>1, <3>4, <3>5, <3>6, <4>1, <5>1, <5>2, <5>3
      <4>2. CASE ~request[r].short
        BY <1>1, <1>2, <2>4, <3>2, <3>5, <3>6, <4>2
      <4> QED BY <4>1, <4>2
    <3>8. file'[w].state # "cut"
      BY <1>6, <2>3, <2>4
    <3>9. ASSUME NEW q \in Requests, request'[q].op = "turn", request'[q].pc \in {"answering", "answered"}, request'[q].conv = w
          PROVE  FALSE
      <4>1. q # r
        BY <1>3, <1>4, <3>9
      <4>2. Works(q) /\ Conv(q) = v
        BY <1>4, <2>4, <3>9, <4>1 DEF Works, Active, Visits, Conv
      <4> QED BY <1>1, <4>1, <4>2 DEF ConversationsIInv, Alone
    <3>10. \A q \in Requests : ~SavesTurn(q, w)' /\ ~StoredTurn(q, w)'
      BY <2>2, <3>1
    <3> QED BY <3>7, <3>8, <3>9, <3>10
  <2>5. CASE w # v
    <3>1. \A q \in LeftOut(r) : Conv(q) = v
      BY <1>1 DEF Wrote
    <3>2. Kept(w)' = Kept(w)
      BY <1>4, <1>8, <1>15, <2>3, <2>5, <3>1 DEF Kept, Conv
    <3>3. file'[w] = file[w] /\ TurnsIn(w)' = TurnsIn(w)
      BY <1>6, <2>5 DEF TurnsIn
    <3>4. \A q \in Requests : StoredTurn(q, w) => q \notin dropped'
      BY <1>8, <2>1, <2>5, <3>1 DEF StoredTurn
    <3>5. \A q \in Requests : SavesTurn(q, w) => request'[q].hist = request[q].hist
      BY <1>4, <2>2
    <3>6. \A q \in Requests :
             request'[q].op = "turn" /\ request'[q].pc \in {"answering", "answered"} /\ request'[q].conv = w =>
                request'[q].hist = file'[w].turns
      BY <1>3, <1>4, <2>1, <3>3
    <3>7. \A q \in Requests :
             (SavesTurn(q, w)' <=> SavesTurn(q, w)) /\ (StoredTurn(q, w)' <=> StoredTurn(q, w))
      BY <2>2
    <3> QED BY <2>1, <3>2, <3>3, <3>4, <3>5, <3>6, <3>7
  <2> QED BY <2>4, <2>5
<1>17. CountsKept' /\ ListKept'
  <2>1. /\ request[r].pc \notin Writing /\ request'[r].pc \notin Writing
        /\ request[r].op # "delete" /\ request'[r].op # "delete"
    BY <1>1, <1>3, <1>4 DEF Writing
  <2>2. \A w \in ChatConvs : file'[w] = file[w]
    BY <1>1, <1>6 DEF Convs
  <2>3. \A q \in told' : q \in told \/ request'[q].conv \notin ChatConvs
    BY <1>1, <1>3, <1>4, <1>8
  <2> QED BY <1>0, <1>4, <1>7, <1>8, <1>15, <2>1, <2>2, <2>3, ChatUntouched
<1>18. AgentsKept'
  <2>1. ASSUME ~torn
        PROVE  listing'["agent"].state = "whole" /\ \A w \in AgentConvs :
                  file'[w].state # "cut" /\ listing'["agent"].count[w] = Len(file'[w].turns)
    <3>1. l = "done" /\ ~unread
      BY <1>9, <2>1
    <3>2. file'[v].state # "cut" /\ listing'["agent"].count[v] = Len(file'[v].turns)
      BY <1>6, <1>7, <3>1
    <3>3. listing["agent"].state = "whole" /\ \A w \in AgentConvs :
                  file[w].state # "cut" /\ listing["agent"].count[w] = Len(file[w].turns)
      BY <2>1 DEF ConversationsIInv, AgentsKept
    <3>4. \A w \in AgentConvs : w # v => file'[w] = file[w] /\ listing'["agent"].count[w] = listing["agent"].count[w]
      BY <1>6, <1>7, <3>1 DEF Convs
    <3> QED BY <1>7, <3>2, <3>3, <3>4
  <2>2. ASSUME listing["agent"].state = "whole", NEW q \in told' \ dropped', request'[q].conv \in AgentConvs
        PROVE  listing'["agent"].count[request'[q].conv] > 0
    <3>1. \A p \in told \ dropped : Conv(p) \in AgentConvs => listing["agent"].count[Conv(p)] > 0
      BY <2>2 DEF ConversationsIInv, AgentsKept
    <3>2. CASE l = "ended"
      BY <1>7, <1>8, <1>15, <2>2, <3>1, <3>2
    <3>3. CASE l = "done"
      <4>1. CASE request'[q].conv = v
        BY <1>1, <1>7, <3>3, <4>1
      <4>2. CASE request'[q].conv # v
        <5>1. q \in told \ dropped /\ request'[q].conv = Conv(q)
          BY <1>4, <1>8, <1>15, <2>2, <3>3, <4>2
        <5> QED BY <1>7, <2>2, <3>1, <3>3, <4>2, <5>1 DEF Convs
      <4> QED BY <4>1, <4>2
    <3> QED BY <1>3, <3>2, <3>3
  <2> QED BY <1>0, <1>7, <2>1, <2>2 DEF AgentsKept, Conv
<1>19. AgentKeeps'
  <2> SUFFICES ASSUME ~torn, NEW q \in told', request'[q].conv \in AgentConvs, q \notin dropped',
                      \A p \in Requests : request'[p].pc # "new" /\ request'[p].conv = request'[q].conv => ~request'[p].short
               PROVE  q \in Range(file'[request'[q].conv].turns)
    BY <1>0 DEF AgentKeeps, TurnsIn, Conv, At
  <2>1. l = "done" /\ ~unread
    BY <1>9
  <2>2. CASE q = r
    <3>1. Range(file'[v].turns) = Range(after) /\ r \in Range(after)
      BY <1>1, <1>6, <2>1
    <3> QED BY <1>4, <2>2, <3>1
  <2>3. CASE q # r
    <3>1. q \in told /\ q \notin dropped /\ request'[q].conv = Conv(q)
      BY <1>8, <1>15, <2>1, <2>3
    <3>2. \A p \in Requests : ~At(p, "new") /\ Conv(p) = Conv(q) => ~request[p].short
      <4> SUFFICES ASSUME NEW p \in Requests, ~At(p, "new"), Conv(p) = Conv(q) PROVE ~request[p].short
        OBVIOUS
      <4>1. CASE p = r
        <5>1. request'[r].pc # "new" /\ request'[r].conv = v
          BY <1>3, <1>4
        <5> QED BY <1>4, <3>1, <4>1, <5>1
      <4>2. CASE p # r
        BY <1>4, <3>1, <4>2 DEF At, Conv
      <4> QED BY <4>1, <4>2
    <3>3. q \in TurnsIn(Conv(q))
      BY <3>1, <3>2 DEF ConversationsIInv, AgentKeeps
    <3>4. CASE Conv(q) = v
      <4>1. ~request[r].short
        BY <1>1, <3>2, <3>4
      <4>2. TurnsIn(v) \subseteq Range(file'[v].turns)
        BY <1>1, <1>6, <2>1, <4>1
      <4> QED BY <3>1, <3>3, <3>4, <4>2
    <3>5. CASE Conv(q) # v
      BY <1>6, <3>1, <3>3, <3>5 DEF TurnsIn, Convs
    <3> QED BY <3>4, <3>5
  <2> QED BY <2>2, <2>3
<1>20. EvaluatedIsTold'
  <2>1. \A q \in Requests : request'[q].op = request[q].op
    BY <1>1, <1>4
  <2> QED BY <1>0, <1>8, <2>1 DEF ConversationsIInv, ConversationsTypeOK, EvaluatedIsTold, Visits
<1> QED BY <1>10, <1>11, <1>13, <1>14, <1>16, <1>17, <1>18, <1>19, <1>20 DEF ConversationsIInv

LEMMA ConversationsStart ==
    ASSUME ConversationsAssumption, ConversationsInit
    PROVE  ConversationsIInv
<1>1. /\ \A v \in Convs : file[v] = Absent /\ file[v].state = "absent" /\ file[v].turns = <<>>
      /\ \A s \in Stores : listing[s].state = "whole" /\ \A v \in Convs : listing[s].count[v] = 0
      /\ \A r \in Requests : request[r] = New /\ request[r].pc = "new" /\ request[r].op = "none"
  BY DEF ConversationsInit, Absent, New
<1>2. ConversationsTypeOK
  <2>1. file \in [Convs -> [state : {"absent", "whole", "cut"}, turns : Seq(Requests)]]
    BY NoTurns DEF ConversationsInit, Absent
  <2>2. listing \in [Stores -> [state : {"whole", "cut"}, count : [Convs -> Nat]]]
    BY DEF ConversationsInit
  <2>3. request \in [Requests -> {New} \cup Asked]
    BY DEF ConversationsInit
  <2>4. /\ crashes \in 0..MaxCrashes /\ told = {} /\ evaluated = {} /\ dropped = {}
        /\ torn = FALSE /\ alone = TRUE
    BY DEF ConversationsInit, ConversationsAssumption
  <2> QED BY <1>1, <2>1, <2>2, <2>3, <2>4 DEF ConversationsTypeOK
<1>3. told = {} /\ evaluated = {} /\ dropped = {} /\ \A v \in Convs : TurnsIn(v) = {} /\ Kept(v) = {}
  BY <1>1, NoTurns DEF ConversationsInit, TurnsIn, Kept
<1>4. PhasesFit /\ Alone
  BY <1>1 DEF PhasesFit, Alone, Works, Active, At
<1>5. TurnsFit
  BY <1>1, <1>3 DEF TurnsFit, At
<1>6. MessagesKept
  BY <1>1, <1>3 DEF MessagesKept, SavesTurn, StoredTurn, At
<1>7. "chat" \in Stores /\ "agent" \in Stores
  BY DEF Stores
<1>8. CountsKept
  BY <1>1, <1>7, NoTurns DEF CountsKept, Writing, At, Lists, Convs
<1>9. ListKept
  BY <1>1, <1>3, <1>7 DEF ListKept, Covers, Lists, Active
<1>10. AgentsKept
  BY <1>1, <1>3, <1>7, NoTurns DEF AgentsKept, Convs
<1>11. AgentKeeps /\ EvaluatedIsTold
  BY <1>3 DEF AgentKeeps, EvaluatedIsTold
<1> QED BY <1>2, <1>4, <1>5, <1>6, <1>8, <1>9, <1>10, <1>11 DEF ConversationsIInv

LEMMA ConversationsUnchanged ==
    ASSUME ConversationsIInv, UNCHANGED conversationsVars
    PROVE  ConversationsIInv'
<1> USE DEF conversationsVars, disk
<1>1. ConversationsTypeOK' /\ PhasesFit' /\ TurnsFit' /\ Alone'
  <2>1. ConversationsTypeOK' /\ PhasesFit'
    BY DEF ConversationsIInv, ConversationsTypeOK, PhasesFit, At, Conv, Visits
  <2>2. TurnsFit'
    BY DEF ConversationsIInv, TurnsFit, Wrote, TurnsIn, At, Conv
  <2>3. Alone'
    BY DEF ConversationsIInv, Alone, Works, Active, Conv, Visits
  <2> QED BY <2>1, <2>2, <2>3
<1>2. \A v : Kept(v)' = Kept(v) /\ TurnsIn(v)' = TurnsIn(v)
  BY DEF Kept, TurnsIn, Conv
<1>3. MessagesKept'
  BY <1>2, SameMessages DEF ConversationsIInv
<1>4. CountsKept' /\ ListKept'
  BY DEF ConversationsIInv, CountsKept, ListKept, Covers, At, Conv, Lists, Count, Active
<1>5. AgentsKept' /\ AgentKeeps' /\ EvaluatedIsTold'
  BY DEF ConversationsIInv, AgentsKept, AgentKeeps, EvaluatedIsTold, At, Conv, Visits, TurnsIn
<1> QED BY <1>1, <1>3, <1>4, <1>5 DEF ConversationsIInv

LEMMA ConversationsStep ==
    ASSUME ConversationsAssumption, ConversationsIInv, [ConversationsNext]_conversationsVars
    PROVE  ConversationsIInv'
<1>1. CASE UNCHANGED conversationsVars
  BY <1>1, ConversationsUnchanged
<1>2. CASE Crash
  BY <1>2, CrashStep
<1>3. ASSUME NEW r \in Requests, Step(r) PROVE ConversationsIInv'
  <2>1. PICK c : c = Conv(r)
    OBVIOUS
  <2>2. ASSUME NEW v \in Convs, BeginTurn(r, v) \/ BeginDelete(r, v) \/ DeleteAgentConv(r, v) PROVE ConversationsIInv'
    BY <2>2, BeginTurnStep, BeginDeleteStep, DeleteAgentConvStep
  <2>3. CASE Visit(r) \/ Answered(r)
    BY <2>3, VisitStep, AnsweredStep
  <2>4. CASE Fails(r)
    <3>1. request[r].pc = "answering" /\ Goto(r, "ended")
          /\ UNCHANGED <<disk, crashes, told, evaluated, dropped, torn, alone>>
      BY <2>4 DEF Fails, End, At
    <3> QED BY <3>1, LeaveStep
  <2>5. CASE PassOn(r)
    <3>1. request[r].pc = "answered" /\ Visits(r) /\ Goto(r, "done")
          /\ UNCHANGED <<disk, crashes, told, evaluated, dropped, torn, alone>>
      BY <2>5 DEF PassOn, At
    <3> QED BY <3>1, LeaveStep
  <2>6. CASE Finish(r)
    <3>1. request[r].pc = "done" /\ At(r, "done") /\ Goto(r, "ended")
          /\ UNCHANGED <<disk, crashes, told, dropped, torn, alone>>
          /\ evaluated' \subseteq evaluated \cup {r}
      BY <2>6 DEF Finish, End, At
    <3> QED BY <3>1, LeaveStep
  <2>7. CASE Disconnect(r)
    BY <2>1, <2>7, DisconnectStep
  <2>8. CASE OpenMessages(r) \/ WriteMessages(r)
    BY <2>1, <2>8, OpenMessagesStep, WriteMessagesStep
  <2>9. CASE ReadList(r) \/ OpenList(r) \/ WriteList(r)
    BY <2>1, <2>9, ReadListStep, OpenListStep, WriteListStep
  <2>10. CASE AppendTurn(r)
    BY <2>1, <2>10, AppendTurnStep
  <2> QED BY <1>3, <2>2, <2>3, <2>4, <2>5, <2>6, <2>7, <2>8, <2>9, <2>10 DEF Step
<1> QED BY <1>1, <1>2, <1>3 DEF ConversationsNext

LEMMA ConversationsAgree ==
    ASSUME ConversationsAssumption, ConversationsIInv
    PROVE  ConversationsInv /\ HoldsWhatWasTold /\ AgentKeeps
<1>1. ASSUME NEW r \in Requests, request[r].pc \in Writing
      PROVE  Active(r) /\ ~Visits(r) /\ StoreOf(Conv(r)) = "chat" /\ Conv(r) \in ChatConvs
  BY <1>1, WriterFits DEF Works, StoreOf
<1>2. ListAgrees
  <2> SUFFICES ASSUME ~torn, NEW v \in Convs, v \in AgentConvs \/ (alone /\ Quiet("chat"))
               PROVE  listing[StoreOf(v)].count[v] = Len(file[v].turns)
    BY DEF ListAgrees
  <2>1. CASE v \in AgentConvs
    <3>1. StoreOf(v) = "agent"
      BY <2>1 DEF ConversationsAssumption, StoreOf
    <3> QED BY <2>1, <3>1 DEF ConversationsIInv, AgentsKept
  <2>2. CASE v \notin AgentConvs
    <3>1. v \in ChatConvs /\ StoreOf(v) = "chat" /\ alone /\ Quiet("chat")
      BY <2>2 DEF Convs, StoreOf
    <3>2. \A r \in Requests : request[r].pc \notin Writing
      BY <1>1, <3>1 DEF Quiet
    <3> QED BY <3>1, <3>2 DEF ConversationsIInv, CountsKept
  <2> QED BY <2>1, <2>2
<1>3. ToldIsListed
  <2> SUFFICES ASSUME alone, NEW s \in Stores, Quiet(s), listing[s].state = "whole",
                      NEW r \in told \ dropped, StoreOf(Conv(r)) = s
               PROVE  listing[s].count[Conv(r)] > 0
    BY DEF ToldIsListed
  <2>1. Conv(r) \in Convs
    <3>1. r \in Requests /\ Wrote(r, Conv(r)) /\ ~At(r, "new") /\ ~Visits(r)
      BY DEF ConversationsIInv, ConversationsTypeOK, TurnsFit, Wrote, At, Visits
    <3> QED BY <3>1, RequestFields DEF ConversationsIInv, PhasesFit
  <2>2. CASE Conv(r) \in ChatConvs
    BY <2>2 DEF StoreOf, ConversationsIInv, ListKept, Covers
  <2>3. CASE Conv(r) \notin ChatConvs
    BY <2>1, <2>3 DEF StoreOf, Convs, ConversationsIInv, AgentsKept
  <2> QED BY <2>2, <2>3
<1>4. HoldsWhatWasTold
  <2> SUFFICES ASSUME alone, ~torn, NEW v \in Convs, Quiet(StoreOf(v))
               PROVE  TurnsIn(v) = Kept(v)
    BY DEF HoldsWhatWasTold
  <2>1. \A r \in Requests : ~SavesTurn(r, v) /\ ~StoredTurn(r, v)
    BY <1>1 DEF Quiet, SavesTurn, StoredTurn, At, Writing
  <2> QED BY <2>1 DEF ConversationsIInv, MessagesKept
<1> QED BY <1>2, <1>3, <1>4 DEF ConversationsInv, ConversationsIInv

\* From the steps above, for any number of requests, conversations and crashes.
LEMMA ConversationsInductive == ConversationsSpec => []ConversationsIInv
<1>1. ConversationsInit => ConversationsIInv
  BY ConversationsAssumption, ConversationsStart
<1>2. ConversationsIInv /\ [ConversationsNext]_conversationsVars => ConversationsIInv'
  BY ConversationsAssumption, ConversationsStep
<1> QED BY <1>1, <1>2, PTL DEF ConversationsSpec

\* Files, lists and what clients were told agree, for any number of requests and
\* crashes: conversations are counted right while nobody writes them, what was told and
\* not deleted is listed, and only what was told is evaluated (chat/router.py:80-195,
\* agents/conversations.py:56-120).
THEOREM ConversationsInvariant == ConversationsSpec => []ConversationsInv
<1>1. ConversationsIInv => ConversationsInv
  BY ConversationsAssumption, ConversationsAgree
<1> QED BY <1>1, ConversationsInductive, PTL

\* A conversation holds what was told, no less and no more: compression and deletion
\* are the only ways out of it, as long as requests do not overlap and no file was cut
\* (chat/router.py:107-160, conversations.py:56-100).
THEOREM ConversationsHoldWhatWasTold == ConversationsSpec => []HoldsWhatWasTold
<1>1. ConversationsIInv => HoldsWhatWasTold
  BY ConversationsAssumption, ConversationsAgree
<1> QED BY <1>1, ConversationsInductive, PTL

\* An agent's chat reads the file when the turn is done, so turns of a conversation may
\* overlap: none is lost unless one of them was compressed.
THEOREM AgentsKeepTurns == ConversationsSpec => []AgentKeeps
<1>1. ConversationsIInv => AgentKeeps
  BY ConversationsAssumption, ConversationsAgree
<1> QED BY <1>1, ConversationsInductive, PTL

-----------------------------------------------------------------------------
(* What administrators and owners configure.                                *)

\* The record of a request is the one its operation has.
LEMMA EditKinds ==
    ASSUME NEW x \in Edits
    PROVE  /\ x.op = "idle" <=> x = Resting
           /\ x.op \in {"save", "reload"} =>
                 x \in [op : {"save", "reload"}, s : Sections, v : SUBSET Keys, old : Overrides]
           /\ x.op = "project" => \/ x \in [op : {"project"}, f : {"git"}, old : GitFields, new : GitFields]
                                 \/ x \in [op : {"project"}, f : {"pub"}, old : Fields, new : Fields]
           /\ x.op = "syncWrite" => x \in [op : {"syncWrite"}, g : GitFields, old : {NoRow} \cup RepoRows]
           /\ x.op = "createRepo" => x \in [op : {"createRepo"}, k : RepoKeys, new : RepoRows]
           /\ x.op = "repo" => x \in [op : {"repo"}, k : RepoKeys, old : RepoRows, new : RepoRows]
           /\ x.op = "deleteRepo" => x \in [op : {"deleteRepo"}, k : RepoKeys]
           /\ x.op = "import" => x \in [op : {"import"}, b : SettingsBundles]
<1>1. Resting.op = "idle"
  BY DEF Resting
<1> QED BY <1>1 DEF Edits

LEMMA OverlayTypes ==
    ASSUME NEW t \in [Sections -> Overrides]
    PROVE  /\ Overlay(t) \in [Sections -> SUBSET Keys]
           /\ \A s \in Sections : t[s] # NoRow => Overlay(t)[s] = t[s]
           /\ \A s \in Sections : t[s] = NoRow => Overlay(t)[s] = {}
  BY DEF Overlay, Overrides

\* A request is accepted: nothing else changes.
LEMMA EditStep ==
    ASSUME ConfigurationInv, NEW c \in Editors, NEW x \in Edits, Edit(c, x), x # Resting,
           x.op \notin {"reload", "imported"},
           x.op = "save" => x.old = stored[x.s],
           x.op = "repo" => x.old = repo[x.k] /\ ~(x.new.manual /\ x.new.on),
           x.op = "createRepo" => ~x.new.manual,
           x.op = "project" /\ x.f = "pub" => x.new.url = "wiki",
           x.op = "import" => MigratesRightly(x.b)
    PROVE  ConfigurationInv'
<1>1. /\ edit' = [edit EXCEPT ![c] = x] /\ edit[c] = Resting /\ up = "up" /\ accepted < MaxEdits
      /\ accepted' = accepted + 1 /\ serial' = (serial /\ \A d \in Editors : edit[d] = Resting)
      /\ UNCHANGED <<stored, migrated, git, pub, repo, memory, kept, export, up, starts, answered, early, legacy, pieced>>
  BY DEF Edit, settingsRows, backupVars, histories
<1>2. edit'[c] = x /\ \A d \in Editors : d # c => edit'[d] = edit[d]
  BY <1>1 DEF ConfigurationInv, ConfigurationTypeOK
<1>3. (serial' => serial) /\ serial' \in BOOLEAN /\ (serial' => \A d \in Editors : d # c => edit'[d] = Resting)
  BY <1>1, <1>2
<1>4. ConfigurationTypeOK'
  <2>1. accepted' \in 0..MaxEdits
    BY <1>1, ConfigurationAssumption DEF ConfigurationInv, ConfigurationTypeOK, ConfigurationAssumption
  <2>2. edit' \in [Editors -> Edits]
    BY <1>1 DEF ConfigurationInv, ConfigurationTypeOK
  <2> QED BY <1>1, <1>3, <2>1, <2>2 DEF ConfigurationInv, ConfigurationTypeOK
<1>5. EditsOneByOne'
  BY <1>1, <1>3 DEF EditsOneByOne
<1>6. Resting.op = "idle"
  BY DEF Resting
<1>7. MemoryFollowsDb'
  <2> SUFFICES ASSUME \A d \in Editors : edit'[d].op \notin {"reload", "imported"}
               PROVE  memory = Overlay(stored)
    BY <1>1 DEF MemoryFollowsDb, Overlay
  <2>1. \A d \in Editors : edit[d].op \notin {"reload", "imported"}
    BY <1>1, <1>2, <1>6
  <2> QED BY <1>1, <2>1 DEF ConfigurationInv, MemoryFollowsDb
<1>8. SourceStaysSource' /\ ManualOff' /\ AnsweredIsStored'
  BY <1>1, <1>3 DEF ConfigurationInv, SourceStaysSource, ManualOff, AnsweredIsStored, Overlay
<1>9. ReadIsCurrent'
  BY <1>1, <1>2, <1>3, <1>6 DEF ReadIsCurrent
<1>10. EditsFit'
  BY <1>2 DEF ConfigurationInv, EditsFit
<1>11. AllMigrateRightly'
  <2>1. /\ MigratesRightly(SettingsOf(ProjectRow))' /\ (kept' # NoRow => MigratesRightly(kept)')
        /\ export' # NoRow => MigratesRightly(SettingsOf(export))'
    BY <1>1 DEF ConfigurationInv, AllMigrateRightly, MigratesRightly, SettingsOf, ProjectRow
  <2>2. \A d \in Editors : edit'[d].op = "import" => MigratesRightly(edit'[d].b)
    BY <1>2 DEF ConfigurationInv, AllMigrateRightly
  <2> QED BY <1>1, <2>1, <2>2 DEF AllMigrateRightly, MigratesRightly
<1> QED BY <1>4, <1>5, <1>7, <1>8, <1>9, <1>10, <1>11 DEF ConfigurationInv

\* A request writes: what it leaves to be shown of what it wrote.
Writes(c, x) ==
    /\ up = "up" /\ edit[c] # Resting /\ edit' = [edit EXCEPT ![c] = x] /\ x \in Edits
    /\ x.op \in {"idle", "reload", "syncRead", "syncWrite", "imported"}
    /\ UNCHANGED <<up, accepted, starts, serial, kept>>
    /\ stored' \in [Sections -> Overrides] /\ memory' \in [Sections -> SUBSET Keys]
    /\ answered' \in [Sections -> SUBSET Keys] /\ git' \in GitFields /\ pub' \in Fields
    /\ repo' \in [RepoKeys -> {NoRow} \cup RepoRows]
    /\ migrated' \in BOOLEAN /\ early' \in BOOLEAN /\ legacy' \in BOOLEAN /\ pieced' \in BOOLEAN
    /\ (early => early')
    /\ \/ export' = export /\ migrated' = migrated
       \/ export' = IF export = NoRow THEN NoRow ELSE [export EXCEPT !.pieced = TRUE]
    /\ x.op \notin {"reload", "imported"} =>
          \/ memory' = Overlay(stored')
          \/ memory' = memory /\ stored' = stored /\ edit[c].op \notin {"reload", "imported"}
    /\ x.op = "reload" /\ serial /\ x.s = "llm" => x.v \subseteq Overlay(stored')["llm"]
    /\ serial => answered'["llm"] \subseteq Overlay(stored')["llm"]
    /\ ManualOff' /\ MigratesRightly(SettingsOf(ProjectRow))'

\* What an export under way has read, also after an import has torn it.
ProjectRows == [git : GitFields, pub : Fields, legacy : BOOLEAN, pieced : BOOLEAN]

LEMMA WritesExport ==
    ASSUME ConfigurationInv, NEW c \in Editors, NEW x, Writes(c, x)
    PROVE  export' \in {NoRow} \cup ProjectRows /\ (export' # NoRow => MigratesRightly(SettingsOf(export))')
<1>1. export \in {NoRow} \cup ProjectRows /\ early \in BOOLEAN /\ early' \in BOOLEAN /\ (early => early')
  BY DEF ConfigurationInv, ConfigurationTypeOK, ProjectRows, Writes
<1>2. CASE export' = export /\ migrated' = migrated
  BY <1>1, <1>2 DEF ConfigurationInv, AllMigrateRightly, MigratesRightly, SettingsOf
<1>3. CASE export' = IF export = NoRow THEN NoRow ELSE [export EXCEPT !.pieced = TRUE]
  <2>1. export = NoRow => export' = NoRow
    BY <1>3
  <2>2. export # NoRow => export' = [export EXCEPT !.pieced = TRUE]
    BY <1>3
  <2>3. export # NoRow => export' \in ProjectRows /\ export'.pieced = TRUE
    BY <1>1, <2>2 DEF ProjectRows
  <2> QED BY <2>1, <2>3 DEF MigratesRightly, SettingsOf
<1> QED BY <1>2, <1>3 DEF Writes

LEMMA WritesStep ==
    ASSUME ConfigurationInv, NEW c \in Editors, NEW x, Writes(c, x)
    PROVE  ConfigurationInv'
<1> USE DEF Writes
<1>1. edit'[c] = x /\ \A d \in Editors : d # c => edit'[d] = edit[d]
  BY DEF ConfigurationInv, ConfigurationTypeOK
<1>2. serial => \A d \in Editors : d # c => edit'[d] = Resting
  BY <1>1 DEF ConfigurationInv, EditsOneByOne
<1>3. ConfigurationTypeOK'
  BY WritesExport DEF ConfigurationInv, ConfigurationTypeOK, ProjectRows
<1>4. Resting.op = "idle" /\ x.op # "save" /\ x.op # "repo" /\ x.op # "createRepo" /\ x.op # "project" /\ x.op # "import"
  BY DEF Resting
<1>5. EditsOneByOne'
  BY <1>1, <1>2 DEF ConfigurationInv, EditsOneByOne
<1>6. MemoryFollowsDb'
  <2> SUFFICES ASSUME \A d \in Editors : edit'[d].op \notin {"reload", "imported"}
               PROVE  memory' = Overlay(stored')
    BY DEF MemoryFollowsDb, Overlay
  <2>1. x.op \notin {"reload", "imported"}
    BY <1>1
  <2>2. CASE memory' = memory /\ stored' = stored /\ edit[c].op \notin {"reload", "imported"}
    <3>1. \A d \in Editors : edit[d].op \notin {"reload", "imported"}
      BY <1>1, <2>2
    <3> QED BY <2>2, <3>1 DEF ConfigurationInv, MemoryFollowsDb
  <2> QED BY <2>1, <2>2
<1>7. SourceStaysSource'
  BY DEF MigratesRightly, SettingsOf, ProjectRow, SourceStaysSource
<1>8. ReadIsCurrent' /\ AnsweredIsStored'
  <2>1. \A s : Overlay(stored')[s] = Overlay(stored)'[s]
    BY DEF Overlay
  <2> QED BY <1>1, <1>2, <1>4, <2>1 DEF ReadIsCurrent, AnsweredIsStored
<1>9. EditsFit'
  BY <1>1, <1>4 DEF ConfigurationInv, EditsFit
<1>10. AllMigrateRightly'
  <2>1. \A y : MigratesRightly(y) => MigratesRightly(y)'
    BY DEF MigratesRightly, ConfigurationInv, ConfigurationTypeOK
  <2>2. kept' # NoRow => MigratesRightly(kept')
    BY DEF ConfigurationInv, AllMigrateRightly
  <2>3. \A d \in Editors : edit'[d].op = "import" => MigratesRightly(edit'[d].b)
    BY <1>1, <1>4 DEF ConfigurationInv, AllMigrateRightly
  <2> QED BY <2>1, <2>2, <2>3, WritesExport DEF AllMigrateRightly, MigratesRightly
<1> QED BY <1>3, <1>5, <1>6, <1>7, <1>8, <1>9, <1>10 DEF ConfigurationInv

-----------------------------------------------------------------------------
(* The requests.                                                            *)

LEMMA PatchedRow ==
    ASSUME NEW x \in RepoRows, NEW manual \in Optional, NEW on \in Optional
    PROVE  Patched(x, manual, on) \in RepoRows
<1>1. CASE TRUE \in manual /\ ~x.manual
  <2>1. Patched(x, manual, on) = [x EXCEPT !.manual = TRUE, !.before = x.on, !.on = FALSE]
    BY <1>1 DEF Patched
  <2> QED BY <2>1 DEF RepoRows
<1>2. CASE ~(TRUE \in manual /\ ~x.manual) /\ FALSE \in manual /\ x.manual
  <2>1. Patched(x, manual, on) = [x EXCEPT !.manual = FALSE, !.before = FALSE, !.on = x.before]
    BY <1>2 DEF Patched
  <2> QED BY <2>1 DEF RepoRows
<1>3. CASE ~(TRUE \in manual /\ ~x.manual) /\ ~(FALSE \in manual /\ x.manual)
  <2>1. Patched(x, manual, on) = [x EXCEPT !.on = IF on = {} THEN @ ELSE TRUE \in on]
    BY <1>3 DEF Patched
  <2>2. CASE on = {}
    BY <2>1, <2>2 DEF RepoRows
  <2>3. CASE on # {}
    <3>1. Patched(x, manual, on) = [x EXCEPT !.on = TRUE \in on]
      BY <2>1, <2>3, Zenon
    <3>2. \A b \in BOOLEAN : [x EXCEPT !.on = b] \in RepoRows
      BY DEF RepoRows
    <3>3. (TRUE \in on) \in BOOLEAN
      BY SMT
    <3> QED BY <3>1, <3>2, <3>3, Zenon
  <2> QED BY <2>2, <2>3
<1> QED BY <1>1, <1>2, <1>3

LEMMA BeginEditStep ==
    ASSUME ConfigurationInv, NEW c \in Editors, BeginEdit(c)
    PROVE  ConfigurationInv'
<1>1. ASSUME NEW s \in Sections, NEW v \in SUBSET Keys,
             Edit(c, [op |-> "save", s |-> s, v |-> v, old |-> stored[s]])
      PROVE  ConfigurationInv'
  <2> DEFINE x == [op |-> "save", s |-> s, v |-> v, old |-> stored[s]]
  <2>1. x \in Edits /\ x # Resting /\ x.op = "save" /\ x.old = stored[x.s]
    BY DEF Edits, Resting, ConfigurationInv, ConfigurationTypeOK
  <2>2. Edit(c, x)
    BY <1>1
  <2> HIDE DEF x
  <2> QED BY <2>1, <2>2, EditStep
<1>2. ASSUME NEW g \in GitFields, Edit(c, [op |-> "project", f |-> "git", old |-> git, new |-> g])
      PROVE  ConfigurationInv'
  <2> DEFINE x == [op |-> "project", f |-> "git", old |-> git, new |-> g]
  <2>1. x \in Edits /\ x # Resting /\ x.op = "project" /\ x.f = "git"
    BY DEF Edits, Resting, ConfigurationInv, ConfigurationTypeOK
  <2>2. Edit(c, x)
    BY <1>2
  <2> HIDE DEF x
  <2> QED BY <2>1, <2>2, EditStep
<1>3. ASSUME Edit(c, [op |-> "project", f |-> "pub", old |-> pub, new |-> [pub EXCEPT !.url = "wiki"]])
      PROVE  ConfigurationInv'
  <2> DEFINE x == [op |-> "project", f |-> "pub", old |-> pub, new |-> [pub EXCEPT !.url = "wiki"]]
  <2>1. x \in Edits /\ x # Resting /\ x.op = "project" /\ x.new.url = "wiki"
    BY DEF Edits, Resting, ConfigurationInv, ConfigurationTypeOK, Fields
  <2>2. Edit(c, x)
    BY <1>3
  <2> HIDE DEF x
  <2> QED BY <2>1, <2>2, EditStep
<1>4. CASE SaveSettings(c)
  BY <1>1, <1>4 DEF SaveSettings
<1>5. CASE PatchProject(c)
  <2>1. \A u \in {"", "src"} : [git EXCEPT !.url = u] \in GitFields
    BY DEF ConfigurationInv, ConfigurationTypeOK, GitFields
  <2>2. \A b \in BOOLEAN : [git EXCEPT !.on = b] \in GitFields
    BY DEF ConfigurationInv, ConfigurationTypeOK, GitFields
  <2> QED BY <1>2, <1>3, <1>5, <2>1, <2>2 DEF PatchProject
<1>6. CASE ListRepos(c)
  <2> DEFINE x == [op |-> "syncWrite", g |-> git, old |-> NoRow]
  <2>1. x \in Edits /\ x # Resting /\ x.op = "syncWrite"
    BY DEF Edits, Resting, ConfigurationInv, ConfigurationTypeOK
  <2>2. Edit(c, x)
    BY <1>6 DEF ListRepos
  <2> HIDE DEF x
  <2> QED BY <2>1, <2>2, EditStep
<1>7. CASE CreateRepo(c)
  <2>1. PICK k \in RepoKeys, b \in BOOLEAN :
           Edit(c, [op |-> "createRepo", k |-> k, new |-> NewRepo([url |-> "src", on |-> b])])
    BY <1>7 DEF CreateRepo
  <2> DEFINE n == NewRepo([url |-> "src", on |-> b])
  <2> DEFINE x == [op |-> "createRepo", k |-> k, new |-> n]
  <2>2. n \in RepoRows /\ ~n.manual
    BY DEF NewRepo, RepoRows
  <2>3. Edit(c, x)
    BY <2>1
  <2> HIDE DEF n
  <2>4. x \in Edits /\ x # Resting /\ x.op = "createRepo" /\ x.new = n
    BY <2>2 DEF Edits, Resting
  <2> HIDE DEF x
  <2> QED BY <2>2, <2>3, <2>4, EditStep
<1>8. CASE PatchRepo(c)
  <2>1. PICK k \in RepoKeys, manual \in Optional, on \in Optional :
           /\ repo[k] # NoRow /\ ~(Patched(repo[k], manual, on).manual /\ Patched(repo[k], manual, on).on)
           /\ Edit(c, [op |-> "repo", k |-> k, old |-> repo[k], new |-> Patched(repo[k], manual, on)])
    BY <1>8 DEF PatchRepo
  <2> DEFINE n == Patched(repo[k], manual, on)
  <2> DEFINE x == [op |-> "repo", k |-> k, old |-> repo[k], new |-> n]
  <2>2. repo[k] \in RepoRows
    BY <2>1 DEF ConfigurationInv, ConfigurationTypeOK
  <2>3. n \in RepoRows
    BY <2>2, PatchedRow
  <2>4. Edit(c, x) /\ ~(n.manual /\ n.on)
    BY <2>1
  <2> HIDE DEF n
  <2>5. x \in Edits /\ x # Resting /\ x.op = "repo" /\ x.old = repo[x.k] /\ x.new = n
    BY <2>2, <2>3 DEF Edits, Resting
  <2> HIDE DEF x
  <2> QED BY <2>4, <2>5, EditStep
<1>9. CASE DeleteRepo(c)
  <2>1. PICK k \in RepoKeys : Edit(c, [op |-> "deleteRepo", k |-> k])
    BY <1>9 DEF DeleteRepo
  <2> DEFINE x == [op |-> "deleteRepo", k |-> k]
  <2>2. x \in Edits /\ x # Resting /\ x.op = "deleteRepo" /\ Edit(c, x)
    BY <2>1 DEF Edits, Resting
  <2> HIDE DEF x
  <2> QED BY <2>2, EditStep
<1>10. CASE ImportSettings(c)
  <2> DEFINE x == [op |-> "import", b |-> kept]
  <2>1. kept # NoRow /\ Edit(c, x)
    BY <1>10 DEF ImportSettings
  <2>2. kept \in SettingsBundles /\ MigratesRightly(kept)
    BY <2>1 DEF ConfigurationInv, ConfigurationTypeOK, AllMigrateRightly
  <2>3. x \in Edits /\ x # Resting /\ x.op = "import" /\ x.b = kept
    BY <2>2 DEF Edits, Resting
  <2> HIDE DEF x
  <2> QED BY <2>1, <2>2, <2>3, EditStep
<1> QED BY <1>4, <1>5, <1>6, <1>7, <1>8, <1>9, <1>10 DEF BeginEdit

-----------------------------------------------------------------------------
(* What they write.                                                         *)

\* Steps of a request that touch neither the settings nor what is to be migrated.
LEMMA KeepsSettings ==
    ASSUME ConfigurationInv, NEW c \in Editors, NEW x \in Edits, NEW op, EditAt(c, op), op \notin {"idle", "reload", "imported"},
           edit' = [edit EXCEPT ![c] = x], x.op \in {"idle", "syncRead", "syncWrite"},
           UNCHANGED <<up, accepted, starts, serial, kept, export, stored, memory, answered, migrated, git, pub, early, legacy, pieced>>,
           repo' \in [RepoKeys -> {NoRow} \cup RepoRows], ManualOff'
    PROVE  ConfigurationInv'
<1>1. edit[c].op = op /\ up = "up" /\ edit[c] # Resting
  BY DEF EditAt, Resting
<1>2. serial => answered["llm"] \subseteq Overlay(stored)["llm"]
  BY DEF ConfigurationInv, AnsweredIsStored
<1>3. MigratesRightly(SettingsOf(ProjectRow))'
  BY DEF ConfigurationInv, AllMigrateRightly, MigratesRightly, SettingsOf, ProjectRow
<1>4. Writes(c, x)
  BY <1>1, <1>2, <1>3 DEF Writes, ConfigurationInv, ConfigurationTypeOK
<1> QED BY <1>4, WritesStep

LEMMA WriteSettingsStep ==
    ASSUME ConfigurationInv, NEW c \in Editors, WriteSettings(c)
    PROVE  ConfigurationInv'
<1> DEFINE r == edit[c]
<1>1. /\ r \in [op : {"save", "reload"}, s : Sections, v : SUBSET Keys, old : Overrides]
      /\ r.op = "save" /\ up = "up" /\ r # Resting /\ r.s \in Sections /\ r.v \in SUBSET Keys /\ r.old \in Overrides
  BY EditKinds DEF WriteSettings, EditAt, ConfigurationInv, ConfigurationTypeOK, Resting
<1>2. UNCHANGED <<migrated, memory, git, pub, repo, kept, export, answered, early, legacy, pieced, up, accepted, starts, serial>>
  BY DEF WriteSettings, Then, Done, backupVars, histories
<1>3. serial => r.old = stored[r.s]
  BY <1>1 DEF ConfigurationInv, ReadIsCurrent
<1>4. Merged(r.s, r.old, r.v) \in SUBSET Keys /\ r.v \subseteq Merged(r.s, r.old, r.v)
      /\ (r.s = "llm" /\ r.old # NoRow => r.old \subseteq Merged(r.s, r.old, r.v))
  BY <1>1 DEF Merged, Overrides
<1>5. CASE r.old = NoRow /\ stored[r.s] # NoRow
  <2>1. stored' = stored /\ edit' = [edit EXCEPT ![c] = Resting]
    BY <1>5 DEF WriteSettings, Done, Then
  <2>2. Resting \in Edits /\ Resting.op = "idle"
    BY DEF Edits, Resting
  <2>3. EditAt(c, "save")
    BY DEF WriteSettings
  <2>4. repo' \in [RepoKeys -> {NoRow} \cup RepoRows] /\ ManualOff'
    BY <1>2 DEF ConfigurationInv, ConfigurationTypeOK, ManualOff
  <2> QED BY <1>2, <2>1, <2>2, <2>3, <2>4, KeepsSettings
<1>6. CASE ~(r.old = NoRow /\ stored[r.s] # NoRow)
  <2> DEFINE x == [r EXCEPT !.op = "reload"]
  <2>1. /\ edit' = [edit EXCEPT ![c] = x]
        /\ stored' = IF r.old # NoRow /\ stored[r.s] = NoRow THEN stored
                      ELSE [stored EXCEPT ![r.s] = Merged(r.s, r.old, r.v)]
    BY <1>6 DEF WriteSettings, Then
  <2>2. x \in Edits /\ x.op = "reload" /\ x.s = r.s /\ x.v = r.v
    BY <1>1 DEF Edits
  <2> HIDE DEF x
  <2>3. stored' \in [Sections -> Overrides]
    BY <1>1, <1>4, <2>1 DEF ConfigurationInv, ConfigurationTypeOK, Overrides
  <2>4. serial => stored' = [stored EXCEPT ![r.s] = Merged(r.s, r.old, r.v)]
    BY <1>3, <2>1
  <2>5. "llm" \in Sections /\ stored \in [Sections -> Overrides]
    BY DEF Sections, ConfigurationInv, ConfigurationTypeOK
  <2>6. ASSUME serial, r.s # "llm"
        PROVE  answered'["llm"] \subseteq Overlay(stored')["llm"]
    <3>1. stored'["llm"] = stored["llm"]
      BY <1>1, <2>4, <2>5, <2>6
    <3>2. Overlay(stored')["llm"] = Overlay(stored)["llm"]
      BY <2>3, <2>5, <3>1, OverlayTypes
    <3> QED BY <1>2, <2>6, <3>2 DEF ConfigurationInv, AnsweredIsStored
  <2>7. ASSUME serial, r.s = "llm"
        PROVE  answered'["llm"] \subseteq Overlay(stored')["llm"] /\ x.v \subseteq Overlay(stored')["llm"]
    <3>1. stored'["llm"] = Merged(r.s, r.old, r.v)
      BY <1>1, <2>4, <2>5, <2>7
    <3>2. stored'["llm"] # NoRow
      BY <1>4, <3>1, ConfigurationAssumption DEF ConfigurationAssumption
    <3>3. Overlay(stored')["llm"] = Merged(r.s, r.old, r.v)
      BY <2>3, <2>5, <3>1, <3>2, OverlayTypes
    <3>4. Overlay(stored)["llm"] \subseteq Merged(r.s, r.old, r.v)
      BY <1>3, <1>4, <2>5, <2>7, OverlayTypes
    <3> QED BY <1>2, <1>4, <2>2, <2>7, <3>3, <3>4 DEF ConfigurationInv, AnsweredIsStored
  <2>8. ManualOff' /\ MigratesRightly(SettingsOf(ProjectRow))'
    BY <1>2 DEF ConfigurationInv, ManualOff, AllMigrateRightly, MigratesRightly, SettingsOf, ProjectRow
  <2>9. Writes(c, x)
    BY <1>1, <1>2, <2>1, <2>2, <2>3, <2>6, <2>7, <2>8 DEF Writes, ConfigurationInv, ConfigurationTypeOK
  <2> QED BY <2>9, WritesStep
<1> QED BY <1>5, <1>6

LEMMA ReloadStep ==
    ASSUME ConfigurationInv, NEW c \in Editors, Reload(c)
    PROVE  ConfigurationInv'
<1> DEFINE r == edit[c]
<1>1. /\ edit' = [edit EXCEPT ![c] = Resting] /\ Resting \in Edits /\ Resting.op = "idle"
      /\ UNCHANGED <<up, accepted, starts, serial, stored, migrated, git, pub, repo, kept, export, early, legacy, pieced>>
      /\ memory' = Overlay(stored) /\ up = "up" /\ r # Resting
      /\ r.op = "imported" \/ r.op = "reload"
      /\ r.op = "imported" => answered' = answered
      /\ r.op = "reload" => answered' = [answered EXCEPT ![r.s] = @ \cup r.v]
  BY DEF Reload, Done, Then, EditAt, settingsRows, backupVars, Edits, Resting
<1>2. stored \in [Sections -> Overrides] /\ answered \in [Sections -> SUBSET Keys]
  BY DEF ConfigurationInv, ConfigurationTypeOK
<1>3. Overlay(stored) \in [Sections -> SUBSET Keys] /\ Overlay(stored') = Overlay(stored)
  BY <1>1, <1>2, OverlayTypes
<1>4. /\ answered' \in [Sections -> SUBSET Keys]
      /\ serial => answered'["llm"] \subseteq Overlay(stored)["llm"]
  <2>1. serial => answered["llm"] \subseteq Overlay(stored)["llm"]
    BY DEF ConfigurationInv, AnsweredIsStored
  <2>2. CASE r.op = "imported"
    BY <1>1, <1>2, <2>1, <2>2
  <2>3. CASE r.op = "reload"
    <3>1. r.s \in Sections /\ r.v \in SUBSET Keys
      BY <2>3, EditKinds DEF ConfigurationInv, ConfigurationTypeOK
    <3>2. serial /\ r.s = "llm" => r.v \subseteq Overlay(stored)["llm"]
      BY <2>3 DEF ConfigurationInv, ReadIsCurrent
    <3>3. answered' = [answered EXCEPT ![r.s] = answered[r.s] \cup r.v]
      BY <1>1, <2>3
    <3>4. answered' \in [Sections -> SUBSET Keys]
      BY <1>2, <3>1, <3>3
    <3>5. answered'["llm"] = IF r.s = "llm" THEN answered["llm"] \cup r.v ELSE answered["llm"]
      BY <1>2, <3>1, <3>3 DEF Sections
    <3> QED BY <2>1, <3>2, <3>4, <3>5
  <2> QED BY <1>1, <2>2, <2>3
<1>5. ManualOff' /\ MigratesRightly(SettingsOf(ProjectRow))'
  BY <1>1 DEF ConfigurationInv, ManualOff, AllMigrateRightly, MigratesRightly, SettingsOf, ProjectRow
<1>6. Writes(c, Resting)
  BY <1>1, <1>2, <1>3, <1>4, <1>5 DEF Writes, ConfigurationInv, ConfigurationTypeOK
<1> QED BY <1>6, WritesStep

LEMMA FlushedFits ==
    /\ \A x, y, z \in GitFields : Flushed(x, y, z) \in GitFields
    /\ \A x, y, z \in Fields : Flushed(x, y, z) \in Fields /\ Flushed(x, y, z).url \in {x.url, z.url}
    /\ \A x, y, z \in RepoRows : Flushed(x, y, z) \in RepoRows
    /\ \A x, z \in RepoRows : Flushed(x, x, z) = z
<1>1. ASSUME NEW x \in GitFields, NEW y \in GitFields, NEW z \in GitFields
      PROVE  Flushed(x, y, z) \in GitFields
  <2>1. DOMAIN z = {"url", "on"}
    BY DEF GitFields
  <2>2. Flushed(x, y, z) = [f \in {"url", "on"} |-> IF z[f] # y[f] THEN z[f] ELSE x[f]]
    BY <2>1 DEF Flushed
  <2>3. Flushed(x, y, z) = [url |-> Flushed(x, y, z).url, on |-> Flushed(x, y, z).on]
    BY <2>2
  <2>4. Flushed(x, y, z).url \in {x.url, z.url} /\ Flushed(x, y, z).on \in {x.on, z.on}
    BY <2>2
  <2> HIDE DEF Flushed
  <2> QED BY <2>3, <2>4 DEF GitFields
<1>2. ASSUME NEW x \in Fields, NEW y \in Fields, NEW z \in Fields
      PROVE  Flushed(x, y, z) \in Fields /\ Flushed(x, y, z).url \in {x.url, z.url}
  <2>1. DOMAIN z = {"url", "on"}
    BY DEF Fields
  <2>2. Flushed(x, y, z) = [f \in {"url", "on"} |-> IF z[f] # y[f] THEN z[f] ELSE x[f]]
    BY <2>1 DEF Flushed
  <2>3. Flushed(x, y, z) = [url |-> Flushed(x, y, z).url, on |-> Flushed(x, y, z).on]
    BY <2>2
  <2>4. Flushed(x, y, z).url \in {x.url, z.url} /\ Flushed(x, y, z).on \in {x.on, z.on}
    BY <2>2
  <2> QED BY <2>3, <2>4 DEF Fields
<1>3. ASSUME NEW x \in RepoRows, NEW y \in RepoRows, NEW z \in RepoRows
      PROVE  Flushed(x, y, z) \in RepoRows /\ (y = x => Flushed(x, y, z) = z)
  <2>1. DOMAIN z = {"url", "on", "manual", "before"}
    BY DEF RepoRows
  <2>2. Flushed(x, y, z) = [f \in {"url", "on", "manual", "before"} |-> IF z[f] # y[f] THEN z[f] ELSE x[f]]
    BY <2>1 DEF Flushed
  <2> DEFINE w == Flushed(x, y, z)
  <2>3. w = [url |-> w.url, on |-> w.on, manual |-> w.manual, before |-> w.before]
    BY <2>2
  <2>4. /\ w.url \in {x.url, z.url} /\ w.on \in {x.on, z.on}
        /\ w.manual \in {x.manual, z.manual} /\ w.before \in {x.before, z.before}
    BY <2>2
  <2>5. y = x => w.url = z.url /\ w.on = z.on /\ w.manual = z.manual /\ w.before = z.before
    BY <2>2
  <2>6. z = [url |-> z.url, on |-> z.on, manual |-> z.manual, before |-> z.before]
    BY DEF RepoRows
  <2> HIDE DEF w
  <2>7. w \in RepoRows
    BY <2>3, <2>4 DEF RepoRows
  <2>8. y = x => w = z
    BY <2>3, <2>5, <2>6
  <2> QED BY <2>7, <2>8 DEF w
<1> QED BY <1>1, <1>2, <1>3

LEMMA WriteProjectStep ==
    ASSUME ConfigurationInv, NEW c \in Editors, WriteProject(c)
    PROVE  ConfigurationInv'
<1> DEFINE r == edit[c]
<1>1. /\ r.op = "project" /\ up = "up" /\ r # Resting
      /\ \/ r.f = "git" /\ r.old \in GitFields /\ r.new \in GitFields
         \/ r.f = "pub" /\ r.old \in Fields /\ r.new \in Fields /\ r.new.url = "wiki"
      /\ UNCHANGED <<stored, migrated, memory, repo, kept, export, answered, legacy, pieced, up, accepted, starts, serial>>
  BY EditKinds DEF WriteProject, EditAt, Then, Done, backupVars, ConfigurationInv, ConfigurationTypeOK, EditsFit, Resting
<1>2. /\ serial => answered["llm"] \subseteq Overlay(stored)["llm"]
      /\ Overlay(stored') = Overlay(stored)
  BY <1>1 DEF ConfigurationInv, AnsweredIsStored, Overlay
<1>3. ManualOff'
  BY <1>1 DEF ConfigurationInv, ManualOff
<1>4. MigratesRightly(SettingsOf(ProjectRow))
  BY DEF ConfigurationInv, AllMigrateRightly
<1>5. CASE r.f = "git"
  <2> DEFINE x == [op |-> "syncRead"]
  <2>1. edit' = [edit EXCEPT ![c] = x] /\ pub' = pub /\ git' = Flushed(git, r.old, r.new) /\ early' = (early \/ ~migrated)
    BY <1>5 DEF WriteProject, Then
  <2>2. x \in Edits /\ x.op = "syncRead"
    BY DEF Edits
  <2> HIDE DEF x
  <2>3. git' \in GitFields
    BY <1>1, <1>5, <2>1, FlushedFits DEF ConfigurationInv, ConfigurationTypeOK
  <2>4. early' \in BOOLEAN /\ (early => early') /\ (~migrated => early')
    BY <2>1
  <2>5. MigratesRightly(SettingsOf(ProjectRow))'
    BY <1>1, <1>4, <2>1, <2>4 DEF MigratesRightly, SettingsOf, ProjectRow
  <2>6. Writes(c, x)
    BY <1>1, <1>2, <1>3, <2>1, <2>2, <2>3, <2>4, <2>5 DEF Writes, ConfigurationInv, ConfigurationTypeOK
  <2> QED BY <2>6, WritesStep
<1>6. CASE r.f = "pub"
  <2>1. edit' = [edit EXCEPT ![c] = Resting] /\ git' = git /\ pub' = Flushed(pub, r.old, r.new) /\ early' = early
    BY <1>6 DEF WriteProject, Then, Done
  <2>2. Resting \in Edits /\ Resting.op = "idle"
    BY DEF Edits, Resting
  <2>3. pub' \in Fields /\ pub'.url \in {pub.url, "wiki"}
    BY <1>1, <1>6, <2>1, FlushedFits DEF ConfigurationInv, ConfigurationTypeOK
  <2>4. MigratesRightly(SettingsOf(ProjectRow))'
    BY <1>1, <1>4, <2>1, <2>3 DEF MigratesRightly, SettingsOf, ProjectRow
  <2>5. Writes(c, Resting)
    BY <1>1, <1>2, <1>3, <2>1, <2>2, <2>3, <2>4 DEF Writes, ConfigurationInv, ConfigurationTypeOK
  <2> QED BY <2>5, WritesStep
<1> QED BY <1>1, <1>5, <1>6

LEMMA SyncReadStep ==
    ASSUME ConfigurationInv, NEW c \in Editors, SyncDefaultRead(c)
    PROVE  ConfigurationInv'
<1> DEFINE x == [op |-> "syncWrite", g |-> git, old |-> repo["default"]]
<1>1. x \in Edits /\ x.op = "syncWrite"
  BY DEF Edits, ConfigurationInv, ConfigurationTypeOK, RepoKeys
<1>2. edit' = [edit EXCEPT ![c] = x]
  BY DEF SyncDefaultRead, Then
<1> HIDE DEF x
<1>3. /\ EditAt(c, "syncRead")
      /\ UNCHANGED <<stored, migrated, git, pub, repo, memory, kept, export, answered, early, legacy, pieced, up, accepted, starts, serial>>
  BY DEF SyncDefaultRead, Then, settingsRows, backupVars, histories
<1>4. repo' \in [RepoKeys -> {NoRow} \cup RepoRows] /\ ManualOff'
  BY <1>3 DEF ConfigurationInv, ConfigurationTypeOK, ManualOff
<1> QED BY <1>1, <1>2, <1>3, <1>4, KeepsSettings

\* A request has done what it does to the source repositories.
LEMMA RepoDone ==
    ASSUME ConfigurationInv, NEW c \in Editors, NEW op \in {"syncWrite", "createRepo", "repo", "deleteRepo"}, EditAt(c, op), Done(c),
           UNCHANGED <<stored, migrated, memory, git, pub, kept, export, answered, early, legacy, pieced>>,
           repo' \in [RepoKeys -> {NoRow} \cup RepoRows],
           repo'["extra"] # repo["extra"] /\ repo'["extra"] # NoRow /\ serial => ~(repo'["extra"].manual /\ repo'["extra"].on)
    PROVE  ConfigurationInv'
<1>1. Resting \in Edits /\ Resting.op = "idle"
  BY DEF Edits, Resting
<1>2. UNCHANGED <<up, accepted, starts, serial>> /\ edit' = [edit EXCEPT ![c] = Resting]
  BY DEF Done, Then
<1>3. ManualOff'
  BY <1>2 DEF ConfigurationInv, ManualOff
<1> QED BY <1>1, <1>2, <1>3, KeepsSettings

LEMMA SyncWriteStep ==
    ASSUME ConfigurationInv, NEW c \in Editors, SyncDefaultWrite(c)
    PROVE  ConfigurationInv'
<1> DEFINE r == edit[c]
<1> DEFINE now == repo["default"]
<1>1. EditAt(c, "syncWrite") /\ Done(c) /\ UNCHANGED <<stored, migrated, memory, git, pub, kept, export, answered, early, legacy, pieced>>
  BY DEF SyncDefaultWrite, backupVars, histories
<1>2. r.g \in GitFields /\ r.old \in {NoRow} \cup RepoRows
  BY <1>1, EditKinds DEF EditAt, ConfigurationInv, ConfigurationTypeOK
<1>3. repo \in [RepoKeys -> {NoRow} \cup RepoRows] /\ "default" \in RepoKeys /\ "extra" \in RepoKeys
  BY DEF ConfigurationInv, ConfigurationTypeOK, RepoKeys
<1>4. NewRepo(r.g) \in RepoRows
  BY <1>2 DEF NewRepo, RepoRows, GitFields
<1>5. r.old # NoRow /\ now # NoRow => Flushed(now, r.old, [r.old EXCEPT !.url = r.g.url, !.on = r.g.on]) \in RepoRows
  <2>1. r.old # NoRow => [r.old EXCEPT !.url = r.g.url, !.on = r.g.on] \in RepoRows
    BY <1>2 DEF RepoRows, GitFields
  <2>2. now # NoRow => now \in RepoRows
    BY <1>3
  <2> QED BY <1>2, <2>1, <2>2, FlushedFits
<1>6. repo' = repo \/ \E n \in RepoRows : repo' = [repo EXCEPT !["default"] = n]
  BY <1>4, <1>5 DEF SyncDefaultWrite
<1>7. repo' \in [RepoKeys -> {NoRow} \cup RepoRows] /\ repo'["extra"] = repo["extra"]
  BY <1>3, <1>6
<1> QED BY <1>1, <1>7, RepoDone

LEMMA InsertRepoStep ==
    ASSUME ConfigurationInv, NEW c \in Editors, InsertRepo(c)
    PROVE  ConfigurationInv'
<1> DEFINE r == edit[c]
<1>1. EditAt(c, "createRepo") /\ Done(c) /\ UNCHANGED <<stored, migrated, memory, git, pub, kept, export, answered, early, legacy, pieced>>
  BY DEF InsertRepo, backupVars, histories
<1>2. r.k \in RepoKeys /\ r.new \in RepoRows /\ ~r.new.manual
  BY <1>1, EditKinds DEF EditAt, ConfigurationInv, ConfigurationTypeOK, EditsFit
<1>3. repo \in [RepoKeys -> {NoRow} \cup RepoRows] /\ "extra" \in RepoKeys
  BY DEF ConfigurationInv, ConfigurationTypeOK, RepoKeys
<1>4. repo' = repo \/ repo' = [repo EXCEPT ![r.k] = r.new]
  BY DEF InsertRepo
<1>5. repo' \in [RepoKeys -> {NoRow} \cup RepoRows] /\ repo'["extra"] \in {repo["extra"], r.new}
  BY <1>2, <1>3, <1>4
<1> QED BY <1>1, <1>2, <1>5, RepoDone

LEMMA WriteRepoStep ==
    ASSUME ConfigurationInv, NEW c \in Editors, WriteRepo(c)
    PROVE  ConfigurationInv'
<1> DEFINE r == edit[c]
<1>1. EditAt(c, "repo") /\ Done(c) /\ UNCHANGED <<stored, migrated, memory, git, pub, kept, export, answered, early, legacy, pieced>>
  BY DEF WriteRepo, backupVars, histories
<1>2. /\ r.k \in RepoKeys /\ r.old \in RepoRows /\ r.new \in RepoRows /\ ~(r.new.manual /\ r.new.on)
      /\ serial => r.old = repo[r.k]
  BY <1>1, EditKinds DEF EditAt, ConfigurationInv, ConfigurationTypeOK, EditsFit, ReadIsCurrent
<1>3. repo \in [RepoKeys -> {NoRow} \cup RepoRows] /\ "extra" \in RepoKeys
  BY DEF ConfigurationInv, ConfigurationTypeOK, RepoKeys
<1>4. CASE repo[r.k] = NoRow
  <2>1. repo' = repo
    BY <1>4 DEF WriteRepo
  <2> QED BY <1>1, <1>3, <2>1, RepoDone
<1>5. CASE repo[r.k] # NoRow
  <2>1. repo' = [repo EXCEPT ![r.k] = Flushed(repo[r.k], r.old, r.new)]
    BY <1>5 DEF WriteRepo
  <2>2. repo[r.k] \in RepoRows
    BY <1>2, <1>3, <1>5
  <2>3. Flushed(repo[r.k], r.old, r.new) \in RepoRows /\ (serial => Flushed(repo[r.k], r.old, r.new) = r.new)
    BY <1>2, <2>2, FlushedFits
  <2>4. repo' \in [RepoKeys -> {NoRow} \cup RepoRows]
    BY <1>2, <1>3, <2>1, <2>3
  <2>5. serial => repo'["extra"] = repo["extra"] \/ repo'["extra"] = r.new
    BY <1>2, <1>3, <2>1, <2>3
  <2> QED BY <1>1, <1>2, <2>4, <2>5, RepoDone
<1> QED BY <1>4, <1>5

LEMMA RemoveRepoStep ==
    ASSUME ConfigurationInv, NEW c \in Editors, RemoveRepo(c)
    PROVE  ConfigurationInv'
<1>1. EditAt(c, "deleteRepo") /\ Done(c) /\ UNCHANGED <<stored, migrated, memory, git, pub, kept, export, answered, early, legacy, pieced>>
  BY DEF RemoveRepo, backupVars, histories
<1>2. repo \in [RepoKeys -> {NoRow} \cup RepoRows] /\ "extra" \in RepoKeys
  BY DEF ConfigurationInv, ConfigurationTypeOK, RepoKeys
<1>3. repo' = [repo EXCEPT ![edit[c].k] = NoRow]
  BY DEF RemoveRepo
<1>4. repo' \in [RepoKeys -> {NoRow} \cup RepoRows] /\ repo'["extra"] \in {repo["extra"], NoRow}
  BY <1>2, <1>3
<1> QED BY <1>1, <1>4, RepoDone

LEMMA RestoreStep ==
    ASSUME ConfigurationInv, NEW c \in Editors, RestoreRows(c)
    PROVE  ConfigurationInv'
<1> DEFINE b == edit[c].b
<1> DEFINE x == [op |-> "imported"]
<1>1. /\ edit[c].op = "import" /\ up = "up" /\ edit[c] # Resting
      /\ UNCHANGED <<memory, repo, kept, early, up, accepted, starts, serial>>
      /\ stored' = b.stored /\ migrated' = b.migrated /\ git' = b.git /\ pub' = b.pub /\ legacy' = b.legacy /\ pieced' = b.pieced
      /\ export' = (IF export = NoRow THEN NoRow ELSE [export EXCEPT !.pieced = TRUE])
      /\ answered' = Overlay(b.stored)
      /\ edit' = [edit EXCEPT ![c] = x]
  BY DEF RestoreRows, EditAt, Then, Resting
<1>2. x \in Edits /\ x.op = "imported"
  BY DEF Edits
<1> HIDE DEF x
<1>3. b \in SettingsBundles /\ MigratesRightly(b)
  BY <1>1, EditKinds DEF ConfigurationInv, ConfigurationTypeOK, AllMigrateRightly
<1>4. /\ b.stored \in [Sections -> Overrides] /\ b.migrated \in BOOLEAN /\ b.git \in GitFields
      /\ b.pub \in Fields /\ b.legacy \in BOOLEAN /\ b.pieced \in BOOLEAN
  BY <1>3 DEF SettingsBundles
<1>5. Overlay(b.stored) \in [Sections -> SUBSET Keys] /\ Overlay(stored') = Overlay(b.stored)
  BY <1>1, <1>4, OverlayTypes
<1>6. MigratesRightly(SettingsOf(ProjectRow))'
  BY <1>1, <1>3 DEF MigratesRightly, SettingsOf, ProjectRow
<1>7. ManualOff'
  BY <1>1 DEF ConfigurationInv, ManualOff
<1>8. Writes(c, x)
  BY <1>1, <1>2, <1>4, <1>5, <1>6, <1>7 DEF Writes, ConfigurationInv, ConfigurationTypeOK
<1> QED BY <1>8, WritesStep

-----------------------------------------------------------------------------
(* Start-up, crashes and the backup.                                        *)

LEMMA MigrateSourceStep ==
    ASSUME ConfigurationInv, MigrateSource
    PROVE  ConfigurationInv'
<1>1. /\ up = "down" /\ up' = "migrating" /\ starts' = starts + 1 /\ starts < MaxStarts
      /\ UNCHANGED <<stored, migrated, memory, git, pub, kept, export, edit, accepted, answered, early, legacy, pieced, serial>>
      /\ repo' = repo \/ repo' = [repo EXCEPT !["default"] = NewRepo(git)]
  BY DEF MigrateSource, backupVars, histories
<1>2. repo' \in [RepoKeys -> {NoRow} \cup RepoRows] /\ repo'["extra"] = repo["extra"]
  <2>1. NewRepo(git) \in RepoRows
    BY DEF NewRepo, RepoRows, GitFields, ConfigurationInv, ConfigurationTypeOK
  <2> QED BY <1>1, <2>1 DEF ConfigurationInv, ConfigurationTypeOK, RepoKeys
<1>3. starts' \in 0..MaxStarts
  BY <1>1, ConfigurationAssumption DEF ConfigurationInv, ConfigurationTypeOK, ConfigurationAssumption
<1>4. ConfigurationTypeOK'
  BY <1>1, <1>2, <1>3 DEF ConfigurationInv, ConfigurationTypeOK
<1>5. AllIdle /\ export = NoRow
  BY <1>1 DEF ConfigurationInv, EditsOneByOne
<1>6. EditsOneByOne' /\ MemoryFollowsDb' /\ SourceStaysSource'
  BY <1>1, <1>5 DEF ConfigurationInv, EditsOneByOne, AllIdle, MemoryFollowsDb, SourceStaysSource
<1>7. ManualOff' /\ AnsweredIsStored'
  BY <1>1, <1>2 DEF ConfigurationInv, ManualOff, AnsweredIsStored, Overlay
<1>8. Resting.op = "idle"
  BY DEF Resting
<1>9. ReadIsCurrent' /\ EditsFit'
  BY <1>1, <1>5, <1>8 DEF ReadIsCurrent, EditsFit, AllIdle
<1>10. AllMigrateRightly'
  BY <1>1 DEF ConfigurationInv, AllMigrateRightly, MigratesRightly, SettingsOf, ProjectRow
<1> QED BY <1>4, <1>6, <1>7, <1>9, <1>10 DEF ConfigurationInv

LEMMA MigratePublishStep ==
    ASSUME ConfigurationInv, MigratePublish
    PROVE  ConfigurationInv'
<1>1. /\ up = "migrating" /\ up' = "up" /\ migrated' = TRUE /\ memory' = Overlay(stored)
      /\ UNCHANGED <<stored, repo, kept, export, edit, accepted, starts, answered, early, legacy, pieced, serial>>
      /\ IF ~migrated /\ git.url # "" /\ pub.url = ""
         THEN pub' = git /\ git' = Blank ELSE UNCHANGED <<git, pub>>
  BY DEF MigratePublish, backupVars, histories
<1>2. git' \in GitFields /\ pub' \in Fields
  <2>1. git \in GitFields /\ pub \in Fields
    BY DEF ConfigurationInv, ConfigurationTypeOK
  <2>2. Blank \in GitFields /\ git \in Fields
    BY <2>1 DEF Blank, GitFields, Fields
  <2> QED BY <1>1, <2>1, <2>2
<1>3. Overlay(stored) \in [Sections -> SUBSET Keys]
  BY OverlayTypes DEF ConfigurationInv, ConfigurationTypeOK
<1>4. ConfigurationTypeOK'
  BY <1>1, <1>2, <1>3 DEF ConfigurationInv, ConfigurationTypeOK
<1>5. AllIdle /\ export = NoRow /\ Resting.op = "idle"
  BY <1>1 DEF ConfigurationInv, EditsOneByOne, Resting
<1>6. EditsOneByOne' /\ ReadIsCurrent' /\ EditsFit'
  BY <1>1, <1>5 DEF EditsOneByOne, AllIdle, ReadIsCurrent, EditsFit
<1>7. MemoryFollowsDb' /\ ManualOff' /\ AnsweredIsStored'
  BY <1>1 DEF ConfigurationInv, MemoryFollowsDb, ManualOff, AnsweredIsStored, Overlay
<1>8. MigratesRightly(SettingsOf(ProjectRow))'
  <2>1. MigratesRightly(SettingsOf(ProjectRow))
    BY DEF ConfigurationInv, AllMigrateRightly
  <2>2. CASE ~migrated /\ git.url # "" /\ pub.url = ""
    BY <1>1, <2>1, <2>2 DEF MigratesRightly, SettingsOf, ProjectRow, Blank
  <2>3. CASE ~(~migrated /\ git.url # "" /\ pub.url = "")
    BY <1>1, <2>1, <2>3 DEF MigratesRightly, SettingsOf, ProjectRow
  <2> QED BY <2>2, <2>3
<1>9. SourceStaysSource'
  BY <1>8 DEF MigratesRightly, SettingsOf, ProjectRow, SourceStaysSource
<1>10. AllMigrateRightly'
  <2>1. kept' # NoRow => MigratesRightly(kept)'
    BY <1>1 DEF ConfigurationInv, AllMigrateRightly, MigratesRightly
  <2>2. \A c \in Editors : edit'[c].op = "import" => MigratesRightly(edit[c].b)'
    BY <1>1, <1>5 DEF AllIdle
  <2> QED BY <1>1, <1>5, <1>8, <2>1, <2>2 DEF AllMigrateRightly
<1> QED BY <1>4, <1>6, <1>7, <1>8, <1>9, <1>10 DEF ConfigurationInv

LEMMA StopStep ==
    ASSUME ConfigurationInv, ProcessDies
    PROVE  ConfigurationInv'
<1>1. /\ up' = "down" /\ edit' = [c \in Editors |-> Resting] /\ memory' = Overlay(NoSettings) /\ export' = NoRow
      /\ UNCHANGED <<stored, migrated, git, pub, repo, kept, accepted, starts, answered, early, legacy, pieced, serial>>
  BY DEF ProcessDies, settingsRows, histories
<1>2. Overlay(NoSettings) \in [Sections -> SUBSET Keys]
  BY OverlayTypes DEF NoSettings, Overrides
<1>3. Resting \in Edits /\ Resting.op = "idle"
  BY DEF Edits, Resting
<1>4. ConfigurationTypeOK'
  BY <1>1, <1>2, <1>3 DEF ConfigurationInv, ConfigurationTypeOK
<1>5. EditsOneByOne' /\ ReadIsCurrent' /\ EditsFit'
  BY <1>1, <1>3 DEF EditsOneByOne, AllIdle, ReadIsCurrent, EditsFit
<1>6. MemoryFollowsDb' /\ ManualOff' /\ AnsweredIsStored' /\ SourceStaysSource'
  BY <1>1 DEF ConfigurationInv, MemoryFollowsDb, ManualOff, AnsweredIsStored, Overlay, SourceStaysSource
<1>7. AllMigrateRightly'
  <2>1. MigratesRightly(SettingsOf(ProjectRow))' /\ (kept' # NoRow => MigratesRightly(kept)')
    BY <1>1 DEF ConfigurationInv, AllMigrateRightly, MigratesRightly, SettingsOf, ProjectRow
  <2>2. \A c \in Editors : edit'[c].op # "import"
    BY <1>1, <1>3
  <2> QED BY <1>1, <2>1, <2>2 DEF AllMigrateRightly
<1> QED BY <1>4, <1>5, <1>6, <1>7 DEF ConfigurationInv

\* An export reads the project, then the settings, and leaves everything else.
LEMMA ExportStep ==
    ASSUME ConfigurationInv, ExportProjects \/ ExportSettings \/ UNCHANGED configurationVars
    PROVE  ConfigurationInv'
<1>1. UNCHANGED <<stored, migrated, git, pub, repo, memory, edit, up, accepted, starts, answered, early, legacy, pieced, serial>>
  BY DEF ExportProjects, ExportSettings, configurationVars, settingsRows, histories
<1>2. /\ kept' = kept \/ (export # NoRow /\ kept' = SettingsOf(export))
      /\ export' = export \/ export' = NoRow \/ (up = "up" /\ export' = ProjectRow)
  BY DEF ExportProjects, ExportSettings, configurationVars, backupVars
<1>3. /\ kept' \in {NoRow} \cup SettingsBundles
      /\ export' \in {NoRow} \cup [git : GitFields, pub : Fields, legacy : BOOLEAN, pieced : BOOLEAN]
  BY <1>2 DEF ConfigurationInv, ConfigurationTypeOK, SettingsOf, ProjectRow, SettingsBundles
<1>4. ConfigurationTypeOK'
  BY <1>1, <1>3 DEF ConfigurationInv, ConfigurationTypeOK
<1>5. EditsOneByOne' /\ ReadIsCurrent' /\ EditsFit'
  BY <1>1, <1>2 DEF ConfigurationInv, EditsOneByOne, AllIdle, ReadIsCurrent, EditsFit, Overlay
<1>6. MemoryFollowsDb' /\ ManualOff' /\ AnsweredIsStored' /\ SourceStaysSource'
  BY <1>1 DEF ConfigurationInv, MemoryFollowsDb, ManualOff, AnsweredIsStored, Overlay, SourceStaysSource
<1>7. AllMigrateRightly'
  <2>1. SettingsOf(ProjectRow)' = SettingsOf(ProjectRow) /\ \A y : SettingsOf(y)' = SettingsOf(y)
    BY <1>1 DEF SettingsOf, ProjectRow
  <2>2. kept' # NoRow => MigratesRightly(kept')
    BY <1>2 DEF ConfigurationInv, AllMigrateRightly
  <2>3. export' # NoRow => MigratesRightly(SettingsOf(export'))
    BY <1>2 DEF ConfigurationInv, AllMigrateRightly
  <2>4. /\ MigratesRightly(SettingsOf(ProjectRow))' /\ (kept' # NoRow => MigratesRightly(kept)')
        /\ export' # NoRow => MigratesRightly(SettingsOf(export))'
    BY <1>1, <2>1, <2>2, <2>3 DEF ConfigurationInv, AllMigrateRightly, MigratesRightly, SettingsOf
  <2>5. \A c \in Editors : edit'[c].op = "import" => MigratesRightly(edit[c].b)'
    BY <1>1 DEF ConfigurationInv, AllMigrateRightly, MigratesRightly
  <2> QED BY <2>4, <2>5 DEF AllMigrateRightly
<1> QED BY <1>4, <1>5, <1>6, <1>7 DEF ConfigurationInv

LEMMA ConfigurationStart ==
    ASSUME ConfigurationInit
    PROVE  ConfigurationInv
<1>1. NoSettings \in [Sections -> Overrides] /\ Overlay(NoSettings) \in [Sections -> SUBSET Keys]
  BY OverlayTypes DEF NoSettings, Overrides
<1>2. /\ Blank \in GitFields /\ Blank \in Fields /\ LegacyGit \subseteq GitFields /\ Blank.url = ""
      /\ \A g \in LegacyGit : g.url = "legacy"
      /\ Resting.op = "idle"
  <2>1. Blank \in GitFields /\ Blank \in Fields /\ Blank.url = "" /\ Resting.op = "idle"
    BY DEF Blank, GitFields, Fields, Resting
  <2>2. ASSUME NEW g \in LegacyGit
        PROVE  g \in GitFields /\ g.url = "legacy"
    <3>1. PICK b \in BOOLEAN : g = [url |-> "legacy", on |-> b]
      BY DEF LegacyGit
    <3> QED BY <3>1 DEF GitFields
  <2> QED BY <2>1, <2>2
<1>3. \A b \in OldSettings :
         /\ b.stored = NoSettings /\ b.migrated = FALSE /\ b.git \in LegacyGit /\ b.pub = Blank /\ b.legacy = TRUE
         /\ b \in SettingsBundles
  <2> SUFFICES ASSUME NEW b \in OldSettings
               PROVE  /\ b.stored = NoSettings /\ b.migrated = FALSE /\ b.git \in LegacyGit /\ b.pub = Blank
                      /\ b.legacy = TRUE /\ b \in SettingsBundles
    OBVIOUS
  <2>1. PICK g \in LegacyGit :
           b = [stored |-> NoSettings, migrated |-> FALSE, git |-> g, pub |-> Blank, legacy |-> TRUE, pieced |-> FALSE]
    BY DEF OldSettings
  <2>2. b \in SettingsBundles
    BY <1>1, <1>2, <2>1 DEF SettingsBundles
  <2> QED BY <2>1, <2>2
<1>4. ConfigurationTypeOK
  <2>1. git \in GitFields /\ kept \in {NoRow} \cup SettingsBundles /\ legacy \in BOOLEAN
    BY <1>2, <1>3 DEF ConfigurationInit
  <2>2. Resting \in Edits
    BY DEF Edits
  <2>3. accepted \in 0..MaxEdits /\ starts \in 0..MaxStarts
    BY ConfigurationAssumption DEF ConfigurationInit, ConfigurationAssumption
  <2>4. answered \in [Sections -> SUBSET Keys]
    BY DEF ConfigurationInit
  <2> QED BY <1>1, <1>2, <2>1, <2>2, <2>3, <2>4 DEF ConfigurationInit, ConfigurationTypeOK
<1>5. EditsOneByOne /\ ReadIsCurrent /\ EditsFit
  BY <1>2 DEF ConfigurationInit, EditsOneByOne, AllIdle, ReadIsCurrent, EditsFit
<1>6. MemoryFollowsDb /\ ManualOff /\ SourceStaysSource
  BY <1>2 DEF ConfigurationInit, MemoryFollowsDb, ManualOff, SourceStaysSource, RepoKeys
<1>7. AnsweredIsStored
  BY DEF ConfigurationInit, AnsweredIsStored, Sections
<1>8. \A b \in OldSettings : MigratesRightly(b)
  <2> HIDE DEF OldSettings
  <2> QED BY <1>2, <1>3 DEF MigratesRightly
<1>9. MigratesRightly(SettingsOf(ProjectRow))
  BY <1>2 DEF ConfigurationInit, MigratesRightly, SettingsOf, ProjectRow
<1>10. AllMigrateRightly
  BY <1>2, <1>8, <1>9 DEF ConfigurationInit, AllMigrateRightly
<1> QED BY <1>4, <1>5, <1>6, <1>7, <1>10 DEF ConfigurationInv

LEMMA ConfigurationStep ==
    ASSUME ConfigurationInv, [ConfigurationNext]_configurationVars
    PROVE  ConfigurationInv'
<1>1. ASSUME NEW c \in Editors, ApplyEdit(c)
      PROVE  ConfigurationInv'
  BY <1>1, WriteSettingsStep, ReloadStep, WriteProjectStep, SyncReadStep, SyncWriteStep, InsertRepoStep,
     WriteRepoStep, RemoveRepoStep, RestoreStep DEF ApplyEdit
<1> QED BY <1>1, BeginEditStep, MigrateSourceStep, MigratePublishStep, StopStep, ExportStep DEF ConfigurationNext

\* The inductive invariant, for any number of requests, starts of the process and restored
\* backups, read table by table: the memory follows the table, a repository in manual mode
\* is not synced, a source is not published to, and every project, also one in a backup or
\* in what an export has read so far, can still be migrated, unless an import was committed
\* between the two reads of its backup (config.py:172-282, database.py:117-351,
\* projects/router.py:490-515, admin/router.py:106-114).
THEOREM ConfigurationInvariant == ConfigurationSpec => []ConfigurationInv
<1>1. ConfigurationInit => ConfigurationInv
  BY ConfigurationStart
<1>2. ConfigurationInv /\ [ConfigurationNext]_configurationVars => ConfigurationInv'
  BY ConfigurationStep
<1> QED BY <1>1, <1>2, PTL DEF ConfigurationSpec

\* An override of a flat section that was answered with success stays in effect, through
\* later saves of other keys, restarts and backups, as long as requests do not overlap.
THEOREM ConfigurationSavedSticks == ConfigurationSpec => []SavedSticks
<1>1. ConfigurationInv => SavedSticks
  <2> SUFFICES ASSUME ConfigurationInv, serial, up = "up", AllIdle PROVE answered["llm"] \subseteq memory["llm"]
    BY DEF SavedSticks
  <2>1. \A c \in Editors : edit[c].op \notin {"reload", "imported"}
    BY DEF AllIdle, Resting
  <2>2. memory = Overlay(stored)
    BY <2>1 DEF ConfigurationInv, MemoryFollowsDb
  <2> QED BY <2>2 DEF ConfigurationInv, AnsweredIsStored
<1> QED BY <1>1, ConfigurationInvariant, PTL

\* A project of an older version keeps a place to publish to, wherever start-up is cut and
\* whatever other requests write between the two reads of a backup that is restored later,
\* except an import.
THEOREM ConfigurationPublishKept == ConfigurationSpec => []PublishKept
<1>1. ConfigurationInv => PublishKept
  BY DEF ConfigurationInv, AllMigrateRightly, MigratesRightly, SettingsOf, ProjectRow, PublishKept
<1> QED BY <1>1, ConfigurationInvariant, PTL

-----------------------------------------------------------------------------
(* Users, projects and agents.                                              *)

\* The record of a request is the one its operation has.
LEMMA RegistryRequests ==
    ASSUME NEW x \in Calls
    PROVE  /\ x.op = "idle" <=> x = Idle
           /\ x.op = "setRole" => x \in [op : {"setRole"}, u : Users, role : {"admin", "user"}]
           /\ x.op = "deleteUser" => x \in [op : {"deleteUser"}, u : Users]
           /\ x.op = "createProject" =>
                 x \in [op : {"createProject"}, p : Projects, u : Users, main : Projects \cup {None},
                        type : {"knowledge_base", "case_library"}]
           /\ x.op = "updateProject" => x \in [op : {"updateProject"}, p : Projects, t : Projects \cup {None}]
           /\ x.op = "deleteProject" => x \in [op : {"deleteProject"}, p : Projects]
           /\ x.op = "addMember" => x \in [op : {"addMember"}, p : Projects, u : Users, role : Roles]
           /\ x.op = "knowledgeApi" =>
                 x \in [op : {"knowledgeApi"}, p : Projects, n : Names \cup {None, Unset}, u : Users,
                        a : Agents \cup {None}]
           /\ x.op = "createAgent" => x \in [op : {"createAgent"}, a : Agents, u : Users, ps : SUBSET Projects]
           /\ x.op = "updateAgent" => x \in [op : {"updateAgent"}, a : Agents, ps : SUBSET Projects]
           /\ x.op = "deleteAgent" => x \in [op : {"deleteAgent"}, a : Agents]
           /\ x.op = "export" =>
                 x \in [op : {"export"}, role : UserRoles, seeded : 0..MaxUser, type : Types, ticket : Tickets]
           /\ x.op = "import" => x \in [op : {"import"}, b : Bundles]
<1>1. Idle.op = "idle"
  BY DEF Idle
<1> QED BY <1>1 DEF Calls

\* The tables as a commit leaves them: what is left to be shown of it.
RowsFit ==
    /\ role \in UserRoles /\ seeded \in 0..MaxUser /\ (seeded # 0 => IsUser(seeded))
    /\ type \in Types /\ ticket \in Tickets
    /\ model \in [Projects -> Names \cup {None}] /\ apiAgent \in [Projects -> Agents \cup {None}]
    /\ member \in Members /\ agent \in AgentRows
    /\ binds \subseteq Agents \X Projects
    /\ AdminRemains /\ TicketsAreLibraries /\ Unmentioned

\* The kinds of the projects are these in the tables, the backup and every request.
Kinds(kind) ==
    /\ kind \in [Projects -> {"knowledge_base", "case_library"}]
    /\ RowKinds(kind) /\ (bundle # None => BundleKinds(bundle, kind))
    /\ \A c \in Clients : RequestKinds(req[c], kind)

\* No project loses its row as if it had never had one.
NoneNew == calm' = calm /\ \A p \in Projects : type'[p] = "none" => type[p] = "none"

LEMMA ProjectsStay ==
    ASSUME NoneNew, NEW t, NEW k, ProjectsFit(t, k)
    PROVE  ProjectsFit(t, k)'
  BY DEF NoneNew, ProjectsFit, TicketsFit

LEMMA BundleStays ==
    ASSUME NoneNew, NEW b \in Bundles, BundleFits(b)
    PROVE  BundleFits(b)'
<1>1. ProjectsFit(b.type, b.ticket)'
  BY ProjectsStay DEF BundleFits
<1>2. \A x \in b.binds : x[2] \in Projects
  BY DEF Bundles
<1>3. \A x \in b.binds : type'[x[2]] # "none"
  BY <1>2 DEF BundleFits, NoneNew
<1> QED BY <1>1, <1>3 DEF BundleFits, UsersFit

LEMMA RequestStays ==
    ASSUME NoneNew, NEW r \in Calls, RequestFits(r)
    PROVE  RequestFits(r)'
<1>1. r.op = "import" => BundleFits(r.b)'
  <2> SUFFICES ASSUME r.op = "import" PROVE BundleFits(r.b)'
    OBVIOUS
  <2>1. r.b \in Bundles /\ BundleFits(r.b)
    BY RegistryRequests DEF RequestFits
  <2> QED BY <2>1, BundleStays
<1>2. r.op = "export" => ProjectsFit(r.type, r.ticket)'
  BY ProjectsStay DEF RequestFits
<1>3. r.op \in {"createAgent", "updateAgent"} => \A p \in r.ps : type'[p] # "none"
  BY RegistryRequests DEF RequestFits, NoneNew
<1> QED BY <1>1, <1>2, <1>3 DEF RequestFits, UsersFit

\* A request is accepted: nothing else changes.
LEMMA AskStep ==
    ASSUME RegistryInv, NEW c \in Clients, NEW x \in Calls, Ask(c, x), x # Idle,
           RequestFits(x), StillHolds(x),
           x.op = "createProject" => FreshProject(x.p),
           x.op # "createProject" => \A kind : Kinds(kind) => RequestKinds(x, kind)
    PROVE  RegistryInv'
<1>1. /\ req' = [req EXCEPT ![c] = x] /\ req[c] = Idle /\ asked < MaxRequests
      /\ asked' = asked + 1 /\ calm' = (calm /\ \A d \in Clients : req[d] = Idle)
      /\ sought' = sought \cup AskedAtOnce(x)
      /\ UNCHANGED <<role, seeded, type, ticket, model, apiAgent, member, agent, binds, bundle, restarts>>
  BY DEF Ask, rows
<1>2. req'[c] = x /\ \A d \in Clients : d # c => req'[d] = req[d]
  BY <1>1 DEF RegistryInv, RegistryTypeOK
<1>3. (calm' => calm) /\ calm' \in BOOLEAN /\ (calm' => \A d \in Clients : d # c => req'[d] = Idle)
  BY <1>1, <1>2
<1>4. RegistryTypeOK'
  <2>1. asked' \in 0..MaxRequests
    BY <1>1, RegistryAssumption DEF RegistryInv, RegistryTypeOK, RegistryAssumption
  <2>2. req' \in [Clients -> Calls]
    BY <1>1 DEF RegistryInv, RegistryTypeOK
  <2>3. sought' \subseteq Names
    BY <1>1 DEF AskedAtOnce, RegistryInv, RegistryTypeOK
  <2> QED BY <1>1, <1>3, <2>1, <2>2, <2>3 DEF RegistryInv, RegistryTypeOK, IsUser
<1>5. OneByOne'
  BY <1>1, <1>3 DEF OneByOne
<1>6. AdminRemains' /\ TicketsAreLibraries' /\ LibrariesUnbound' /\ Unmentioned'
  BY <1>1, <1>3 DEF RegistryInv, AdminRemains, IsAdmin, TicketsAreLibraries, Live, LibrariesUnbound, Unmentioned
<1>7. \A t, k : ProjectsFit(t, k) => ProjectsFit(t, k)'
  BY <1>1, <1>3 DEF ProjectsFit, TicketsFit
<1>8. \A b : BundleFits(b) => BundleFits(b)'
  BY <1>1, <1>7 DEF BundleFits, UsersFit
<1>9. \A r : (RequestFits(r) => RequestFits(r)') /\ (StillHolds(r) => StillHolds(r)')
  BY <1>1, <1>7, <1>8 DEF RequestFits, StillHolds, UsersFit, IsAdmin, Live
<1>10. RequestsFit'
  <2>1. bundle' # None => BundleFits(bundle)'
    BY <1>1, <1>3 DEF RegistryInv, RequestsFit, BundleFits, UsersFit, ProjectsFit, TicketsFit
  <2>2. ASSUME NEW d \in Clients, NEW r, r = req'[d]
        PROVE  RequestFits(r)' /\ (calm' => StillHolds(r)')
    <3>1. RequestFits(r) /\ (calm' => StillHolds(r))
      BY <1>2, <1>3, <2>2 DEF RegistryInv, RequestsFit
    <3> QED BY <1>9, <3>1
  <2>3. \A d \in Clients : RequestFits(req[d])' /\ (calm' => StillHolds(req[d])')
    BY <2>2 DEF RequestFits, StillHolds, BundleFits, UsersFit, ProjectsFit, TicketsFit, IsAdmin, Live
  <2> QED BY <2>1, <2>3 DEF RequestsFit
<1>11. PICK kind : Kinds(kind)
  BY DEF RegistryInv, OfOneKind, Kinds
<1>12. \E k \in [Projects -> {"knowledge_base", "case_library"}] :
          /\ RowKinds(k) /\ (bundle # None => BundleKinds(bundle, k))
          /\ \A d \in Clients : RequestKinds(req'[d], k)
  <2>1. CASE x.op # "createProject"
    BY <1>2, <1>11, <2>1 DEF Kinds
  <2>2. CASE x.op = "createProject"
    <3> DEFINE k == [kind EXCEPT ![x.p] = x.type]
    <3>1. x.p \in Projects /\ x.type \in {"knowledge_base", "case_library"} /\ type[x.p] = "none"
          /\ \A d \in Clients : req[d].op = "createProject" => req[d].p # x.p
      BY <2>2, RegistryRequests DEF FreshProject
    <3>2. k \in [Projects -> {"knowledge_base", "case_library"}] /\ k[x.p] = x.type
          /\ \A p \in Projects \ {x.p} : k[p] = kind[p]
      BY <1>11, <3>1 DEF Kinds
    <3> HIDE DEF k
    <3>3. RowKinds(k)
      <4>1. \A p \in Projects : type[p] \in {"none", "gone", k[p]}
        BY <1>11, <3>1, <3>2 DEF Kinds, RowKinds
      <4>2. ASSUME NEW y \in binds, agent[y[1]].kind = "made" PROVE k[y[2]] = "knowledge_base"
        BY <1>11, <3>1, <3>2, <4>2 DEF Kinds, RowKinds, RegistryInv, RegistryTypeOK, Unmentioned
      <4> QED BY <4>1, <4>2 DEF RowKinds
    <3>4. ASSUME NEW b \in Bundles, BundleFits(b), BundleKinds(b, kind)
          PROVE  BundleKinds(b, k)
      <4>1. \A p \in Listed(b) : p \in Projects /\ p # x.p
        BY <3>1, <3>4 DEF Listed, BundleFits, ProjectsFit
      <4>2. \A y \in b.binds : y[2] \in Projects /\ y[2] # x.p
        BY <3>1, <3>4 DEF Bundles, BundleFits
      <4> QED BY <3>2, <3>4, <4>1, <4>2 DEF BundleKinds
    <3>5. bundle # None => BundleKinds(bundle, k)
      BY <1>11, <3>4 DEF Kinds, RegistryInv, RegistryTypeOK, RequestsFit
    <3>6. ASSUME NEW d \in Clients, d # c
          PROVE  RequestKinds(req[d], k)
      <4> DEFINE r == req[d]
      <4>1. r \in Calls /\ RequestFits(r) /\ RequestKinds(r, kind)
        BY <1>11 DEF Kinds, RegistryInv, RegistryTypeOK, RequestsFit
      <4>2. r.op = "createProject" => r.p \in Projects /\ r.p # x.p
        BY <3>1, <4>1, RegistryRequests
      <4>3. r.op = "export" => r.type[x.p] = "none"
        BY <3>1, <4>1 DEF RequestFits, ProjectsFit
      <4>4. r.op \in {"createAgent", "updateAgent"} => \A p \in r.ps : p \in Projects /\ p # x.p
        BY <3>1, <4>1, RegistryRequests DEF RequestFits
      <4>5. r.op = "import" => r.b \in Bundles /\ BundleFits(r.b) /\ BundleKinds(r.b, kind)
        BY <4>1, RegistryRequests DEF RequestFits, RequestKinds
      <4>6. r.op = "import" => BundleKinds(r.b, k)
        BY <3>4, <4>5
      <4> HIDE DEF r
      <4>7. RequestKinds(r, k)
        BY <3>2, <4>1, <4>2, <4>3, <4>4, <4>6 DEF RequestKinds
      <4> QED BY <4>7 DEF r
    <3>7. RequestKinds(x, k)
      BY <2>2, <3>2 DEF RequestKinds
    <3> QED BY <1>2, <3>2, <3>3, <3>5, <3>6, <3>7
  <2> QED BY <2>1, <2>2
<1>13. OfOneKind'
  BY <1>1, <1>12 DEF OfOneKind, RowKinds, BundleKinds, RequestKinds, Listed
<1> QED BY <1>4, <1>5, <1>6, <1>10, <1>13 DEF RegistryInv

\* A request ends.
LEMMA EndStep ==
    ASSUME RegistryInv, NEW c \in Clients, req[c] # Idle, Ended(c), RowsFit', NoneNew,
           bundle' = bundle \/ (bundle' \in Bundles /\ BundleFits(bundle') /\ UNCHANGED rows),
           \A kind : Kinds(kind) => RowKinds(kind)' /\ (bundle' # None => BundleKinds(bundle', kind))
    PROVE  RegistryInv'
<1>1. req' = [req EXCEPT ![c] = Idle] /\ UNCHANGED <<asked, restarts, calm, sought>>
  BY DEF Ended
<1>2. Idle \in Calls /\ Idle.op = "idle"
  BY DEF Calls, Idle
<1>3. req'[c] = Idle /\ \A d \in Clients : d # c => req'[d] = req[d]
  BY <1>1 DEF RegistryInv, RegistryTypeOK
<1>4. calm => \A d \in Clients : req'[d] = Idle
  BY <1>3 DEF RegistryInv, OneByOne
<1>5. RegistryTypeOK'
  BY <1>1, <1>2 DEF RowsFit, RegistryInv, RegistryTypeOK, IsUser
<1>6. OneByOne'
  BY <1>1, <1>4 DEF OneByOne
<1>7. RequestsFit'
  <2>1. bundle' # None => BundleFits(bundle)'
    <3>1. CASE bundle' = bundle
      <4> SUFFICES ASSUME bundle # None PROVE BundleFits(bundle)'
        BY <3>1
      <4> DEFINE b == bundle
      <4>1. b \in Bundles /\ BundleFits(b)
        BY DEF RegistryInv, RegistryTypeOK, RequestsFit
      <4>2. \A y \in Bundles : BundleFits(y) => BundleFits(y)'
        BY BundleStays
      <4>3. PICK y \in Bundles : y = bundle /\ BundleFits(y)'
        BY <4>1, <4>2
      <4> QED BY <3>1, <4>3 DEF BundleFits, UsersFit, ProjectsFit, TicketsFit
    <3>2. CASE bundle' \in Bundles /\ BundleFits(bundle') /\ UNCHANGED rows
      BY <1>1, <3>2 DEF BundleFits, UsersFit, ProjectsFit, TicketsFit, rows
    <3> QED BY <3>1, <3>2
  <2>2. ASSUME NEW d \in Clients, NEW r, r = req'[d]
        PROVE  RequestFits(r)' /\ (calm' => StillHolds(r)')
    <3>1. RequestFits(Idle) /\ StillHolds(Idle)' /\ Idle \in Calls
      BY <1>2 DEF RequestFits, StillHolds
    <3>2. RequestFits(r) /\ r \in Calls /\ (calm' => r = Idle)
      BY <1>1, <1>3, <1>4, <2>2, <3>1 DEF RegistryInv, RegistryTypeOK, RequestsFit
    <3> QED BY <3>1, <3>2, RequestStays
  <2>3. \A d \in Clients : RequestFits(req[d])' /\ (calm' => StillHolds(req[d])')
    BY <2>2 DEF RequestFits, StillHolds, BundleFits, UsersFit, ProjectsFit, TicketsFit, IsAdmin, Live
  <2> QED BY <2>1, <2>3 DEF RequestsFit
<1>8. PICK kind : Kinds(kind)
  BY DEF RegistryInv, OfOneKind, Kinds
<1>9. OfOneKind'
  <2>1. RowKinds(kind)' /\ (bundle' # None => BundleKinds(bundle', kind))
    BY <1>8
  <2>2. \A d \in Clients : RequestKinds(req'[d], kind)
    <3>1. RequestKinds(Idle, kind)
      BY <1>2 DEF RequestKinds
    <3> QED BY <1>3, <1>8, <3>1 DEF Kinds
  <2>3. kind \in [Projects -> {"knowledge_base", "case_library"}]
    BY <1>8 DEF Kinds
  <2> QED BY <2>1, <2>2, <2>3 DEF OfOneKind, BundleKinds, RequestKinds, Listed
<1>10. LibrariesUnbound'
  <2>1. RowKinds(kind)'
    BY <1>8
  <2>2. \A y \in binds' : y[2] \in Projects
    BY DEF RowsFit
  <2> QED BY <2>1, <2>2 DEF LibrariesUnbound, RowKinds
<1> QED BY <1>5, <1>6, <1>7, <1>9, <1>10 DEF RegistryInv, RowsFit

-----------------------------------------------------------------------------
(* The requests.                                                            *)

LEMMA AskUsersStep ==
    ASSUME RegistryInv, NEW c \in Clients, Register(c) \/ AskUser(c) \/ ExportConfig(c) \/ ImportConfig(c)
    PROVE  RegistryInv'
<1>1. CASE Register(c)
  <2> DEFINE x == [op |-> "register"]
  <2>1. x \in Calls /\ x # Idle /\ x.op = "register"
    BY DEF Calls, Idle
  <2>2. Ask(c, x)
    BY <1>1 DEF Register
  <2> HIDE DEF x
  <2>3. RequestFits(x) /\ StillHolds(x) /\ \A kind : RequestKinds(x, kind)
    BY <2>1 DEF RequestFits, StillHolds, RequestKinds
  <2> QED BY <2>1, <2>2, <2>3, AskStep
<1>2. ASSUME NEW u \in Users, NEW t \in Users, NEW r \in {"admin", "user"}, IsAdmin(u), t # u,
             Ask(c, [op |-> "setRole", u |-> t, role |-> r])
      PROVE  RegistryInv'
  <2> DEFINE x == [op |-> "setRole", u |-> t, role |-> r]
  <2>1. x \in Calls /\ x # Idle /\ x.op = "setRole" /\ x.u = t
    BY DEF Calls, Idle
  <2>2. Ask(c, x)
    BY <1>2
  <2> HIDE DEF x
  <2>3. RequestFits(x) /\ StillHolds(x) /\ \A kind : RequestKinds(x, kind)
    BY <1>2, <2>1 DEF RequestFits, StillHolds, RequestKinds
  <2> QED BY <2>1, <2>2, <2>3, AskStep
<1>3. ASSUME NEW u \in Users, NEW t \in Users, IsAdmin(u), t # u, Ask(c, [op |-> "deleteUser", u |-> t])
      PROVE  RegistryInv'
  <2> DEFINE x == [op |-> "deleteUser", u |-> t]
  <2>1. x \in Calls /\ x # Idle /\ x.op = "deleteUser" /\ x.u = t
    BY DEF Calls, Idle
  <2>2. Ask(c, x)
    BY <1>3
  <2> HIDE DEF x
  <2>3. RequestFits(x) /\ StillHolds(x) /\ \A kind : RequestKinds(x, kind)
    BY <1>3, <2>1 DEF RequestFits, StillHolds, RequestKinds
  <2> QED BY <2>1, <2>2, <2>3, AskStep
<1>4. CASE ExportConfig(c)
  <2> DEFINE x == [op |-> "export", role |-> role, seeded |-> seeded, type |-> type, ticket |-> ticket]
  <2>1. PICK u \in Users : IsAdmin(u) /\ Ask(c, x)
    BY <1>4 DEF ExportConfig
  <2>2. /\ x \in Calls /\ x # Idle /\ x.op = "export"
        /\ x.role = role /\ x.seeded = seeded /\ x.type = type /\ x.ticket = ticket
    BY DEF Calls, Idle, RegistryInv, RegistryTypeOK
  <2> HIDE DEF x
  <2>3. UsersFit(x.role, x.seeded)
    BY <2>1, <2>2 DEF UsersFit, IsAdmin, IsUser, RegistryInv, RegistryTypeOK
  <2>4. ProjectsFit(x.type, x.ticket)
    BY <2>2 DEF ProjectsFit, TicketsFit, RegistryInv, TicketsAreLibraries, Live
  <2>5. RequestFits(x) /\ StillHolds(x)
    BY <2>2, <2>3, <2>4 DEF RequestFits, StillHolds
  <2>6. \A kind : Kinds(kind) => RequestKinds(x, kind)
    BY <2>2 DEF Kinds, RowKinds, RequestKinds
  <2> QED BY <2>1, <2>2, <2>5, <2>6, AskStep
<1>5. CASE ImportConfig(c)
  <2> DEFINE x == [op |-> "import", b |-> bundle]
  <2>1. bundle # None /\ Ask(c, x)
    BY <1>5 DEF ImportConfig
  <2>2. x \in Calls /\ x # Idle /\ x.op = "import" /\ x.b = bundle
    BY <2>1 DEF Calls, Idle, RegistryInv, RegistryTypeOK
  <2> HIDE DEF x
  <2>3. RequestFits(x) /\ StillHolds(x)
    BY <2>1, <2>2 DEF RequestFits, StillHolds, RegistryInv, RequestsFit
  <2>4. \A kind : Kinds(kind) => RequestKinds(x, kind)
    BY <2>1, <2>2 DEF Kinds, RequestKinds
  <2> QED BY <2>1, <2>2, <2>3, <2>4, AskStep
<1> QED BY <1>1, <1>2, <1>3, <1>4, <1>5 DEF AskUser

LEMMA AskProjectsStep ==
    ASSUME RegistryInv, NEW c \in Clients,
           CreateProject(c) \/ UpdateProject(c) \/ DeleteProject(c) \/ AddMember(c) \/ UpdateKnowledgeApi(c)
    PROVE  RegistryInv'
<1>1. CASE CreateProject(c)
  <2>1. PICK u \in Users, p \in Projects, main \in Projects \cup {None}, lib \in BOOLEAN :
           /\ FreshProject(p) /\ (main # None => lib)
           /\ Ask(c, [op |-> "createProject", p |-> p, u |-> u, main |-> main,
                      type |-> IF lib THEN "case_library" ELSE "knowledge_base"])
    BY <1>1 DEF CreateProject
  <2> DEFINE x == [op |-> "createProject", p |-> p, u |-> u, main |-> main,
                   type |-> IF lib THEN "case_library" ELSE "knowledge_base"]
  <2>2. /\ x \in Calls /\ x # Idle /\ x.op = "createProject" /\ x.p = p /\ x.main = main
        /\ main # None => x.type = "case_library"
    BY <2>1 DEF Calls, Idle
  <2>3. Ask(c, x)
    BY <2>1
  <2> HIDE DEF x
  <2>4. RequestFits(x) /\ StillHolds(x)
    BY <2>1, <2>2 DEF RequestFits, StillHolds, FreshProject
  <2> QED BY <2>1, <2>2, <2>3, <2>4, AskStep
<1>2. CASE UpdateProject(c)
  <2>1. PICK p \in Projects, t \in Projects \cup {None} :
           /\ t # None => type[t] = "case_library"
           /\ Ask(c, [op |-> "updateProject", p |-> p, t |-> t])
    BY <1>2 DEF UpdateProject
  <2> DEFINE x == [op |-> "updateProject", p |-> p, t |-> t]
  <2>2. x \in Calls /\ x # Idle /\ x.op = "updateProject" /\ x.t = t
    BY DEF Calls, Idle
  <2>3. Ask(c, x)
    BY <2>1
  <2> HIDE DEF x
  <2>4. RequestFits(x) /\ StillHolds(x) /\ \A kind : RequestKinds(x, kind)
    BY <2>1, <2>2 DEF RequestFits, StillHolds, RequestKinds
  <2> QED BY <2>2, <2>3, <2>4, AskStep
<1>3. CASE DeleteProject(c)
  <2>1. PICK p \in Projects : Ask(c, [op |-> "deleteProject", p |-> p])
    BY <1>3 DEF DeleteProject
  <2> DEFINE x == [op |-> "deleteProject", p |-> p]
  <2>2. x \in Calls /\ x # Idle /\ x.op = "deleteProject"
    BY DEF Calls, Idle
  <2>3. Ask(c, x)
    BY <2>1
  <2> HIDE DEF x
  <2>4. RequestFits(x) /\ StillHolds(x) /\ \A kind : RequestKinds(x, kind)
    BY <2>2 DEF RequestFits, StillHolds, RequestKinds
  <2> QED BY <2>2, <2>3, <2>4, AskStep
<1>4. CASE AddMember(c)
  <2>1. PICK v \in Users, p \in Projects, r \in {"owner", "editor"} :
           Ask(c, [op |-> "addMember", p |-> p, u |-> v, role |-> r])
    BY <1>4 DEF AddMember
  <2> DEFINE x == [op |-> "addMember", p |-> p, u |-> v, role |-> r]
  <2>2. x \in Calls /\ x # Idle /\ x.op = "addMember"
    BY DEF Calls, Idle, Roles
  <2>3. Ask(c, x)
    BY <2>1
  <2> HIDE DEF x
  <2>4. RequestFits(x) /\ StillHolds(x) /\ \A kind : RequestKinds(x, kind)
    BY <2>2 DEF RequestFits, StillHolds, RequestKinds
  <2> QED BY <2>2, <2>3, <2>4, AskStep
<1>5. CASE UpdateKnowledgeApi(c)
  <2>1. PICK u \in Users, p \in Projects, n \in Names \cup {None, Unset}, a \in Agents, on \in BOOLEAN :
           Ask(c, [op |-> "knowledgeApi", p |-> p, n |-> n, u |-> u,
                   a |-> IF on /\ apiAgent[p] = None THEN a ELSE None])
    BY <1>5 DEF UpdateKnowledgeApi
  <2> DEFINE x == [op |-> "knowledgeApi", p |-> p, n |-> n, u |-> u,
                   a |-> IF on /\ apiAgent[p] = None THEN a ELSE None]
  <2>2. x \in Calls /\ x # Idle /\ x.op = "knowledgeApi" /\ x.p = p /\ x.n = n
    BY DEF Calls, Idle
  <2>3. Ask(c, x)
    BY <2>1
  <2> HIDE DEF x
  <2>4. RequestFits(x) /\ StillHolds(x) /\ \A kind : RequestKinds(x, kind)
    BY <2>1, <2>2 DEF RequestFits, StillHolds, RequestKinds
  <2> QED BY <2>2, <2>3, <2>4, AskStep
<1> QED BY <1>1, <1>2, <1>3, <1>4, <1>5

LEMMA AskAgentsStep ==
    ASSUME RegistryInv, NEW c \in Clients, CreateAgent(c) \/ UpdateAgent(c) \/ DeleteAgent(c)
    PROVE  RegistryInv'
<1>1. ASSUME NEW ps \in SUBSET Bindable
      PROVE  /\ ps \in SUBSET Projects /\ \A p \in ps : type[p] # "none"
             /\ \A kind : Kinds(kind) => \A p \in ps : kind[p] = "knowledge_base"
  <2>1. \A p \in ps : p \in Projects /\ type[p] = "knowledge_base"
    BY DEF Bindable, KnowledgeBase
  <2> QED BY <2>1 DEF Kinds, RowKinds
<1>2. CASE CreateAgent(c)
  <2>1. PICK u \in Users, a \in Agents, ps \in SUBSET Bindable :
           Ask(c, [op |-> "createAgent", a |-> a, u |-> u, ps |-> ps])
    BY <1>2 DEF CreateAgent
  <2> DEFINE x == [op |-> "createAgent", a |-> a, u |-> u, ps |-> ps]
  <2>2. x \in Calls /\ x # Idle /\ x.op = "createAgent" /\ x.ps = ps
    BY <1>1 DEF Calls, Idle
  <2>3. Ask(c, x)
    BY <2>1
  <2> HIDE DEF x
  <2>4. RequestFits(x) /\ StillHolds(x) /\ \A kind : Kinds(kind) => RequestKinds(x, kind)
    BY <1>1, <2>2 DEF RequestFits, StillHolds, RequestKinds
  <2> QED BY <2>2, <2>3, <2>4, AskStep
<1>3. CASE UpdateAgent(c)
  <2>1. PICK a \in Agents, ps \in SUBSET Bindable : Ask(c, [op |-> "updateAgent", a |-> a, ps |-> ps])
    BY <1>3 DEF UpdateAgent
  <2> DEFINE x == [op |-> "updateAgent", a |-> a, ps |-> ps]
  <2>2. x \in Calls /\ x # Idle /\ x.op = "updateAgent" /\ x.ps = ps
    BY <1>1 DEF Calls, Idle
  <2>3. Ask(c, x)
    BY <2>1
  <2> HIDE DEF x
  <2>4. RequestFits(x) /\ StillHolds(x) /\ \A kind : Kinds(kind) => RequestKinds(x, kind)
    BY <1>1, <2>2 DEF RequestFits, StillHolds, RequestKinds
  <2> QED BY <2>2, <2>3, <2>4, AskStep
<1>4. CASE DeleteAgent(c)
  <2>1. PICK a \in Agents : Ask(c, [op |-> "deleteAgent", a |-> a])
    BY <1>4 DEF DeleteAgent
  <2> DEFINE x == [op |-> "deleteAgent", a |-> a]
  <2>2. x \in Calls /\ x # Idle /\ x.op = "deleteAgent"
    BY DEF Calls, Idle
  <2>3. Ask(c, x)
    BY <2>1
  <2> HIDE DEF x
  <2>4. RequestFits(x) /\ StillHolds(x) /\ \A kind : RequestKinds(x, kind)
    BY <2>2 DEF RequestFits, StillHolds, RequestKinds
  <2> QED BY <2>2, <2>3, <2>4, AskStep
<1> QED BY <1>2, <1>3, <1>4

-----------------------------------------------------------------------------
(* The commits.                                                             *)

LEMMA TablesFit ==
    ASSUME RegistryInv
    PROVE  RowsFit
  BY DEF RegistryInv, RegistryTypeOK, RowsFit

\* A commit that only changes who the users are.
LEMMA UsersStep ==
    ASSUME RegistryInv, NEW c \in Clients, req[c] # Idle, Ended(c),
           UNCHANGED <<type, ticket, model, apiAgent, member, agent, binds, bundle>>,
           role' \in UserRoles, seeded' \in 0..MaxUser, seeded' # 0 => role'[seeded'] # "none",
           calm => \E u \in Users : role'[u] = "admin"
    PROVE  RegistryInv'
<1>1. calm' = calm
  BY DEF Ended
<1>2. RowsFit'
  BY <1>1, TablesFit DEF RowsFit, AdminRemains, IsAdmin, IsUser, TicketsAreLibraries, Live, Unmentioned
<1>3. NoneNew
  BY <1>1 DEF NoneNew
<1>4. \A kind : Kinds(kind) => RowKinds(kind)' /\ (bundle' # None => BundleKinds(bundle', kind))
  BY DEF Kinds, RowKinds
<1> QED BY <1>2, <1>3, <1>4, EndStep

LEMMA CommitRegisterStep ==
    ASSUME RegistryInv, NEW c \in Clients, CommitRegister(c)
    PROVE  RegistryInv'
<1>1. PICK id \in Users : IsNewId(id) /\ role' = [role EXCEPT ![id] = "user"]
  BY DEF CommitRegister
<1>2. /\ req[c] # Idle /\ Ended(c)
      /\ UNCHANGED <<seeded, type, ticket, model, apiAgent, member, agent, binds, bundle>>
  BY DEF CommitRegister, Doing, Idle
<1>3. ~IsUser(id)
  BY <1>1 DEF IsNewId, Users
<1>4. role' \in UserRoles /\ \A u \in Users : IsUser(u) => role'[u] = role[u]
  BY <1>1, <1>3 DEF RegistryInv, RegistryTypeOK, UserRoles
<1>5. seeded' # 0 => seeded \in Users /\ IsUser(seeded)
  BY <1>2 DEF RegistryInv, RegistryTypeOK, Users
<1>6. calm => \E u \in Users : role'[u] = "admin"
  BY <1>4 DEF RegistryInv, AdminRemains, IsAdmin, IsUser
<1> QED BY <1>2, <1>4, <1>5, <1>6, UsersStep DEF IsUser, RegistryInv, RegistryTypeOK

LEMMA CommitRoleStep ==
    ASSUME RegistryInv, NEW c \in Clients, CommitRole(c)
    PROVE  RegistryInv'
<1> DEFINE r == req[c]
<1>1. /\ req[c] # Idle /\ Ended(c) /\ r.op = "setRole"
      /\ UNCHANGED <<seeded, type, ticket, model, apiAgent, member, agent, binds, bundle>>
      /\ role' = IF IsUser(r.u) THEN [role EXCEPT ![r.u] = r.role] ELSE role
  BY DEF CommitRole, Doing, Idle
<1>2. r.u \in Users /\ r.role \in {"admin", "user"}
  BY <1>1, RegistryRequests DEF RegistryInv, RegistryTypeOK
<1>3. role \in UserRoles /\ role' \in UserRoles
  BY <1>1, <1>2 DEF RegistryInv, RegistryTypeOK, UserRoles
<1>4. \A u \in Users : u # r.u => role'[u] = role[u]
  BY <1>1, <1>2, <1>3 DEF UserRoles
<1>5. \A u \in Users : role[u] # "none" => role'[u] # "none"
  BY <1>1, <1>2, <1>3 DEF UserRoles
<1>6. calm => \E u \in Users : role'[u] = "admin"
  <2>1. calm => \E u \in Users : u # r.u /\ IsAdmin(u)
    BY <1>1 DEF RegistryInv, RequestsFit, StillHolds
  <2> QED BY <1>4, <2>1 DEF IsAdmin
<1>7. seeded' # 0 => seeded' \in Users /\ role[seeded'] # "none"
  BY <1>1 DEF RegistryInv, RegistryTypeOK, Users, IsUser
<1>8. seeded' \in 0..MaxUser
  BY <1>1 DEF RegistryInv, RegistryTypeOK
<1> QED BY <1>1, <1>3, <1>5, <1>6, <1>7, <1>8, UsersStep

LEMMA CommitDeleteUserStep ==
    ASSUME RegistryInv, NEW c \in Clients, CommitDeleteUser(c)
    PROVE  RegistryInv'
<1> DEFINE r == req[c]
<1>1. /\ req[c] # Idle /\ Ended(c) /\ r.op = "deleteUser"
      /\ UNCHANGED <<type, ticket, model, apiAgent, member, agent, binds, bundle>>
      /\ role' = [role EXCEPT ![r.u] = "none"] /\ seeded' = IF seeded = r.u THEN 0 ELSE seeded
  BY DEF CommitDeleteUser, Doing, Idle
<1>2. r.u \in Users
  BY <1>1, RegistryRequests DEF RegistryInv, RegistryTypeOK
<1>3. role' \in UserRoles /\ \A u \in Users : u # r.u => role'[u] = role[u]
  BY <1>1, <1>2 DEF RegistryInv, RegistryTypeOK, UserRoles
<1>4. calm => \E u \in Users : role'[u] = "admin"
  <2>1. calm => \E u \in Users : u # r.u /\ IsAdmin(u)
    BY <1>1 DEF RegistryInv, RequestsFit, StillHolds
  <2> QED BY <1>3, <2>1 DEF IsAdmin
<1>5. seeded' \in 0..MaxUser
  BY <1>1, RegistryAssumption DEF RegistryInv, RegistryTypeOK, RegistryAssumption
<1>6. seeded' # 0 => role'[seeded'] # "none"
  BY <1>1, <1>3 DEF RegistryInv, RegistryTypeOK, Users, IsUser
<1> QED BY <1>1, <1>3, <1>4, <1>5, <1>6, UsersStep

\* A commit that only changes the projects, their links and names, and members.
LEMMA ProjectsStep ==
    ASSUME RegistryInv, NEW c \in Clients, req[c] # Idle, Ended(c),
           UNCHANGED <<role, seeded, agent, binds, bundle>>,
           type' \in Types, ticket' \in Tickets, model' \in [Projects -> Names \cup {None}],
           apiAgent' \in [Projects -> Agents \cup {None}], member' \in Members,
           TicketsAreLibraries',
           \A p \in Projects : type'[p] = "none" => type[p] = "none" /\ ticket'[p] = None /\ model'[p] = None,
           \A kind : Kinds(kind) => \A p \in Projects : type'[p] \in {"none", "gone", kind[p]}
    PROVE  RegistryInv'
<1>1. calm' = calm
  BY DEF Ended
<1>2. NoneNew
  BY <1>1 DEF NoneNew
<1>3. \A x \in binds : x[2] \in Projects
  BY DEF RegistryInv, RegistryTypeOK
<1>4. RowsFit'
  <2>1. RowsFit
    BY TablesFit
  <2>2. AdminRemains'
    BY <1>1, <2>1 DEF RowsFit, AdminRemains, IsAdmin
  <2>3. Unmentioned'
    BY <1>3, <2>1 DEF RowsFit, Unmentioned
  <2> QED BY <2>1, <2>2, <2>3 DEF RowsFit, IsUser
<1>5. \A kind : Kinds(kind) => RowKinds(kind)' /\ (bundle' # None => BundleKinds(bundle', kind))
  BY DEF Kinds, RowKinds
<1> QED BY <1>2, <1>4, <1>5, EndStep

LEMMA CommitCreateProjectStep ==
    ASSUME RegistryInv, NEW c \in Clients, CommitCreateProject(c)
    PROVE  RegistryInv'
<1> DEFINE r == req[c]
<1>1. /\ req[c] # Idle /\ Ended(c) /\ r.op = "createProject"
      /\ UNCHANGED <<role, seeded, model, apiAgent, agent, binds, bundle>>
      /\ IF r.main # None /\ ~Live(r.main) THEN UNCHANGED <<type, member, ticket>>
         ELSE /\ type' = [type EXCEPT ![r.p] = r.type]
              /\ member' = [member EXCEPT ![r.p][r.u] = "owner"]
              /\ ticket' = IF r.main = None THEN ticket ELSE [ticket EXCEPT ![r.main] = r.p]
  BY DEF CommitCreateProject, Doing, Idle
<1>2. /\ r.p \in Projects /\ r.u \in Users /\ r.main \in Projects \cup {None}
      /\ r.type \in {"knowledge_base", "case_library"}
      /\ r.main # None => r.type = "case_library"
      /\ calm => type[r.p] = "none"
  BY <1>1, RegistryRequests DEF RegistryInv, RegistryTypeOK, RequestsFit, RequestFits, StillHolds
<1>3. /\ type \in Types /\ ticket \in Tickets /\ member \in Members /\ calm' = calm
      /\ model \in [Projects -> Names \cup {None}] /\ apiAgent \in [Projects -> Agents \cup {None}]
      /\ TicketsAreLibraries
      /\ \A p \in Projects : type[p] = "none" => ticket[p] = None /\ model[p] = None
  BY <1>1 DEF Ended, RegistryInv, RegistryTypeOK, Unmentioned
<1> HIDE DEF r
<1>4. CASE r.main # None /\ ~Live(r.main)
  <2>1. UNCHANGED <<type, member, ticket>>
    BY <1>1, <1>4
  <2>2. TicketsAreLibraries'
    BY <1>1, <1>3, <2>1 DEF TicketsAreLibraries, Live
  <2>3. \A kind : Kinds(kind) => \A p \in Projects : type'[p] \in {"none", "gone", kind[p]}
    BY <2>1 DEF Kinds, RowKinds
  <2> QED BY <1>1, <1>3, <2>1, <2>2, <2>3, ProjectsStep
<1>5. CASE ~(r.main # None /\ ~Live(r.main))
  <2>1. /\ type' = [type EXCEPT ![r.p] = r.type]
        /\ member' = [member EXCEPT ![r.p][r.u] = "owner"]
        /\ ticket' = IF r.main = None THEN ticket ELSE [ticket EXCEPT ![r.main] = r.p]
    BY <1>1, <1>5
  <2>2. type' \in Types /\ type'[r.p] = r.type /\ \A q \in Projects \ {r.p} : type'[q] = type[q]
    BY <1>2, <1>3, <2>1 DEF Types
  <2>3. member' \in Members
    BY <1>2, <1>3, <2>1 DEF Members, Roles
  <2>4. /\ ticket' \in Tickets
        /\ r.main # None => r.main \in Projects /\ ticket'[r.main] = r.p
        /\ \A q \in Projects : q # r.main => ticket'[q] = ticket[q]
    BY <1>2, <1>3, <2>1 DEF Tickets
  <2>5. r.main # None => Live(r.main)
    BY <1>5
  <2>6. TicketsAreLibraries'
    <3> SUFFICES ASSUME calm', NEW q \in Projects, Live(q)', ticket'[q] # None
                 PROVE  type'[ticket'[q]] = "case_library"
      BY DEF TicketsAreLibraries
    <3>1. calm /\ type[r.p] = "none" /\ ticket[r.p] = None
      BY <1>2, <1>3
    <3>2. CASE q = r.main /\ r.main # None
      BY <1>2, <2>2, <2>4, <3>2
    <3>3. CASE ~(q = r.main /\ r.main # None)
      <4>1. ticket'[q] = ticket[q]
        BY <1>2, <2>1, <2>4, <3>3
      <4>2. q # r.p /\ Live(q) /\ ticket[q] \in Projects
        BY <1>3, <2>2, <3>1, <4>1 DEF Live, Tickets
      <4>3. type[ticket[q]] = "case_library"
        BY <1>3, <3>1, <4>1, <4>2 DEF TicketsAreLibraries
      <4> QED BY <2>2, <3>1, <4>1, <4>2, <4>3
    <3> QED BY <3>2, <3>3
  <2>8. \A p \in Projects : type'[p] = "none" => type[p] = "none" /\ ticket'[p] = None /\ model'[p] = None
    <3> SUFFICES ASSUME NEW p \in Projects, type'[p] = "none"
                 PROVE  type[p] = "none" /\ ticket'[p] = None /\ model'[p] = None
      OBVIOUS
    <3>1. type[p] = "none"
      BY <1>2, <2>2
    <3>2. r.main # None => p # r.main
      BY <2>5, <3>1 DEF Live
    <3> QED BY <1>1, <1>3, <2>1, <2>4, <3>1, <3>2
  <2>9. \A kind : Kinds(kind) => \A p \in Projects : type'[p] \in {"none", "gone", kind[p]}
    BY <1>1, <2>2 DEF Kinds, RowKinds, RequestKinds, r
  <2> QED BY <1>1, <1>3, <2>2, <2>3, <2>4, <2>6, <2>8, <2>9, ProjectsStep
<1> QED BY <1>4, <1>5

LEMMA CommitUpdateProjectStep ==
    ASSUME RegistryInv, NEW c \in Clients, CommitUpdateProject(c)
    PROVE  RegistryInv'
<1> DEFINE r == req[c]
<1>1. /\ req[c] # Idle /\ Ended(c) /\ r.op = "updateProject"
      /\ UNCHANGED <<role, seeded, type, model, apiAgent, member, agent, binds, bundle>>
      /\ ticket' = IF Live(r.p) THEN [ticket EXCEPT ![r.p] = r.t] ELSE ticket
  BY DEF CommitUpdateProject, Doing, Idle
<1>2. /\ r.p \in Projects /\ r.t \in Projects \cup {None}
      /\ calm /\ r.t # None => type[r.t] = "case_library"
  BY <1>1, RegistryRequests DEF RegistryInv, RegistryTypeOK, RequestsFit, StillHolds
<1>3. /\ type \in Types /\ ticket \in Tickets /\ member \in Members /\ calm' = calm
      /\ model \in [Projects -> Names \cup {None}] /\ apiAgent \in [Projects -> Agents \cup {None}]
      /\ TicketsAreLibraries
      /\ \A p \in Projects : type[p] = "none" => ticket[p] = None /\ model[p] = None
  BY <1>1 DEF Ended, RegistryInv, RegistryTypeOK, Unmentioned
<1> HIDE DEF r
<1>4. /\ ticket' \in Tickets /\ \A q \in Projects : q # r.p \/ ~Live(r.p) => ticket'[q] = ticket[q]
      /\ Live(r.p) => ticket'[r.p] = r.t
  BY <1>1, <1>2, <1>3 DEF Tickets
<1>5. TicketsAreLibraries'
  BY <1>1, <1>2, <1>3, <1>4 DEF TicketsAreLibraries, Live
<1>7. \A p \in Projects : type'[p] = "none" => type[p] = "none" /\ ticket'[p] = None /\ model'[p] = None
  BY <1>1, <1>3, <1>4 DEF Live
<1>8. \A kind : Kinds(kind) => \A p \in Projects : type'[p] \in {"none", "gone", kind[p]}
  BY <1>1 DEF Kinds, RowKinds
<1> QED BY <1>1, <1>3, <1>4, <1>5, <1>7, <1>8, ProjectsStep

LEMMA CommitDeleteProjectStep ==
    ASSUME RegistryInv, NEW c \in Clients, CommitDeleteProject(c)
    PROVE  RegistryInv'
<1> DEFINE p == req[c].p
<1>1. /\ req[c] # Idle /\ Ended(c) /\ req[c].op = "deleteProject"
      /\ UNCHANGED <<role, seeded, member, agent, binds, bundle>>
      /\ type' = [type EXCEPT ![p] = "gone"]
      /\ ticket' = [q \in Projects |-> IF q = p \/ ticket[q] = p THEN None ELSE ticket[q]]
      /\ model' = [model EXCEPT ![p] = None] /\ apiAgent' = [apiAgent EXCEPT ![p] = None]
  BY DEF CommitDeleteProject, Doing, Idle
<1>2. p \in Projects
  BY <1>1, RegistryRequests DEF RegistryInv, RegistryTypeOK
<1>3. /\ type \in Types /\ ticket \in Tickets /\ member \in Members /\ calm' = calm
      /\ model \in [Projects -> Names \cup {None}] /\ apiAgent \in [Projects -> Agents \cup {None}]
      /\ TicketsAreLibraries
      /\ \A q \in Projects : type[q] = "none" => ticket[q] = None /\ model[q] = None
  BY <1>1 DEF Ended, RegistryInv, RegistryTypeOK, Unmentioned
<1> HIDE DEF p
<1>4. type' \in Types /\ type'[p] = "gone" /\ \A q \in Projects \ {p} : type'[q] = type[q]
  BY <1>1, <1>2, <1>3 DEF Types
<1>5. /\ ticket' \in Tickets
      /\ \A q \in Projects : ticket'[q] # None => ticket'[q] = ticket[q] /\ ticket[q] # p /\ q # p
      /\ \A q \in Projects : ticket[q] = None => ticket'[q] = None
  BY <1>1, <1>3 DEF Tickets
<1>6. /\ model' \in [Projects -> Names \cup {None}] /\ apiAgent' \in [Projects -> Agents \cup {None}]
      /\ model'[p] = None /\ \A q \in Projects \ {p} : model'[q] = model[q]
  BY <1>1, <1>2, <1>3
<1>7. TicketsAreLibraries'
  <2> SUFFICES ASSUME calm', NEW q \in Projects, Live(q)', ticket'[q] # None
               PROVE  type'[ticket'[q]] = "case_library"
    BY DEF TicketsAreLibraries
  <2>1. q # p /\ ticket'[q] = ticket[q] /\ ticket[q] # p /\ ticket[q] # None
    BY <1>5
  <2>2. Live(q) /\ ticket[q] \in Projects
    BY <1>3, <1>4, <2>1 DEF Live, Tickets
  <2>3. type[ticket[q]] = "case_library"
    BY <1>3, <2>1, <2>2 DEF TicketsAreLibraries
  <2> QED BY <1>4, <2>1, <2>2, <2>3
<1>9. \A q \in Projects : type'[q] = "none" => type[q] = "none" /\ ticket'[q] = None /\ model'[q] = None
  BY <1>3, <1>4, <1>5, <1>6
<1>10. \A kind : Kinds(kind) => \A q \in Projects : type'[q] \in {"none", "gone", kind[q]}
  BY <1>4 DEF Kinds, RowKinds
<1> QED BY <1>1, <1>3, <1>4, <1>5, <1>6, <1>7, <1>9, <1>10, ProjectsStep

LEMMA CommitAddMemberStep ==
    ASSUME RegistryInv, NEW c \in Clients, CommitAddMember(c)
    PROVE  RegistryInv'
<1>1. /\ req[c] # Idle /\ Ended(c) /\ req[c].op = "addMember"
      /\ UNCHANGED <<role, seeded, type, ticket, model, apiAgent, agent, binds, bundle>>
      /\ member' = [member EXCEPT ![req[c].p][req[c].u] = req[c].role]
  BY DEF CommitAddMember, Doing, Idle
<1>2. req[c].p \in Projects /\ req[c].u \in Users /\ req[c].role \in Roles
  BY <1>1, RegistryRequests DEF RegistryInv, RegistryTypeOK
<1>3. member' \in Members
  BY <1>1, <1>2 DEF RegistryInv, RegistryTypeOK, Members
<1>4. calm' = calm
  BY <1>1 DEF Ended
<1>5. TicketsAreLibraries'
  BY <1>1, <1>4 DEF RegistryInv, TicketsAreLibraries, Live
<1>6. \A p \in Projects : type'[p] = "none" => type[p] = "none" /\ ticket'[p] = None /\ model'[p] = None
  BY <1>1 DEF RegistryInv, Unmentioned
<1>7. \A kind : Kinds(kind) => \A q \in Projects : type'[q] \in {"none", "gone", kind[q]}
  BY <1>1 DEF Kinds, RowKinds
<1> QED BY <1>1, <1>3, <1>5, <1>6, <1>7, ProjectsStep DEF RegistryInv, RegistryTypeOK

LEMMA CommitKnowledgeApiStep ==
    ASSUME RegistryInv, NEW c \in Clients, CommitKnowledgeApi(c)
    PROVE  RegistryInv'
<1> DEFINE r == req[c]
<1>1. /\ req[c] # Idle /\ Ended(c) /\ r.op = "knowledgeApi"
      /\ UNCHANGED <<role, seeded, type, ticket, member, bundle>>
      /\ IF ~Live(r.p) THEN UNCHANGED <<model, apiAgent, agent, binds>>
         ELSE /\ model' = IF r.n = Unset THEN model ELSE [model EXCEPT ![r.p] = r.n]
              /\ IF r.a = None THEN UNCHANGED <<apiAgent, agent, binds>>
                 ELSE /\ apiAgent' = [apiAgent EXCEPT ![r.p] = r.a]
                      /\ agent' = [agent EXCEPT ![r.a] = [kind |-> "knowledge", by |-> r.u]]
                      /\ binds' = binds \cup {<<r.a, r.p>>}
  BY DEF CommitKnowledgeApi, Doing, Idle
<1>2. /\ r.p \in Projects /\ r.n \in Names \cup {None, Unset} /\ r.u \in Users /\ r.a \in Agents \cup {None}
  BY <1>1, RegistryRequests DEF RegistryInv, RegistryTypeOK
<1>3. /\ type \in Types /\ agent \in AgentRows /\ calm' = calm /\ binds \subseteq Agents \X Projects
      /\ model \in [Projects -> Names \cup {None}] /\ apiAgent \in [Projects -> Agents \cup {None}]
      /\ AdminRemains /\ TicketsAreLibraries
      /\ \A p \in Projects : type[p] = "none" => ticket[p] = None /\ model[p] = None
      /\ \A x \in binds : type[x[2]] # "none"
  BY <1>1 DEF Ended, RegistryInv, RegistryTypeOK, Unmentioned
<1> HIDE DEF r
\* The project gets the name, if it is there, and an agent bound to it, if it needs one.
<1>4. /\ model' \in [Projects -> Names \cup {None}]
      /\ \A q \in Projects : q # r.p => model'[q] = model[q]
      /\ ~Live(r.p) => model'[r.p] = model[r.p]
      /\ model'[r.p] = model[r.p] \/ model'[r.p] = None \/ (model'[r.p] = r.n /\ r.n \in Names)
  BY <1>1, <1>2, <1>3
<1>5. apiAgent' \in [Projects -> Agents \cup {None}]
  BY <1>1, <1>2, <1>3
<1>6. \/ agent' = agent /\ binds' = binds
      \/ /\ r.a \in Agents /\ Live(r.p) /\ agent' = [agent EXCEPT ![r.a] = [kind |-> "knowledge", by |-> r.u]]
         /\ binds' = binds \cup {<<r.a, r.p>>}
  BY <1>1, <1>2
<1>7. /\ agent' \in AgentRows
      /\ \A a \in Agents : agent'[a].kind = "made" => agent[a].kind = "made"
      /\ r.a \in Agents /\ (agent' # agent \/ binds' # binds) => agent'[r.a].kind = "knowledge"
  <2>1. [kind |-> "knowledge", by |-> r.u] \in [kind : {"none", "made", "knowledge", "gone"}, by : 0..MaxUser]
    BY <1>2 DEF Users
  <2> QED BY <1>3, <1>6, <2>1 DEF AgentRows
<1>8. RowsFit'
  <2>1. TicketsAreLibraries' /\ AdminRemains'
    BY <1>1, <1>3 DEF TicketsAreLibraries, AdminRemains, IsAdmin, Live
  <2>3. Unmentioned'
    <3>1. \A p \in Projects : type[p] = "none" => model'[p] = None
      BY <1>3, <1>4 DEF Live
    <3>2. \A x \in binds' : type[x[2]] # "none"
      BY <1>3, <1>6 DEF Live
    <3> QED BY <1>1, <1>3, <3>1, <3>2 DEF Unmentioned
  <2>4. binds' \subseteq Agents \X Projects
    BY <1>2, <1>3, <1>6
  <2> QED BY <1>1, <1>4, <1>5, <1>7, <2>1, <2>3, <2>4, TablesFit DEF RowsFit, IsUser
<1>9. NoneNew
  BY <1>1, <1>3 DEF NoneNew
<1>10. ASSUME NEW kind, Kinds(kind)
       PROVE  RowKinds(kind)' /\ (bundle' # None => BundleKinds(bundle', kind))
  <2>1. ASSUME NEW x \in binds', agent'[x[1]].kind = "made"
        PROVE  kind[x[2]] = "knowledge_base"
    <3>1. CASE x \in binds
      BY <1>3, <1>7, <1>10, <2>1, <3>1 DEF Kinds, RowKinds
    <3>2. CASE x \notin binds
      BY <1>6, <1>7, <2>1, <3>2
    <3> QED BY <3>1, <3>2
  <2> QED BY <1>1, <1>10, <2>1 DEF Kinds, RowKinds
<1> QED BY <1>1, <1>8, <1>9, <1>10, EndStep

\* A commit that only changes the agents and their bindings.
LEMMA AgentsStep ==
    ASSUME RegistryInv, NEW c \in Clients, req[c] # Idle, Ended(c),
           UNCHANGED <<role, seeded, type, ticket, model, apiAgent, member, bundle>>,
           agent' \in AgentRows, binds' \subseteq Agents \X Projects,
           \A x \in binds' : type[x[2]] # "none",
           \A kind : Kinds(kind) => \A x \in binds' : agent'[x[1]].kind = "made" => kind[x[2]] = "knowledge_base"
    PROVE  RegistryInv'
<1>1. calm' = calm
  BY DEF Ended
<1>2. RowsFit'
  BY <1>1, TablesFit DEF RowsFit, AdminRemains, IsAdmin, IsUser, TicketsAreLibraries, Live, Unmentioned
<1>3. NoneNew
  BY <1>1 DEF NoneNew
<1>4. \A kind : Kinds(kind) => RowKinds(kind)' /\ (bundle' # None => BundleKinds(bundle', kind))
  BY DEF Kinds, RowKinds
<1> QED BY <1>2, <1>3, <1>4, EndStep

LEMMA CommitAgentStep ==
    ASSUME RegistryInv, NEW c \in Clients, CommitAgent(c)
    PROVE  RegistryInv'
<1> DEFINE r == req[c]
<1>1. /\ req[c] # Idle /\ Ended(c) /\ r.op \in {"createAgent", "updateAgent"}
      /\ UNCHANGED <<role, seeded, type, ticket, model, apiAgent, member, bundle>>
      /\ agent' = IF r.op = "createAgent" THEN [agent EXCEPT ![r.a] = [kind |-> "made", by |-> r.u]] ELSE agent
      /\ binds' = {b \in binds : b[1] # r.a} \cup ({r.a} \X r.ps)
  BY DEF CommitAgent, Idle
<1>2. /\ r.a \in Agents /\ r.ps \in SUBSET Projects /\ (r.op = "createAgent" => r.u \in Users)
      /\ \A p \in r.ps : type[p] # "none"
      /\ \A kind : Kinds(kind) => \A p \in r.ps : kind[p] = "knowledge_base"
  BY <1>1, RegistryRequests DEF RegistryInv, RegistryTypeOK, RequestsFit, RequestFits, Kinds, RequestKinds
<1> HIDE DEF r
<1>3. agent \in AgentRows /\ binds \subseteq Agents \X Projects /\ \A x \in binds : type[x[2]] # "none"
  BY DEF RegistryInv, RegistryTypeOK, Unmentioned
<1>4. agent' \in AgentRows /\ \A a \in Agents : a # r.a => agent'[a] = agent[a]
  BY <1>1, <1>2, <1>3 DEF AgentRows, Users
<1>5. \A x \in binds' : (x \in binds /\ x[1] # r.a) \/ (x[1] = r.a /\ x[2] \in r.ps)
  BY <1>1
<1>6. binds' \subseteq Agents \X Projects /\ \A x \in binds' : type[x[2]] # "none"
  BY <1>1, <1>2, <1>3
<1>7. ASSUME NEW kind, Kinds(kind), NEW x \in binds', agent'[x[1]].kind = "made"
      PROVE  kind[x[2]] = "knowledge_base"
  BY <1>2, <1>3, <1>4, <1>5, <1>7 DEF Kinds, RowKinds
<1> QED BY <1>1, <1>4, <1>6, <1>7, AgentsStep

LEMMA CommitDeleteAgentStep ==
    ASSUME RegistryInv, NEW c \in Clients, CommitDeleteAgent(c)
    PROVE  RegistryInv'
<1> DEFINE a == req[c].a
<1>1. /\ req[c] # Idle /\ Ended(c) /\ req[c].op = "deleteAgent"
      /\ UNCHANGED <<role, seeded, type, ticket, model, apiAgent, member, binds, bundle>>
      /\ agent' = [agent EXCEPT ![a].kind = "gone"]
  BY DEF CommitDeleteAgent, Doing, Idle
<1>2. a \in Agents /\ agent \in AgentRows /\ binds \subseteq Agents \X Projects
  BY <1>1, RegistryRequests DEF RegistryInv, RegistryTypeOK
<1>3. agent' \in AgentRows /\ \A b \in Agents : agent'[b].kind = "made" => agent[b].kind = "made"
  BY <1>1, <1>2 DEF AgentRows
<1>4. \A x \in binds' : type[x[2]] # "none"
  BY <1>1 DEF RegistryInv, Unmentioned
<1>5. \A kind : Kinds(kind) => \A x \in binds' : agent'[x[1]].kind = "made" => kind[x[2]] = "knowledge_base"
  BY <1>1, <1>2, <1>3 DEF Kinds, RowKinds
<1> QED BY <1>1, <1>2, <1>3, <1>4, <1>5, AgentsStep

LEMMA EndExportStep ==
    ASSUME RegistryInv, NEW c \in Clients, EndExport(c)
    PROVE  RegistryInv'
<1> DEFINE r == req[c]
<1> DEFINE b == [role |-> r.role, seeded |-> r.seeded, type |-> r.type, ticket |-> r.ticket,
                 member |-> member, agent |-> agent, binds |-> binds]
<1>1. req[c] # Idle /\ Ended(c) /\ r.op = "export" /\ UNCHANGED rows /\ bundle' = b
  BY DEF EndExport, Doing, Idle
<1>2. /\ r.role \in UserRoles /\ r.seeded \in 0..MaxUser /\ r.type \in Types /\ r.ticket \in Tickets
      /\ UsersFit(r.role, r.seeded) /\ ProjectsFit(r.type, r.ticket)
      /\ \A kind : Kinds(kind) => \A p \in Projects : r.type[p] \in {"none", "gone", kind[p]}
  BY <1>1, RegistryRequests DEF RegistryInv, RegistryTypeOK, RequestsFit, RequestFits, Kinds, RequestKinds
<1>3. b \in Bundles
  BY <1>2 DEF Bundles, RegistryInv, RegistryTypeOK
<1>4. /\ b.role = r.role /\ b.seeded = r.seeded /\ b.type = r.type /\ b.ticket = r.ticket
      /\ b.agent = agent /\ b.binds = binds
  OBVIOUS
<1> HIDE DEF b, r
<1>5. BundleFits(b)
  BY <1>2, <1>4 DEF BundleFits, RegistryInv, Unmentioned
<1>6. \A kind : Kinds(kind) => BundleKinds(b, kind)
  BY <1>2, <1>4 DEF Kinds, RowKinds, BundleKinds, Listed
<1>7. NoneNew /\ \A kind : Kinds(kind) => RowKinds(kind)'
  BY <1>1 DEF NoneNew, rows, Ended, Kinds, RowKinds
<1>8. RowsFit'
  BY <1>1, TablesFit DEF RowsFit, AdminRemains, IsAdmin, IsUser, TicketsAreLibraries, Live,
                         Unmentioned, rows, Ended
<1> QED BY <1>1, <1>3, <1>5, <1>6, <1>7, <1>8, EndStep

\* What a restored backup leaves.
LEMMA ImportedRows ==
    ASSUME NEW b \in Bundles, ImportRows(b), type \in Types, agent \in AgentRows
    PROVE  /\ role' = b.role /\ seeded' = b.seeded /\ member' = b.member
           /\ type' \in Types /\ ticket' \in Tickets /\ agent' \in AgentRows
           /\ model' = [p \in Projects |-> None] /\ apiAgent' = [p \in Projects |-> None]
           /\ \A p \in Projects : /\ Live(p)' <=> p \in Listed(b)
                                  /\ p \in Listed(b) => type'[p] = b.type[p] /\ ticket'[p] = b.ticket[p]
                                  /\ p \notin Listed(b) => type'[p] \in {"gone", type[p]} /\ ticket'[p] = None
           /\ \A a \in Agents : /\ AgentExists(a)' <=> b.agent[a].kind \in {"made", "knowledge"}
                                /\ AgentExists(a)' => agent'[a] = b.agent[a]
<1>1. b.type \in Types /\ b.ticket \in Tickets /\ b.agent \in AgentRows
  BY DEF Bundles
<1>2. type' = [p \in Projects |-> IF p \in Listed(b) THEN b.type[p] ELSE IF Live(p) THEN "gone" ELSE type[p]]
      /\ ticket' = [p \in Projects |-> IF p \in Listed(b) THEN b.ticket[p] ELSE None]
      /\ agent' = [a \in Agents |-> IF b.agent[a].kind \in {"made", "knowledge"} THEN b.agent[a]
                                    ELSE IF AgentExists(a) THEN [agent[a] EXCEPT !.kind = "gone"] ELSE agent[a]]
      /\ role' = b.role /\ seeded' = b.seeded /\ member' = b.member
      /\ model' = [p \in Projects |-> None] /\ apiAgent' = [p \in Projects |-> None]
  BY DEF ImportRows
<1>3. type' \in Types /\ ticket' \in Tickets
  BY <1>1, <1>2 DEF Types, Tickets
<1>4. ASSUME NEW p \in Projects
      PROVE  /\ Live(p)' <=> p \in Listed(b)
             /\ p \in Listed(b) => type'[p] = b.type[p] /\ ticket'[p] = b.ticket[p]
             /\ p \notin Listed(b) => type'[p] \in {"gone", type[p]} /\ ticket'[p] = None
  BY <1>2 DEF Live, Listed
<1>5. ASSUME NEW a \in Agents
      PROVE  /\ agent'[a] \in [kind : {"none", "made", "knowledge", "gone"}, by : 0..MaxUser]
             /\ AgentExists(a)' <=> b.agent[a].kind \in {"made", "knowledge"}
             /\ AgentExists(a)' => agent'[a] = b.agent[a]
  BY <1>1, <1>2 DEF AgentRows, AgentExists
<1>6. agent' \in AgentRows
  BY <1>2, <1>5 DEF AgentRows
<1> QED BY <1>2, <1>3, <1>4, <1>5, <1>6

LEMMA CommitImportStep ==
    ASSUME RegistryInv, NEW c \in Clients, CommitImport(c)
    PROVE  RegistryInv'
<1> DEFINE b == req[c].b
<1>1. /\ req[c] # Idle /\ Ended(c) /\ req[c].op = "import" /\ bundle' = bundle
      /\ ImportRows(b) /\ binds' = {x \in b.binds : b.type[x[2]] # "case_library"}
  BY DEF CommitImport, Doing, Idle
<1>2. /\ b \in Bundles /\ BundleFits(b)
      /\ \A kind : Kinds(kind) => BundleKinds(b, kind)
  BY <1>1, RegistryRequests DEF RegistryInv, RegistryTypeOK, RequestsFit, RequestFits, Kinds, RequestKinds
<1> HIDE DEF b
<1>3. /\ b.role \in UserRoles /\ b.seeded \in 0..MaxUser /\ b.member \in Members /\ b.type \in Types
      /\ b.ticket \in Tickets /\ b.binds \subseteq Agents \X Projects
  BY <1>2 DEF Bundles
<1>4. type \in Types /\ agent \in AgentRows /\ calm' = calm
  BY <1>1 DEF RegistryInv, RegistryTypeOK, Ended
<1>5. /\ role' = b.role /\ seeded' = b.seeded /\ member' = b.member
      /\ type' \in Types /\ ticket' \in Tickets /\ agent' \in AgentRows
      /\ model' = [p \in Projects |-> None] /\ apiAgent' = [p \in Projects |-> None]
      /\ \A p \in Projects : /\ Live(p)' <=> p \in Listed(b)
                             /\ p \in Listed(b) => type'[p] = b.type[p] /\ ticket'[p] = b.ticket[p]
                             /\ p \notin Listed(b) => type'[p] \in {"gone", type[p]} /\ ticket'[p] = None
      /\ \A a \in Agents : AgentExists(a)' => agent'[a] = b.agent[a]
  BY <1>1, <1>2, <1>4, ImportedRows
<1>6. \A p \in Projects : type'[p] = "none" => type[p] = "none" /\ p \notin Listed(b)
  BY <1>5 DEF Listed
<1>7. NoneNew
  BY <1>4, <1>6 DEF NoneNew
<1>8. RowsFit'
  <2>1. AdminRemains' /\ (seeded' # 0 => IsUser(seeded)')
    BY <1>2, <1>5 DEF BundleFits, UsersFit, AdminRemains, IsAdmin, IsUser
  <2>2. TicketsAreLibraries'
    <3> SUFFICES ASSUME calm', NEW p \in Projects, Live(p)', ticket'[p] # None
                 PROVE  type'[ticket'[p]] = "case_library"
      BY DEF TicketsAreLibraries
    <3>1. p \in Listed(b) /\ ticket'[p] = b.ticket[p] /\ b.ticket[p] \in Projects
      BY <1>3, <1>5 DEF Tickets
    <3>2. b.type[b.ticket[p]] = "case_library"
      BY <1>2, <1>4, <3>1 DEF BundleFits, ProjectsFit, TicketsFit, Listed
    <3>3. b.ticket[p] \in Listed(b)
      BY <3>1, <3>2 DEF Listed
    <3> QED BY <1>5, <3>1, <3>2, <3>3
  <2>4. Unmentioned'
    <3>1. \A p \in Projects : type'[p] = "none" => ticket'[p] = None /\ model'[p] = None
      BY <1>5, <1>6
    <3>2. \A x \in binds' : x[2] \in Projects /\ type[x[2]] # "none"
      BY <1>1, <1>2, <1>3 DEF BundleFits
    <3>3. \A x \in binds' : type'[x[2]] # "none"
      BY <1>6, <3>2
    <3> QED BY <3>1, <3>3 DEF Unmentioned
  <2>5. binds' \subseteq Agents \X Projects
    BY <1>1, <1>3
  <2>6. model' \in [Projects -> Names \cup {None}] /\ apiAgent' \in [Projects -> Agents \cup {None}]
    BY <1>5
  <2> QED BY <1>3, <1>5, <2>1, <2>2, <2>4, <2>5, <2>6 DEF RowsFit
<1>9. ASSUME NEW kind, Kinds(kind)
      PROVE  RowKinds(kind)' /\ (bundle' # None => BundleKinds(bundle', kind))
  <2>1. \A p \in Projects : type'[p] \in {"none", "gone", kind[p]}
    <3>1. ASSUME NEW p \in Projects, p \in Listed(b)
          PROVE  type'[p] = kind[p]
      BY <1>2, <1>5, <1>9, <3>1 DEF BundleKinds
    <3>2. ASSUME NEW p \in Projects, p \notin Listed(b)
          PROVE  type'[p] \in {"none", "gone", kind[p]}
      BY <1>5, <1>9, <3>2 DEF Kinds, RowKinds
    <3> QED BY <3>1, <3>2
  <2>2. ASSUME NEW x \in binds', agent'[x[1]].kind = "made"
        PROVE  kind[x[2]] = "knowledge_base"
    <3>1. x \in b.binds /\ b.type[x[2]] # "case_library" /\ x[1] \in Agents
      BY <1>1, <1>3, <2>2
    <3>2. agent'[x[1]] = b.agent[x[1]]
      BY <1>5, <2>2, <3>1 DEF AgentExists
    <3> QED BY <1>2, <1>9, <2>2, <3>1, <3>2 DEF BundleKinds
  <2> QED BY <1>1, <1>9, <2>1, <2>2 DEF Kinds, RowKinds
<1> QED BY <1>1, <1>7, <1>8, <1>9, EndStep

-----------------------------------------------------------------------------
(* Restarts, and the theorems.                                              *)

LEMMA RestartStep ==
    ASSUME RegistryInv, Restart
    PROVE  RegistryInv'
<1>1. PICK id \in Users : /\ IF seeded = 0 THEN IsNewId(id) ELSE id = seeded
                          /\ seeded' = id /\ role' = [role EXCEPT ![id] = "admin"]
  BY DEF Restart
<1>2. /\ restarts < MaxRestarts /\ restarts' = restarts + 1 /\ req' = [c \in Clients |-> Idle]
      /\ UNCHANGED <<type, ticket, model, apiAgent, member, agent, binds, bundle, asked, calm, sought>>
  BY DEF Restart
<1>3. Idle \in Calls /\ Idle.op = "idle"
  BY DEF Calls, Idle
<1>4. role' \in UserRoles /\ role'[id] = "admin"
  BY <1>1 DEF RegistryInv, RegistryTypeOK, UserRoles
<1>5. RegistryTypeOK'
  <2>1. seeded' \in 0..MaxUser /\ (seeded' # 0 => IsUser(seeded)')
    BY <1>1, <1>4 DEF Users, IsUser
  <2>2. restarts' \in 0..MaxRestarts
    BY <1>2, RegistryAssumption DEF RegistryInv, RegistryTypeOK, RegistryAssumption
  <2> QED BY <1>2, <1>3, <1>4, <2>1, <2>2 DEF RegistryInv, RegistryTypeOK
<1>6. OneByOne' /\ AdminRemains'
  BY <1>1, <1>2, <1>4 DEF OneByOne, AdminRemains, IsAdmin
<1>7. TicketsAreLibraries' /\ LibrariesUnbound' /\ Unmentioned'
  BY <1>2 DEF RegistryInv, TicketsAreLibraries, LibrariesUnbound, Unmentioned, Live
<1>8. RequestsFit'
  <2>1. bundle' # None => BundleFits(bundle)'
    BY <1>2 DEF RegistryInv, RequestsFit, BundleFits, UsersFit, ProjectsFit, TicketsFit
  <2>2. \A c \in Clients : RequestFits(req[c])' /\ StillHolds(req[c])'
    BY <1>2, <1>3 DEF RequestFits, StillHolds
  <2> QED BY <2>1, <2>2 DEF RequestsFit
<1>9. OfOneKind'
  <2>1. PICK kind : Kinds(kind)
    BY DEF RegistryInv, OfOneKind, Kinds
  <2>2. RowKinds(kind)' /\ (bundle' # None => BundleKinds(bundle', kind))
    BY <1>2, <2>1 DEF Kinds, RowKinds
  <2>3. \A c \in Clients : RequestKinds(req'[c], kind)
    BY <1>2, <1>3 DEF RequestKinds
  <2>4. kind \in [Projects -> {"knowledge_base", "case_library"}]
    BY <2>1 DEF Kinds
  <2> QED BY <2>2, <2>3, <2>4 DEF OfOneKind, BundleKinds, RequestKinds, Listed
<1> QED BY <1>5, <1>6, <1>7, <1>8, <1>9 DEF RegistryInv

LEMMA OldBundleFits ==
    ASSUME NEW a \in Agents, NEW p \in Projects, NEW qs \in SUBSET (Projects \ {p}), NEW b, b = OldBundle(a, p, qs)
    PROVE  /\ b \in Bundles /\ UsersFit(b.role, b.seeded) /\ TicketsFit(b.type, b.ticket)
           /\ \A x \in b.binds : x[2] \in Projects /\ b.type[x[2]] # "none"
           /\ \A q \in Projects : b.type[q] \in {"none", "knowledge_base", "case_library"}
           /\ \A x \in b.binds : b.type[x[2]] \in {"knowledge_base", "case_library"}
<1>1. /\ b.role = [u \in Users |-> IF u = 1 THEN "admin" ELSE "none"] /\ b.seeded = 1
      /\ b.type = [q \in Projects |-> IF q = p THEN "case_library" ELSE IF q \in qs THEN "knowledge_base" ELSE "none"]
      /\ b.ticket = [q \in Projects |-> IF q \in qs THEN p ELSE None]
      /\ b.member = [q \in Projects |-> [u \in Users |-> "none"]]
      /\ b.agent = [d \in Agents |-> IF d = a THEN [kind |-> "made", by |-> 1] ELSE NoAgent]
      /\ b.binds = {a} \X (qs \cup {p})
      /\ b = [role |-> b.role, seeded |-> b.seeded, type |-> b.type, ticket |-> b.ticket, member |-> b.member,
              agent |-> b.agent, binds |-> b.binds]
  BY DEF OldBundle
<1>2. 1 \in Users /\ 1 \in 0..MaxUser /\ 0 \in 0..MaxUser
  BY RegistryAssumption DEF RegistryAssumption, Users
<1>3. b.role \in UserRoles /\ b.type \in Types /\ b.ticket \in Tickets /\ b.member \in Members
  BY <1>1 DEF UserRoles, Types, Tickets, Members, Roles
<1>4. b.agent \in AgentRows
  BY <1>1, <1>2 DEF AgentRows, NoAgent
<1>5. b.binds \in SUBSET (Agents \X Projects)
  BY <1>1
<1>6. b \in Bundles
  <2>1. b.seeded \in 0..MaxUser
    BY <1>1, <1>2
  <2> QED BY <1>1, <1>3, <1>4, <1>5, <2>1 DEF Bundles
<1>7. UsersFit(b.role, b.seeded) /\ TicketsFit(b.type, b.ticket)
  BY <1>1, <1>2 DEF UsersFit, TicketsFit
<1>8. \A x \in b.binds : x[2] \in Projects /\ b.type[x[2]] \in {"knowledge_base", "case_library"}
  BY <1>1
<1> QED BY <1>1, <1>6, <1>7, <1>8

LEMMA RegistryStart ==
    ASSUME RegistryInit
    PROVE  RegistryInv
<1>1. Idle \in Calls /\ Idle.op = "idle" /\ 1 \in Users /\ 0 \in 0..MaxUser /\ 1 \in 0..MaxUser
  BY RegistryAssumption DEF Calls, Idle, RegistryAssumption, Users
<1>2. bundle # None =>
         /\ bundle \in Bundles /\ UsersFit(bundle.role, bundle.seeded) /\ TicketsFit(bundle.type, bundle.ticket)
         /\ \A q \in Projects : bundle.type[q] \in {"none", "knowledge_base", "case_library"}
         /\ \A x \in bundle.binds : x[2] \in Projects /\ bundle.type[x[2]] \in {"knowledge_base", "case_library"}
  <2> SUFFICES ASSUME bundle # None
               PROVE  /\ bundle \in Bundles /\ UsersFit(bundle.role, bundle.seeded)
                      /\ TicketsFit(bundle.type, bundle.ticket)
                      /\ \A q \in Projects : bundle.type[q] \in {"none", "knowledge_base", "case_library"}
                      /\ \A x \in bundle.binds : /\ x[2] \in Projects
                                                 /\ bundle.type[x[2]] \in {"knowledge_base", "case_library"}
    OBVIOUS
  <2>1. PICK p \in Projects : \E a \in Agents, qs \in SUBSET (Projects \ {p}) : bundle = OldBundle(a, p, qs)
    BY DEF RegistryInit, OldBundles
  <2> QED BY <2>1, OldBundleFits
<1>3. type = [p \in Projects |-> IF bundle # None /\ bundle.type[p] # "none" THEN "gone" ELSE "none"]
  BY DEF RegistryInit
<1>4. type \in Types /\ \A p \in Projects : ~Live(p)
  BY <1>3 DEF Types, Live
<1>5. agent \in AgentRows
  <2>1. ASSUME NEW a \in Agents
        PROVE  agent[a] \in [kind : {"none", "made", "knowledge", "gone"}, by : 0..MaxUser]
    <3>1. CASE bundle = None
      BY <1>1, <3>1 DEF RegistryInit, NoAgent
    <3>2. CASE bundle # None
      <4>1. bundle.agent[a] \in [kind : {"none", "made", "knowledge", "gone"}, by : 0..MaxUser]
        BY <1>2, <3>2 DEF Bundles, AgentRows
      <4> QED BY <3>2, <4>1 DEF RegistryInit
    <3> QED BY <3>1, <3>2
  <2> QED BY <2>1 DEF RegistryInit, AgentRows
<1>6. role \in UserRoles /\ role[1] = "admin" /\ seeded = 1
  BY <1>1 DEF RegistryInit, UserRoles
<1>7. RegistryTypeOK
  <2>1. asked \in 0..MaxRequests /\ restarts \in 0..MaxRestarts /\ calm \in BOOLEAN /\ sought \subseteq Names
    BY RegistryAssumption DEF RegistryInit, RegistryAssumption
  <2>2. ticket \in Tickets /\ member \in Members /\ binds \subseteq Agents \X Projects
    BY DEF RegistryInit, Tickets, Members, Roles
  <2>3. model \in [Projects -> Names \cup {None}] /\ apiAgent \in [Projects -> Agents \cup {None}]
        /\ req \in [Clients -> Calls]
    BY <1>1 DEF RegistryInit
  <2>4. bundle \in {None} \cup Bundles
    BY <1>2
  <2> QED BY <1>1, <1>4, <1>5, <1>6, <2>1, <2>2, <2>3, <2>4 DEF RegistryTypeOK, IsUser
<1>8. OneByOne /\ AdminRemains
  BY <1>1, <1>6 DEF RegistryInit, OneByOne, AdminRemains, IsAdmin
<1>9. TicketsAreLibraries
  BY <1>4 DEF TicketsAreLibraries
<1>10. LibrariesUnbound /\ Unmentioned
  BY DEF RegistryInit, LibrariesUnbound, Unmentioned
<1>11. RequestsFit
  <2>1. bundle # None => BundleFits(bundle)
    <3> SUFFICES ASSUME bundle # None PROVE BundleFits(bundle)
      OBVIOUS
    <3>1. \A p \in Projects : type[p] = "none" => bundle.type[p] = "none"
      BY <1>3
    <3>2. \A x \in bundle.binds : type[x[2]] # "none"
      BY <1>2, <1>3
    <3> QED BY <1>2, <3>1, <3>2 DEF BundleFits, ProjectsFit
  <2>2. \A c \in Clients : RequestFits(req[c]) /\ StillHolds(req[c])
    BY <1>1 DEF RegistryInit, RequestFits, StillHolds
  <2> QED BY <2>1, <2>2 DEF RequestsFit
<1>12. OfOneKind
  <2> DEFINE kind == [p \in Projects |-> IF bundle # None /\ bundle.type[p] = "case_library" THEN "case_library"
                                         ELSE "knowledge_base"]
  <2>1. kind \in [Projects -> {"knowledge_base", "case_library"}]
    OBVIOUS
  <2>2. RowKinds(kind)
    BY <1>3 DEF RegistryInit, RowKinds
  <2>3. bundle # None => BundleKinds(bundle, kind)
    BY <1>2 DEF BundleKinds, Listed
  <2>4. \A c \in Clients : RequestKinds(req[c], kind)
    BY <1>1 DEF RegistryInit, RequestKinds
  <2> HIDE DEF kind
  <2> QED BY <2>1, <2>2, <2>3, <2>4 DEF OfOneKind
<1> QED BY <1>7, <1>8, <1>9, <1>10, <1>11, <1>12 DEF RegistryInv

LEMMA RegistryUnchanged ==
    ASSUME RegistryInv, UNCHANGED registryVars
    PROVE  RegistryInv'
<1>1. UNCHANGED <<role, seeded, type, ticket, model, apiAgent, member, agent, binds, bundle, req, asked, restarts, calm, sought>>
  BY DEF registryVars, rows
<1>2. RegistryTypeOK' /\ OneByOne' /\ AdminRemains' /\ TicketsAreLibraries' /\ LibrariesUnbound' /\ Unmentioned'
  BY <1>1 DEF RegistryInv, RegistryTypeOK, OneByOne, AdminRemains, TicketsAreLibraries, LibrariesUnbound, Unmentioned,
              IsAdmin, IsUser, Live
<1>3. RequestsFit'
  BY <1>1 DEF RegistryInv, RequestsFit, RequestFits, StillHolds, BundleFits, UsersFit, ProjectsFit, TicketsFit, IsAdmin, Live
<1>4. OfOneKind'
  BY <1>1 DEF RegistryInv, OfOneKind, RowKinds, BundleKinds, RequestKinds, Listed
<1> QED BY <1>2, <1>3, <1>4 DEF RegistryInv

LEMMA RegistryStep ==
    ASSUME RegistryInv, [RegistryNext]_registryVars
    PROVE  RegistryInv'
<1>1. ASSUME NEW c \in Clients, Request(c)
      PROVE  RegistryInv'
  BY <1>1, AskUsersStep, AskProjectsStep, AskAgentsStep DEF Request
<1>2. ASSUME NEW c \in Clients, Commit(c)
      PROVE  RegistryInv'
  BY <1>2, CommitRegisterStep, CommitRoleStep, CommitDeleteUserStep, CommitCreateProjectStep, CommitUpdateProjectStep,
     CommitDeleteProjectStep, CommitAddMemberStep, CommitKnowledgeApiStep, CommitAgentStep, CommitDeleteAgentStep,
     EndExportStep, CommitImportStep DEF Commit
<1> QED BY <1>1, <1>2, RestartStep, RegistryUnchanged DEF RegistryNext

\* The inductive invariant, for any number of users, projects, agents and restarts:
\* while requests do not overlap an administrator remains and ticket projects are case
\* libraries, and whatever overlaps no agent that a user made is bound to a case library
\* (admin/router.py:208-314, 725-767, projects/service.py:57-282, agents/service.py:43-66).
THEOREM RegistryInvariant == RegistrySpec => []RegistryInv
<1>1. RegistryInit => RegistryInv
  BY RegistryStart
<1>2. RegistryInv /\ [RegistryNext]_registryVars => RegistryInv'
  BY RegistryStep
<1> QED BY <1>1, <1>2, PTL DEF RegistrySpec

-----------------------------------------------------------------------------
(* Model names.                                                             *)

LEMMA NoName == None \notin Names /\ \A n : ~SeeksName(Idle, n)
  BY RegistryAssumption DEF RegistryAssumption, SeeksName, Idle

\* A request is accepted whose name, if it asks for one, is free.
LEMMA NamesAskStep ==
    ASSUME RegistryTypeOK, NamesInv, NEW c \in Clients, NEW x, Ask(c, x), NameStillFree(x)
    PROVE  NamesInv'
<1>1. /\ UNCHANGED <<type, model>>
      /\ sought' = sought \cup AskedAtOnce(x)
      /\ req'[c] = x /\ \A d \in Clients : d # c => req'[d] = req[d]
  BY DEF Ask, rows, RegistryTypeOK
<1>2. \A p \in Projects : (Live(p)' <=> Live(p)) /\ (~Live(p) => model[p] = None)
  BY <1>1 DEF Live, NamesInv
<1>3. ModelNamesApart'
  BY <1>1, <1>2 DEF NamesInv, ModelNamesApart
<1>4. ASSUME NEW d \in Clients, NEW n \in Names \ sought', SeeksName(req'[d], n), NEW q \in Projects \ {req'[d].p}
      PROVE  ~(Live(q) /\ model[q] = n)
  <2>1. CASE d = c
    BY <1>1, <1>4, <2>1 DEF NameStillFree
  <2>2. CASE d # c
    <3>1. NameStillFree(req[d]) /\ req'[d] = req[d]
      BY <1>1, <2>2 DEF NamesInv
    <3> QED BY <1>1, <1>4, <3>1 DEF NameStillFree
  <2> QED BY <2>1, <2>2
<1>5. ASSUME NEW d \in Clients, NEW e \in Clients, NEW n \in Names,
             SeeksName(req'[d], n), SeeksName(req'[e], n), req'[d].p # req'[e].p
      PROVE  n \in sought'
  <2>1. CASE d # c /\ e # c
    BY <1>1, <1>5, <2>1 DEF NamesInv
  <2>2. CASE d = c /\ e # c
    BY <1>1, <1>5, <2>2 DEF AskedAtOnce
  <2>3. CASE d # c /\ e = c
    BY <1>1, <1>5, <2>3 DEF AskedAtOnce
  <2> QED BY <1>5, <2>1, <2>2, <2>3
<1>6. \A d \in Clients : NameStillFree(req[d])'
  BY <1>1, <1>2, <1>4 DEF NameStillFree, SeeksName
<1> QED BY <1>1, <1>2, <1>3, <1>5, <1>6 DEF NamesInv, SeeksName

\* Any step that gives no project a name.
LEMMA NamesStay ==
    ASSUME NamesInv, sought' = sought,
           \A d \in Clients : req'[d] = req[d] \/ req'[d] = Idle,
           \A p \in Projects : Live(p)' /\ model'[p] \in Names => Live(p) /\ model'[p] = model[p],
           \A p \in Projects : ~Live(p)' => model'[p] = None
    PROVE  NamesInv'
<1>1. ModelNamesApart'
  <2> SUFFICES ASSUME NEW p \in Projects, NEW q \in Projects, Live(p)', Live(q)', p # q, model'[p] \in Names \ sought,
                      model'[p] = model'[q]
               PROVE  FALSE
    BY DEF ModelNamesApart
  <2>1. Live(p) /\ model'[p] = model[p] /\ Live(q) /\ model'[q] = model[q]
    OBVIOUS
  <2> QED BY <2>1 DEF NamesInv, ModelNamesApart
<1>2. ASSUME NEW d \in Clients, NEW n \in Names \ sought, SeeksName(req'[d], n), NEW q \in Projects \ {req'[d].p},
             Live(q)', model'[q] = n
      PROVE  FALSE
  <2>1. req'[d] = req[d]
    BY <1>2, NoName
  <2>2. Live(q) /\ model[q] = n
    BY <1>2
  <2>3. NameStillFree(req[d])
    BY DEF NamesInv
  <2> QED BY <1>2, <2>1, <2>2, <2>3 DEF NameStillFree
<1>3. ASSUME NEW d \in Clients, NEW e \in Clients, NEW n \in Names,
             SeeksName(req'[d], n), SeeksName(req'[e], n), req'[d].p # req'[e].p
      PROVE  n \in sought
  <2>1. req'[d] = req[d] /\ req'[e] = req[e]
    BY <1>3, NoName
  <2> QED BY <1>3, <2>1 DEF NamesInv
<1>4. \A d \in Clients : NameStillFree(req[d])'
  BY <1>2 DEF NameStillFree, SeeksName
<1> QED BY <1>1, <1>3, <1>4 DEF NamesInv, SeeksName

\* The commit that gives a project its name: nobody else has it, unless two asked at once.
LEMMA NamesCommitStep ==
    ASSUME RegistryTypeOK, NamesInv, NEW c \in Clients, CommitKnowledgeApi(c)
    PROVE  NamesInv'
<1> DEFINE r == req[c]
<1>1. /\ r.op = "knowledgeApi" /\ UNCHANGED <<type, sought>>
      /\ req'[c] = Idle /\ \A d \in Clients : d # c => req'[d] = req[d]
      /\ model' = IF ~Live(r.p) \/ r.n = Unset THEN model ELSE [model EXCEPT ![r.p] = r.n]
  BY DEF CommitKnowledgeApi, Doing, Ended, RegistryTypeOK
<1>2. r.p \in Projects /\ r.n \in Names \cup {None, Unset} /\ model \in [Projects -> Names \cup {None}]
  BY <1>1, RegistryRequests DEF RegistryTypeOK
<1>3. NameStillFree(r) /\ \A p \in Projects : (Live(p)' <=> Live(p)) /\ (~Live(p) => model[p] = None)
  BY <1>1 DEF NamesInv, Live
<1>4. ASSUME NEW d \in Clients, d # c, NEW n \in Names \ sought, SeeksName(req[d], n), r.n = n
      PROVE  req[d].p = r.p
  BY <1>1, <1>4 DEF NamesInv, SeeksName
<1>5. \A n \in Names \ sought : r.n = n => \A q \in Projects \ {r.p} : ~(Live(q) /\ model[q] = n)
  BY <1>1, <1>3 DEF NameStillFree, SeeksName
<1> HIDE DEF r
<1>6. CASE model' = model
  <2>1. \A d \in Clients : req'[d] = req[d] \/ req'[d] = Idle
    BY <1>1
  <2> QED BY <1>1, <1>3, <1>6, <2>1, NamesStay
<1>7. CASE model' # model
  <2>1. Live(r.p) /\ r.n \in Names \cup {None} /\ model'[r.p] = r.n /\ \A q \in Projects \ {r.p} : model'[q] = model[q]
    BY <1>1, <1>2, <1>7
  <2>2. ModelNamesApart'
    <3> SUFFICES ASSUME NEW p \in Projects, NEW q \in Projects, Live(p), Live(q), p # q, model'[p] \in Names \ sought,
                        model'[p] = model'[q]
                 PROVE  FALSE
      BY <1>1, <1>3 DEF ModelNamesApart
    <3>1. CASE p = r.p
      BY <1>5, <2>1, <3>1
    <3>2. CASE q = r.p
      BY <1>5, <2>1, <3>2
    <3>3. CASE p # r.p /\ q # r.p
      BY <2>1, <3>3 DEF NamesInv, ModelNamesApart
    <3> QED BY <3>1, <3>2, <3>3
  <2>3. ASSUME NEW d \in Clients, NEW n \in Names \ sought, SeeksName(req'[d], n), NEW q \in Projects \ {req'[d].p},
               Live(q), model'[q] = n
        PROVE  FALSE
    <3>1. d # c /\ req'[d] = req[d]
      BY <1>1, <2>3, NoName
    <3>2. NameStillFree(req[d])
      BY DEF NamesInv
    <3>3. CASE q = r.p
      BY <1>4, <2>1, <2>3, <3>1, <3>3
    <3>4. CASE q # r.p
      BY <2>1, <2>3, <3>1, <3>2, <3>4 DEF NameStillFree
    <3> QED BY <3>3, <3>4
  <2>4. ASSUME NEW d \in Clients, NEW e \in Clients, NEW n \in Names,
               SeeksName(req'[d], n), SeeksName(req'[e], n), req'[d].p # req'[e].p
        PROVE  n \in sought
    <3>1. req'[d] = req[d] /\ req'[e] = req[e]
      BY <1>1, <2>4, NoName
    <3> QED BY <2>4, <3>1 DEF NamesInv
  <2>5. \A p \in Projects : ~Live(p)' => model'[p] = None
    BY <1>3, <2>1
  <2>6. \A d \in Clients : NameStillFree(req[d])'
    BY <1>1, <1>3, <2>3 DEF NameStillFree, SeeksName
  <2> QED BY <1>1, <2>2, <2>4, <2>5, <2>6 DEF NamesInv, SeeksName
<1> QED BY <1>6, <1>7

\* Only the update of the API asks for a name, one that it has found free.
LEMMA NamesRequestStep ==
    ASSUME RegistryTypeOK, NamesInv, NEW c \in Clients, Request(c)
    PROVE  NamesInv'
<1>1. ASSUME NEW x, x.op # "knowledgeApi", Ask(c, x)
      PROVE  NamesInv'
  <2>1. NameStillFree(x)
    BY <1>1 DEF NameStillFree, SeeksName
  <2> QED BY <1>1, <2>1, NamesAskStep
<1>2. ASSUME Register(c) \/ AskUser(c)
      PROVE  NamesInv'
  BY <1>1, <1>2 DEF Register, AskUser
<1>3. ASSUME CreateProject(c) \/ UpdateProject(c)
      PROVE  NamesInv'
  BY <1>1, <1>3 DEF CreateProject, UpdateProject
<1>4. ASSUME DeleteProject(c) \/ AddMember(c)
      PROVE  NamesInv'
  BY <1>1, <1>4 DEF DeleteProject, AddMember
<1>5. ASSUME CreateAgent(c) \/ UpdateAgent(c) \/ DeleteAgent(c)
      PROVE  NamesInv'
  BY <1>1, <1>5 DEF CreateAgent, UpdateAgent, DeleteAgent
<1>6. ASSUME ExportConfig(c) \/ ImportConfig(c)
      PROVE  NamesInv'
  BY <1>1, <1>6 DEF ExportConfig, ImportConfig
<1>7. ASSUME UpdateKnowledgeApi(c)
      PROVE  NamesInv'
  <2>1. PICK u \in Users, p \in Projects, n \in Names \cup {None, Unset}, a \in Agents, on \in BOOLEAN :
           /\ \A q \in Projects \ {p} : n \in Names => ~(Live(q) /\ model[q] = n)
           /\ Ask(c, [op |-> "knowledgeApi", p |-> p, n |-> n, u |-> u,
                      a |-> IF on /\ apiAgent[p] = None THEN a ELSE None])
    BY <1>7 DEF UpdateKnowledgeApi
  <2> DEFINE x == [op |-> "knowledgeApi", p |-> p, n |-> n, u |-> u,
                   a |-> IF on /\ apiAgent[p] = None THEN a ELSE None]
  <2>2. Ask(c, x) /\ x.p = p /\ x.n = n
    BY <2>1
  <2> HIDE DEF x
  <2>3. NameStillFree(x)
    BY <2>1, <2>2 DEF NameStillFree, SeeksName
  <2> QED BY <2>2, <2>3, NamesAskStep
<1> QED BY <1>2, <1>3, <1>4, <1>5, <1>6, <1>7 DEF Request

LEMMA NamesNextStep ==
    ASSUME RegistryTypeOK, NamesInv, [RegistryNext]_registryVars
    PROVE  NamesInv'
<1>1. \A p \in Projects : ~Live(p) => model[p] = None
  BY DEF NamesInv
<1>2. ASSUME NEW c \in Clients, Ended(c)
      PROVE  sought' = sought /\ \A d \in Clients : req'[d] = req[d] \/ req'[d] = Idle
  BY <1>2 DEF Ended, RegistryTypeOK
<1>3. ASSUME sought' = sought, \A d \in Clients : req'[d] = req[d] \/ req'[d] = Idle, UNCHANGED <<type, model>>
      PROVE  NamesInv'
  BY <1>1, <1>3, NamesStay DEF Live
<1>4. CASE Restart
  BY <1>3, <1>4 DEF Restart
<1>5. CASE UNCHANGED registryVars
  BY <1>3, <1>5 DEF registryVars, rows
<1>6. ASSUME NEW c \in Clients, Commit(c)
      PROVE  NamesInv'
  <2>1. CASE CommitRegister(c) \/ CommitRole(c) \/ CommitDeleteUser(c) \/ CommitUpdateProject(c)
    BY <1>2, <1>3, <2>1 DEF CommitRegister, CommitRole, CommitDeleteUser, CommitUpdateProject
  <2>2. CASE CommitAddMember(c) \/ CommitAgent(c) \/ CommitDeleteAgent(c) \/ EndExport(c)
    BY <1>2, <1>3, <2>2 DEF CommitAddMember, CommitAgent, CommitDeleteAgent, EndExport, rows
  <2>3. CASE CommitCreateProject(c)
    <3>1. Ended(c) /\ model' = model /\ req[c].op = "createProject"
          /\ (type' = type \/ type' = [type EXCEPT ![req[c].p] = req[c].type])
      BY <2>3 DEF CommitCreateProject, Doing
    <3>2. req[c].p \in Projects /\ req[c].type \in {"knowledge_base", "case_library"} /\ type \in Types
      BY <3>1, RegistryRequests DEF RegistryTypeOK
    <3>3. \A p \in Projects : Live(p) => Live(p)'
      BY <3>1, <3>2 DEF Live, Types
    <3>4. \A p \in Projects : ~Live(p)' => model'[p] = None
      BY <1>1, <3>1, <3>3
    <3>5. \A p \in Projects : Live(p)' /\ model'[p] \in Names => Live(p) /\ model'[p] = model[p]
      BY <1>1, <3>1, NoName
    <3> QED BY <1>2, <3>1, <3>4, <3>5, NamesStay
  <2>4. CASE CommitDeleteProject(c)
    <3> DEFINE r == req[c]
    <3>1. /\ Ended(c) /\ r.op = "deleteProject"
          /\ type' = [type EXCEPT ![r.p] = "gone"] /\ model' = [model EXCEPT ![r.p] = None]
      BY <2>4 DEF CommitDeleteProject, Doing
    <3>2. r.p \in Projects /\ type \in Types /\ model \in [Projects -> Names \cup {None}]
      BY <3>1, RegistryRequests DEF RegistryTypeOK
    <3>3. \A p \in Projects : ~Live(p)' => model'[p] = None
      BY <1>1, <3>1, <3>2 DEF Live, Types
    <3>4. \A p \in Projects : Live(p)' /\ model'[p] \in Names => Live(p) /\ model'[p] = model[p]
      BY <3>1, <3>2 DEF Live, Types
    <3> QED BY <1>2, <3>1, <3>3, <3>4, NamesStay
  <2>5. CASE CommitImport(c)
    <3>1. Ended(c) /\ \A p \in Projects : model'[p] = None
      BY <2>5 DEF CommitImport, ImportRows
    <3> QED BY <1>2, <3>1, NamesStay, NoName
  <2> QED BY <1>6, <2>1, <2>2, <2>3, <2>4, <2>5, NamesCommitStep DEF Commit
<1> QED BY <1>4, <1>5, <1>6, NamesRequestStep DEF RegistryNext

\* The OpenAI-compatible API finds a project by its model name and fails when two
\* have it (openai_compat/router.py:145): whatever overlaps the lookup of a name and its
\* commit (knowledge_router.py:100-110), backups restored and projects deleted meanwhile
\* included, two projects come to one name only when both have asked for it at once.
THEOREM RegistryNamesApart == RegistrySpec => []ModelNamesApart
<1>1. RegistryInit => NamesInv
  <2>1. RegistryInit => \A p \in Projects : model[p] = None
    BY DEF RegistryInit
  <2>2. RegistryInit => \A c \in Clients : req[c] = Idle
    BY DEF RegistryInit
  <2> QED BY <2>1, <2>2, NoName DEF NamesInv, ModelNamesApart, NameStillFree
<1>2. RegistryInv => RegistryTypeOK
  BY DEF RegistryInv
<1>3. RegistryTypeOK /\ NamesInv /\ [RegistryNext]_registryVars => NamesInv'
  BY NamesNextStep
<1>4. NamesInv => ModelNamesApart
  BY DEF NamesInv
<1> QED BY <1>1, <1>2, <1>3, <1>4, RegistryInvariant, PTL DEF RegistrySpec

-----------------------------------------------------------------------------
(* Restored backups.                                                        *)

\* The one step that ends an import is its commit.
LEMMA ImportEnds ==
    ASSUME RegistryInv, RegistryNext, NEW c \in Clients, Doing(c, "import"), req'[c] = Idle, restarts' = restarts
    PROVE  CommitImport(c)
<1>1. req[c].op = "import" /\ Idle.op = "idle" /\ req[c] # Idle
  BY DEF Doing, Idle
<1>2. ~Restart
  BY DEF Restart, RegistryInv, RegistryTypeOK
<1>3. ASSUME NEW d \in Clients, NEW x, Ask(d, x) PROVE FALSE
  <2>1. d # c /\ req' = [req EXCEPT ![d] = x]
    BY <1>1, <1>3 DEF Ask
  <2> QED BY <1>1, <2>1 DEF RegistryInv, RegistryTypeOK
<1>4. ASSUME NEW d \in Clients
      PROVE  ~Request(d)
  <2>1. ~Register(d) /\ ~AskUser(d)
    BY <1>3 DEF Register, AskUser
  <2>2. ~CreateProject(d)
    BY <1>3 DEF CreateProject
  <2>3. ~UpdateProject(d) /\ ~DeleteProject(d)
    BY <1>3 DEF UpdateProject, DeleteProject
  <2>4. ~AddMember(d)
    BY <1>3 DEF AddMember
  <2>5. ~UpdateKnowledgeApi(d)
    BY <1>3 DEF UpdateKnowledgeApi
  <2>6. ~CreateAgent(d) /\ ~UpdateAgent(d) /\ ~DeleteAgent(d)
    BY <1>3 DEF CreateAgent, UpdateAgent, DeleteAgent
  <2>7. ~ExportConfig(d) /\ ~ImportConfig(d)
    BY <1>3 DEF ExportConfig, ImportConfig
  <2> QED BY <2>1, <2>2, <2>3, <2>4, <2>5, <2>6, <2>7 DEF Request
<1>5. ASSUME NEW d \in Clients, Commit(d) PROVE d = c
  <2>1. Ended(d)
    BY <1>5 DEF Commit, CommitRegister, CommitRole, CommitDeleteUser, CommitCreateProject, CommitUpdateProject,
                CommitDeleteProject, CommitAddMember, CommitKnowledgeApi, CommitAgent, CommitDeleteAgent, EndExport,
                CommitImport
  <2> QED BY <1>1, <2>1 DEF Ended, RegistryInv, RegistryTypeOK
<1>6. Commit(c)
  BY <1>2, <1>4, <1>5 DEF RegistryNext
<1> QED BY <1>1, <1>6 DEF Commit, Doing, CommitRegister, CommitRole, CommitDeleteUser, CommitCreateProject,
                CommitUpdateProject, CommitDeleteProject, CommitAddMember, CommitKnowledgeApi, CommitAgent,
                CommitDeleteAgent, EndExport

LEMMA ImportIsExact ==
    ASSUME RegistryInv, NEW c \in Clients, CommitImport(c)
    PROVE  Backup' = BackupOf(req[c].b)
<1> DEFINE b == req[c].b
<1>1. req[c].op = "import" /\ ImportRows(b)
  BY DEF CommitImport, Doing
<1>2. b \in Bundles /\ type \in Types /\ agent \in AgentRows
  BY <1>1, RegistryRequests DEF RegistryInv, RegistryTypeOK
<1> HIDE DEF b
<1>3. /\ role' = b.role /\ member' = b.member
      /\ \A p \in Projects : /\ Live(p)' <=> p \in Listed(b)
                             /\ p \in Listed(b) => type'[p] = b.type[p] /\ ticket'[p] = b.ticket[p]
      /\ \A a \in Agents : AgentExists(a)' <=> b.agent[a].kind \in {"made", "knowledge"}
  BY <1>1, <1>2, ImportedRows
<1>4. [p \in Projects |-> IF Live(p) THEN ticket[p] ELSE None]' = [p \in Projects |-> IF p \in Listed(b) THEN b.ticket[p] ELSE None]
  BY <1>3
<1>5. {<<p, type'[p]>> : p \in {q \in Projects : Live(q)'}} = {<<p, b.type[p]>> : p \in Listed(b)}
  <2>1. {q \in Projects : Live(q)'} = Listed(b)
    BY <1>3 DEF Listed
  <2>2. \A p \in Listed(b) : type'[p] = b.type[p]
    BY <1>3 DEF Listed
  <2> QED BY <2>1, <2>2
<1>6. {a \in Agents : AgentExists(a)'} = {a \in Agents : b.agent[a].kind \in {"made", "knowledge"}}
  BY <1>3
<1> QED BY <1>3, <1>4, <1>5, <1>6 DEF Backup, BackupOf, b

\* Restoring a backup replaces users, projects, links, members and agents by the
\* backup's: nothing that it does not list survives (admin/router.py:208-314).
THEOREM RegistryRestoresExactly == RegistrySpec => RestoreIsExact
<1>1. RegistryInv /\ [RegistryNext]_registryVars =>
        [\A c \in Clients : Doing(c, "import") /\ req'[c] = Idle /\ restarts' = restarts =>
            Backup' = BackupOf(req[c].b)]_registryVars
  <2>1. ASSUME RegistryInv, RegistryNext, NEW c \in Clients, Doing(c, "import"), req'[c] = Idle, restarts' = restarts
        PROVE  Backup' = BackupOf(req[c].b)
    <3>1. CommitImport(c)
      BY <2>1, ImportEnds
    <3> QED BY <2>1, <3>1, ImportIsExact
  <2> QED BY <2>1
<1> QED BY <1>1, RegistryInvariant, PTL DEF RegistrySpec, RestoreIsExact
=============================================================================
