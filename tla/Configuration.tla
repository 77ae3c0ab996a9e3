---------------------------- MODULE Configuration ----------------------------
(***************************************************************************)
(* What administrators and owners configure: the overrides of config.yaml  *)
(* in the table system_settings and the configuration in memory; the Git   *)
(* fields of one project, its source repositories and what it publishes to;*)
(* the migrations at start-up that move Git fields of an older version; and*)
(* the backup of all of it.  Requests interleave at every await, and the   *)
(* process may die at each of them.                                        *)
(***************************************************************************)
EXTENDS Integers

CONSTANTS Keys,      \* fields of a section that can be overridden
          Editors, NoRow,
          MaxEdits,  \* bound: requests that are accepted
          MaxStarts  \* bound: starts of the process

ASSUME ConfigurationAssumption ==
    MaxEdits \in Nat /\ MaxStarts \in Nat \ {0} /\ \A S \in SUBSET Keys : S # NoRow

VARIABLES stored,    \* system_settings: the keys each section overrides, NoRow without a row
          migrated,  \* system_settings has the markers of the two migrations
          memory,    \* get_config(): the keys of each section that are not config.yaml's
          git, pub,  \* the project's git_repo_url, git_sync_enabled and publish_repo_url, publish_enabled
          repo,      \* project_source_repositories by key, NoRow without a row
          kept,      \* the configuration bundle an administrator has kept
          export,    \* what an export under way has read of the project, or NoRow
          edit,      \* the request of each client between two awaits
          up,        \* "down", "migrating" or "up"
          accepted, starts,
          answered,  \* history: overrides that were answered with success
          early,     \* history: Git fields were changed while a migration was due
          legacy,    \* history: the project comes from a version without source repositories
          pieced,    \* history: the rows come from a backup that was read around an import
          serial     \* history: no two requests have overlapped

settingsRows == <<stored, migrated, git, pub, repo>>
backupVars == <<kept, export>>
histories == <<answered, early, legacy, pieced>>
configurationVars == <<settingsRows, memory, backupVars, edit, up, accepted, starts, histories, serial>>

\* "llm" stands for the flat sections; the keys of "feedback" are in a nested group.
Sections == {"llm", "feedback"}
RepoKeys == {"default", "extra"}
Resting == [op |-> "idle"]
Optional == {{}, {TRUE}, {FALSE}}  \* a Boolean field of a body, if it is there
Blank == [url |-> "", on |-> FALSE]
NoSettings == [s \in Sections |-> NoRow]

\* _reload_config, then load_db_overrides.
Overlay(t) == [s \in Sections |-> IF t[s] = NoRow THEN {} ELSE t[s]]

\* The row an older version left: its Git fields are those of the wiki's repository.
LegacyGit == {[url |-> "legacy", on |-> b] : b \in BOOLEAN}
OldSettings == {[stored |-> NoSettings, migrated |-> FALSE, git |-> g, pub |-> Blank, legacy |-> TRUE, pieced |-> FALSE] : g \in LegacyGit}

ConfigurationInit ==
    /\ stored = NoSettings /\ migrated = FALSE /\ memory = Overlay(NoSettings)
    /\ git \in {Blank} \cup LegacyGit /\ pub = Blank
    /\ repo = [k \in RepoKeys |-> NoRow]
    /\ kept \in {NoRow} \cup OldSettings /\ export = NoRow
    /\ edit = [c \in Editors |-> Resting]
    /\ up = "down" /\ accepted = 0 /\ starts = 0
    /\ answered = [s \in Sections |-> {}]
    /\ early = FALSE /\ legacy = (git # Blank) /\ pieced = FALSE /\ serial = TRUE

-----------------------------------------------------------------------------
(* Start-up.                                                                *)

NewRepo(g) == [url |-> g.url, on |-> g.on, manual |-> FALSE, before |-> FALSE]

\* Mutant of MigrateSource: the markers are committed with the default repository.
MigrateSourceMarked ==
    /\ up = "down" /\ starts < MaxStarts
    /\ starts' = starts + 1 /\ up' = "migrating"
    /\ repo' = IF ~migrated /\ git.url # "" /\ repo["default"] = NoRow
               THEN [repo EXCEPT !["default"] = NewRepo(git)] ELSE repo
    /\ migrated' = TRUE
    /\ UNCHANGED <<stored, memory, git, pub, backupVars, edit, accepted, histories, serial>>

\* The INSERT of the default repository starts with WITH, so the driver opens no
\* transaction for it: it is on disk before the rest of the start-up.
MigrateSource ==
    /\ up = "down" /\ starts < MaxStarts
    /\ starts' = starts + 1 /\ up' = "migrating"
    /\ repo' = IF ~migrated /\ git.url # "" /\ repo["default"] = NoRow
               THEN [repo EXCEPT !["default"] = NewRepo(git)] ELSE repo
    /\ UNCHANGED <<stored, migrated, memory, git, pub, backupVars, edit, accepted, histories, serial>>

\* Both markers and the publish fields are one transaction.
MigratePublish ==
    /\ up = "migrating" /\ up' = "up"
    /\ IF ~migrated /\ git.url # "" /\ pub.url = ""
       THEN pub' = git /\ git' = Blank ELSE UNCHANGED <<git, pub>>
    /\ migrated' = TRUE
    /\ memory' = Overlay(stored)
    /\ UNCHANGED <<stored, repo, backupVars, edit, accepted, starts, histories, serial>>

ProcessDies ==
    /\ up # "down" /\ up' = "down"
    /\ edit' = [c \in Editors |-> Resting]
    /\ memory' = Overlay(NoSettings) /\ export' = NoRow
    /\ UNCHANGED <<settingsRows, kept, accepted, starts, histories, serial>>

-----------------------------------------------------------------------------
(* A request reads, then writes what it computed from that.                 *)

Edit(c, r) ==
    /\ up = "up" /\ edit[c] = Resting /\ accepted < MaxEdits
    /\ edit' = [edit EXCEPT ![c] = r]
    /\ accepted' = accepted + 1
    /\ serial' = (serial /\ \A d \in Editors : edit[d] = Resting)
    /\ UNCHANGED <<settingsRows, memory, backupVars, up, starts, histories>>

EditAt(c, op) == up = "up" /\ edit[c].op = op
Then(c, r) == edit' = [edit EXCEPT ![c] = r] /\ UNCHANGED <<up, accepted, starts, serial>>
Done(c) == Then(c, Resting)
AllIdle == \A c \in Editors : edit[c] = Resting

\* The attributes of row `now` after a session that loaded `old` has set those of `new`:
\* what did not change in the session is not written.
Flushed(now, old, new) == [f \in DOMAIN new |-> IF new[f] # old[f] THEN new[f] ELSE now[f]]

SaveSettings(c) ==
    \E s \in Sections, v \in SUBSET Keys : v # {}
        /\ Edit(c, [op |-> "save", s |-> s, v |-> v, old |-> stored[s]])

Merged(s, old, v) == IF s = "feedback" \/ old = NoRow THEN v ELSE old \cup v

\* Mutant of WriteSettings: the row gets what the request has.
WriteSettingsOver(c) ==
    LET r == edit[c] IN
    /\ EditAt(c, "save")
    /\ stored' = [stored EXCEPT ![r.s] = r.v]
    /\ Then(c, [r EXCEPT !.op = "reload"])
    /\ UNCHANGED <<migrated, memory, git, pub, repo, backupVars, histories>>

\* A second INSERT of a section fails, an UPDATE of a row that is gone writes nothing.
WriteSettings(c) ==
    LET r == edit[c] IN
    /\ EditAt(c, "save")
    /\ IF r.old = NoRow /\ stored[r.s] # NoRow
       THEN Done(c) /\ UNCHANGED stored
       ELSE /\ stored' = IF r.old # NoRow /\ stored[r.s] = NoRow THEN stored
                         ELSE [stored EXCEPT ![r.s] = Merged(r.s, r.old, r.v)]
            /\ Then(c, [r EXCEPT !.op = "reload"])
    /\ UNCHANGED <<migrated, memory, git, pub, repo, backupVars, histories>>

\* Mutant of Reload: the overrides are laid over the configuration as it is.
ReloadOver(c) ==
    /\ EditAt(c, "reload") \/ EditAt(c, "imported")
    /\ memory' = [s \in Sections |-> memory[s] \cup Overlay(stored)[s]]
    /\ answered' = IF EditAt(c, "reload") THEN [answered EXCEPT ![edit[c].s] = @ \cup edit[c].v] ELSE answered
    /\ Done(c)
    /\ UNCHANGED <<settingsRows, backupVars, early, legacy, pieced>>

\* After the commit, without an await; the answer tells what is in memory then.
Reload(c) ==
    /\ EditAt(c, "reload") \/ EditAt(c, "imported")
    /\ memory' = Overlay(stored)
    /\ answered' = IF EditAt(c, "reload") THEN [answered EXCEPT ![edit[c].s] = @ \cup edit[c].v] ELSE answered
    /\ Done(c)
    /\ UNCHANGED <<settingsRows, backupVars, early, legacy, pieced>>

-----------------------------------------------------------------------------
(* The project's Git fields and its source repositories.                    *)

\* One field at a time; more of them are a sequence of requests.
PatchProject(c) ==
    \/ \E u \in {"", "src"} : Edit(c, [op |-> "project", f |-> "git", old |-> git, new |-> [git EXCEPT !.url = u]])
    \/ \E b \in BOOLEAN : Edit(c, [op |-> "project", f |-> "git", old |-> git, new |-> [git EXCEPT !.on = b]])
    \/ Edit(c, [op |-> "project", f |-> "pub", old |-> pub, new |-> [pub EXCEPT !.url = "wiki"]])

\* A change of the Git fields goes on to the default source repository.
WriteProject(c) ==
    LET r == edit[c] IN
    /\ EditAt(c, "project")
    /\ IF r.f = "git"
       THEN /\ git' = Flushed(git, r.old, r.new) /\ UNCHANGED pub
            /\ early' = (early \/ ~migrated)
            /\ Then(c, [op |-> "syncRead"])
       ELSE /\ pub' = Flushed(pub, r.old, r.new) /\ UNCHANGED <<git, early>>
            /\ Done(c)
    /\ UNCHANGED <<stored, migrated, memory, repo, backupVars, answered, legacy, pieced>>

\* The project and the default repository are read again.
SyncDefaultRead(c) ==
    /\ EditAt(c, "syncRead")
    /\ Then(c, [op |-> "syncWrite", g |-> git, old |-> repo["default"]])
    /\ UNCHANGED <<settingsRows, memory, backupVars, histories>>

\* The repository is made, unless its key is taken by now, or gets the project's fields;
\* its manual mode is not looked at.
SyncDefaultWrite(c) ==
    LET r == edit[c]  now == repo["default"] IN
    /\ EditAt(c, "syncWrite")
    /\ repo' = IF r.old = NoRow
               THEN IF now = NoRow THEN [repo EXCEPT !["default"] = NewRepo(r.g)] ELSE repo
               ELSE IF now = NoRow THEN repo
               ELSE [repo EXCEPT !["default"] =
                        Flushed(now, r.old, [r.old EXCEPT !.url = r.g.url, !.on = r.g.on])]
    /\ Done(c)
    /\ UNCHANGED <<stored, migrated, memory, git, pub, backupVars, histories>>

\* A GET makes the default repository of a project that has none.
ListRepos(c) ==
    /\ \A k \in RepoKeys : repo[k] = NoRow
    /\ git.url # ""
    /\ Edit(c, [op |-> "syncWrite", g |-> git, old |-> NoRow])

CreateRepo(c) ==
    \E k \in RepoKeys, b \in BOOLEAN : repo[k] = NoRow
        /\ Edit(c, [op |-> "createRepo", k |-> k, new |-> NewRepo([url |-> "src", on |-> b])])
InsertRepo(c) ==
    LET r == edit[c] IN
    /\ EditAt(c, "createRepo")
    /\ repo' = IF repo[r.k] = NoRow THEN [repo EXCEPT ![r.k] = r.new] ELSE repo
    /\ Done(c)
    /\ UNCHANGED <<stored, migrated, memory, git, pub, backupVars, histories>>

\* What a PATCH makes of a repository: entering manual mode turns syncing off and
\* remembers it, leaving it restores what was remembered.
Patched(x, manual, on) ==
    CASE TRUE \in manual /\ ~x.manual -> [x EXCEPT !.manual = TRUE, !.before = x.on, !.on = FALSE]
      [] FALSE \in manual /\ x.manual -> [x EXCEPT !.manual = FALSE, !.before = FALSE, !.on = x.before]
      [] OTHER -> [x EXCEPT !.on = IF on = {} THEN @ ELSE TRUE \in on]

PatchRepo(c) ==
    \E k \in RepoKeys : repo[k] # NoRow
        /\ \E manual, on \in Optional :
              LET new == Patched(repo[k], manual, on) IN
              /\ ~(new.manual /\ new.on)
              /\ Edit(c, [op |-> "repo", k |-> k, old |-> repo[k], new |-> new])

WriteRepo(c) ==
    LET r == edit[c] IN
    /\ EditAt(c, "repo")
    /\ repo' = IF repo[r.k] = NoRow THEN repo ELSE [repo EXCEPT ![r.k] = Flushed(@, r.old, r.new)]
    /\ Done(c)
    /\ UNCHANGED <<stored, migrated, memory, git, pub, backupVars, histories>>

DeleteRepo(c) == \E k \in RepoKeys : repo[k] # NoRow /\ Edit(c, [op |-> "deleteRepo", k |-> k])
RemoveRepo(c) ==
    /\ EditAt(c, "deleteRepo")
    /\ repo' = [repo EXCEPT ![edit[c].k] = NoRow]
    /\ Done(c)
    /\ UNCHANGED <<stored, migrated, memory, git, pub, backupVars, histories>>

-----------------------------------------------------------------------------
(* The backup.                                                              *)

ProjectRow == [git |-> git, pub |-> pub, legacy |-> legacy, pieced |-> pieced]
SettingsOf(row) == [stored |-> stored, migrated |-> migrated, git |-> row.git, pub |-> row.pub,
                    legacy |-> row.legacy, pieced |-> row.pieced]

\* Each table is a SELECT of its own: first the projects, ...
ExportProjects ==
    /\ up = "up" /\ export = NoRow
    /\ export' = ProjectRow
    /\ UNCHANGED <<settingsRows, memory, kept, edit, up, accepted, starts, histories, serial>>

\* ... last the settings.  Source repositories and their modes are not in a backup.
ExportSettings ==
    /\ export # NoRow /\ export' = NoRow
    /\ kept' = SettingsOf(export)
    /\ UNCHANGED <<settingsRows, memory, edit, up, accepted, starts, histories, serial>>

ImportSettings(c) == kept # NoRow /\ Edit(c, [op |-> "import", b |-> kept])

\* system_settings comes back with its markers, or without them from an older version.
RestoreRows(c) ==
    LET b == edit[c].b IN
    /\ EditAt(c, "import")
    /\ stored' = b.stored /\ migrated' = b.migrated /\ git' = b.git /\ pub' = b.pub
    /\ legacy' = b.legacy /\ pieced' = b.pieced
    /\ answered' = Overlay(b.stored)
    /\ export' = IF export = NoRow THEN NoRow ELSE [export EXCEPT !.pieced = TRUE]
    /\ Then(c, [op |-> "imported"])
    /\ UNCHANGED <<memory, repo, kept, early>>

BeginEdit(c) ==
    \/ SaveSettings(c) \/ PatchProject(c) \/ ListRepos(c) \/ CreateRepo(c) \/ PatchRepo(c)
    \/ DeleteRepo(c) \/ ImportSettings(c)
ApplyEdit(c) ==
    \/ WriteSettings(c) \/ Reload(c) \/ WriteProject(c) \/ SyncDefaultRead(c) \/ SyncDefaultWrite(c)
    \/ InsertRepo(c) \/ WriteRepo(c) \/ RemoveRepo(c) \/ RestoreRows(c)

ConfigurationNext ==
    \/ MigrateSource \/ MigratePublish \/ ProcessDies \/ ExportProjects \/ ExportSettings
    \/ \E c \in Editors : BeginEdit(c) \/ ApplyEdit(c)

ConfigurationSpec == ConfigurationInit /\ [][ConfigurationNext]_configurationVars

-----------------------------------------------------------------------------
(* Properties.                                                              *)

Fields == [url : {"", "legacy", "src", "wiki"}, on : BOOLEAN]
GitFields == [url : {"", "legacy", "src"}, on : BOOLEAN]
RepoRows == [url : {"", "legacy", "src"}, on : BOOLEAN, manual : BOOLEAN, before : BOOLEAN]
Overrides == {NoRow} \cup SUBSET Keys
SettingsBundles == [stored : [Sections -> Overrides], migrated : BOOLEAN, git : GitFields, pub : Fields,
                    legacy : BOOLEAN, pieced : BOOLEAN]
Edits ==
    {Resting} \cup [op : {"syncRead", "imported"}]
    \cup [op : {"save", "reload"}, s : Sections, v : SUBSET Keys, old : Overrides]
    \cup [op : {"project"}, f : {"git"}, old : GitFields, new : GitFields]
    \cup [op : {"project"}, f : {"pub"}, old : Fields, new : Fields]
    \cup [op : {"syncWrite"}, g : GitFields, old : {NoRow} \cup RepoRows]
    \cup [op : {"createRepo"}, k : RepoKeys, new : RepoRows]
    \cup [op : {"repo"}, k : RepoKeys, old : RepoRows, new : RepoRows]
    \cup [op : {"deleteRepo"}, k : RepoKeys]
    \cup [op : {"import"}, b : SettingsBundles]
ConfigurationTypeOK ==
    /\ stored \in [Sections -> Overrides]
    /\ memory \in [Sections -> SUBSET Keys] /\ answered \in [Sections -> SUBSET Keys]
    /\ git \in GitFields /\ pub \in Fields
    /\ repo \in [RepoKeys -> {NoRow} \cup RepoRows]
    /\ kept \in {NoRow} \cup SettingsBundles
    /\ export \in {NoRow} \cup [git : GitFields, pub : Fields, legacy : BOOLEAN, pieced : BOOLEAN]
    /\ edit \in [Editors -> Edits]
    /\ up \in {"down", "migrating", "up"} /\ accepted \in 0..MaxEdits /\ starts \in 0..MaxStarts
    /\ migrated \in BOOLEAN /\ early \in BOOLEAN /\ legacy \in BOOLEAN
    /\ pieced \in BOOLEAN /\ serial \in BOOLEAN

\* What the process uses is config.yaml under the overrides in the table
\* (config.py:172-224, 278-282), also when saves, imports and restarts overlap: only a
\* request between its commit and its reload may be ahead.
MemoryFollowsDb ==
    up = "up" /\ (\A c \in Editors : edit[c].op \notin {"reload", "imported"})
        => memory = Overlay(stored)

\* An override of a flat section that was answered with success stays in effect, through
\* later saves of other keys, restarts and backups, as long as requests do not overlap.
SavedSticks == serial /\ up = "up" /\ AllIdle => answered["llm"] \subseteq memory["llm"]

\* The URL of a source repository never becomes the repository that the wiki is
\* published to (database.py:305-351): the migration of old Git fields runs once, also
\* after a backup was restored, though the backup is read while others write, unless fields
\* were edited while it was still due, or an import was committed between the two reads of
\* the backup (admin/router.py:108, 112).
SourceStaysSource == pub.url = "src" => early \/ pieced

\* A project of an older version keeps a place to publish to, wherever start-up is cut and
\* whatever backup is restored, with the same two exceptions.
PublishKept == migrated /\ up = "up" /\ legacy /\ ~early /\ ~pieced => pub.url # ""

\* Manual Git mode and automatic syncing exclude each other (projects/router.py:511-515)
\* as long as requests do not overlap; the default repository also follows the
\* project's fields, which do not ask.
ManualOff ==
    serial /\ repo["extra"] # NoRow => ~(repo["extra"].manual /\ repo["extra"].on)

-----------------------------------------------------------------------------
(* The inductive invariant.                                                 *)

\* Requests are there while the process is up, and one at a time while they do not overlap.
EditsOneByOne ==
    /\ up # "up" => AllIdle /\ export = NoRow
    /\ serial => \A c, d \in Editors : edit[c] # Resting /\ edit[d] # Resting => c = d

\* What a lone request is about to write is computed from what is there.
ReadIsCurrent ==
    serial => \A c \in Editors :
        /\ edit[c].op = "save" => edit[c].old = stored[edit[c].s]
        /\ edit[c].op = "reload" /\ edit[c].s = "llm" => edit[c].v \subseteq Overlay(stored)["llm"]
        /\ edit[c].op = "repo" => edit[c].old = repo[edit[c].k]
AnsweredIsStored == serial => answered["llm"] \subseteq Overlay(stored)["llm"]

\* No request enters manual mode with syncing on, nor names a source to publish to.
EditsFit ==
    \A c \in Editors :
        /\ edit[c].op = "repo" => ~(edit[c].new.manual /\ edit[c].new.on)
        /\ edit[c].op = "createRepo" => ~edit[c].new.manual
        /\ edit[c].op = "project" /\ edit[c].f = "pub" => edit[c].new.url = "wiki"

\* What is stored, in the tables or in a backup: the Git fields still to be migrated are those
\* of a repository to publish to, and a project of an older version has one.
MigratesRightly(x) ==
    ~x.pieced =>
      /\ (~x.migrated /\ x.git.url = "src") \/ x.pub.url = "src" => early
      /\ x.legacy /\ ~early => IF x.migrated THEN x.pub.url # "" ELSE x.git.url # ""
AllMigrateRightly ==
    /\ MigratesRightly(SettingsOf(ProjectRow))
    /\ export # NoRow => MigratesRightly(SettingsOf(export))
    /\ kept # NoRow => MigratesRightly(kept)
    /\ \A c \in Editors : edit[c].op = "import" => MigratesRightly(edit[c].b)

\* The configuration in memory, the source settings and the manual mode as stated
\* above (config.py:188, database.py:305-311, source_repositories.py:186), inductively.
ConfigurationInv ==
    /\ ConfigurationTypeOK /\ EditsOneByOne /\ MemoryFollowsDb /\ SourceStaysSource /\ ManualOff
    /\ ReadIsCurrent /\ AnsweredIsStored /\ EditsFit /\ AllMigrateRightly
=============================================================================
