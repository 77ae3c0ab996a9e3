----------------------------- MODULE WikiWriters -----------------------------
(* Who writes the pages and the vectors of one project, and in which order:  *)
(* the page editor (wiki/router.py), an ingest run (ingest/pipeline.py), a   *)
(* repair that is compiled on a copy (feedback/compiler.py, wiki_tools.py)   *)
(* and applied with git around it (feedback/router.py),                      *)
(* and the rebuilds of the vector store (search/router.py, runtime/router.py,*)
(* embedding/service.py).                                                    *)
(*                                                                           *)
(* A text is known by the request that wrote it.  The runs of the queue are  *)
(* one at a time (IngestQueue!Serial).  LanceDB and git are external.        *)
EXTENDS Naturals, FiniteSets

CONSTANTS
    Requests,   \* each is one request, or one ingest job
    Pages,      \* wiki/**/*.md
    AtFirst,    \* the wikis there may be at first: sets of pages
    Ids,        \* page ids
    PageId,     \* _page_id_from_path: the stem of the path, not the path
    MaxAtOnce,  \* bound: requests under way at once
    Old,        \* the texts there were at first
    Empty,      \* a file without text, as open(.., "w") makes it
    None        \* no file

ASSUME WritersAssumption ==
    /\ AtFirst \subseteq SUBSET Pages
    /\ PageId \in [Pages -> Ids]
    /\ {Old, Empty, None} \cap Requests = {} /\ Old \notin {Empty, None} /\ Empty # None
    /\ MaxAtOnce \in Nat \ {0}

Texts == Requests \cup {Old}
Contents == Texts \cup {Empty, None}
Chunks == [page : Pages, text : Texts, by : Requests]

VARIABLES
    app,       \* the application, or the stand-alone runtime
    page,      \* the wiki on disk
    index,     \* what git has staged of it
    table,     \* the table of vectors exists
    rows,      \* what is in it
    req,       \* each request
    \* history
    lone,      \* the requests that no other has overlapped so far
    calm,      \* none have overlapped since the last rebuild that was alone
    clash,     \* pages that two requests have been writing at once
    kept,      \* what each page held when a request for it last succeeded
    gitBusy,   \* an apply has failed while git was busy
    behind     \* pages whose last change did not get to the vectors

wikiVars == <<page, index, kept, gitBusy>>
storeVars == <<table, rows, calm, behind>>
vars == <<app, wikiVars, storeVars, req, lone, clash>>

NoSnap == [p \in {} |-> None]
Fresh == [op |-> "none", pc |-> "new", todo |-> {}, paths |-> {}, snap |-> NoSnap,
          got |-> {}, ids |-> {}, skipped |-> {}, handle |-> "none"]

Init ==
    /\ app \in {"main", "runtime"}
    /\ page \in {f \in [Pages -> {Old, None}] : {p \in Pages : f[p] = Old} \in AtFirst}
    /\ index = [p \in Pages |-> None]   \* there is no repository yet
    /\ table = FALSE /\ rows = {}
    /\ req = [r \in Requests |-> Fresh]
    /\ lone = {} /\ calm = TRUE /\ clash = {} /\ kept = page /\ gitBusy = FALSE
    /\ behind = {p \in Pages : page[p] # None}

\* A repair that is compiled or reviewed leaves the wiki alone.
Active(r) == req[r].pc \notin {"new", "compile", "review", "ended"}
At(r, l) == req[r].pc = l
Ended == [Fresh EXCEPT !.pc = "ended"]
Room == Cardinality({q \in Requests : req[q].pc \notin {"new", "ended"}}) < MaxAtOnce
Become(r, new) == req' = [req EXCEPT ![r] = IF new.pc = "ended" THEN Ended ELSE new]
Goto(r, l) == Become(r, [req[r] EXCEPT !.pc = l])
Frame == UNCHANGED <<app, lone, clash>>
With(f, p, t) == [q \in DOMAIN f \cup {p} |-> IF q = p THEN t ELSE f[q]]

Writers(p) == {q \in Requests : Active(q) /\ req[q].op \in {"put", "ingest"} /\ p \in req[q].paths}

\* The histories of a request that begins and is to write the pages P.
Meets(r, P) ==
    LET others == {q \in Requests \ {r} : Active(q)} IN
    /\ calm' = (calm /\ others = {})
    /\ lone' = IF others = {} THEN {r} ELSE {}
    /\ clash' = clash \cup {p \in P : Writers(p) # {}}

-----------------------------------------------------------------------------
(* Requests.                                                                 *)

Accept(r, op, l, P) ==
    /\ At(r, "new") /\ Room
    /\ Become(r, [Fresh EXCEPT !.op = op, !.pc = l, !.paths = P, !.todo = P])
    /\ Meets(r, P)
    /\ UNCHANGED <<app, wikiVars, table, rows, behind>>

\* PUT of a page that is there.
AskPut(r) ==
    /\ app = "main"
    /\ \E p \in Pages : page[p] # None /\ Accept(r, "put", "open", {p})

TakeIngest(r) ==
    /\ app = "main"
    /\ \A q \in Requests : Active(q) => req[q].op # "ingest"
    /\ \E P \in SUBSET Pages \ {{}} : Accept(r, "ingest", "snapshot", P)

\* /search/reindex asks for nobody's permission.
AskRebuild(r) == Accept(r, "rebuild", "list", {})

TargetOf(op) == IF op = "all" THEN "runtime:all" ELSE
                IF op = "knowledge" THEN "runtime:knowledge" ELSE "knowledge"
TaskOps == IF app = "main" THEN {"task"} ELSE {"all", "knowledge"}
HasActiveTask(target) ==
    \E q \in Requests : /\ Active(q) /\ req[q].op \in TaskOps
                        /\ TargetOf(req[q].op) = target

\* Mutant of AskTask: a task that has not started yet is not seen.
AskTaskUnlessRunning(r) ==
    \E op \in TaskOps :
        /\ \A q \in Requests : Active(q) /\ req[q].op = op => At(q, "list")
        /\ Accept(r, op, "list", {})

\* The check and the new entry are one step; the task starts after the answer.
AskTask(r) ==
    \E op \in TaskOps : ~HasActiveTask(TargetOf(op)) /\ Accept(r, op, "list", {})

-----------------------------------------------------------------------------
(* Writing pages.                                                            *)

Puts(p, t) == page' = [page EXCEPT ![p] = t] /\ behind' = behind \cup {p}

\* _snapshot_targets.
Snapshot(r) ==
    /\ At(r, "snapshot")
    /\ \E p \in req[r].todo : LET rest == req[r].todo \ {p} IN
          Become(r, [req[r] EXCEPT !.snap = With(@, p, page[p]),
                                   !.todo = IF rest = {} THEN @ \cup req[r].paths ELSE rest,
                                   !.pc = IF rest = {} THEN "open" ELSE "snapshot"])
    /\ UNCHANGED <<wikiVars, storeVars>> /\ Frame

\* open(.., "w") cuts the page ...
OpenPage(r) ==
    /\ At(r, "open")
    /\ \E p \in req[r].todo :
          /\ Puts(p, Empty)
          /\ Become(r, [req[r] EXCEPT !.pc = "write", !.ids = {p}])
    /\ UNCHANGED <<index, kept, gitBusy, table, rows, calm>> /\ Frame

\* ... and the text is written an await later.  A user may save an empty page.
WritePage(r) ==
    /\ At(r, "write")
    /\ \E p \in req[r].ids : \E t \in {r} \cup (IF req[r].op = "put" THEN {Empty} ELSE {}) :
          /\ Puts(p, t)
          /\ kept' = IF req[r].op = "put" THEN [kept EXCEPT ![p] = t] ELSE kept
          /\ LET rest == req[r].todo \ {p} IN
             Become(r, [req[r] EXCEPT !.todo = IF rest = {} THEN req[r].paths ELSE rest,
                                      !.ids = {},
                                      !.pc = IF rest = {} THEN "read" ELSE "open"])
    /\ UNCHANGED <<index, gitBusy, table, rows, calm>> /\ Frame

\* The merge, the writer, the database or the cache may fail in an ingest run.
IngestFails(r) ==
    /\ req[r].op = "ingest"
    /\ req[r].pc \in {"open", "write", "finalize"} \/ (At(r, "read") /\ req[r].todo = req[r].paths)
    /\ Become(r, [req[r] EXCEPT !.pc = "restore", !.todo = DOMAIN req[r].snap, !.ids = {}])
    /\ UNCHANGED <<wikiVars, storeVars>> /\ Frame

\* _restore_targets, page by page.  The vectors are left as they are.
RestorePage(r) ==
    /\ At(r, "restore")
    /\ \E p \in req[r].todo : LET rest == req[r].todo \ {p} IN
          /\ Puts(p, req[r].snap[p])
          /\ Become(r, [req[r] EXCEPT !.todo = rest,
                                      !.pc = IF rest = {} THEN "ended" ELSE "restore"])
    /\ UNCHANGED <<index, kept, gitBusy, table, rows, calm>> /\ Frame

Finalize(r) ==
    /\ At(r, "finalize")
    /\ kept' = [p \in Pages |-> IF p \in req[r].paths THEN r ELSE kept[p]]
    /\ Goto(r, "ended")
    /\ UNCHANGED <<page, index, gitBusy, storeVars>> /\ Frame

-----------------------------------------------------------------------------
(* Repairs: compiled on a copy of the wiki, reviewed, applied.               *)

PagesThere == {p \in Pages : page[p] # None}

\* WorkingCopy.create, at once.  A revision of the repair is another request.
CopyWiki(r) ==
    /\ app = "main" /\ At(r, "new")
    /\ Room
    /\ Become(r, [Fresh EXCEPT !.op = "repair", !.pc = "compile",
                               !.snap = [p \in PagesThere |-> page[p]]])
    /\ UNCHANGED <<wikiVars, storeVars>> /\ Frame

\* A tool of the model writes a page of the copy; edit_file needs it to be there,
\* create_file does not.
EditPage(r) ==
    /\ At(r, "compile")
    /\ \E p \in Pages : Become(r, [req[r] EXCEPT !.snap = With(@, p, r)])
    /\ UNCHANGED <<wikiVars, storeVars>> /\ Frame

\* The pages of the copy that are not as in the wiki, which others have written since.
Changes(r) == {p \in DOMAIN req[r].snap : page[p] # req[r].snap[p]}

\* collect_changes, after submit_changes or the last iteration.
Collect(r) ==
    /\ At(r, "compile")
    /\ Become(r, [req[r] EXCEPT !.pc = "review",
                                !.snap = [p \in Changes(r) |-> req[r].snap[p]]])
    /\ UNCHANGED <<wikiVars, storeVars>> /\ Frame

\* The model fails, or ends without a change; or the reviewer rejects the repair.
DropRepair(r) ==
    /\ req[r].pc \in {"compile", "review"}
    /\ Goto(r, "ended")
    /\ UNCHANGED <<wikiVars, storeVars>> /\ Frame

Over(f, P, r) == [p \in Pages |-> IF p \in P THEN req[r].snap[p] ELSE f[p]]

\* What git does when it is told to make f of g.  The thread of a publish may hold
\* index.lock: nobody looks at what git returns.
Git(f, g, busy) == {f} \cup (IF busy THEN {g} ELSE {})

\* A repair without changes cannot be applied.
AskApply(r) ==
    /\ At(r, "review") /\ DOMAIN req[r].snap # {}
    /\ UNCHANGED <<app, table, rows>>

\* _apply_wiki_changes does not await between the two snapshots.  It writes the texts
\* that were collected, whatever the pages hold by now.
Apply(r) ==
    LET P == DOMAIN req[r].snap IN
    /\ AskApply(r)
    /\ Meets(r, P)
    /\ page' = Over(page, P, r) /\ kept' = Over(kept, P, r)
    /\ \E first \in Git(page, index, TRUE) : index' \in Git(page', first, TRUE)
    /\ behind' = behind \cup P
    /\ Goto(r, "ended")
    /\ UNCHANGED gitBusy

Changed == {p \in Pages : page'[p] # page[p]}

\* What is there when a write has failed: the pages P are written, `staged` is what git
\* puts back, and removes what is not in it.
Rollback(r, P, staged, busy) ==
    /\ AskApply(r)
    /\ Meets(r, {})
    /\ index' = staged
    /\ page' \in Git(staged, [p \in Pages |-> IF staged[p] = None THEN None
                                               ELSE Over(page, P, r)[p]], busy)
    /\ gitBusy' = (gitBusy \/ busy)
    /\ behind' = behind \cup Changed
    /\ Goto(r, "ended")
    /\ UNCHANGED kept

\* Mutant of ApplyFails: the pages are not committed before they are written.
RollbackOnly(r) ==
    \E P \in SUBSET DOMAIN req[r].snap : Rollback(r, P, index, FALSE)

\* A change cannot be written: _git_rollback.  The pages were staged before the first was
\* written; a publish may stage those that are written.  (A busy git that has done all
\* the same is taken for an idle one.  The repair stays approved; bound: nobody tries again.)
ApplyFails(r) ==
    \E P \in SUBSET DOMAIN req[r].snap, busy \in BOOLEAN :
       \E first \in Git(page, index, busy) : \E staged \in Git(first, Over(page, P, r), busy) :
          /\ Rollback(r, P, staged, busy)
          /\ busy => page' # page \/ index' # page

-----------------------------------------------------------------------------
(* The vector store.                                                         *)

Rebuilds(r) == req[r].op \in {"rebuild", "task", "all", "knowledge"}
\* What follows the embedding; its failures are caught but in a rebuild.
After(r) == IF req[r].op = "ingest" THEN "finalize" ELSE
            IF req[r].op = "all" THEN "cases" ELSE "ended"
AfterError(r) == IF req[r].op = "ingest" THEN "finalize" ELSE "ended"

\* rebuild_project_embeddings lists the pages and removes the store, at once.
Lists(r, handles) ==
    LET P == PagesThere IN
    /\ At(r, "list")
    /\ req' = [handles EXCEPT ![r] =
                 IF P # {} THEN [req[r] EXCEPT !.paths = P, !.todo = P, !.pc = "read"]
                 ELSE IF After(r) = "ended" THEN Ended ELSE [req[r] EXCEPT !.pc = After(r)]]
    /\ behind' = {p \in Pages : page[p] \in Texts}
    /\ UNCHANGED <<wikiVars, calm>> /\ Frame

\* Mutant of RemoveStore: the old vectors are left.
ListPages(r) == Lists(r, req) /\ UNCHANGED <<table, rows>>

RemoveStore(r) ==
    /\ Lists(r, [q \in Requests |->
                   [req[q] EXCEPT !.handle = IF @ = "open" THEN "stale" ELSE @]])
    /\ table' = FALSE /\ rows' = {}

\* embed_pages reads page after page; an empty one has no chunks.
ReadPage(r) ==
    /\ At(r, "read")
    /\ \E p \in req[r].todo :
          LET rest == req[r].todo \ {p}
              got == req[r].got \cup {[page |-> p, text |-> t, by |-> r] :
                                        t \in {page[p]} \ {None, Empty}} IN
          Become(r, [req[r] EXCEPT !.todo = rest, !.got = got,
                        !.pc = IF rest # {} THEN "read" ELSE
                               IF got = {} THEN After(r) ELSE "connect"])
    /\ UNCHANGED <<wikiVars, storeVars>> /\ Frame

\* Embeddings are off, a pause is seen, the service fails or answers nonsense.
NoVectors(r) ==
    /\ (At(r, "read") /\ req[r].todo = req[r].paths) \/ At(r, "connect")
    /\ Goto(r, After(r))
    /\ UNCHANGED <<wikiVars, storeVars>> /\ Frame

GotIds(r) == {PageId[c.page] : c \in req[r].got}

Connect(r) ==
    /\ At(r, "connect")
    /\ Become(r, IF table THEN [req[r] EXCEPT !.pc = "delete", !.handle = "open", !.ids = GotIds(r)]
                 ELSE [req[r] EXCEPT !.pc = "create"])
    /\ UNCHANGED <<wikiVars, storeVars>> /\ Frame

DeleteNext(r, i, skipped) ==
    LET rest == req[r].ids \ {i} IN
    Become(r, [req[r] EXCEPT !.ids = rest, !.skipped = @ \cup skipped,
                             !.pc = IF rest = {} THEN "add" ELSE "delete"])

\* Mutant of DeleteChunks: no chunk has the id as it is quoted.
DeleteMisquoted(r) ==
    /\ At(r, "delete") /\ \E i \in req[r].ids : DeleteNext(r, i, {})
    /\ UNCHANGED <<wikiVars, storeVars>> /\ Frame

\* The chunks of every page with the id go; an error is passed over.
DeleteChunks(r) ==
    /\ At(r, "delete")
    /\ \E i \in req[r].ids :
          \/ /\ req[r].handle = "open"
             /\ rows' = {c \in rows : PageId[c.page] # i}
             /\ DeleteNext(r, i, {})
          \/ DeleteNext(r, i, {i}) /\ UNCHANGED rows
    /\ UNCHANGED <<wikiVars, table, calm, behind>> /\ Frame

EmbedRaises(r) ==
    /\ req[r].pc \in {"read", "connect", "add", "create"}
    /\ Goto(r, AfterError(r))
    /\ UNCHANGED <<wikiVars, storeVars>> /\ Frame

\* Chunks are added to a table that is still there, or that there is again;
\* create_table finds none.
Store(r) ==
    /\ \/ At(r, "add") /\ table
       \/ At(r, "create") /\ ~table
    /\ table' = TRUE /\ rows' = rows \cup req[r].got
    /\ behind' = behind \ {c.page : c \in {d \in req[r].got : PageId[d.page] \notin req[r].skipped}}
    /\ calm' = (calm \/ (r \in lone /\ Rebuilds(r)))
    /\ Goto(r, After(r))
    /\ UNCHANGED wikiVars /\ Frame

\* The other half of a rebuild of all indexes is CaseIndex's; it may fail.
RebuildCases(r) ==
    /\ At(r, "cases") /\ Goto(r, "ended")
    /\ UNCHANGED <<wikiVars, storeVars>> /\ Frame

Next ==
    \E r \in Requests :
          \/ AskPut(r) \/ TakeIngest(r) \/ AskRebuild(r) \/ AskTask(r)
          \/ Snapshot(r) \/ OpenPage(r) \/ WritePage(r) \/ IngestFails(r) \/ RestorePage(r)
          \/ Finalize(r)
          \/ CopyWiki(r) \/ EditPage(r) \/ Collect(r) \/ DropRepair(r) \/ Apply(r) \/ ApplyFails(r)
          \/ RemoveStore(r) \/ ReadPage(r) \/ NoVectors(r) \/ Connect(r) \/ DeleteChunks(r)
          \/ EmbedRaises(r) \/ Store(r) \/ RebuildCases(r)

Spec == Init /\ [][Next]_vars

-----------------------------------------------------------------------------
(* Properties.                                                               *)

Pcs == {"new", "list", "snapshot", "open", "write", "restore", "read", "connect", "delete",
        "create", "add", "finalize", "cases", "compile", "review", "ended"}
Ops == {"none", "put", "ingest", "repair", "rebuild", "task", "all", "knowledge"}
Snaps == UNION {[P -> Contents] : P \in SUBSET Pages}
Record == [op : Ops, pc : Pcs, todo : SUBSET Pages, paths : SUBSET Pages, snap : Snaps,
           got : SUBSET Chunks, ids : SUBSET (Ids \cup Pages), skipped : SUBSET Ids,
           handle : {"none", "open", "stale"}]
TypeOK ==
    /\ app \in {"main", "runtime"} /\ table \in BOOLEAN
    /\ page \in [Pages -> Contents] /\ index \in [Pages -> Contents] /\ kept \in [Pages -> Contents]
    /\ rows \subseteq Chunks /\ (rows # {} => table)
    /\ lone \subseteq Requests /\ calm \in BOOLEAN /\ gitBusy \in BOOLEAN
    /\ clash \subseteq Pages /\ behind \subseteq Pages
    /\ req \in [Requests -> Record]

\* "Rebuild already in progress" (search/router.py:148, runtime/router.py:441): while a task
\* is queued or running no other has its target.
OneTaskPerTarget ==
    \A q, r \in Requests : q # r /\ Active(q) /\ Active(r) /\ {req[q].op, req[r].op} \subseteq TaskOps
                              => TargetOf(req[q].op) # TargetOf(req[r].op)

\* A page holds what the last request that succeeded has left there, whoever writes
\* other pages or fails meanwhile: a failed ingest run and a failed apply
\* take back their own writes only (pipeline.py:81-103, feedback/router.py:314-343),
\* unless two wrote the page at once or git was busy with a publish during the apply.
SavedStays ==
    ~gitBusy => \A p \in Pages \ clash : Writers(p) = {} => page[p] = kept[p]

(* What makes SavedStays, RebuildIsExact and VectorsFollow true.             *)

Embedding == {"read", "connect", "delete", "create", "add"}

\* What a request is at, by its kind, and what it has to do there.
PhaseFits(r) ==
    LET s == req[r] IN
    /\ s.op = "none" <=> s.pc \in {"new", "ended"}
    /\ s.op = "repair" <=> s.pc \in {"compile", "review"}
    /\ s.op = "put" => s.pc \in {"open", "write"} \cup Embedding
    /\ s.op = "ingest" => s.pc \in {"snapshot", "open", "write", "restore", "finalize"} \cup Embedding
    /\ s.op = "ingest" => DOMAIN s.snap = IF s.pc = "snapshot" THEN s.paths \ s.todo ELSE s.paths
    /\ Rebuilds(r) => s.pc \in {"list", "cases"} \cup Embedding
    /\ s.todo \subseteq s.paths
    /\ s.pc = "write" => \E p \in s.todo : s.ids = {p}
    /\ s.pc \in {"connect", "create"} => s.todo = {}
    /\ s.pc = "delete" => s.ids \subseteq GotIds(r)
    /\ s.pc \in {"list", "snapshot", "open", "write"} => s.got = {} /\ s.skipped = {}
    /\ s.pc \in {"read", "connect", "create"} => s.skipped = {}

\* How far a writer's pages are from what was saved last: its own text, a cut file, or
\* the text it can put back from its snapshot.
PagesFollow(r) ==
    LET s == req[r]  mine == s.paths \ clash IN
    /\ s.op = "put" => \A p \in mine : page[p] = kept[p] \/ (s.pc = "write" /\ p \in s.ids)
    /\ s.op = "ingest" =>
          /\ \A p \in mine \cap DOMAIN s.snap : s.snap[p] = kept[p]
          /\ s.pc = "snapshot" => \A p \in mine : page[p] = kept[p]
          /\ s.pc = "restore" => \A p \in mine \ s.todo : page[p] = kept[p]
          /\ s.pc \in {"open", "write"} => \A p \in mine \ s.todo : page[p] = r
          /\ s.pc \in Embedding \cup {"finalize"} => \A p \in mine : page[p] = r

WritersFollow ==
    ~gitBusy => /\ \A p \in Pages \ clash : \A q, r \in Writers(p) : q = r
                /\ \A r \in Requests : PagesFollow(r)

\* The histories tell who is alone, ...
AloneIsAlone ==
    /\ \A r \in lone : \A q \in Requests : Active(q) => q = r
    /\ calm => \A q, r \in Requests : Active(q) /\ Active(r) => q = r

\* The chunks that r makes of the pages P, when they hold f.
ChunksOf(f, P, r) == {[page |-> p, text |-> f[p], by |-> r] : p \in {q \in P : f[q] \in Texts}}

\* ... and such a rebuild finds the store empty until it has read every page.
LoneRebuild ==
    \A r \in lone : Rebuilds(r) /\ req[r].pc \in Embedding =>
        /\ req[r].pc \notin {"delete", "add"} /\ ~table
        /\ req[r].paths = PagesThere
        /\ req[r].got = ChunksOf(page, req[r].paths \ req[r].todo, r)
        /\ behind = {p \in Pages : page[p] \in Texts}

\* What a request is about to put into the vectors is what the pages hold; they are
\* behind until it does, and of their old chunks those are left that it has still to
\* delete, or passed over.
ChunksFollow(r) ==
    LET s == req[r] IN
    /\ s.pc \in {"open", "write"} => s.paths \ s.todo \subseteq behind
    /\ s.pc \in Embedding =>
          /\ \A p \in s.paths : page[p] \in Texts => p \in behind
          /\ \A c \in s.got : /\ c.page \in behind \cap s.paths
                               /\ c.text = page[c.page] /\ c.by = r
    /\ s.pc \in {"delete", "add"} =>
          \A c \in rows : PageId[c.page] \in GotIds(r)
                            => PageId[c.page] \in s.skipped \cup (IF s.pc = "add" THEN {} ELSE s.ids)

RowsFollow ==
    /\ \A c \in rows : c.page \notin behind => c.text = page[c.page]
    /\ \A c, d \in rows : c.page = d.page /\ c.page \notin behind => c = d
    /\ \A p \in Pages : page[p] \in Texts =>
          \/ \E q \in behind : PageId[q] = PageId[p]
          \/ \E c \in rows : PageId[c.page] = PageId[p]

StoreFollows == calm => RowsFollow /\ \A r \in Requests : ChunksFollow(r)

IInv ==
    /\ TypeOK /\ OneTaskPerTarget
    /\ \A r \in Requests : PhaseFits(r)
    /\ SavedStays /\ WritersFollow /\ AloneIsAlone /\ LoneRebuild /\ StoreFollows

\* A rebuild that nobody overlaps leaves exactly the pages in the vectors, those whose
\* names give one id included (embedding/service.py:190-205), whatever overlapping
\* writers and rebuilds have left there before.
RebuildIsExact ==
    [][\A r \in Requests : Store(r) /\ r \in lone /\ Rebuilds(r) =>
          rows' = {[page |-> p, text |-> page[p], by |-> r] : p \in {q \in Pages : page[q] \in Texts}}]_vars

\* From then on, and as long as requests do not overlap, a search finds of a page
\* only what is on it, once, apart from pages whose last change was not, or not
\* wholly, embedded; and a page with text has chunks under its id, if only those of
\* another page of its name.
VectorsFollow ==
    calm => \A p \in Pages \ behind :
        LET found == {c \in rows : c.page = p}
            namesakes == {q \in Pages : PageId[q] = PageId[p]} IN
        /\ \A c \in found : c.text = page[p]
        /\ Cardinality(found) <= 1
        /\ (page[p] \in Texts /\ namesakes \cap behind = {})
              => \E c \in rows : c.page \in namesakes

\* What an apply changes is what the compiler edited: "diff the working copy vs the
\* original" (feedback/wiki_tools.py:10).  Refuted: pages that others have saved since
\* the copy was made count as changed, and an apply takes them back.
RepairsOnlyEdit == [][\A r \in Requests : Apply(r) => \A p \in Changed : page'[p] = r]_vars
=============================================================================
