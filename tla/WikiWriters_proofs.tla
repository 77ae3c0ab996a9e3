------------------------ MODULE WikiWriters_proofs ------------------------
(***************************************************************************)
(* Proofs about WikiWriters, for every set of requests and pages, every    *)
(* way the pages share ids, and every interleaving of their awaits.        *)
(***************************************************************************)
EXTENDS WikiWriters, FiniteSetTheorems, TLAPS

-----------------------------------------------------------------------------
(* Snapshots and records.                                                   *)

LEMMA ConstantTypes ==
  /\ PageId \in [Pages -> Ids]
  /\ Old \notin Requests /\ Empty \notin Requests /\ None \notin Requests
  /\ Old # Empty /\ Old # None /\ Empty # None
BY WritersAssumption DEF WritersAssumption

LEMMA SnapFacts ==
  ASSUME NEW f \in Snaps
  PROVE  /\ DOMAIN f \subseteq Pages /\ f = [p \in DOMAIN f |-> f[p]]
         /\ \A p \in DOMAIN f : f[p] \in Contents
<1>1. PICK P \in SUBSET Pages : f \in [P -> Contents]
  BY DEF Snaps
<1> QED BY <1>1

LEMMA SnapIntro ==
  ASSUME NEW P, P \subseteq Pages, NEW f \in [P -> Contents]
  PROVE  f \in Snaps
BY DEF Snaps

LEMMA WithSnap ==
  ASSUME NEW f \in Snaps, NEW p \in Pages, NEW t \in Contents
  PROVE  /\ With(f, p, t) \in Snaps /\ DOMAIN With(f, p, t) = DOMAIN f \cup {p}
         /\ With(f, p, t)[p] = t
         /\ \A q \in DOMAIN f \ {p} : With(f, p, t)[q] = f[q]
<1>1. DOMAIN f \cup {p} \subseteq Pages /\ With(f, p, t) \in [DOMAIN f \cup {p} -> Contents]
  BY SnapFacts DEF With
<1>2. With(f, p, t) \in Snaps
  BY ONLY <1>1, SnapIntro
<1> QED BY <1>2 DEF With

LEMMA FreshRecords ==
  /\ NoSnap \in Snaps /\ DOMAIN NoSnap = {}
  /\ Fresh \in Record /\ Ended \in Record
  /\ Ended = [op |-> "none", pc |-> "ended", todo |-> {}, paths |-> {}, snap |-> NoSnap,
              got |-> {}, ids |-> {}, skipped |-> {}, handle |-> "none"]
<1>1. NoSnap \in [{} -> Contents]
  BY DEF NoSnap
<1>2. NoSnap \in Snaps /\ DOMAIN NoSnap = {}
  BY <1>1, SnapIntro DEF NoSnap
<1>3. Fresh \in Record
  BY <1>2 DEF Fresh, Record, Ops, Pcs
<1>4. Ended = [op |-> "none", pc |-> "ended", todo |-> {}, paths |-> {}, snap |-> NoSnap,
               got |-> {}, ids |-> {}, skipped |-> {}, handle |-> "none"]
  BY DEF Fresh, Ended
<1>5. Ended \in Record
  BY <1>2, <1>4 DEF Record, Ops, Pcs
<1> QED BY <1>2, <1>3, <1>4, <1>5

\* A step changes the request it is of, ...
LEMMA BecomeFacts ==
  ASSUME req \in [Requests -> Record], NEW r \in Requests, NEW new \in Record, Become(r, new)
  PROVE  /\ req' \in [Requests -> Record]
         /\ req'[r] = IF new.pc = "ended" THEN Ended ELSE new
         /\ \A q \in Requests \ {r} : req'[q] = req[q]
BY FreshRecords DEF Become

LEMMA GotoFacts ==
  ASSUME req \in [Requests -> Record], NEW r \in Requests, NEW l \in Pcs, Goto(r, l)
  PROVE  /\ req' \in [Requests -> Record]
         /\ req'[r] = IF l = "ended" THEN Ended ELSE [req[r] EXCEPT !.pc = l]
         /\ \A q \in Requests \ {r} : req'[q] = req[q]
<1> DEFINE s == [req[r] EXCEPT !.pc = l]
<1>1. req[r] \in Record
  OBVIOUS
<1>2. s \in Record /\ s.pc = l
  BY <1>1 DEF Record
<1>3. Become(r, s)
  BY DEF Goto
<1> HIDE DEF s
<1>4. /\ req' \in [Requests -> Record]
      /\ req'[r] = IF s.pc = "ended" THEN Ended ELSE s
      /\ \A q \in Requests \ {r} : req'[q] = req[q]
  BY <1>2, <1>3, BecomeFacts
<1> QED BY <1>2, <1>4 DEF s

LEMMA AfterFacts ==
  ASSUME NEW r \in Requests
  PROVE  /\ After(r) \in Pcs /\ AfterError(r) \in Pcs
         /\ req[r].op = "ingest" => After(r) = "finalize" /\ AfterError(r) = "finalize"
         /\ req[r].op = "all" => After(r) = "cases" /\ AfterError(r) = "ended"
         /\ req[r].op \notin {"ingest", "all"} => After(r) = "ended" /\ AfterError(r) = "ended"
BY DEF After, AfterError, Pcs
-----------------------------------------------------------------------------
(* What each step does to the request it is of.  Typed is the part of the    *)
(* invariant that the other parts build on.                                  *)

Typed == TypeOK /\ \A r \in Requests : PhaseFits(r)

\* The requests are as they were, but for r and the handles that have become stale.
Others(r) ==
    \A q \in Requests \ {r} :
        /\ req'[q].op = req[q].op /\ req'[q].pc = req[q].pc
        /\ req'[q].todo = req[q].todo /\ req'[q].paths = req[q].paths
        /\ req'[q].snap = req[q].snap /\ req'[q].got = req[q].got
        /\ req'[q].ids = req[q].ids /\ req'[q].skipped = req[q].skipped

Touches(r) == req' \in [Requests -> Record] /\ Others(r)

Keeps(r) == req'[r].op = req[r].op /\ req'[r].paths = req[r].paths
Rest(r) == req'[r].snap = req[r].snap /\ req'[r].got = req[r].got /\ req'[r].skipped = req[r].skipped

LEMMA RecordOf ==
  ASSUME Typed, NEW r \in Requests
  PROVE  /\ req \in [Requests -> Record] /\ req[r] \in Record
         /\ req[r].op \in Ops /\ req[r].pc \in Pcs /\ req[r].todo \subseteq req[r].paths
         /\ req[r].paths \subseteq Pages /\ req[r].snap \in Snaps /\ req[r].got \subseteq Chunks
         /\ req[r].ids \subseteq Ids \cup Pages /\ req[r].skipped \subseteq Ids
         /\ req[r].handle \in {"none", "open", "stale"}
<1>1. req \in [Requests -> Record] /\ PhaseFits(r)
  BY DEF Typed, TypeOK
<1>2. req[r] \in Record
  BY <1>1
<1>3. req[r].todo \subseteq req[r].paths
  BY <1>1 DEF PhaseFits
<1> QED BY <1>1, <1>2, <1>3 DEF Record

LEMMA AcceptEffect ==
  ASSUME Typed, NEW r \in Requests, NEW op \in Ops, NEW l \in Pcs \ {"ended"},
         NEW P \in SUBSET Pages, Accept(r, op, l, P)
  PROVE  /\ Touches(r) /\ req[r].op = "none" /\ req[r].pc = "new"
         /\ req'[r].op = op /\ req'[r].pc = l /\ req'[r].todo = P /\ req'[r].paths = P
         /\ req'[r].snap = NoSnap /\ req'[r].got = {} /\ req'[r].ids = {} /\ req'[r].skipped = {}
<1> DEFINE s == [Fresh EXCEPT !.op = op, !.pc = l, !.paths = P, !.todo = P]
<1>1. /\ s.op = op /\ s.pc = l /\ s.todo = P /\ s.paths = P /\ s.snap = NoSnap /\ s.got = {}
      /\ s.ids = {} /\ s.skipped = {}
  BY DEF Fresh
<1>2. s \in Record
  BY FreshRecords DEF Record
<1>3. req[r].pc = "new" /\ req[r].op = "none"
  BY DEF Accept, At, Typed, PhaseFits
<1>4. Become(r, s)
  BY DEF Accept
<1> HIDE DEF s
<1>5. Touches(r) /\ req'[r] = s
  BY <1>1, <1>2, <1>4, RecordOf, BecomeFacts DEF Touches, Others
<1> QED BY <1>1, <1>3, <1>5

LEMMA SnapshotEffect ==
  ASSUME Typed, NEW r \in Requests, Snapshot(r)
  PROVE  /\ Touches(r) /\ req[r].pc = "snapshot"
         /\ \E p \in req[r].todo :
              /\ Keeps(r)
              /\ req'[r].snap = With(req[r].snap, p, page[p])
              /\ req'[r].got = req[r].got /\ req'[r].skipped = req[r].skipped
              /\ req'[r].ids = req[r].ids
              /\ \/ /\ req[r].todo = {p} /\ req'[r].todo = req[r].paths /\ req'[r].pc = "open"
                 \/ /\ req'[r].todo = req[r].todo \ {p} /\ req'[r].pc = "snapshot"
<1>1. PICK p \in req[r].todo :
        Become(r, [req[r] EXCEPT !.snap = With(req[r].snap, p, page[p]),
                      !.todo = IF req[r].todo \ {p} = {} THEN req[r].todo \cup req[r].paths
                               ELSE req[r].todo \ {p},
                      !.pc = IF req[r].todo \ {p} = {} THEN "open" ELSE "snapshot"])
  BY DEF Snapshot
<1> DEFINE T == IF req[r].todo \ {p} = {} THEN req[r].todo \cup req[r].paths
                ELSE req[r].todo \ {p}
           l == IF req[r].todo \ {p} = {} THEN "open" ELSE "snapshot"
           W == With(req[r].snap, p, page[p])
           s == [req[r] EXCEPT !.snap = W, !.todo = T, !.pc = l]
<1>2. page[p] \in Contents /\ p \in Pages /\ req[r].todo \subseteq req[r].paths
  BY RecordOf DEF Typed, TypeOK
<1>3. W \in Snaps
  BY <1>2, RecordOf, WithSnap
<1>4. /\ T \in SUBSET Pages /\ l \in Pcs /\ l # "ended"
      /\ \/ req[r].todo = {p} /\ T = req[r].paths /\ l = "open"
         \/ T = req[r].todo \ {p} /\ l = "snapshot"
  BY <1>2, RecordOf DEF Pcs
<1>6. Become(r, s) /\ W = With(req[r].snap, p, page[p])
  BY <1>1
<1> HIDE DEF W, T, l
<1>5. /\ s \in Record /\ s.op = req[r].op /\ s.paths = req[r].paths /\ s.snap = W
      /\ s.got = req[r].got /\ s.skipped = req[r].skipped /\ s.ids = req[r].ids
      /\ s.todo = T /\ s.pc = l
  BY <1>3, <1>4, RecordOf DEF Record
<1> HIDE DEF s
<1>7. Touches(r) /\ req'[r] = s
  BY <1>4, <1>5, <1>6, RecordOf, BecomeFacts DEF Touches, Others
<1>8. req[r].pc = "snapshot"
  BY DEF Snapshot, At
<1> QED BY <1>4, <1>5, <1>6, <1>7, <1>8 DEF Keeps

LEMMA OpenEffect ==
  ASSUME Typed, NEW r \in Requests, OpenPage(r)
  PROVE  /\ Touches(r) /\ req[r].pc = "open"
         /\ \E p \in req[r].todo :
              /\ Keeps(r) /\ Rest(r) /\ Puts(p, Empty)
              /\ req'[r].todo = req[r].todo /\ req'[r].pc = "write" /\ req'[r].ids = {p}
<1>1. PICK p \in req[r].todo : Puts(p, Empty) /\ Become(r, [req[r] EXCEPT !.pc = "write", !.ids = {p}])
  BY DEF OpenPage
<1> DEFINE s == [req[r] EXCEPT !.pc = "write", !.ids = {p}]
<1>6. {p} \in SUBSET (Ids \cup Pages)
  BY RecordOf
<1>2. /\ s \in Record /\ s.pc = "write" /\ s.op = req[r].op /\ s.paths = req[r].paths
      /\ s.snap = req[r].snap /\ s.got = req[r].got /\ s.skipped = req[r].skipped
      /\ s.ids = {p} /\ s.todo = req[r].todo
  BY <1>6, RecordOf DEF Record, Pcs
<1>3. Become(r, s)
  BY <1>1
<1> HIDE DEF s
<1>4. Touches(r) /\ req'[r] = s
  BY <1>2, <1>3, RecordOf, BecomeFacts DEF Touches, Others
<1>5. req[r].pc = "open"
  BY DEF OpenPage, At
<1> QED BY <1>1, <1>2, <1>4, <1>5 DEF Keeps, Rest

LEMMA WriteEffect ==
  ASSUME Typed, NEW r \in Requests, WritePage(r)
  PROVE  /\ Touches(r) /\ req[r].pc = "write"
         /\ \E p \in req[r].todo : \E t \in {r, Empty} :
              /\ req[r].ids = {p} /\ (req[r].op # "put" => t = r)
              /\ Puts(p, t) /\ kept' = IF req[r].op = "put" THEN [kept EXCEPT ![p] = t] ELSE kept
              /\ Keeps(r) /\ Rest(r) /\ req'[r].ids = {}
              /\ \/ /\ req[r].todo = {p} /\ req'[r].todo = req[r].paths /\ req'[r].pc = "read"
                 \/ /\ req'[r].todo = req[r].todo \ {p} /\ req'[r].pc = "open"
<1>1. PICK p \in req[r].ids, t \in {r} \cup (IF req[r].op = "put" THEN {Empty} ELSE {}) :
        /\ Puts(p, t) /\ kept' = IF req[r].op = "put" THEN [kept EXCEPT ![p] = t] ELSE kept
        /\ Become(r, [req[r] EXCEPT !.todo = IF req[r].todo \ {p} = {} THEN req[r].paths
                                             ELSE req[r].todo \ {p},
                         !.ids = {}, !.pc = IF req[r].todo \ {p} = {} THEN "read" ELSE "open"])
  BY DEF WritePage
<1>2. req[r].pc = "write" /\ p \in req[r].todo /\ req[r].ids = {p}
  <2>1. req[r].pc = "write" /\ PhaseFits(r)
    BY DEF WritePage, At, Typed
  <2>2. \E q \in req[r].todo : req[r].ids = {q}
    BY <2>1 DEF PhaseFits
  <2> QED BY <2>1, <2>2
<1> DEFINE T == IF req[r].todo \ {p} = {} THEN req[r].paths ELSE req[r].todo \ {p}
           l == IF req[r].todo \ {p} = {} THEN "read" ELSE "open"
           s == [req[r] EXCEPT !.todo = T, !.ids = {}, !.pc = l]
<1>7. /\ T \in SUBSET Pages /\ l \in Pcs /\ l # "ended"
      /\ \/ req[r].todo = {p} /\ T = req[r].paths /\ l = "read"
         \/ T = req[r].todo \ {p} /\ l = "open"
  BY <1>2, RecordOf DEF Pcs
<1>4. Become(r, s)
  BY <1>1
<1> HIDE DEF T, l
<1>3. /\ s \in Record /\ s.op = req[r].op /\ s.paths = req[r].paths
      /\ s.snap = req[r].snap /\ s.got = req[r].got /\ s.skipped = req[r].skipped
      /\ s.ids = {} /\ s.todo = T /\ s.pc = l
  BY <1>7, RecordOf DEF Record
<1> HIDE DEF s
<1>5. Touches(r) /\ req'[r] = s
  BY <1>3, <1>4, <1>7, RecordOf, BecomeFacts DEF Touches, Others
<1>6. t \in {r, Empty} /\ (req[r].op # "put" => t = r)
  OBVIOUS
<1> QED BY <1>1, <1>2, <1>3, <1>5, <1>6, <1>7 DEF Keeps, Rest

LEMMA FailEffect ==
  ASSUME Typed, NEW r \in Requests, IngestFails(r)
  PROVE  /\ Touches(r) /\ req[r].op = "ingest" /\ Keeps(r) /\ Rest(r)
         /\ req[r].pc \in {"open", "write", "finalize", "read"}
         /\ req'[r].todo = DOMAIN req[r].snap /\ req'[r].pc = "restore" /\ req'[r].ids = {}
<1> DEFINE s == [req[r] EXCEPT !.pc = "restore", !.todo = DOMAIN req[r].snap, !.ids = {}]
<1>1. DOMAIN req[r].snap \subseteq Pages
  BY RecordOf, SnapFacts
<1>2. /\ s \in Record /\ s.pc = "restore" /\ s.op = req[r].op /\ s.paths = req[r].paths
      /\ s.snap = req[r].snap /\ s.got = req[r].got /\ s.skipped = req[r].skipped
      /\ s.ids = {} /\ s.todo = DOMAIN req[r].snap
  BY <1>1, RecordOf DEF Record, Pcs
<1>3. Become(r, s)
  BY DEF IngestFails
<1> HIDE DEF s
<1>4. Touches(r) /\ req'[r] = s
  BY <1>2, <1>3, RecordOf, BecomeFacts DEF Touches, Others
<1>5. req[r].op = "ingest" /\ req[r].pc \in {"open", "write", "finalize", "read"}
  BY DEF IngestFails, At
<1> QED BY <1>2, <1>4, <1>5 DEF Keeps, Rest

LEMMA RestoreEffect ==
  ASSUME Typed, NEW r \in Requests, RestorePage(r)
  PROVE  /\ Touches(r) /\ req[r].pc = "restore"
         /\ \E p \in req[r].todo :
              /\ Puts(p, req[r].snap[p])
              /\ \/ req[r].todo = {p} /\ req'[r] = Ended
                 \/ /\ Keeps(r) /\ Rest(r) /\ req'[r].ids = req[r].ids
                    /\ req'[r].todo = req[r].todo \ {p} /\ req'[r].pc = "restore"
<1>1. PICK p \in req[r].todo :
        /\ Puts(p, req[r].snap[p])
        /\ Become(r, [req[r] EXCEPT !.todo = req[r].todo \ {p},
                         !.pc = IF req[r].todo \ {p} = {} THEN "ended" ELSE "restore"])
  BY DEF RestorePage
<1> DEFINE s == [req[r] EXCEPT !.todo = req[r].todo \ {p},
                    !.pc = IF req[r].todo \ {p} = {} THEN "ended" ELSE "restore"]
<1>2. /\ s \in Record /\ s.op = req[r].op /\ s.paths = req[r].paths
      /\ s.snap = req[r].snap /\ s.got = req[r].got /\ s.skipped = req[r].skipped
      /\ s.ids = req[r].ids /\ s.todo = req[r].todo \ {p}
      /\ s.pc = IF req[r].todo \ {p} = {} THEN "ended" ELSE "restore"
  BY RecordOf DEF Record, Pcs
<1>3. Become(r, s)
  BY <1>1
<1> HIDE DEF s
<1>4. Touches(r) /\ req'[r] = IF s.pc = "ended" THEN Ended ELSE s
  BY <1>2, <1>3, RecordOf, BecomeFacts DEF Touches, Others
<1>5. req[r].pc = "restore"
  BY DEF RestorePage, At
<1>6. CASE req[r].todo = {p}
  BY <1>1, <1>2, <1>4, <1>5, <1>6
<1>7. CASE req[r].todo # {p}
  BY <1>1, <1>2, <1>4, <1>5, <1>7 DEF Keeps, Rest
<1> QED BY <1>6, <1>7

\* Steps that only go on to another phase.
LEMMA GotoEffect ==
  ASSUME Typed, NEW r \in Requests, NEW l \in Pcs, Goto(r, l)
  PROVE  /\ Touches(r)
         /\ l = "ended" => req'[r] = Ended
         /\ l # "ended" => /\ Keeps(r) /\ Rest(r) /\ req'[r].pc = l
                           /\ req'[r].todo = req[r].todo /\ req'[r].ids = req[r].ids
<1>1. Touches(r) /\ req'[r] = IF l = "ended" THEN Ended ELSE [req[r] EXCEPT !.pc = l]
  BY RecordOf, GotoFacts DEF Touches, Others
<1>2. /\ [req[r] EXCEPT !.pc = l].op = req[r].op /\ [req[r] EXCEPT !.pc = l].paths = req[r].paths
      /\ [req[r] EXCEPT !.pc = l].snap = req[r].snap /\ [req[r] EXCEPT !.pc = l].got = req[r].got
      /\ [req[r] EXCEPT !.pc = l].skipped = req[r].skipped /\ [req[r] EXCEPT !.pc = l].pc = l
      /\ [req[r] EXCEPT !.pc = l].todo = req[r].todo /\ [req[r] EXCEPT !.pc = l].ids = req[r].ids
  BY RecordOf DEF Record
<1> QED BY <1>1, <1>2 DEF Keeps, Rest
LEMMA CopyEffect ==
  ASSUME Typed, NEW r \in Requests, CopyWiki(r)
  PROVE  /\ Touches(r) /\ req[r].op = "none" /\ req'[r].op = "repair" /\ req'[r].pc = "compile"
         /\ req'[r].todo = {}
<1> DEFINE S == [p \in PagesThere |-> page[p]]
           s == [Fresh EXCEPT !.op = "repair", !.pc = "compile", !.snap = S]
<1>1. S \in [PagesThere -> Contents] /\ PagesThere \subseteq Pages
  BY DEF PagesThere, Typed, TypeOK
<1>2. S \in Snaps
  BY <1>1, SnapIntro
<1> HIDE DEF S
<1>3. /\ s \in Record /\ s.op = "repair" /\ s.pc = "compile" /\ s.todo = {}
  BY <1>2, FreshRecords DEF Record, Ops, Pcs, Fresh
<1>4. Become(r, s)
  BY DEF CopyWiki, S
<1> HIDE DEF s
<1>5. Touches(r) /\ req'[r] = s
  BY <1>3, <1>4, RecordOf, BecomeFacts DEF Touches, Others
<1>6. req[r].op = "none"
  BY DEF CopyWiki, At, Typed, PhaseFits
<1> QED BY <1>3, <1>5, <1>6

LEMMA EditEffect ==
  ASSUME Typed, NEW r \in Requests, EditPage(r)
  PROVE  /\ Touches(r) /\ req[r].op = "repair" /\ req'[r].op = "repair" /\ req'[r].pc = "compile"
         /\ req'[r].todo = req[r].todo /\ req'[r].paths = req[r].paths
<1>1. PICK p \in Pages : Become(r, [req[r] EXCEPT !.snap = With(req[r].snap, p, r)])
  BY DEF EditPage
<1>2. With(req[r].snap, p, r) \in Snaps
  BY RecordOf, WithSnap DEF Contents, Texts
<1>3. req[r].pc = "compile" /\ req[r].op = "repair"
  BY DEF EditPage, At, Typed, PhaseFits
<1> DEFINE s == [req[r] EXCEPT !.snap = With(req[r].snap, p, r)]
<1>4. /\ s \in Record /\ s.op = "repair" /\ s.pc = "compile" /\ s.todo = req[r].todo
      /\ s.paths = req[r].paths
  BY <1>2, <1>3, RecordOf DEF Record
<1>5. Become(r, s)
  BY <1>1
<1> HIDE DEF s
<1>6. Touches(r) /\ req'[r] = s
  BY <1>4, <1>5, RecordOf, BecomeFacts DEF Touches, Others
<1> QED BY <1>3, <1>4, <1>6

LEMMA CollectEffect ==
  ASSUME Typed, NEW r \in Requests, Collect(r)
  PROVE  /\ Touches(r) /\ req[r].op = "repair" /\ req'[r].op = "repair" /\ req'[r].pc = "review"
         /\ req'[r].todo = req[r].todo /\ req'[r].paths = req[r].paths
<1> DEFINE S == [p \in Changes(r) |-> req[r].snap[p]]
           s == [req[r] EXCEPT !.pc = "review", !.snap = S]
<1>1. S \in [Changes(r) -> Contents] /\ Changes(r) \subseteq Pages
  BY RecordOf, SnapFacts DEF Changes
<1>2. S \in Snaps
  BY <1>1, SnapIntro
<1>3. req[r].pc = "compile" /\ req[r].op = "repair"
  BY DEF Collect, At, Typed, PhaseFits
<1>5. Become(r, s)
  BY DEF Collect
<1> HIDE DEF S
<1>4. /\ s \in Record /\ s.op = "repair" /\ s.pc = "review" /\ s.todo = req[r].todo
      /\ s.paths = req[r].paths
  <2>1. req[r] \in Record
    BY RecordOf
  <2>2. s \in Record
    BY <1>2, <2>1 DEF Record, Pcs
  <2>3. s.op = "repair" /\ s.pc = "review" /\ s.todo = req[r].todo /\ s.paths = req[r].paths
    BY <1>3, <2>1 DEF Record
  <2> QED BY <2>2, <2>3
<1> HIDE DEF s
<1>6. Touches(r) /\ req'[r] = s
  BY <1>4, <1>5, RecordOf, BecomeFacts DEF Touches, Others
<1> QED BY <1>3, <1>4, <1>6

LEMMA ListEffect ==
  ASSUME Typed, NEW r \in Requests, RemoveStore(r)
  PROVE  /\ Touches(r) /\ req[r].pc = "list"
         /\ \/ /\ PagesThere # {} /\ Rest(r) /\ req'[r].op = req[r].op /\ req'[r].paths = PagesThere
               /\ req'[r].todo = PagesThere /\ req'[r].pc = "read"
            \/ /\ req'[r] = Ended
            \/ /\ Keeps(r) /\ Rest(r) /\ req[r].op = "all" /\ req'[r].pc = "cases"
               /\ req'[r].todo = req[r].todo
<1> DEFINE H == [q \in Requests |->
                   [req[q] EXCEPT !.handle = IF req[q].handle = "open" THEN "stale"
                                             ELSE req[q].handle]]
           s == IF PagesThere # {}
                  THEN [req[r] EXCEPT !.paths = PagesThere, !.todo = PagesThere, !.pc = "read"]
                  ELSE IF After(r) = "ended" THEN Ended ELSE [req[r] EXCEPT !.pc = After(r)]
<1>1. req' = [H EXCEPT ![r] = s] /\ req[r].pc = "list"
  BY DEF RemoveStore, Lists, At
<1>2. \A q \in Requests :
        /\ H[q] \in Record
        /\ H[q].op = req[q].op /\ H[q].pc = req[q].pc /\ H[q].todo = req[q].todo
        /\ H[q].paths = req[q].paths /\ H[q].snap = req[q].snap /\ H[q].got = req[q].got
        /\ H[q].ids = req[q].ids /\ H[q].skipped = req[q].skipped
  <2> SUFFICES ASSUME NEW q \in Requests
               PROVE  /\ H[q] \in Record
                      /\ H[q].op = req[q].op /\ H[q].pc = req[q].pc /\ H[q].todo = req[q].todo
                      /\ H[q].paths = req[q].paths /\ H[q].snap = req[q].snap
                      /\ H[q].got = req[q].got
                      /\ H[q].ids = req[q].ids /\ H[q].skipped = req[q].skipped
    OBVIOUS
  <2>1. req[q] \in Record
    BY RecordOf
  <2> QED BY <2>1 DEF Record
<1>3. H \in [Requests -> Record]
  BY <1>2
<1> HIDE DEF H
<1>4. CASE PagesThere # {}
  <2>1. PagesThere \subseteq Pages
    BY DEF PagesThere
  <2>2. /\ s \in Record /\ s.op = req[r].op /\ s.snap = req[r].snap /\ s.got = req[r].got
        /\ s.skipped = req[r].skipped /\ s.ids = req[r].ids
        /\ s.paths = PagesThere /\ s.todo = PagesThere /\ s.pc = "read"
    BY <1>4, <2>1, RecordOf DEF Record, Pcs
  <2> HIDE DEF s
  <2>3. Touches(r) /\ req'[r] = s
    BY <1>1, <1>2, <1>3, <2>2 DEF Touches, Others
  <2> QED BY <1>1, <1>4, <2>2, <2>3 DEF Rest
<1>5. CASE PagesThere = {} /\ After(r) = "ended"
  <2>1. s = Ended
    BY <1>5
  <2> HIDE DEF s
  <2>2. Touches(r) /\ req'[r] = s
    BY <1>1, <1>2, <1>3, <2>1, FreshRecords DEF Touches, Others
  <2> QED BY <1>1, <2>1, <2>2
<1>6. CASE PagesThere = {} /\ After(r) # "ended"
  <2>1. req[r].op # "ingest"
    BY <1>1 DEF Typed, PhaseFits, Embedding
  <2>2. After(r) = "cases" /\ req[r].op = "all"
    BY <1>6, <2>1, AfterFacts
  <2>3. /\ s \in Record /\ s.op = req[r].op /\ s.snap = req[r].snap /\ s.got = req[r].got
        /\ s.skipped = req[r].skipped /\ s.paths = req[r].paths /\ s.todo = req[r].todo
        /\ s.pc = "cases"
    BY <1>6, <2>2, RecordOf DEF Record, Pcs
  <2> HIDE DEF s
  <2>4. Touches(r) /\ req'[r] = s
    BY <1>1, <1>2, <1>3, <2>3 DEF Touches, Others
  <2> QED BY <1>1, <2>2, <2>3, <2>4 DEF Keeps, Rest
<1> QED BY <1>4, <1>5, <1>6
\* What reading a page adds to what a request has got.
ReadOf(r, p) == {[page |-> p, text |-> t, by |-> r] : t \in {page[p]} \ {None, Empty}}

LEMMA ReadOfFacts ==
  ASSUME Typed, NEW r \in Requests, NEW p \in Pages
  PROVE  /\ ReadOf(r, p) \subseteq Chunks
         /\ ReadOf(r, p) = ChunksOf(page, {p}, r)
<1>1. page[p] \in Texts \cup {Empty, None}
  BY DEF Typed, TypeOK, Contents
<1>2. {page[p]} \ {None, Empty} = {page[q] : q \in {x \in {p} : page[x] \in Texts}}
  BY <1>1, ConstantTypes DEF Texts
<1>3. ReadOf(r, p) = ChunksOf(page, {p}, r)
  <2>1. CASE page[p] \in Texts
    <3>1. {page[p]} \ {None, Empty} = {page[p]} /\ {x \in {p} : page[x] \in Texts} = {p}
      BY <2>1, ConstantTypes DEF Texts
    <3> QED BY <3>1 DEF ReadOf, ChunksOf
  <2>2. CASE page[p] \notin Texts
    <3>1. {page[p]} \ {None, Empty} = {} /\ {x \in {p} : page[x] \in Texts} = {}
      BY <1>1, <2>2
    <3> QED BY <3>1 DEF ReadOf, ChunksOf
  <2> QED BY <2>1, <2>2
<1>4. ReadOf(r, p) \subseteq Chunks
  BY <1>1 DEF ReadOf, Chunks
<1> QED BY <1>3, <1>4

LEMMA ReadEffect ==
  ASSUME Typed, NEW r \in Requests, ReadPage(r)
  PROVE  /\ Touches(r) /\ req[r].pc = "read"
         /\ \E p \in req[r].todo : LET got == req[r].got \cup ReadOf(r, p) IN
              \/ /\ Keeps(r) /\ req'[r].snap = req[r].snap /\ req'[r].got = got
                 /\ req'[r].skipped = req[r].skipped /\ req'[r].ids = req[r].ids
                 /\ req'[r].todo = req[r].todo \ {p}
                 /\ \/ req'[r].pc = "read"
                    \/ req'[r].pc = "connect" /\ req'[r].todo = {}
                    \/ req'[r].pc = "finalize" /\ req[r].op = "ingest"
                    \/ req'[r].pc = "cases" /\ req[r].op = "all"
              \/ req'[r] = Ended /\ req[r].op # "ingest"
<1>1. PICK p \in req[r].todo :
        Become(r, [req[r] EXCEPT !.todo = req[r].todo \ {p}, !.got = req[r].got \cup ReadOf(r, p),
                      !.pc = IF req[r].todo \ {p} # {} THEN "read" ELSE
                             IF req[r].got \cup ReadOf(r, p) = {} THEN After(r) ELSE "connect"])
  BY DEF ReadPage, ReadOf
<1> DEFINE got == req[r].got \cup ReadOf(r, p)
           l == IF req[r].todo \ {p} # {} THEN "read" ELSE
                IF got = {} THEN After(r) ELSE "connect"
           s == [req[r] EXCEPT !.todo = req[r].todo \ {p}, !.got = got, !.pc = l]
<1>2. got \subseteq Chunks /\ p \in Pages
  BY RecordOf, ReadOfFacts
<1>3. /\ l \in Pcs
      /\ \/ l = "read"
         \/ l = "connect" /\ req[r].todo \ {p} = {}
         \/ l = "finalize" /\ req[r].op = "ingest"
         \/ l = "cases" /\ req[r].op = "all"
         \/ l = "ended" /\ req[r].op # "ingest"
  BY AfterFacts DEF Pcs
<1>4. Become(r, s)
  BY <1>1
<1> HIDE DEF l, got
<1>5. /\ s \in Record /\ s.op = req[r].op /\ s.paths = req[r].paths
      /\ s.snap = req[r].snap /\ s.got = got /\ s.skipped = req[r].skipped
      /\ s.ids = req[r].ids /\ s.todo = req[r].todo \ {p} /\ s.pc = l
  BY <1>2, <1>3, RecordOf DEF Record
<1> HIDE DEF s
<1>6. Touches(r) /\ req'[r] = IF l = "ended" THEN Ended ELSE s
  BY <1>4, <1>5, RecordOf, BecomeFacts DEF Touches, Others
<1>7. req[r].pc = "read"
  BY DEF ReadPage, At
<1>8. CASE l = "ended"
  BY <1>3, <1>6, <1>7, <1>8
<1>9. CASE l # "ended"
  BY <1>3, <1>5, <1>6, <1>7, <1>9 DEF Keeps, got
<1> QED BY <1>8, <1>9

LEMMA GotIdsFacts ==
  ASSUME Typed, NEW r \in Requests
  PROVE  GotIds(r) \subseteq Ids
BY RecordOf, ConstantTypes DEF GotIds, Chunks

LEMMA ConnectEffect ==
  ASSUME Typed, NEW r \in Requests, Connect(r)
  PROVE  /\ Touches(r) /\ req[r].pc = "connect" /\ Keeps(r) /\ Rest(r)
         /\ req'[r].todo = req[r].todo
         /\ \/ table /\ req'[r].pc = "delete" /\ req'[r].ids = GotIds(r)
            \/ ~table /\ req'[r].pc = "create" /\ req'[r].ids = req[r].ids
<1>1. GotIds(r) \in SUBSET (Ids \cup Pages)
  BY GotIdsFacts
<1>2. req[r].pc = "connect"
  BY DEF Connect, At
<1>3. CASE table
  <2> DEFINE s == [req[r] EXCEPT !.pc = "delete", !.handle = "open", !.ids = GotIds(r)]
  <2>1. Become(r, s)
    BY <1>3 DEF Connect
  <2>2. /\ s \in Record /\ s.op = req[r].op /\ s.paths = req[r].paths
        /\ s.snap = req[r].snap /\ s.got = req[r].got /\ s.skipped = req[r].skipped
        /\ s.ids = GotIds(r) /\ s.todo = req[r].todo /\ s.pc = "delete"
    BY <1>1, RecordOf DEF Record, Pcs
  <2> HIDE DEF s
  <2>3. Touches(r) /\ req'[r] = s
    BY <2>1, <2>2, RecordOf, BecomeFacts DEF Touches, Others
  <2> QED BY <1>2, <1>3, <2>2, <2>3 DEF Keeps, Rest
<1>4. CASE ~table
  <2> DEFINE s == [req[r] EXCEPT !.pc = "create"]
  <2>1. Become(r, s)
    BY <1>4 DEF Connect
  <2>2. /\ s \in Record /\ s.op = req[r].op /\ s.paths = req[r].paths
        /\ s.snap = req[r].snap /\ s.got = req[r].got /\ s.skipped = req[r].skipped
        /\ s.ids = req[r].ids /\ s.todo = req[r].todo /\ s.pc = "create"
    BY RecordOf DEF Record, Pcs
  <2> HIDE DEF s
  <2>3. Touches(r) /\ req'[r] = s
    BY <2>1, <2>2, RecordOf, BecomeFacts DEF Touches, Others
  <2> QED BY <1>2, <1>4, <2>2, <2>3 DEF Keeps, Rest
<1> QED BY <1>3, <1>4

LEMMA DeleteEffect ==
  ASSUME Typed, NEW r \in Requests, DeleteChunks(r)
  PROVE  /\ Touches(r) /\ req[r].pc = "delete"
         /\ \E i \in req[r].ids :
              /\ Keeps(r) /\ req'[r].snap = req[r].snap /\ req'[r].got = req[r].got
              /\ req'[r].todo = req[r].todo /\ req'[r].ids = req[r].ids \ {i}
              /\ \/ req'[r].ids = {} /\ req'[r].pc = "add"
                 \/ req'[r].pc = "delete"
              /\ \/ /\ rows' = {c \in rows : PageId[c.page] # i}
                    /\ req'[r].skipped = req[r].skipped
                 \/ rows' = rows /\ req'[r].skipped = req[r].skipped \cup {i}
<1>1. PICK i \in req[r].ids :
        \/ rows' = {c \in rows : PageId[c.page] # i} /\ DeleteNext(r, i, {})
        \/ rows' = rows /\ DeleteNext(r, i, {i})
  BY DEF DeleteChunks
<1>2. req[r].pc = "delete" /\ i \in Ids
  <2>1. req[r].pc = "delete" /\ i \in GotIds(r)
    BY DEF DeleteChunks, At, Typed, PhaseFits
  <2> QED BY <2>1, GotIdsFacts
<1>3. ASSUME NEW K \in SUBSET Ids, DeleteNext(r, i, K)
      PROVE  /\ Touches(r)
             /\ Keeps(r) /\ req'[r].snap = req[r].snap /\ req'[r].got = req[r].got
             /\ req'[r].todo = req[r].todo /\ req'[r].ids = req[r].ids \ {i}
             /\ \/ req'[r].ids = {} /\ req'[r].pc = "add"
                \/ req'[r].pc = "delete"
             /\ req'[r].skipped = req[r].skipped \cup K
  <2> DEFINE s == [req[r] EXCEPT !.ids = req[r].ids \ {i}, !.skipped = req[r].skipped \cup K,
                      !.pc = IF req[r].ids \ {i} = {} THEN "add" ELSE "delete"]
  <2>1. Become(r, s)
    BY <1>3 DEF DeleteNext
  <2>2. /\ s \in Record /\ s.op = req[r].op /\ s.paths = req[r].paths /\ s.pc # "ended"
        /\ s.snap = req[r].snap /\ s.got = req[r].got /\ s.skipped = req[r].skipped \cup K
        /\ s.ids = req[r].ids \ {i} /\ s.todo = req[r].todo
        /\ s.pc = IF req[r].ids \ {i} = {} THEN "add" ELSE "delete"
    <3>1. req[r] \in Record
      BY RecordOf
    <3>2. s \in Record
      BY <3>1 DEF Record, Pcs
    <3> QED BY <3>1, <3>2 DEF Record
  <2> HIDE DEF s
  <2>3. Touches(r) /\ req'[r] = s
    BY <2>1, <2>2, RecordOf, BecomeFacts DEF Touches, Others
  <2> QED BY <2>2, <2>3 DEF Keeps
<1>4. CASE rows' = {c \in rows : PageId[c.page] # i} /\ DeleteNext(r, i, {})
  <2>1. /\ Touches(r)
        /\ Keeps(r) /\ req'[r].snap = req[r].snap /\ req'[r].got = req[r].got
        /\ req'[r].todo = req[r].todo /\ req'[r].ids = req[r].ids \ {i}
        /\ \/ req'[r].ids = {} /\ req'[r].pc = "add"
           \/ req'[r].pc = "delete"
        /\ req'[r].skipped = req[r].skipped \cup {}
    BY <1>3, <1>4
  <2> QED BY <1>2, <1>4, <2>1
<1>5. CASE rows' = rows /\ DeleteNext(r, i, {i})
  <2>1. {i} \in SUBSET Ids
    BY <1>2
  <2>2. /\ Touches(r)
        /\ Keeps(r) /\ req'[r].snap = req[r].snap /\ req'[r].got = req[r].got
        /\ req'[r].todo = req[r].todo /\ req'[r].ids = req[r].ids \ {i}
        /\ \/ req'[r].ids = {} /\ req'[r].pc = "add"
           \/ req'[r].pc = "delete"
        /\ req'[r].skipped = req[r].skipped \cup {i}
    BY <1>3, <1>5, <2>1
  <2>3. rows' = rows
    BY <1>5
  <2> QED BY <1>2, <2>2, <2>3
<1> QED BY <1>1, <1>4, <1>5
-----------------------------------------------------------------------------
(* Types and phases.                                                         *)

\* A step that changes a request only leaves the pages, the vectors and the histories.
Quiet == UNCHANGED <<wikiVars, storeVars>> /\ Frame

LEMMA EndedFits ==
  ASSUME NEW r \in Requests, req'[r] = Ended
  PROVE  PhaseFits(r)'
BY FreshRecords DEF PhaseFits, Rebuilds, Embedding

LEMMA OthersFit ==
  ASSUME Typed, NEW r \in Requests, Touches(r), PhaseFits(r)'
  PROVE  \A q \in Requests : PhaseFits(q)'
<1> SUFFICES ASSUME NEW q \in Requests, q # r PROVE PhaseFits(q)'
  OBVIOUS
<1>1. PhaseFits(q)
  BY DEF Typed
<1>2. GotIds(q)' = {PageId[c.page] : c \in req[q].got}
  BY DEF Touches, Others, GotIds
<1>3. /\ req'[q].op = req[q].op /\ req'[q].pc = req[q].pc
      /\ req'[q].todo = req[q].todo /\ req'[q].paths = req[q].paths
      /\ req'[q].snap = req[q].snap /\ req'[q].got = req[q].got
      /\ req'[q].ids = req[q].ids /\ req'[q].skipped = req[q].skipped
  BY DEF Touches, Others
<1>4. (Rebuilds(q)' <=> Rebuilds(q)) /\ GotIds(q)' = GotIds(q)
  BY <1>2, <1>3 DEF Rebuilds, GotIds
<1> QED BY <1>1, <1>3, <1>4 DEF PhaseFits

LEMMA StartFits ==
  ASSUME Typed, NEW r \in Requests,
         AskPut(r) \/ TakeIngest(r) \/ AskRebuild(r) \/ AskTask(r)
  PROVE  \E op \in Ops, P \in SUBSET Pages :
           /\ Accept(r, op, req'[r].pc, P) /\ Touches(r) /\ req[r].pc = "new" /\ PhaseFits(r)'
           /\ req'[r].op = op /\ req'[r].paths = P /\ req'[r].todo = P /\ req'[r].snap = NoSnap
           /\ req'[r].got = {} /\ req'[r].skipped = {}
           /\ \/ op = "put" /\ req'[r].pc = "open"
              \/ op = "ingest" /\ req'[r].pc = "snapshot"
              \/ op = "rebuild" /\ req'[r].pc = "list"
              \/ AskTask(r) /\ op \in TaskOps /\ ~HasActiveTask(TargetOf(op)) /\ req'[r].pc = "list"
<1>1. PICK op \in Ops, l \in {"open", "snapshot", "list"}, P \in SUBSET Pages :
        /\ Accept(r, op, l, P)
        /\ \/ op = "put" /\ l = "open"
           \/ op = "ingest" /\ l = "snapshot"
           \/ op = "rebuild" /\ l = "list"
           \/ /\ AskTask(r) /\ op \in TaskOps /\ op \in {"task", "all", "knowledge"} /\ l = "list"
              /\ ~HasActiveTask(TargetOf(op))
  <2>1. CASE AskPut(r)
    BY <2>1 DEF AskPut, Ops
  <2>2. CASE TakeIngest(r)
    BY <2>2 DEF TakeIngest, Ops
  <2>3. CASE AskRebuild(r)
    BY <2>3 DEF AskRebuild, Ops
  <2>4. CASE AskTask(r)
    BY <2>4 DEF AskTask, Ops, TaskOps
  <2> QED BY <2>1, <2>2, <2>3, <2>4
<1>2. l \in Pcs \ {"ended"}
  BY <1>1 DEF Pcs
<1>3. /\ Touches(r) /\ req[r].op = "none" /\ req[r].pc = "new"
      /\ req'[r].op = op /\ req'[r].pc = l /\ req'[r].todo = P /\ req'[r].paths = P
      /\ req'[r].snap = NoSnap /\ req'[r].got = {} /\ req'[r].ids = {} /\ req'[r].skipped = {}
  BY <1>1, <1>2, AcceptEffect
<1>4. PhaseFits(r)'
  BY <1>1, <1>3, FreshRecords DEF PhaseFits, Rebuilds, Embedding
<1> QED BY <1>1, <1>3, <1>4

\* What an apply that fails does to the pages: nothing, unless git is busy.
LEMMA FailedApply ==
  ASSUME Typed, NEW r \in Requests, ApplyFails(r)
  PROVE  /\ AskApply(r) /\ Goto(r, "ended") /\ Meets(r, {})
         /\ kept' = kept /\ behind' = behind \cup Changed
         /\ page' \in [Pages -> Contents] /\ index' \in [Pages -> Contents]
         /\ gitBusy' \in BOOLEAN
         /\ gitBusy' = FALSE => gitBusy = FALSE /\ page' = page
<1>1. PICK P \in SUBSET DOMAIN req[r].snap, busy \in BOOLEAN :
        \E first \in Git(page, index, busy) : \E staged \in Git(first, Over(page, P, r), busy) :
           Rollback(r, P, staged, busy)
  BY DEF ApplyFails
<1>2. PICK first \in Git(page, index, busy) :
         \E staged \in Git(first, Over(page, P, r), busy) : Rollback(r, P, staged, busy)
  BY <1>1
<1>3. PICK staged \in Git(first, Over(page, P, r), busy) : Rollback(r, P, staged, busy)
  BY <1>2
<1>4. page \in [Pages -> Contents] /\ index \in [Pages -> Contents]
  BY DEF Typed, TypeOK
<1>5. \A p \in DOMAIN req[r].snap : req[r].snap[p] \in Contents
  BY RecordOf, SnapFacts
<1>6. Over(page, P, r) \in [Pages -> Contents]
  BY <1>4, <1>5 DEF Over
<1>7. first \in {page, index} /\ staged \in {first, Over(page, P, r)}
  BY DEF Git
<1>8. staged \in [Pages -> Contents]
  BY <1>4, <1>6, <1>7
<1> DEFINE cleaned == [p \in Pages |-> IF staged[p] = None THEN None ELSE Over(page, P, r)[p]]
<1>9. page' \in Git(staged, cleaned, busy) /\ index' = staged
  BY <1>3 DEF Rollback
<1>10. cleaned \in [Pages -> Contents]
  BY <1>6 DEF Contents
<1> HIDE DEF cleaned
<1>11. page' \in [Pages -> Contents]
  BY <1>8, <1>9, <1>10 DEF Git
<1>12. /\ AskApply(r) /\ Goto(r, "ended") /\ Meets(r, {})
       /\ kept' = kept /\ behind' = behind \cup Changed /\ gitBusy' = (gitBusy \/ busy)
  BY <1>3 DEF Rollback
<1>13. gitBusy \in BOOLEAN
  BY DEF Typed, TypeOK
<1>14. CASE busy = TRUE
  <2>1. gitBusy' = (gitBusy \/ TRUE)
    BY <1>12, <1>14
  <2>2. gitBusy' = TRUE
    BY <2>1
  <2> QED BY <1>8, <1>9, <1>11, <1>12, <2>2
<1>15. CASE busy = FALSE
  <2>1. gitBusy' = (gitBusy \/ FALSE)
    BY <1>12, <1>15
  <2>2. gitBusy' = gitBusy
    BY <1>13, <2>1
  <2>3. page' = page
    BY <1>3, <1>9, <1>15 DEF Git
  <2> QED BY <1>8, <1>9, <1>11, <1>12, <1>13, <2>2, <2>3
<1> QED BY <1>14, <1>15

LEMMA PageFits ==
  ASSUME Typed, NEW r \in Requests,
         Snapshot(r) \/ OpenPage(r) \/ WritePage(r) \/ IngestFails(r) \/ RestorePage(r)
  PROVE  Touches(r) /\ PhaseFits(r)'
<1>1. PhaseFits(r)
  BY DEF Typed
<1>2. CASE Snapshot(r)
  <2>1. PICK p \in req[r].todo :
          /\ Keeps(r)
          /\ req'[r].snap = With(req[r].snap, p, page[p])
          /\ req'[r].got = req[r].got /\ req'[r].skipped = req[r].skipped
          /\ \/ /\ req[r].todo = {p} /\ req'[r].todo = req[r].paths /\ req'[r].pc = "open"
             \/ /\ req'[r].todo = req[r].todo \ {p} /\ req'[r].pc = "snapshot"
    BY <1>2, SnapshotEffect
  <2>2. req[r].pc = "snapshot" /\ Touches(r)
    BY <1>2, SnapshotEffect
  <2>3. DOMAIN req'[r].snap = DOMAIN req[r].snap \cup {p}
    <3>1. p \in Pages /\ req[r].snap \in Snaps
      BY RecordOf
    <3>2. page[p] \in Contents
      BY <3>1 DEF Typed, TypeOK
    <3>3. DOMAIN With(req[r].snap, p, page[p]) = DOMAIN req[r].snap \cup {p}
      BY <3>1, <3>2, WithSnap
    <3>4. req'[r].snap = With(req[r].snap, p, page[p])
      BY <2>1
    <3> QED BY <3>3, <3>4
  <2>8. req[r].op = "ingest"
    BY <1>1, <2>2, RecordOf DEF PhaseFits, Rebuilds, Embedding, Ops
  <2>5. /\ req[r].op = "ingest" /\ DOMAIN req[r].snap = req[r].paths \ req[r].todo
        /\ req[r].got = {} /\ req[r].skipped = {} /\ req[r].todo \subseteq req[r].paths
    BY <1>1, <2>2, <2>8 DEF PhaseFits
  <2>9. DOMAIN req'[r].snap = req[r].paths \ (req[r].todo \ {p})
    BY <2>3, <2>5
  <2>6. CASE req[r].todo = {p} /\ req'[r].todo = req[r].paths /\ req'[r].pc = "open"
    <3>1. DOMAIN req'[r].snap = req[r].paths
      BY <2>6, <2>9
    <3>2. ~Rebuilds(r)'
      BY <2>1, <2>8 DEF Rebuilds, Keeps
    <3>3. req'[r].op = "ingest" /\ req'[r].paths = req[r].paths /\ req'[r].got = {} /\ req'[r].skipped = {}
      BY <2>1, <2>5, <2>8 DEF Keeps
    <3> QED BY <2>2, <2>6, <3>1, <3>2, <3>3 DEF PhaseFits, Embedding
  <2>7. CASE req'[r].todo = req[r].todo \ {p} /\ req'[r].pc = "snapshot"
    <3>2. ~Rebuilds(r)'
      BY <2>1, <2>8 DEF Rebuilds, Keeps
    <3>3. req'[r].op = "ingest" /\ req'[r].paths = req[r].paths /\ req'[r].got = {} /\ req'[r].skipped = {}
      BY <2>1, <2>5, <2>8 DEF Keeps
    <3> QED BY <2>2, <2>5, <2>7, <2>9, <3>2, <3>3 DEF PhaseFits, Embedding
  <2> QED BY <2>1, <2>6, <2>7
<1>3. CASE OpenPage(r)
  BY <1>1, <1>3, OpenEffect DEF PhaseFits, Rebuilds, Embedding, Keeps, Rest
<1>4. CASE WritePage(r)
  BY <1>1, <1>4, WriteEffect DEF PhaseFits, Rebuilds, Embedding, Keeps, Rest
<1>5. CASE IngestFails(r)
  BY <1>1, <1>5, FailEffect DEF PhaseFits, Rebuilds, Embedding, Keeps, Rest
<1>6. CASE RestorePage(r)
  <2>1. CASE req'[r] = Ended
    BY <1>6, <2>1, RestoreEffect, EndedFits
  <2>2. CASE req'[r] # Ended
    <3>1. /\ Touches(r) /\ Keeps(r) /\ Rest(r) /\ req[r].pc = "restore" /\ req'[r].pc = "restore"
          /\ req'[r].todo \subseteq req[r].todo
      BY <1>6, <2>2, RestoreEffect
    <3> QED BY <1>1, <3>1 DEF PhaseFits, Rebuilds, Embedding, Keeps, Rest
  <2> QED BY <2>1, <2>2
<1> QED BY <1>2, <1>3, <1>4, <1>5, <1>6
\* The steps that end a request at once.
Ends(r) == Finalize(r) \/ DropRepair(r) \/ Apply(r) \/ ApplyFails(r) \/ RebuildCases(r)

LEMMA EndsEffect ==
  ASSUME Typed, NEW r \in Requests, Ends(r)
  PROVE  Touches(r) /\ req'[r] = Ended /\ PhaseFits(r)'
<1>1. Goto(r, "ended") /\ "ended" \in Pcs
  BY FailedApply DEF Ends, Finalize, DropRepair, Apply, RebuildCases, Pcs
<1> QED BY <1>1, GotoEffect, EndedFits

Repairs(r) == CopyWiki(r) \/ EditPage(r) \/ Collect(r)

LEMMA RepairsEffect ==
  ASSUME Typed, NEW r \in Requests, Repairs(r)
  PROVE  /\ Touches(r) /\ PhaseFits(r)' /\ Quiet
         /\ req[r].op \in {"none", "repair"} /\ req'[r].op = "repair" 
         /\ req[r].pc \notin {"list", "snapshot", "open", "write", "restore", "cases", "finalize"} \cup Embedding
         /\ req'[r].pc \in {"compile", "review"}
<1>1. Quiet
  BY DEF Repairs, CopyWiki, EditPage, Collect, Quiet
<1>2. /\ Touches(r) /\ req[r].op \in {"none", "repair"} /\ req'[r].op = "repair"
      /\ req'[r].pc \in {"compile", "review"} /\ req'[r].todo \subseteq req'[r].paths
  <2>1. req[r].todo \subseteq req[r].paths
    BY RecordOf
  <2>2. CASE CopyWiki(r)
    BY <2>2, CopyEffect
  <2>3. CASE EditPage(r)
    BY <2>1, <2>3, EditEffect
  <2>4. CASE Collect(r)
    BY <2>1, <2>4, CollectEffect
  <2> QED BY <2>2, <2>3, <2>4 DEF Repairs
<1>3. req[r].pc \notin {"list", "snapshot", "open", "write", "restore", "cases", "finalize"} \cup Embedding
  BY DEF Repairs, CopyWiki, EditPage, Collect, At, Embedding
<1>4. PhaseFits(r)'
  BY <1>2 DEF PhaseFits, Rebuilds, Embedding
<1> QED BY <1>1, <1>2, <1>3, <1>4

\* The steps of embed_pages that change the request only ...
Embeds(r) == ReadPage(r) \/ NoVectors(r) \/ Connect(r) \/ EmbedRaises(r)

\* ... and where they lead.
LEMMA EmbedsFit ==
  ASSUME Typed, NEW r \in Requests, Embeds(r) \/ DeleteChunks(r) \/ Store(r) \/ RemoveStore(r)
  PROVE  Touches(r) /\ PhaseFits(r)'
<1>1. PhaseFits(r)
  BY DEF Typed
<1>2. CASE ReadPage(r)
  BY <1>1, <1>2, ReadEffect, EndedFits DEF PhaseFits, Rebuilds, Embedding, Keeps
<1>3. CASE Connect(r)
  <2>1. GotIds(r)' = GotIds(r)
    BY <1>3, ConnectEffect DEF GotIds, Rest
  <2> QED BY <1>1, <1>3, <2>1, ConnectEffect DEF PhaseFits, Rebuilds, Embedding, Keeps, Rest
<1>4. CASE DeleteChunks(r)
  <2>1. GotIds(r)' = GotIds(r)
    BY <1>4, DeleteEffect DEF GotIds
  <2> QED BY <1>1, <1>4, <2>1, DeleteEffect DEF PhaseFits, Rebuilds, Embedding, Keeps
<1>5. CASE NoVectors(r) \/ EmbedRaises(r) \/ Store(r)
  <2>1. PICK l \in {After(r), AfterError(r)} : Goto(r, l)
    BY <1>5 DEF NoVectors, EmbedRaises, Store
  <2>2. /\ l \in Pcs
        /\ \/ l = "finalize" /\ req[r].op = "ingest"
           \/ l = "cases" /\ req[r].op = "all"
           \/ l = "ended"
    BY AfterFacts
  <2>3. CASE l = "ended"
    BY <2>1, <2>2, <2>3, GotoEffect, EndedFits
  <2>4. CASE l # "ended"
    <3>1. req[r].pc \in Embedding
      BY <1>5 DEF NoVectors, EmbedRaises, Store, At, Embedding
    <3> QED BY <1>1, <2>1, <2>2, <2>4, <3>1, GotoEffect DEF PhaseFits, Rebuilds, Embedding, Keeps, Rest
  <2> QED BY <2>3, <2>4
<1>6. CASE RemoveStore(r)
  <2>1. Touches(r) /\ req[r].pc = "list" /\ req[r].op \notin {"put", "ingest"}
    BY <1>1, <1>6, ListEffect DEF PhaseFits, Embedding
  <2>2. CASE req'[r] = Ended
    BY <2>1, <2>2, EndedFits
  <2>3. CASE /\ Rest(r) /\ req'[r].op = req[r].op /\ req'[r].paths = PagesThere
             /\ req'[r].todo = PagesThere /\ req'[r].pc = "read"
    BY <1>1, <2>1, <2>3 DEF PhaseFits, Rebuilds, Embedding, Rest
  <2>4. CASE /\ Keeps(r) /\ Rest(r) /\ req[r].op = "all" /\ req'[r].pc = "cases"
             /\ req'[r].todo = req[r].todo
    BY <1>1, <2>1, <2>4 DEF PhaseFits, Rebuilds, Embedding, Keeps, Rest
  <2> QED BY <1>6, <2>2, <2>3, <2>4, ListEffect
<1> QED BY <1>2, <1>3, <1>4, <1>5, <1>6 DEF Embeds

Starts(r) == AskPut(r) \/ TakeIngest(r) \/ AskRebuild(r) \/ AskTask(r)
PageSteps(r) == Snapshot(r) \/ OpenPage(r) \/ WritePage(r) \/ IngestFails(r) \/ RestorePage(r)
Step(r) == Starts(r) \/ PageSteps(r) \/ Ends(r) \/ Repairs(r) \/ Embeds(r) \/ DeleteChunks(r)
             \/ Store(r) \/ RemoveStore(r)

LEMMA NextSteps == Next => \E r \in Requests : Step(r)
BY DEF Next, Step, Starts, PageSteps, Ends, Repairs, Embeds

LEMMA StepFits ==
  ASSUME Typed, NEW r \in Requests, Step(r)
  PROVE  Touches(r) /\ \A q \in Requests : PhaseFits(q)'
<1>1. Touches(r) /\ PhaseFits(r)'
  BY StartFits, PageFits, EndsEffect, RepairsEffect, EmbedsFit DEF Step, Starts, PageSteps
<1> QED BY <1>1, OthersFit
QuietStep(r) == Snapshot(r) \/ IngestFails(r) \/ DropRepair(r) \/ RebuildCases(r) \/ Repairs(r)
                  \/ Embeds(r)

LEMMA QuietSteps ==
  ASSUME NEW r \in Requests, QuietStep(r)
  PROVE  Quiet
BY DEF QuietStep, Snapshot, IngestFails, DropRepair, RebuildCases, Repairs, CopyWiki, EditPage,
       Collect, Embeds, ReadPage, NoVectors, Connect, EmbedRaises, Quiet

LEMMA PutsTypes ==
  ASSUME TypeOK, NEW p \in Pages, NEW t \in Contents, Puts(p, t)
  PROVE  page' \in [Pages -> Contents] /\ behind' \subseteq Pages
BY DEF TypeOK, Puts

LEMMA MeetsTypes ==
  ASSUME TypeOK, NEW r \in Requests, NEW P \in SUBSET Pages, Meets(r, P)
  PROVE  calm' \in BOOLEAN /\ lone' \subseteq Requests /\ clash' \subseteq Pages
<1>1. lone' \subseteq Requests /\ clash' \subseteq Pages
  BY DEF TypeOK, Meets
<1>2. calm' \in BOOLEAN
  BY Zenon DEF Meets
<1> QED BY <1>1, <1>2

LEMMA OverTypes ==
  ASSUME Typed, NEW r \in Requests, NEW f \in [Pages -> Contents],
         NEW P \in SUBSET DOMAIN req[r].snap
  PROVE  Over(f, P, r) \in [Pages -> Contents]
<1>1. \A p \in DOMAIN req[r].snap : req[r].snap[p] \in Contents
  BY RecordOf, SnapFacts
<1> QED BY <1>1 DEF Over

LEMMA ApplyTypes ==
  ASSUME Typed, NEW r \in Requests, Apply(r) \/ ApplyFails(r)
  PROVE  /\ page' \in [Pages -> Contents] /\ index' \in [Pages -> Contents]
         /\ kept' \in [Pages -> Contents] /\ behind' \subseteq Pages /\ gitBusy' \in BOOLEAN
         /\ calm' \in BOOLEAN /\ lone' \subseteq Requests /\ clash' \subseteq Pages
         /\ UNCHANGED <<app, table, rows>>
<1>1. /\ page \in [Pages -> Contents] /\ index \in [Pages -> Contents]
      /\ kept \in [Pages -> Contents] /\ behind \subseteq Pages /\ gitBusy \in BOOLEAN
  BY DEF Typed, TypeOK
<1>2. UNCHANGED <<app, table, rows>> /\ DOMAIN req[r].snap \subseteq Pages
  BY RecordOf, SnapFacts, FailedApply DEF Apply, AskApply
<1>3. CASE Apply(r)
  <2> DEFINE P == DOMAIN req[r].snap
  <2>1. Meets(r, P) /\ page' = Over(page, P, r) /\ kept' = Over(kept, P, r)
        /\ behind' = behind \cup P /\ gitBusy' = gitBusy
    BY <1>3 DEF Apply
  <2>2. page' \in [Pages -> Contents] /\ kept' \in [Pages -> Contents]
    BY <1>1, <2>1, OverTypes
  <2>3. \E first \in {page, index} : index' \in {page', first}
    BY <1>3 DEF Apply, Git
  <2>4. index' \in [Pages -> Contents]
    BY <1>1, <2>2, <2>3
  <2>5. calm' \in BOOLEAN /\ lone' \subseteq Requests /\ clash' \subseteq Pages
    BY <1>2, <2>1, MeetsTypes DEF Typed
  <2> QED BY <1>1, <1>2, <2>1, <2>2, <2>4, <2>5
<1>4. CASE ApplyFails(r)
  <2>1. /\ Meets(r, {}) /\ behind' = behind \cup Changed /\ kept' = kept
        /\ page' \in [Pages -> Contents] /\ index' \in [Pages -> Contents]
    BY <1>4, FailedApply
  <2>2. gitBusy' \in BOOLEAN
    BY <1>4, FailedApply
  <2>3. calm' \in BOOLEAN /\ lone' \subseteq Requests /\ clash' \subseteq Pages
    BY <2>1, MeetsTypes DEF Typed
  <2> QED BY <1>1, <1>2, <2>1, <2>2, <2>3 DEF Changed
<1> QED BY <1>3, <1>4

LEMMA StepTypes ==
  ASSUME Typed, NEW r \in Requests, Step(r)
  PROVE  TypeOK'
<1>1. TypeOK /\ req' \in [Requests -> Record]
  BY StepFits DEF Typed, Touches
<1>2. CASE Starts(r)
  <2>1. PICK op \in Ops, P \in SUBSET Pages : Accept(r, op, req'[r].pc, P)
    BY <1>2, StartFits DEF Starts
  <2>2. Meets(r, P) /\ UNCHANGED <<app, wikiVars, table, rows, behind>>
    BY <2>1 DEF Accept
  <2>3. calm' \in BOOLEAN /\ lone' \subseteq Requests /\ clash' \subseteq Pages
    BY <1>1, <2>2, MeetsTypes
  <2> QED BY <1>1, <2>2, <2>3 DEF TypeOK, wikiVars
<1>3. CASE QuietStep(r)
  BY <1>1, <1>3, QuietSteps DEF TypeOK, Quiet, wikiVars, storeVars, Frame
<1>4. CASE OpenPage(r)
  <2>1. PICK p \in req[r].todo : Puts(p, Empty)
    BY <1>4 DEF OpenPage
  <2>2. page' \in [Pages -> Contents] /\ behind' \subseteq Pages
    BY <1>1, <2>1, PutsTypes, RecordOf DEF Contents
  <2> QED BY <1>1, <1>4, <2>2 DEF TypeOK, OpenPage, Frame
<1>5. CASE WritePage(r)
  <2>1. PICK p \in req[r].todo, t \in {r, Empty} :
          /\ Puts(p, t) /\ kept' = IF req[r].op = "put" THEN [kept EXCEPT ![p] = t] ELSE kept
    BY <1>5, WriteEffect
  <2>2. t \in Contents /\ p \in Pages
    BY RecordOf DEF Contents, Texts
  <2>3. page' \in [Pages -> Contents] /\ behind' \subseteq Pages /\ kept' \in [Pages -> Contents]
    BY <1>1, <2>1, <2>2, PutsTypes DEF TypeOK
  <2> QED BY <1>1, <1>5, <2>3 DEF TypeOK, WritePage, Frame
<1>6. CASE RestorePage(r)
  <2>1. PICK p \in req[r].todo : Puts(p, req[r].snap[p])
    BY <1>6 DEF RestorePage
  <2>2. req[r].op = "ingest" /\ p \in DOMAIN req[r].snap
    <3>1. req[r].pc = "restore" /\ PhaseFits(r) /\ req[r].op \in Ops
      BY <1>6, RecordOf DEF RestorePage, At, Typed
    <3>2. req[r].op = "ingest"
      BY <3>1 DEF PhaseFits, Rebuilds, Embedding, Ops
    <3> QED BY <3>1, <3>2, RecordOf DEF PhaseFits
  <2>3. p \in Pages /\ req[r].snap[p] \in Contents
    BY <2>2, RecordOf, SnapFacts
  <2>4. page' \in [Pages -> Contents] /\ behind' \subseteq Pages
    BY <1>1, <2>1, <2>3, PutsTypes
  <2> QED BY <1>1, <1>6, <2>4 DEF TypeOK, RestorePage, Frame
<1>7. CASE Finalize(r)
  <2>1. kept' = [p \in Pages |-> IF p \in req[r].paths THEN r ELSE kept[p]]
    BY <1>7 DEF Finalize
  <2>2. kept' \in [Pages -> Contents]
    BY <1>1, <2>1 DEF TypeOK, Contents, Texts
  <2> QED BY <1>1, <1>7, <2>2 DEF TypeOK, Finalize, storeVars, Frame
<1>8. CASE Apply(r) \/ ApplyFails(r)
  BY <1>1, <1>8, ApplyTypes DEF TypeOK
<1>9. CASE DeleteChunks(r)
  <2>1. rows' \subseteq rows
    BY <1>9 DEF DeleteChunks
  <2> QED BY <1>1, <1>9, <2>1 DEF TypeOK, DeleteChunks, wikiVars, Frame
<1>10. CASE Store(r)
  <2>1. calm' \in BOOLEAN
    BY <1>10, Zenon DEF Store
  <2>2. table' = TRUE /\ rows' = rows \cup req[r].got /\ behind' \subseteq behind
    BY <1>10 DEF Store
  <2>3. rows' \subseteq Chunks /\ behind' \subseteq Pages
    BY <1>1, <2>2, RecordOf DEF TypeOK
  <2> QED BY <1>1, <1>10, <2>1, <2>2, <2>3 DEF TypeOK, Store, wikiVars, Frame
<1>11. CASE RemoveStore(r)
  BY <1>1, <1>11 DEF TypeOK, RemoveStore, Lists, wikiVars, Frame
<1> QED BY <1>2, <1>3, <1>4, <1>5, <1>6, <1>7, <1>8, <1>9, <1>10, <1>11
        DEF Step, PageSteps, Ends, QuietStep

LEMMA InitTyped == Init => Typed
<1> SUFFICES ASSUME Init PROVE Typed
  OBVIOUS
<1>1. page \in [Pages -> Contents] /\ index \in [Pages -> Contents]
  BY DEF Init, Contents, Texts
<1>2. TypeOK
  BY <1>1, FreshRecords DEF Init, TypeOK
<1>3. ASSUME NEW r \in Requests PROVE PhaseFits(r)
  BY DEF Init, PhaseFits, Fresh, Rebuilds, Embedding
<1> QED BY <1>2, <1>3 DEF Typed
-----------------------------------------------------------------------------
(* Who is at work, and who is alone.                                         *)

\* A request is at work from its first step to its end, as what it began; a repair
\* is at work in the one step of its apply only.
LEMMA Activity ==
  ASSUME Typed, NEW r \in Requests, Step(r)
  PROVE  /\ Active(r)' => Starts(r) \/ (Active(r) /\ req'[r].op = req[r].op)
         /\ \A q \in Requests \ {r} : /\ Active(q)' <=> Active(q)
                                      /\ req'[q].op = req[q].op /\ req'[q].pc = req[q].pc
                                      /\ req'[q].paths = req[q].paths
<1>1. \A q \in Requests \ {r} : /\ Active(q)' <=> Active(q)
                                /\ req'[q].op = req[q].op /\ req'[q].pc = req[q].pc
                                /\ req'[q].paths = req[q].paths
  BY StepFits DEF Touches, Others, Active
<1>2. ASSUME Active(r)', ~Starts(r) PROVE Active(r) /\ req'[r].op = req[r].op
  <2>1. ~(req'[r] = Ended) /\ ~Ends(r) /\ ~Repairs(r)
    <3>1. ~(req'[r] = Ended)
      BY <1>2, FreshRecords DEF Active
    <3> QED BY <1>2, <3>1, EndsEffect, RepairsEffect DEF Active
  <2>2. CASE PageSteps(r)
    BY <2>1, <2>2, SnapshotEffect, OpenEffect, WriteEffect, FailEffect, RestoreEffect
       DEF PageSteps, Keeps, Active
  <2>3. CASE ReadPage(r)
    BY <2>1, <2>3, ReadEffect DEF Keeps, Active
  <2>4. CASE Connect(r) \/ DeleteChunks(r) \/ RemoveStore(r)
    BY <2>1, <2>4, ConnectEffect, DeleteEffect, ListEffect DEF Keeps, Active
  <2>5. CASE NoVectors(r) \/ EmbedRaises(r) \/ Store(r)
    <3>1. PICK l \in {After(r), AfterError(r)} : Goto(r, l)
      BY <2>5 DEF NoVectors, EmbedRaises, Store
    <3>2. l \in Pcs
      BY AfterFacts
    <3>3. req[r].pc \in Embedding
      BY <2>5 DEF NoVectors, EmbedRaises, Store, At, Embedding
    <3> QED BY <2>1, <3>1, <3>2, <3>3, GotoEffect DEF Keeps, Active, Embedding
  <2> QED BY <1>2, <2>1, <2>2, <2>3, <2>4, <2>5 DEF Step, Embeds
<1> QED BY <1>1, <1>2

\* The steps in which a request meets those at work, and the others.
Meeting(r) == Starts(r) \/ Apply(r) \/ ApplyFails(r)

LEMMA Meetings ==
  ASSUME Typed, NEW r \in Requests, Step(r)
  PROVE  /\ Meeting(r) => \E P \in SUBSET Pages : Meets(r, P)
         /\ ~Meeting(r) => /\ Frame
                           /\ calm' => calm \/ (Store(r) /\ r \in lone /\ Rebuilds(r))
<1>1. ASSUME Starts(r) PROVE \E P \in SUBSET Pages : Meets(r, P)
  BY <1>1, StartFits DEF Starts, Accept
<1>2. ASSUME Apply(r) PROVE \E P \in SUBSET Pages : Meets(r, P)
  BY <1>2, RecordOf, SnapFacts DEF Apply
<1>3. ASSUME ApplyFails(r) PROVE \E P \in SUBSET Pages : Meets(r, P)
  BY <1>3, FailedApply
<1>4. ASSUME QuietStep(r) PROVE Frame /\ calm' = calm
  BY <1>4, QuietSteps DEF Quiet, storeVars
<1>5. ASSUME OpenPage(r) \/ WritePage(r) \/ RestorePage(r) \/ Finalize(r) \/ DeleteChunks(r)
               \/ RemoveStore(r)
      PROVE  Frame /\ calm' = calm
  BY <1>5 DEF OpenPage, WritePage, RestorePage, Finalize, DeleteChunks, RemoveStore, Lists, storeVars
<1>6. ASSUME Store(r) PROVE Frame /\ (calm' => calm \/ (Store(r) /\ r \in lone /\ Rebuilds(r)))
  <2>1. Frame /\ calm' = (calm \/ (r \in lone /\ Rebuilds(r)))
    BY <1>6 DEF Store
  <2> QED BY <1>6, <2>1, Zenon
<1>7. ASSUME ~Meeting(r)
      PROVE  Frame /\ (calm' => calm \/ (Store(r) /\ r \in lone /\ Rebuilds(r)))
  BY <1>4, <1>5, <1>6, <1>7 DEF Step, Meeting, PageSteps, Ends, QuietStep
<1> QED BY <1>1, <1>2, <1>3, <1>7 DEF Meeting

LEMMA MeetsFacts ==
  ASSUME NEW r \in Requests, NEW P \in SUBSET Pages, Meets(r, P)
  PROVE  /\ calm' => calm /\ \A q \in Requests \ {r} : ~Active(q)
         /\ \A q \in lone' : q = r /\ \A x \in Requests \ {r} : ~Active(x)
         /\ clash' = clash \cup {p \in P : Writers(p) # {}}
<1> DEFINE others == {q \in Requests \ {r} : Active(q)}
<1>1. /\ calm' = (calm /\ others = {})
      /\ lone' = IF others = {} THEN {r} ELSE {}
      /\ clash' = clash \cup {p \in P : Writers(p) # {}}
  BY DEF Meets
<1>2. others = {} <=> \A q \in Requests \ {r} : ~Active(q)
  OBVIOUS
<1> HIDE DEF others
<1>3. calm' => calm /\ others = {}
  BY <1>1, Zenon
<1> QED BY <1>1, <1>2, <1>3

LEMMA StepAlone ==
  ASSUME Typed, AloneIsAlone, NEW r \in Requests, Step(r)
  PROVE  AloneIsAlone'
<1>1. CASE Meeting(r)
  <2>1. PICK P \in SUBSET Pages : Meets(r, P)
    BY <1>1, Meetings
  <2>2. \A q \in Requests \ {r} : Active(q)' <=> Active(q)
    BY Activity
  <2>3. ASSUME NEW x \in lone', NEW q \in Requests, Active(q)' PROVE q = x
    BY <2>1, <2>2, <2>3, MeetsFacts
  <2>4. ASSUME calm', NEW p \in Requests, NEW q \in Requests, Active(p)', Active(q)' PROVE p = q
    BY <2>1, <2>2, <2>4, MeetsFacts
  <2> QED BY <2>3, <2>4 DEF AloneIsAlone, Active
<1>2. CASE ~Meeting(r)
  <2>1. lone' = lone /\ (calm' => calm \/ r \in lone)
    BY <1>2, Meetings DEF Frame
  <2>2. \A q \in Requests : Active(q)' => Active(q)
    BY <1>2, Activity DEF Meeting
  <2>3. ASSUME NEW x \in lone', NEW q \in Requests, Active(q)' PROVE q = x
    BY <2>1, <2>2, <2>3 DEF AloneIsAlone
  <2>4. ASSUME calm', NEW p \in Requests, NEW q \in Requests, Active(p)', Active(q)' PROVE p = q
    BY <2>1, <2>2, <2>4 DEF AloneIsAlone
  <2> QED BY <2>3, <2>4 DEF AloneIsAlone, Active
<1> QED BY <1>1, <1>2

\* The check and the new entry are one step.
LEMMA StepTasks ==
  ASSUME Typed, OneTaskPerTarget, NEW r \in Requests, Step(r)
  PROVE  OneTaskPerTarget'
<1> SUFFICES ASSUME NEW p \in Requests, NEW q \in Requests, p # q, Active(p)', Active(q)',
                    {req'[p].op, req'[q].op} \subseteq TaskOps'
             PROVE  TargetOf(req'[p].op) # TargetOf(req'[q].op)
  BY DEF OneTaskPerTarget
<1>1. TaskOps' = TaskOps
  <2>1. app' = app
    <3>1. CASE Starts(r)
      BY <3>1, StartFits DEF Starts, Accept
    <3>2. CASE Apply(r) \/ ApplyFails(r)
      BY <3>2, ApplyTypes
    <3>3. CASE ~Meeting(r)
      BY <3>3, Meetings DEF Frame
    <3> QED BY <3>1, <3>2, <3>3 DEF Meeting
  <2> QED BY <2>1 DEF TaskOps
<1>2. CASE ~Starts(r)
  <2>1. /\ Active(p) /\ req'[p].op = req[p].op /\ Active(q) /\ req'[q].op = req[q].op
    BY <1>2, Activity
  <2> QED BY <1>1, <2>1 DEF OneTaskPerTarget
<1>3. CASE Starts(r)
  <2>1. PICK op \in Ops : /\ req'[r].op = op
                          /\ \/ op \in {"put", "ingest", "rebuild"}
                             \/ op \in TaskOps /\ ~HasActiveTask(TargetOf(op))
    BY <1>3, StartFits DEF Starts
  <2>2. \A x \in Requests \ {r} : (Active(x)' <=> Active(x)) /\ req'[x].op = req[x].op
    BY Activity
  <2>3. {"put", "ingest", "rebuild"} \cap TaskOps = {}
    BY DEF TaskOps
  <2>4. ASSUME NEW x \in Requests \ {r}, Active(x)', {req'[r].op, req'[x].op} \subseteq TaskOps
        PROVE  TargetOf(req'[r].op) # TargetOf(req'[x].op)
    BY <2>1, <2>2, <2>3, <2>4 DEF HasActiveTask
  <2>5. CASE p = r
    BY <1>1, <2>4, <2>5
  <2>6. CASE q = r
    BY <1>1, <2>4, <2>6
  <2>7. CASE p # r /\ q # r
    BY <1>1, <2>2, <2>7 DEF OneTaskPerTarget
  <2> QED BY <2>5, <2>6, <2>7
<1> QED BY <1>2, <1>3
-----------------------------------------------------------------------------
(* Saved pages stay.                                                         *)

Writes(r) == req[r].op \in {"put", "ingest"}
Mine(r) == IF Writes(r) THEN req[r].paths ELSE {}

LEMMA WritersAre ==
  ASSUME Typed, NEW r \in Requests
  PROVE  /\ \A p \in Pages : r \in Writers(p) <=> p \in Mine(r)
         /\ Writes(r) => Active(r)
         /\ req[r].pc \in {"open", "write"} => Writes(r)
         /\ req[r].pc \in {"snapshot", "restore", "finalize"} => req[r].op = "ingest"
         /\ req[r].pc \in {"list", "cases"} => Rebuilds(r) /\ ~Writes(r)
<1>1. PhaseFits(r) /\ req[r].op \in Ops
  BY RecordOf DEF Typed
<1>2. Writes(r) => Active(r)
  BY <1>1 DEF Writes, Active, PhaseFits, Embedding
<1>3. \A p \in Pages : r \in Writers(p) <=> p \in Mine(r)
  BY <1>2 DEF Writers, Mine, Writes
<1> QED BY <1>1, <1>2, <1>3 DEF PhaseFits, Writes, Rebuilds, Embedding, Ops

\* The steps of an embedding change nothing that the pages follow.
EmbedStep(r) == Embeds(r) \/ DeleteChunks(r) \/ Store(r)

LEMMA EmbedsGoOn ==
  ASSUME Typed, NEW r \in Requests, EmbedStep(r)
  PROVE  /\ req[r].pc \in Embedding
         /\ \/ req'[r] = Ended /\ req[r].op # "ingest"
            \/ /\ Keeps(r) /\ req'[r].snap = req[r].snap
               /\ req'[r].pc \in Embedding \cup {"finalize", "cases"}
<1>1. CASE ReadPage(r)
  BY <1>1, ReadEffect DEF Embedding
<1>2. CASE Connect(r)
  BY <1>2, ConnectEffect DEF Embedding, Rest
<1>3. CASE DeleteChunks(r)
  BY <1>3, DeleteEffect DEF Embedding
<1>4. CASE NoVectors(r) \/ EmbedRaises(r) \/ Store(r)
  <2>1. PICK l \in {After(r), AfterError(r)} : Goto(r, l)
    BY <1>4 DEF NoVectors, EmbedRaises, Store
  <2>2. l \in Pcs /\ (l = "finalize" \/ l = "cases" \/ (l = "ended" /\ req[r].op # "ingest"))
    BY AfterFacts
  <2>3. req[r].pc \in Embedding
    BY <1>4 DEF NoVectors, EmbedRaises, Store, At, Embedding
  <2>4. CASE l = "ended"
    BY <2>1, <2>2, <2>3, <2>4, GotoEffect
  <2>5. CASE l # "ended"
    BY <2>1, <2>2, <2>3, <2>5, GotoEffect DEF Rest
  <2> QED BY <2>4, <2>5
<1> QED BY <1>1, <1>2, <1>3, <1>4 DEF EmbedStep, Embeds

\* What others do to other pages does not matter to a writer.
LEMMA OthersFollow ==
  ASSUME Typed, NEW r \in Requests, Touches(r), NEW q \in Requests \ {r}, PagesFollow(q),
         clash \subseteq clash',
         \A p \in Mine(q) \ clash' : page'[p] = page[p] /\ kept'[p] = kept[p]
  PROVE  PagesFollow(q)'
<1>1. /\ req'[q].op = req[q].op /\ req'[q].pc = req[q].pc /\ req'[q].todo = req[q].todo
      /\ req'[q].paths = req[q].paths /\ req'[q].snap = req[q].snap /\ req'[q].ids = req[q].ids
  BY DEF Touches, Others
<1>2. CASE req[q].op = "put"
  BY <1>1, <1>2 DEF PagesFollow, Mine, Writes
<1>3. CASE req[q].op = "ingest"
  <2>1. req'[q].op = "ingest" /\ \A p \in req[q].paths \ clash' : page'[p] = page[p] /\ kept'[p] = kept[p]
    BY <1>1, <1>3 DEF Mine, Writes
  <2> QED BY <1>1, <1>3, <2>1 DEF PagesFollow
<1>4. CASE req[q].op \notin {"put", "ingest"}
  BY <1>1, <1>4 DEF PagesFollow
<1> QED BY <1>2, <1>3, <1>4

\* A step that changes only pages of its own request.
LEMMA OwnPages ==
  ASSUME Typed, SavedStays, WritersFollow, NEW r \in Requests, Step(r), ~Starts(r),
         ~gitBusy, clash' = clash, \A p \in Pages \ Mine(r) : page'[p] = page[p] /\ kept'[p] = kept[p],
         PagesFollow(r)',
         ~Active(r)' => \A p \in Mine(r) \ clash : page'[p] = kept'[p]
  PROVE  SavedStays' /\ WritersFollow'
<1>1. clash' = clash /\ Touches(r)
  BY StepFits
<1>2. Typed'
  BY StepFits, StepTypes DEF Typed
<1>3. \A p \in Pages \ clash : \A q, x \in Writers(p) : q = x
  BY DEF WritersFollow
<1>4. \A q \in Requests \ {r} : Mine(q)' = Mine(q)
  BY <1>1 DEF Touches, Others, Mine, Writes
<1>5. Mine(r)' \subseteq Mine(r) /\ (Active(r)' => Mine(r)' = Mine(r))
  <2>1. Active(r)' => req'[r].op = req[r].op
    BY Activity
  <2>2. Active(r)' /\ Writes(r) => req'[r].paths = req[r].paths
    <3> SUFFICES ASSUME Active(r)', Writes(r) PROVE req'[r].paths = req[r].paths
      OBVIOUS
    <3>1. ~(req'[r] = Ended) /\ ~Ends(r) /\ ~Repairs(r)
      <4>1. ~(req'[r] = Ended)
        BY FreshRecords DEF Active
      <4> QED BY <4>1, EndsEffect, RepairsEffect DEF Active
    <3>2. ~RemoveStore(r)
      BY ListEffect, WritersAre
    <3>3. CASE PageSteps(r)
      BY <3>1, <3>3, SnapshotEffect, OpenEffect, WriteEffect, FailEffect, RestoreEffect
         DEF PageSteps, Keeps
    <3>4. CASE EmbedStep(r)
      BY <3>1, <3>4, EmbedsGoOn DEF Keeps
    <3> QED BY <3>1, <3>2, <3>3, <3>4 DEF Step, EmbedStep
  <2>3. ~Active(r)' => Mine(r)' = {}
    <3>1. Writes(r)' => Active(r)'
      BY <1>2 DEF Typed, PhaseFits, Writes, Active, Embedding
    <3> QED BY <3>1 DEF Mine
  <2> QED BY <2>1, <2>2, <2>3 DEF Mine, Writes
<1>6. \A p \in Pages \ clash, q \in Requests, x \in Requests : p \in Mine(q) /\ p \in Mine(x) => q = x
  BY <1>3, WritersAre
<1>7. \A p \in Pages \ clash' : \A q, x \in Writers(p)' : q = x
  <2>1. \A p \in Pages, q \in Requests : q \in Writers(p)' => p \in Mine(q)'
    BY DEF Writers, Mine, Writes
  <2> QED BY <1>1, <1>4, <1>5, <1>6, <2>1 DEF Writers
<1>8. ASSUME NEW q \in Requests PROVE PagesFollow(q)'
  <2>1. CASE q # r
    <3>1. \A p \in Mine(q) \ clash' : page'[p] = page[p] /\ kept'[p] = kept[p]
      <4>1. Mine(q) \subseteq Pages
        BY RecordOf DEF Mine
      <4> QED BY <1>1, <1>6, <2>1, <4>1
    <3> QED BY <1>1, <2>1, <3>1, OthersFollow DEF WritersFollow
  <2> QED BY <2>1
<1>9. ASSUME NEW p \in Pages \ clash', Writers(p)' = {} PROVE page'[p] = kept'[p]
  <2>1. \A q \in Requests : p \in Mine(q)' /\ Writes(q)' => q \in Writers(p)'
    BY <1>2 DEF Writers, Mine, Writes, Active, Typed, PhaseFits, Embedding
  <2>2. \A q \in Requests : p \notin Mine(q)'
    BY <1>9, <2>1 DEF Mine
  <2>3. CASE p \in Mine(r)
    BY <1>1, <1>5, <2>2, <2>3
  <2>4. CASE p \notin Mine(r)
    <3>1. \A q \in Requests : p \notin Mine(q)
      BY <1>4, <2>2, <2>4
    <3>2. Writers(p) = {}
      BY <3>1, WritersAre DEF Writers
    <3> QED BY <1>1, <2>4, <3>2 DEF SavedStays
  <2> QED BY <2>3, <2>4
<1> QED BY <1>7, <1>8, <1>9 DEF SavedStays, WritersFollow
LEMMA NotStarts ==
  ASSUME Typed, NEW r \in Requests,
         PageSteps(r) \/ Ends(r) \/ Repairs(r) \/ EmbedStep(r) \/ RemoveStore(r)
  PROVE  ~Starts(r)
<1> SUFFICES ASSUME Starts(r) PROVE FALSE
  OBVIOUS
<1>1. req[r].pc = "new" /\ req'[r].op # "repair"
  BY StartFits DEF Starts, TaskOps
<1>2. ~Repairs(r)
  BY <1>1, RepairsEffect
<1> QED BY <1>1, <1>2, FailedApply DEF PageSteps, Ends, EmbedStep, Embeds, RemoveStore, Lists, At,
        Snapshot, OpenPage, WritePage, IngestFails, RestorePage, Finalize, DropRepair, Apply, AskApply,
        RebuildCases, ReadPage, NoVectors, Connect, EmbedRaises, DeleteChunks, Store

\* The steps that leave the pages.
LeavesPages(r) == QuietStep(r) \/ DeleteChunks(r) \/ Store(r) \/ RemoveStore(r)

LEMMA QuietFollow ==
  ASSUME Typed, WritersFollow, NEW r \in Requests, ~gitBusy, LeavesPages(r),
         page' = page, kept' = kept, clash' = clash
  PROVE  /\ PagesFollow(r)'
         /\ ~Active(r)' => \A p \in Mine(r) \ clash : page[p] = kept[p]
<1>1. PagesFollow(r) /\ PhaseFits(r) /\ Touches(r) /\ req[r].op \in Ops
  BY RecordOf, StepFits DEF WritersFollow, Typed, Step, LeavesPages, QuietStep, PageSteps, Ends
<1>2. CASE EmbedStep(r)
  <2>1. req[r].pc \in Embedding
    BY <1>2, EmbedsGoOn
  <2>2. CASE req'[r] = Ended /\ req[r].op # "ingest"
    <3>1. req'[r].op \notin {"put", "ingest"}
      BY <2>2, FreshRecords
    <3>2. \A p \in Mine(r) \ clash : page[p] = kept[p]
      BY <1>1, <2>1, <2>2 DEF PagesFollow, Mine, Writes, Embedding
    <3> QED BY <3>1, <3>2 DEF PagesFollow
  <2>3. CASE /\ Keeps(r) /\ req'[r].snap = req[r].snap
             /\ req'[r].pc \in Embedding \cup {"finalize", "cases"}
    <3>1. ~(~Active(r)')
      BY <2>3 DEF Active, Embedding
    <3>2. CASE Writes(r)
      <4>1. req'[r].pc \in Embedding \cup {"finalize"}
        BY <2>3, <3>2, StepFits, <1>2 DEF Step, EmbedStep, PhaseFits, Writes, Keeps, Rebuilds, Embedding
      <4> QED BY <1>1, <2>1, <2>3, <3>1, <4>1 DEF PagesFollow, Keeps, Embedding
    <3>3. CASE ~Writes(r)
      BY <2>3, <3>1, <3>3 DEF PagesFollow, Keeps, Writes
    <3> QED BY <3>2, <3>3
  <2> QED BY <1>2, <2>2, <2>3, EmbedsGoOn
<1>3. CASE Snapshot(r)
  <2>1. PICK p \in req[r].todo :
          /\ Keeps(r)
          /\ req'[r].snap = With(req[r].snap, p, page[p])
          /\ \/ /\ req[r].todo = {p} /\ req'[r].todo = req[r].paths /\ req'[r].pc = "open"
             \/ /\ req'[r].todo = req[r].todo \ {p} /\ req'[r].pc = "snapshot"
    BY <1>3, SnapshotEffect
  <2>2. req[r].pc = "snapshot" /\ req[r].op = "ingest" /\ req[r].todo \subseteq req[r].paths
    BY <1>3, SnapshotEffect, WritersAre, RecordOf
  <2>3. p \in Pages /\ req[r].snap \in Snaps /\ page[p] \in Contents
    <3>1. p \in Pages
      BY RecordOf
    <3>2. req[r].snap \in Snaps
      BY RecordOf
    <3>3. page \in [Pages -> Contents]
      BY DEF Typed, TypeOK
    <3>4. page[p] \in Contents
      BY <3>1, <3>3
    <3> QED BY <3>1, <3>2, <3>4
  <2>4. /\ DOMAIN req'[r].snap = DOMAIN req[r].snap \cup {p} /\ req'[r].snap[p] = page[p]
        /\ \A q \in DOMAIN req[r].snap \ {p} : req'[r].snap[q] = req[r].snap[q]
    <3>1. /\ DOMAIN With(req[r].snap, p, page[p]) = DOMAIN req[r].snap \cup {p}
          /\ With(req[r].snap, p, page[p])[p] = page[p]
          /\ \A q \in DOMAIN req[r].snap \ {p} : With(req[r].snap, p, page[p])[q] = req[r].snap[q]
      BY DEF With
    <3>2. req'[r].snap = With(req[r].snap, p, page[p])
      BY <2>1
    <3> QED BY <3>1, <3>2
  <2>5. /\ \A q \in req[r].paths \ clash : page[q] = kept[q]
        /\ \A q \in (req[r].paths \ clash) \cap DOMAIN req[r].snap : req[r].snap[q] = kept[q]
    BY <1>1, <2>2 DEF PagesFollow
  <2>6. \A q \in (req'[r].paths \ clash) \cap DOMAIN req'[r].snap : req'[r].snap[q] = kept[q]
    BY <2>1, <2>2, <2>4, <2>5 DEF Keeps
  <2>7. Active(r)' /\ req'[r].op = "ingest" /\ req'[r].paths = req[r].paths
    BY <2>1, <2>2 DEF Active, Keeps
  <2> QED BY <2>1, <2>5, <2>6, <2>7 DEF PagesFollow, Embedding
<1>4. CASE IngestFails(r)
  <2>1. /\ req'[r].op = "ingest" /\ req'[r].paths = req[r].paths /\ req'[r].snap = req[r].snap
        /\ req'[r].pc = "restore" /\ req'[r].todo = DOMAIN req[r].snap
        /\ req[r].pc # "snapshot" /\ req[r].op = "ingest"
    BY <1>4, FailEffect DEF Keeps, Rest
  <2>2. DOMAIN req[r].snap = req[r].paths /\ Active(r)'
    BY <1>1, <2>1 DEF PhaseFits, Active
  <2> QED BY <1>1, <2>1, <2>2 DEF PagesFollow, Embedding
<1>5. CASE Repairs(r)
  <2>1. req'[r].op = "repair" /\ req[r].op \notin {"put", "ingest"}
    BY <1>5, RepairsEffect
  <2> QED BY <2>1 DEF PagesFollow, Mine, Writes
<1>6. CASE DropRepair(r) \/ RebuildCases(r) \/ RemoveStore(r)
  <2>1. ~Writes(r)
    BY <1>1, <1>6, WritersAre DEF DropRepair, RebuildCases, RemoveStore, Lists, At, PhaseFits, Writes
  <2>2. req'[r].op \in {req[r].op, "none"}
    BY <1>6, EndsEffect, ListEffect, FreshRecords DEF Ends, Keeps
  <2> QED BY <2>1, <2>2 DEF PagesFollow, Mine, Writes
<1> QED BY <1>2, <1>3, <1>4, <1>5, <1>6 DEF LeavesPages, QuietStep, EmbedStep

LEMMA QuietPages ==
  ASSUME Typed, SavedStays, WritersFollow, NEW r \in Requests, ~gitBusy, LeavesPages(r)
  PROVE  SavedStays' /\ WritersFollow'
<1>1. page' = page /\ kept' = kept /\ clash' = clash
  BY QuietSteps DEF LeavesPages, Quiet, wikiVars, Frame, DeleteChunks, Store, RemoveStore, Lists
<1>2. Step(r) /\ ~Starts(r)
  BY NotStarts DEF LeavesPages, Step, QuietStep, PageSteps, Ends, EmbedStep
<1> QED BY <1>1, <1>2, QuietFollow, OwnPages
LEMMA OpenFollows ==
  ASSUME Typed, SavedStays, WritersFollow, NEW r \in Requests, ~gitBusy, OpenPage(r)
  PROVE  SavedStays' /\ WritersFollow'
<1>1. PICK p \in req[r].todo :
        /\ Keeps(r) /\ Rest(r) /\ Puts(p, Empty)
        /\ req'[r].todo = req[r].todo /\ req'[r].pc = "write" /\ req'[r].ids = {p}
  BY OpenEffect
<1>2. req[r].pc = "open" /\ Writes(r) /\ p \in Mine(r)
  BY OpenEffect, WritersAre, RecordOf DEF Mine
<1>3. \A q \in Pages \ {p} : page'[q] = page[q]
  BY <1>1 DEF Puts, Typed, TypeOK
<1>4. kept' = kept /\ clash' = clash
  BY DEF OpenPage, Frame
<1>5. PagesFollow(r)
  BY DEF WritersFollow
<1>6. Active(r)' /\ req'[r].op = req[r].op /\ req'[r].paths = req[r].paths /\ req'[r].snap = req[r].snap
  BY <1>1 DEF Active, Keeps, Rest
<1>7. PagesFollow(r)'
  <2>1. Mine(r) = req[r].paths /\ req[r].paths \subseteq Pages
    BY <1>2, RecordOf DEF Mine
  <2>2. CASE req[r].op = "put"
    BY <1>1, <1>2, <1>3, <1>4, <1>5, <1>6, <2>1, <2>2 DEF PagesFollow
  <2>3. CASE req[r].op = "ingest"
    BY <1>1, <1>2, <1>3, <1>4, <1>5, <1>6, <2>1, <2>3 DEF PagesFollow, Embedding
  <2> QED BY <1>2, <2>2, <2>3 DEF Writes
<1>8. Step(r) /\ ~Starts(r)
  BY NotStarts DEF Step, PageSteps
<1> QED BY <1>2, <1>3, <1>4, <1>6, <1>7, <1>8, OwnPages

LEMMA WriteFollows ==
  ASSUME Typed, SavedStays, WritersFollow, NEW r \in Requests, ~gitBusy, WritePage(r)
  PROVE  SavedStays' /\ WritersFollow'
<1>1. PICK p \in req[r].todo, t \in {r, Empty} :
        /\ req[r].ids = {p} /\ (req[r].op # "put" => t = r)
        /\ Puts(p, t) /\ kept' = IF req[r].op = "put" THEN [kept EXCEPT ![p] = t] ELSE kept
        /\ Keeps(r) /\ Rest(r)
        /\ \/ /\ req[r].todo = {p} /\ req'[r].todo = req[r].paths /\ req'[r].pc = "read"
           \/ /\ req'[r].todo = req[r].todo \ {p} /\ req'[r].pc = "open"
  BY WriteEffect
<1>2. req[r].pc = "write" /\ Writes(r) /\ p \in Mine(r) /\ p \in Pages
  BY WriteEffect, WritersAre, RecordOf DEF Mine
<1>3. page'[p] = t /\ \A q \in Pages \ {p} : page'[q] = page[q]
  BY <1>1, <1>2 DEF Puts, Typed, TypeOK
<1>4. \A q \in Pages \ {p} : kept'[q] = kept[q]
  BY <1>1, <1>2 DEF Typed, TypeOK
<1>5. PagesFollow(r) /\ clash' = clash
  BY DEF WritersFollow, WritePage, Frame
<1>6. Active(r)' /\ req'[r].op = req[r].op /\ req'[r].paths = req[r].paths /\ req'[r].snap = req[r].snap
  BY <1>1 DEF Active, Keeps, Rest
<1>7. PagesFollow(r)'
  <2>1. Mine(r) = req[r].paths /\ req[r].paths \subseteq Pages
    BY <1>2, RecordOf DEF Mine
  <2>2. CASE req[r].op = "put"
    <3>1. kept'[p] = t
      BY <1>1, <1>2, <2>2 DEF Typed, TypeOK
    <3> QED BY <1>1, <1>2, <1>3, <1>4, <1>5, <1>6, <2>1, <2>2, <3>1 DEF PagesFollow
  <2>3. CASE req[r].op = "ingest"
    <3>1. t = r /\ kept' = kept
      BY <1>1, <2>3
    <3>2. \A q \in (req[r].paths \ clash) \ req[r].todo : page[q] = r
      BY <1>2, <1>5, <2>3 DEF PagesFollow
    <3>3. \A q \in (req[r].paths \ clash) \ (req[r].todo \ {p}) : page'[q] = r
      BY <1>3, <2>1, <3>1, <3>2
    <3>4. req'[r].pc = "read" => \A q \in req[r].paths \ clash : page'[q] = r
      BY <1>1, <3>3
    <3>5. req'[r].pc = "open" => \A q \in (req[r].paths \ clash) \ req'[r].todo : page'[q] = r
      BY <1>1, <3>3
    <3>6. req'[r].pc \in {"read", "open"}
      BY <1>1
    <3> QED BY <1>5, <1>6, <2>3, <3>1, <3>4, <3>5, <3>6 DEF PagesFollow, Embedding
  <2> QED BY <1>2, <2>2, <2>3 DEF Writes
<1>8. Step(r) /\ ~Starts(r)
  BY NotStarts DEF Step, PageSteps
<1> QED BY <1>2, <1>3, <1>4, <1>5, <1>6, <1>7, <1>8, OwnPages

LEMMA RestoreFollows ==
  ASSUME Typed, SavedStays, WritersFollow, NEW r \in Requests, ~gitBusy, RestorePage(r)
  PROVE  SavedStays' /\ WritersFollow'
<1>1. PICK p \in req[r].todo :
        /\ Puts(p, req[r].snap[p])
        /\ \/ req[r].todo = {p} /\ req'[r] = Ended
           \/ /\ Keeps(r) /\ Rest(r)
              /\ req'[r].todo = req[r].todo \ {p} /\ req'[r].pc = "restore"
  BY RestoreEffect
<1>2. req[r].pc = "restore" /\ req[r].op = "ingest" /\ req[r].paths \subseteq Pages
      /\ req[r].todo \subseteq req[r].paths
  BY RestoreEffect, WritersAre, RecordOf
<1>3. Mine(r) = req[r].paths /\ p \in Pages /\ p \in req[r].paths
  BY <1>1, <1>2 DEF Mine, Writes
<1>4. page'[p] = req[r].snap[p] /\ \A q \in Pages \ {p} : page'[q] = page[q]
  BY <1>1, <1>3 DEF Puts, Typed, TypeOK
<1>5. PagesFollow(r) /\ clash' = clash /\ kept' = kept
  BY DEF WritersFollow, RestorePage, Frame
<1>6. DOMAIN req[r].snap = req[r].paths
  BY <1>2 DEF Typed, PhaseFits
<1>7. \A q \in (req[r].paths \ clash) \ (req[r].todo \ {p}) : page'[q] = kept'[q]
  BY <1>2, <1>3, <1>4, <1>5, <1>6 DEF PagesFollow
<1>8. Step(r) /\ ~Starts(r)
  BY NotStarts DEF Step, PageSteps
<1>9. CASE req[r].todo = {p} /\ req'[r] = Ended
  <2>1. \A q \in Mine(r) \ clash : page'[q] = kept'[q]
    BY <1>3, <1>7, <1>9
  <2>2. PagesFollow(r)'
    BY <1>9, FreshRecords DEF PagesFollow
  <2> QED BY <1>3, <1>4, <1>5, <1>8, <2>1, <2>2, OwnPages
<1>10. CASE /\ Keeps(r) /\ Rest(r)
            /\ req'[r].todo = req[r].todo \ {p} /\ req'[r].pc = "restore"
  <2>1. Active(r)' /\ req'[r].op = "ingest" /\ req'[r].paths = req[r].paths
        /\ req'[r].snap = req[r].snap
    BY <1>2, <1>10 DEF Active, Keeps, Rest
  <2>2. PagesFollow(r)'
    BY <1>2, <1>5, <1>6, <1>7, <1>10, <2>1 DEF PagesFollow, Embedding
  <2> QED BY <1>3, <1>4, <1>5, <1>8, <2>1, <2>2, OwnPages
<1> QED BY <1>1, <1>9, <1>10

LEMMA FinalizeFollows ==
  ASSUME Typed, SavedStays, WritersFollow, NEW r \in Requests, ~gitBusy, Finalize(r)
  PROVE  SavedStays' /\ WritersFollow'
<1>1. /\ kept' = [p \in Pages |-> IF p \in req[r].paths THEN r ELSE kept[p]]
      /\ page' = page /\ clash' = clash /\ req[r].pc = "finalize"
  BY DEF Finalize, Frame, At
<1>2. req[r].op = "ingest" /\ Mine(r) = req[r].paths /\ req[r].paths \subseteq Pages
  BY <1>1, WritersAre, RecordOf DEF Mine, Writes
<1>3. \A p \in Mine(r) \ clash : page'[p] = kept'[p]
  BY <1>1, <1>2 DEF WritersFollow, PagesFollow
<1>4. \A p \in Pages \ Mine(r) : page'[p] = page[p] /\ kept'[p] = kept[p]
  BY <1>1, <1>2
<1>5. PagesFollow(r)'
  BY EndsEffect, FreshRecords DEF Ends, PagesFollow
<1>6. Step(r) /\ ~Starts(r)
  BY NotStarts DEF Step, Ends
<1> QED BY <1>1, <1>3, <1>4, <1>5, <1>6, OwnPages

\* Whoever begins, or applies, meets those who are writing its pages.
LEMMA StartFollows ==
  ASSUME Typed, SavedStays, WritersFollow, NEW r \in Requests, ~gitBusy, Starts(r)
  PROVE  SavedStays' /\ WritersFollow'
<1>1. PICK op \in Ops, P \in SUBSET Pages :
        /\ Accept(r, op, req'[r].pc, P) /\ Touches(r) /\ req[r].pc = "new"
        /\ req'[r].op = op /\ req'[r].paths = P /\ req'[r].todo = P /\ req'[r].snap = NoSnap
        /\ \/ op = "put" /\ req'[r].pc = "open"
           \/ op = "ingest" /\ req'[r].pc = "snapshot"
           \/ op \notin {"put", "ingest"}
  BY StartFits DEF Starts, TaskOps
<1>2. /\ Meets(r, P) /\ page' = page /\ kept' = kept
      /\ clash' = clash \cup {p \in P : Writers(p) # {}}
  BY <1>1 DEF Accept, wikiVars, Meets
<1>3. ~Active(r) /\ Typed'
  BY <1>1, StepFits, StepTypes DEF Active, Typed, Step
<1>4. \A p \in Pages, q \in Requests \ {r} : q \in Writers(p)' <=> q \in Writers(p)
  BY <1>1 DEF Touches, Others, Writers, Active
<1>5. \A p \in Pages : r \notin Writers(p) /\ (r \in Writers(p)' => p \in P)
  BY <1>1, <1>3 DEF Writers
<1>6. ASSUME NEW p \in P \ clash' PROVE Writers(p) = {} /\ page[p] = kept[p]
  BY <1>2 DEF SavedStays
<1>7. ASSUME NEW p \in Pages \ clash', NEW q \in Writers(p)', NEW x \in Writers(p)' PROVE q = x
  <2>1. q \in Requests /\ x \in Requests
    BY DEF Writers
  <2>2. CASE p \in P
    BY <1>4, <1>6, <2>1, <2>2
  <2>3. CASE p \notin P
    BY <1>2, <1>4, <1>5, <2>1, <2>3 DEF WritersFollow
  <2> QED BY <2>2, <2>3
<1>8. ASSUME NEW q \in Requests PROVE PagesFollow(q)'
  <2>1. CASE q = r
    <3>1. DOMAIN req'[r].snap = {}
      BY <1>1, FreshRecords
    <3>2. \A p \in P \ clash' : page'[p] = kept'[p]
      BY <1>2, <1>6
    <3> QED BY <1>1, <2>1, <3>1, <3>2 DEF PagesFollow, Embedding
  <2>2. CASE q # r
    BY <1>1, <1>2, <2>2, OthersFollow DEF WritersFollow
  <2> QED BY <2>1, <2>2
<1>9. ASSUME NEW p \in Pages \ clash', Writers(p)' = {} PROVE page'[p] = kept'[p]
  <2>1. Writers(p) = {}
    BY <1>4, <1>5, <1>9 DEF Writers
  <2> QED BY <1>2, <2>1 DEF SavedStays
<1> QED BY <1>7, <1>8, <1>9 DEF SavedStays, WritersFollow

LEMMA ApplyFollows ==
  ASSUME Typed, SavedStays, WritersFollow, NEW r \in Requests, ~gitBusy, Apply(r) \/ ApplyFails(r),
         ~gitBusy'
  PROVE  SavedStays' /\ WritersFollow'
<1>1. Ends(r) /\ Step(r) /\ Touches(r) /\ req'[r] = Ended
  BY EndsEffect DEF Ends, Step
<1>2. PICK P \in SUBSET Pages :
        /\ clash' = clash \cup {p \in P : Writers(p) # {}}
        /\ \A p \in Pages \ P : page'[p] = page[p] /\ kept'[p] = kept[p]
        /\ \A p \in P : page'[p] = kept'[p]
  <2>1. CASE Apply(r)
    <3> DEFINE P == DOMAIN req[r].snap
    <3>1. /\ clash' = clash \cup {p \in P : Writers(p) # {}}
          /\ page' = Over(page, P, r) /\ kept' = Over(kept, P, r)
      BY <2>1 DEF Apply, Meets
    <3>2. P \subseteq Pages
      BY RecordOf, SnapFacts
    <3>3. /\ \A p \in Pages \ P : page'[p] = page[p] /\ kept'[p] = kept[p]
          /\ \A p \in P : page'[p] = kept'[p]
      BY <3>1, <3>2 DEF Over
    <3> QED BY <3>1, <3>2, <3>3
  <2>2. CASE ApplyFails(r)
    <3>1. clash' = clash /\ kept' = kept
      BY <2>2, FailedApply DEF Meets
    <3>2. gitBusy' = FALSE
      BY <2>2, FailedApply
    <3>3. \A p \in Pages : page'[p] = page[p]
      BY <2>2, <3>2, FailedApply
    <3>4. clash' = clash \cup {p \in {} : Writers(p) # {}}
      BY <3>1
    <3>5. \A p \in Pages \ {} : page'[p] = page[p] /\ kept'[p] = kept[p]
      BY <3>1, <3>3
    <3> WITNESS {} \in SUBSET Pages
    <3> QED BY <3>4, <3>5
  <2> QED BY <2>1, <2>2
<1>3. \A p \in Pages : r \notin Writers(p)
  BY FailedApply DEF Apply, AskApply, At, Writers, Active
<1>4. \A p \in Pages : Writers(p)' = Writers(p)
  <2>1. \A p \in Pages, q \in Requests \ {r} : q \in Writers(p)' <=> q \in Writers(p)
    BY <1>1 DEF Touches, Others, Writers, Active
  <2>2. \A p \in Pages : r \notin Writers(p)'
    BY <1>1, FreshRecords DEF Writers
  <2> QED BY <1>3, <2>1, <2>2 DEF Writers
<1>5. ASSUME NEW q \in Requests PROVE PagesFollow(q)'
  <2>1. CASE q = r
    BY <1>1, <2>1, FreshRecords DEF PagesFollow
  <2>2. CASE q # r
    <3>1. \A p \in Mine(q) \ clash' : page'[p] = page[p] /\ kept'[p] = kept[p]
      <4>1. \A p \in Mine(q) : p \in Pages /\ q \in Writers(p)
        BY WritersAre, RecordOf DEF Mine
      <4> QED BY <1>2, <4>1
    <3> QED BY <1>1, <1>2, <2>2, <3>1, OthersFollow DEF WritersFollow
  <2> QED BY <2>1, <2>2
<1>6. ASSUME NEW p \in Pages \ clash', Writers(p)' = {} PROVE page'[p] = kept'[p]
  BY <1>2, <1>4, <1>6 DEF SavedStays
<1>7. \A p \in Pages \ clash' : \A q, x \in Writers(p)' : q = x
  BY <1>2, <1>4 DEF WritersFollow
<1> QED BY <1>5, <1>6, <1>7 DEF SavedStays, WritersFollow

LEMMA StepWriters ==
  ASSUME Typed, SavedStays, WritersFollow, NEW r \in Requests, Step(r)
  PROVE  SavedStays' /\ WritersFollow'
<1>1. CASE gitBusy'
  BY <1>1 DEF SavedStays, WritersFollow
<1>2. CASE ~gitBusy'
  <2>1. ~gitBusy
    <3>1. CASE ApplyFails(r)
      <4>1. gitBusy' = FALSE
        BY <1>2, <3>1, FailedApply
      <4> QED BY <3>1, <4>1, FailedApply
    <3>2. CASE LeavesPages(r)
      BY <1>2, <3>2, QuietSteps DEF LeavesPages, Quiet, wikiVars, DeleteChunks, Store, RemoveStore, Lists
    <3>3. CASE Starts(r)
      BY <1>2, <3>3, StartFits DEF Starts, Accept, wikiVars
    <3> QED BY <1>2, <3>1, <3>2, <3>3 DEF Step, PageSteps, Ends, LeavesPages, QuietStep,
            OpenPage, WritePage, RestorePage, Finalize, Apply
  <2> QED BY <1>2, <2>1, StartFollows, ApplyFollows, QuietPages, OpenFollows, WriteFollows,
             RestoreFollows, FinalizeFollows
          DEF Step, PageSteps, Ends, LeavesPages, QuietStep
<1> QED BY <1>1, <1>2
-----------------------------------------------------------------------------
(* A rebuild that is alone.                                                  *)

\* A request that is not at work changes nothing but itself, unless it meets others.
LEMMA Idle ==
  ASSUME Typed, NEW r \in Requests, Step(r), ~Meeting(r), ~Active(r)
  PROVE  Quiet /\ Touches(r) /\ ~Active(r)'
<1>1. Repairs(r) \/ DropRepair(r)
  <2>1. ~EmbedStep(r)
    BY EmbedsGoOn DEF Active, Embedding
  <2>2. ~IngestFails(r)
    BY FailEffect DEF Active
  <2> QED BY <2>1, <2>2 DEF Step, Meeting, PageSteps, Ends, EmbedStep, RemoveStore, Lists, Active, At,
          Snapshot, OpenPage, WritePage, RestorePage, Finalize, RebuildCases
<1>2. Quiet /\ Touches(r)
  BY <1>1, QuietSteps, StepFits DEF QuietStep
<1>3. ~Active(r)'
  BY Activity DEF Meeting
<1> QED BY <1>2, <1>3

LEMMA MoreChunks ==
  ASSUME NEW r, NEW f, NEW P, NEW Q
  PROVE  /\ ChunksOf(f, P \cup Q, r) = ChunksOf(f, P, r) \cup ChunksOf(f, Q, r)
         /\ ChunksOf(f, {}, r) = {}
BY DEF ChunksOf

\* The steps by which a rebuild comes to an embedding or stays in it.
LEMMA RebuildGoesOn ==
  ASSUME Typed, NEW r \in Requests, Step(r), ~Meeting(r), Rebuilds(r)', req'[r].pc \in Embedding
  PROVE  /\ Rebuilds(r)
         /\ \/ RemoveStore(r)
            \/ req[r].pc \in Embedding /\ (ReadPage(r) \/ Connect(r) \/ DeleteChunks(r))
<1>1. Active(r)' /\ ~(req'[r] = Ended) /\ ~Ends(r) /\ ~Repairs(r)
  <2>1. Active(r)' /\ ~(req'[r] = Ended)
    BY FreshRecords DEF Active, Embedding
  <2> QED BY <2>1, EndsEffect, RepairsEffect DEF Embedding
<1>2. Rebuilds(r) /\ ~Writes(r)
  BY <1>1, Activity DEF Meeting, Rebuilds, Writes
<1>3. ~PageSteps(r)
  <2>1. ~IngestFails(r)
    BY <1>2, FailEffect DEF Writes
  <2> QED BY <1>2, <2>1, WritersAre DEF PageSteps, Snapshot, OpenPage, WritePage, RestorePage, At, Writes
<1>4. ~(NoVectors(r) \/ EmbedRaises(r) \/ Store(r))
  <2> SUFFICES ASSUME NoVectors(r) \/ EmbedRaises(r) \/ Store(r) PROVE FALSE
    OBVIOUS
  <2>1. PICK l \in {After(r), AfterError(r)} : Goto(r, l)
    BY DEF NoVectors, EmbedRaises, Store
  <2>2. l \in Pcs /\ l \notin Embedding
    BY AfterFacts DEF Embedding
  <2> QED BY <1>1, <2>1, <2>2, GotoEffect
<1>5. ReadPage(r) \/ Connect(r) \/ DeleteChunks(r) => req[r].pc \in Embedding
  BY DEF ReadPage, Connect, DeleteChunks, At, Embedding
<1> QED BY <1>1, <1>2, <1>3, <1>4, <1>5 DEF Step, Meeting, Embeds

LEMMA StepLone ==
  ASSUME Typed, AloneIsAlone, LoneRebuild, NEW r \in Requests, Step(r)
  PROVE  LoneRebuild'
<1> SUFFICES ASSUME NEW x \in lone', Rebuilds(x)', req'[x].pc \in Embedding
             PROVE  /\ req'[x].pc \notin {"delete", "add"} /\ ~table'
                    /\ req'[x].paths = PagesThere'
                    /\ req'[x].got = ChunksOf(page', req'[x].paths \ req'[x].todo, x)
                    /\ behind' = {p \in Pages : page'[p] \in Texts}
  BY Zenon DEF LoneRebuild
<1>1. ~Meeting(r)
  <2> SUFFICES ASSUME Meeting(r) PROVE FALSE
    OBVIOUS
  <2>1. x = r
    BY Meetings, MeetsFacts
  <2>2. req'[r].pc \notin Embedding
    BY StartFits, EndsEffect, FreshRecords DEF Meeting, Starts, Ends, Embedding
  <2> QED BY <2>1, <2>2
<1>2. lone' = lone /\ x \in Requests
  BY <1>1, Meetings DEF Frame, Typed, TypeOK
<1>3. CASE x # r
  <2>1. req'[x].op = req[x].op /\ req'[x].pc = req[x].pc /\ Active(x)
    BY <1>2, <1>3, Activity DEF Active, Embedding
  <2>2. ~Active(r)
    BY <1>2, <1>3, <2>1 DEF AloneIsAlone
  <2>3. Quiet /\ Touches(r)
    BY <1>1, <2>2, Idle
  <2>4. /\ page' = page /\ table' = table /\ behind' = behind
        /\ req'[x].paths = req[x].paths /\ req'[x].todo = req[x].todo /\ req'[x].got = req[x].got
    BY <1>2, <1>3, <2>3 DEF Quiet, wikiVars, storeVars, Touches, Others
  <2>5. Rebuilds(x)
    BY <2>1 DEF Rebuilds
  <2> QED BY <1>2, <2>1, <2>4, <2>5 DEF LoneRebuild, PagesThere
<1>4. CASE x = r
  <2>1. Rebuilds(r)
    BY <1>1, <1>4, RebuildGoesOn
  <2>2. CASE RemoveStore(r)
    <3>1. /\ table' = FALSE /\ page' = page /\ behind' = {p \in Pages : page[p] \in Texts}
          /\ req[r].pc = "list"
      BY <2>2 DEF RemoveStore, Lists, wikiVars, At
    <3>2. /\ req'[r].paths = PagesThere /\ req'[r].todo = PagesThere /\ req'[r].pc = "read"
          /\ req'[r].got = req[r].got
      BY <1>4, <2>2, ListEffect, FreshRecords DEF Embedding, Rest
    <3>3. req[r].got = {}
      BY <3>1 DEF Typed, PhaseFits
    <3>4. req'[r].paths \ req'[r].todo = {} /\ ChunksOf(page', {}, r) = {}
      BY <3>2, MoreChunks
    <3> QED BY <1>4, <3>1, <3>2, <3>3, <3>4 DEF PagesThere
  <2>3. CASE req[r].pc \in Embedding /\ (ReadPage(r) \/ Connect(r) \/ DeleteChunks(r))
    <3>1. /\ req[r].pc \notin {"delete", "add"} /\ ~table
          /\ req[r].paths = PagesThere
          /\ req[r].got = ChunksOf(page, req[r].paths \ req[r].todo, r)
          /\ behind = {p \in Pages : page[p] \in Texts}
      BY <1>2, <1>4, <2>1, <2>3 DEF LoneRebuild
    <3>2. ~DeleteChunks(r)
      BY <3>1 DEF DeleteChunks, At
    <3>3. page' = page /\ table' = table /\ behind' = behind
      BY <2>3, <3>2 DEF ReadPage, Connect, wikiVars, storeVars
    <3>4. /\ req'[r].paths = req[r].paths /\ req'[r].pc \notin {"delete", "add"}
          /\ req'[r].got = ChunksOf(page, req'[r].paths \ req'[r].todo, r)
      <4>1. CASE Connect(r)
        BY <3>1, <4>1, ConnectEffect DEF Keeps, Rest
      <4>2. CASE ReadPage(r)
        <5>1. PICK p \in req[r].todo :
                /\ req'[r].paths = req[r].paths /\ req'[r].pc \notin {"delete", "add"}
                /\ req'[r].got = req[r].got \cup ReadOf(r, p)
                /\ req'[r].todo = req[r].todo \ {p}
          BY <1>4, <4>2, ReadEffect, FreshRecords DEF Keeps, Embedding
        <5>2. p \in req[r].paths /\ p \in Pages
          BY RecordOf
        <5>3. req[r].paths \ req'[r].todo = (req[r].paths \ req[r].todo) \cup {p}
          BY <5>1, <5>2
        <5>4. ReadOf(r, p) = ChunksOf(page, {p}, r)
          BY <5>2, ReadOfFacts
        <5>5. ChunksOf(page, req'[r].paths \ req'[r].todo, r)
                = ChunksOf(page, req[r].paths \ req[r].todo, r) \cup ChunksOf(page, {p}, r)
          BY <5>1, <5>3, MoreChunks
        <5> QED BY <3>1, <5>1, <5>4, <5>5
      <4> QED BY <2>3, <3>2, <4>1, <4>2
    <3> QED BY <1>4, <3>1, <3>3, <3>4 DEF PagesThere
  <2> QED BY <1>1, <1>4, <2>2, <2>3, RebuildGoesOn
<1> QED BY <1>3, <1>4

\* What the last step of such a rebuild leaves in the vectors.
LEMMA LoneStore ==
  ASSUME Typed, LoneRebuild, NEW r \in Requests, Store(r), r \in lone, Rebuilds(r)
  PROVE  /\ rows' = ChunksOf(page, {q \in Pages : page[q] \in Texts}, r)
         /\ behind' = {}
<1>1. req[r].pc \in {"add", "create"} /\ req[r].pc \in Embedding
  BY DEF Store, At, Embedding
<1>2. /\ req[r].pc = "create" /\ ~table
      /\ req[r].got = ChunksOf(page, PagesThere \ req[r].todo, r)
      /\ behind = {p \in Pages : page[p] \in Texts}
  BY <1>1 DEF LoneRebuild
<1>3. req[r].todo = {} /\ req[r].skipped = {} /\ rows = {}
  BY <1>2 DEF Typed, PhaseFits, TypeOK
<1>4. {q \in PagesThere \ req[r].todo : page[q] \in Texts} = {q \in Pages : page[q] \in Texts}
  BY <1>3, ConstantTypes DEF PagesThere, Texts
<1>5. {q \in {p \in Pages : page[p] \in Texts} : page[q] \in Texts} = {q \in Pages : page[q] \in Texts}
  OBVIOUS
<1>6. req[r].got = ChunksOf(page, {q \in Pages : page[q] \in Texts}, r)
  BY <1>2, <1>4, <1>5 DEF ChunksOf
<1>7. \A p \in Pages : page[p] \in Texts => \E c \in req[r].got : c.page = p
  <2> SUFFICES ASSUME NEW p \in Pages, page[p] \in Texts PROVE \E c \in req[r].got : c.page = p
    OBVIOUS
  <2>1. [page |-> p, text |-> page[p], by |-> r] \in req[r].got
    BY <1>6 DEF ChunksOf
  <2> QED BY <2>1
<1>8. behind' = behind \ {c.page : c \in {d \in req[r].got : PageId[d.page] \notin req[r].skipped}}
      /\ rows' = rows \cup req[r].got
  BY DEF Store
<1>9. behind' = {}
  BY <1>2, <1>3, <1>7, <1>8
<1> QED BY <1>3, <1>6, <1>8, <1>9
-----------------------------------------------------------------------------
(* The vectors follow the pages.                                             *)

\* Pages may change that are behind from now on.
LEMMA RowsStay ==
  ASSUME RowsFollow, rows' = rows, behind \subseteq behind',
         \A p \in Pages \ behind' : page'[p] = page[p], rows \subseteq Chunks
  PROVE  RowsFollow'
<1>1. \A c \in rows : c.page \in Pages
  BY DEF Chunks
<1>2. \A c \in rows' : c.page \notin behind' => c.text = page'[c.page]
  BY <1>1 DEF RowsFollow
<1>3. \A c, d \in rows' : c.page = d.page /\ c.page \notin behind' => c = d
  BY DEF RowsFollow
<1>4. ASSUME NEW p \in Pages, page'[p] \in Texts
      PROVE  \/ \E q \in behind' : PageId[q] = PageId[p]
             \/ \E c \in rows' : PageId[c.page] = PageId[p]
  <2>1. CASE p \in behind'
    BY <2>1
  <2>2. CASE p \notin behind'
    <3>1. page[p] \in Texts
      BY <1>4, <2>2
    <3> QED BY <3>1 DEF RowsFollow
  <2> QED BY <2>1, <2>2
<1> QED BY <1>2, <1>3, <1>4 DEF RowsFollow

LEMMA DeleteRows ==
  ASSUME Typed, RowsFollow, NEW r \in Requests, ChunksFollow(r), DeleteChunks(r)
  PROVE  RowsFollow'
<1>1. PICK i \in req[r].ids : rows' = {c \in rows : PageId[c.page] # i} \/ rows' = rows
  BY DeleteEffect
<1>2. page' = page /\ behind' = behind /\ req[r].pc = "delete"
  BY DEF DeleteChunks, wikiVars, At
<1>3. \E q \in behind : PageId[q] = i
  <2>1. i \in GotIds(r)
    BY <1>2 DEF Typed, PhaseFits
  <2>2. PICK c \in req[r].got : PageId[c.page] = i
    BY <2>1 DEF GotIds
  <2>3. c.page \in behind
    BY <1>2 DEF ChunksFollow, Embedding
  <2> QED BY <2>2, <2>3
<1>4. ASSUME NEW p \in Pages, page'[p] \in Texts
      PROVE  \/ \E q \in behind' : PageId[q] = PageId[p]
             \/ \E c \in rows' : PageId[c.page] = PageId[p]
  <2>1. CASE PageId[p] = i
    BY <1>2, <1>3, <2>1
  <2>2. CASE PageId[p] # i
    BY <1>1, <1>2, <1>4, <2>2 DEF RowsFollow
  <2> QED BY <2>1, <2>2
<1>5. rows' \subseteq rows
  BY <1>1
<1>6. \A c \in rows' : c.page \notin behind' => c.text = page'[c.page]
  BY <1>2, <1>5 DEF RowsFollow
<1>7. \A c, d \in rows' : c.page = d.page /\ c.page \notin behind' => c = d
  BY <1>2, <1>5 DEF RowsFollow
<1> QED BY <1>4, <1>6, <1>7 DEF RowsFollow

LEMMA StoreRows ==
  ASSUME Typed, RowsFollow, NEW r \in Requests, ChunksFollow(r), Store(r)
  PROVE  RowsFollow'
<1> DEFINE D == {c.page : c \in {d \in req[r].got : PageId[d.page] \notin req[r].skipped}}
<1>1. /\ rows' = rows \cup req[r].got /\ page' = page /\ behind' = behind \ D
      /\ (req[r].pc = "add" \/ (req[r].pc = "create" /\ ~table))
  BY DEF Store, wikiVars, At
<1>2. \A c \in req[r].got : c \in Chunks /\ c.page \in behind /\ c.text = page[c.page] /\ c.by = r
  BY <1>1, RecordOf DEF ChunksFollow, Embedding
<1>3. \A x \in D : \E c \in req[r].got : c.page = x /\ PageId[x] \notin req[r].skipped
  OBVIOUS
<1>4. ASSUME NEW c \in rows, c.page \notin behind' PROVE c.page \notin behind
  <2>1. req[r].pc = "add"
    BY <1>1, <1>4 DEF Typed, TypeOK
  <2> SUFFICES ASSUME c.page \in behind PROVE FALSE
    OBVIOUS
  <2>2. PICK d \in req[r].got : d.page = c.page /\ PageId[c.page] \notin req[r].skipped
    BY <1>1, <1>3, <1>4
  <2>3. PageId[c.page] \in GotIds(r)
    BY <2>2 DEF GotIds
  <2> QED BY <2>1, <2>2, <2>3 DEF ChunksFollow
<1>5. \A c \in rows' : c.page \notin behind' => c.text = page'[c.page]
  BY <1>1, <1>2, <1>4 DEF RowsFollow
<1>6. ASSUME NEW c \in rows', NEW d \in rows', c.page = d.page, c.page \notin behind'
      PROVE  c = d
  <2>1. CASE c \in rows /\ d \in rows
    BY <1>4, <1>6, <2>1 DEF RowsFollow
  <2>2. CASE c \in req[r].got /\ d \in req[r].got
    <3>1. c \in Chunks /\ d \in Chunks /\ c.text = d.text /\ c.by = d.by
      BY <1>2, <1>6, <2>2
    <3> QED BY <1>6, <3>1 DEF Chunks
  <2>3. CASE c \in rows /\ d \in req[r].got
    BY <1>2, <1>4, <1>6, <2>3
  <2>4. CASE d \in rows /\ c \in req[r].got
    BY <1>2, <1>4, <1>6, <2>4
  <2> QED BY <1>1, <2>1, <2>2, <2>3, <2>4
<1>7. ASSUME NEW p \in Pages, page'[p] \in Texts
      PROVE  \/ \E q \in behind' : PageId[q] = PageId[p]
             \/ \E c \in rows' : PageId[c.page] = PageId[p]
  <2>1. \/ \E q \in behind : PageId[q] = PageId[p]
        \/ \E c \in rows : PageId[c.page] = PageId[p]
    BY <1>1, <1>7 DEF RowsFollow
  <2> QED BY <1>1, <1>3, <2>1
<1> QED BY <1>5, <1>6, <1>7 DEF RowsFollow

LEMMA LoneRows ==
  ASSUME NEW r \in Requests, rows' = ChunksOf(page, {q \in Pages : page[q] \in Texts}, r),
         behind' = {}, page' = page
  PROVE  RowsFollow'
<1> DEFINE T == {q \in {q \in Pages : page[q] \in Texts} : page[q] \in Texts}
<1>1. rows' = {[page |-> p, text |-> page[p], by |-> r] : p \in T}
  BY DEF ChunksOf
<1>2. \A c \in rows' : c.text = page'[c.page]
  BY <1>1
<1>3. \A c, d \in rows' : c.page = d.page => c = d
  BY <1>1
<1>4. ASSUME NEW p \in Pages, page'[p] \in Texts
      PROVE  \E c \in rows' : PageId[c.page] = PageId[p]
  <2>1. [page |-> p, text |-> page[p], by |-> r] \in rows'
    BY <1>1, <1>4
  <2> QED BY <2>1
<1> QED BY <1>2, <1>3, <1>4 DEF RowsFollow

LEMMA ListRows ==
  ASSUME NEW r \in Requests, RemoveStore(r)
  PROVE  RowsFollow'
<1>1. rows' = {} /\ page' = page /\ behind' = {p \in Pages : page[p] \in Texts}
  BY DEF RemoveStore, Lists, wikiVars
<1> QED BY <1>1 DEF RowsFollow

LEMMA StepRows ==
  ASSUME Typed, LoneRebuild, StoreFollows, NEW r \in Requests, Step(r), calm'
  PROVE  RowsFollow'
<1>1. CASE Store(r) /\ r \in lone /\ Rebuilds(r)
  <2>1. page' = page
    BY <1>1 DEF Store, wikiVars
  <2> QED BY <1>1, <2>1, LoneStore, LoneRows
<1>2. CASE ~(Store(r) /\ r \in lone /\ Rebuilds(r))
  <2>1. calm
    BY <1>2, Meetings, MeetsFacts
  <2>2. RowsFollow /\ ChunksFollow(r) /\ rows \subseteq Chunks
    BY <2>1 DEF StoreFollows, Typed, TypeOK
  <2>3. CASE QuietStep(r)
    BY <2>2, <2>3, QuietSteps, RowsStay DEF Quiet, wikiVars, storeVars
  <2>4. CASE Starts(r)
    BY <2>2, <2>4, StartFits, RowsStay DEF Starts, Accept, wikiVars
  <2>5. CASE OpenPage(r) \/ WritePage(r) \/ RestorePage(r)
    <3>1. rows' = rows
      BY <2>5 DEF OpenPage, WritePage, RestorePage
    <3>2. PICK p, t : Puts(p, t)
      BY <2>5 DEF OpenPage, WritePage, RestorePage
    <3>3. behind \subseteq behind' /\ \A q \in Pages \ behind' : page'[q] = page[q]
      BY <3>2 DEF Puts, Typed, TypeOK
    <3> QED BY <2>2, <3>1, <3>3, RowsStay
  <2>6. CASE Finalize(r)
    BY <2>2, <2>6, RowsStay DEF Finalize, storeVars
  <2>7. CASE Apply(r)
    <3>1. rows' = rows /\ behind' = behind \cup DOMAIN req[r].snap
          /\ page' = Over(page, DOMAIN req[r].snap, r)
      BY <2>7 DEF Apply, AskApply
    <3>2. \A q \in Pages \ behind' : page'[q] = page[q]
      BY <3>1 DEF Over
    <3> QED BY <2>2, <3>1, <3>2, RowsStay
  <2>8. CASE ApplyFails(r)
    <3>1. rows' = rows /\ behind' = behind \cup Changed
      BY <2>8, FailedApply DEF AskApply
    <3>2. \A q \in Pages \ behind' : page'[q] = page[q]
      BY <3>1 DEF Changed
    <3> QED BY <2>2, <3>1, <3>2, RowsStay
  <2> QED BY <2>2, <2>3, <2>4, <2>5, <2>6, <2>7, <2>8, DeleteRows, StoreRows, ListRows
          DEF Step, PageSteps, Ends, QuietStep
<1> QED BY <1>1, <1>2
LEMMA NotEmbedding ==
  ASSUME NEW r \in Requests, req[r].pc \notin {"open", "write"} \cup Embedding
  PROVE  ChunksFollow(r)
BY DEF ChunksFollow, Embedding

\* The request of the step itself.
LEMMA OwnChunks ==
  ASSUME Typed, NEW r \in Requests, ChunksFollow(r), Step(r)
  PROVE  ChunksFollow(r)'
<1>1. TypeOK /\ PhaseFits(r) /\ Touches(r)
  BY StepFits DEF Typed
<1>2. CASE Starts(r)
  <2>1. req'[r].pc \in {"open", "snapshot", "list"} /\ req'[r].paths = req'[r].todo
    BY <1>2, StartFits DEF Starts
  <2> QED BY <2>1 DEF ChunksFollow, Embedding
<1>3. CASE Snapshot(r)
  <2>1. \/ req'[r].pc = "open" /\ req'[r].paths = req'[r].todo
        \/ req'[r].pc = "snapshot"
    BY <1>3, SnapshotEffect DEF Keeps
  <2> QED BY <2>1 DEF ChunksFollow, Embedding
<1>4. CASE OpenPage(r)
  <2>1. /\ req'[r].pc = "write" /\ req'[r].paths = req[r].paths /\ req'[r].todo = req[r].todo
        /\ behind \subseteq behind' /\ req[r].pc = "open"
    BY <1>4, OpenEffect DEF Keeps, Puts
  <2> QED BY <2>1 DEF ChunksFollow, Embedding
<1>5. CASE WritePage(r)
  <2>1. PICK p \in req[r].todo, t \in {r, Empty} :
          /\ Puts(p, t) /\ Keeps(r) /\ Rest(r)
          /\ \/ /\ req[r].todo = {p} /\ req'[r].todo = req[r].paths /\ req'[r].pc = "read"
             \/ /\ req'[r].todo = req[r].todo \ {p} /\ req'[r].pc = "open"
    BY <1>5, WriteEffect
  <2>2. req[r].pc = "write" /\ req[r].got = {} /\ req[r].paths \ req[r].todo \subseteq behind
    BY <1>1, <1>5, WriteEffect DEF PhaseFits, ChunksFollow
  <2>3. req[r].paths \ (req[r].todo \ {p}) \subseteq behind' /\ req'[r].paths = req[r].paths
        /\ req'[r].got = {}
    BY <2>1, <2>2 DEF Puts, Keeps, Rest
  <2> QED BY <2>1, <2>3 DEF ChunksFollow, Embedding
<1>6. CASE IngestFails(r) \/ RestorePage(r) \/ Ends(r) \/ Repairs(r)
  <2>1. req'[r].pc \in {"restore", "ended", "compile", "review"}
    BY <1>6, FailEffect, RestoreEffect, EndsEffect, RepairsEffect, FreshRecords
  <2> QED BY <2>1 DEF ChunksFollow, Embedding
<1>7. CASE RemoveStore(r)
  <2>1. page' = page /\ behind' = {p \in Pages : page[p] \in Texts} /\ req[r].pc = "list"
    BY <1>7 DEF RemoveStore, Lists, wikiVars, At
  <2>2. \/ /\ req'[r].paths = PagesThere /\ req'[r].pc = "read" /\ req'[r].got = {}
        \/ req'[r].pc \in {"ended", "cases"}
    BY <1>1, <1>7, <2>1, ListEffect, FreshRecords DEF PhaseFits, Rest
  <2> QED BY <2>1, <2>2 DEF ChunksFollow, Embedding, PagesThere
<1>8. CASE ReadPage(r)
  <2>1. page' = page /\ behind' = behind /\ rows' = rows
    BY <1>8 DEF ReadPage, wikiVars, storeVars
  <2>2. PICK p \in req[r].todo :
          \/ /\ Keeps(r) /\ req'[r].got = req[r].got \cup ReadOf(r, p)
             /\ req'[r].pc \in {"read", "connect", "finalize", "cases"}
          \/ req'[r].pc = "ended"
    BY <1>8, ReadEffect, FreshRecords
  <2>3. req[r].pc = "read" /\ p \in req[r].paths /\ page[p] \in Contents
    BY <1>1, <1>8, ReadEffect, RecordOf DEF TypeOK
  <2>4. \A c \in ReadOf(r, p) : c.page \in behind \cap req[r].paths /\ c.text = page[c.page] /\ c.by = r
    <3>1. \A c \in ReadOf(r, p) : c.page = p /\ c.text = page[p] /\ page[p] \notin {None, Empty} /\ c.by = r
      BY DEF ReadOf
    <3>2. page[p] \notin {None, Empty} => p \in behind
      BY <2>3 DEF ChunksFollow, Embedding, Contents
    <3> QED BY <2>3, <3>1, <3>2
  <2>5. \A c \in req[r].got : c.page \in behind \cap req[r].paths /\ c.text = page[c.page] /\ c.by = r
    BY <2>3 DEF ChunksFollow, Embedding
  <2>6. \A q \in req[r].paths : page[q] \in Texts => q \in behind
    BY <2>3 DEF ChunksFollow, Embedding
  <2>7. CASE req'[r].pc = "ended"
    BY <2>7 DEF ChunksFollow, Embedding
  <2>8. CASE /\ Keeps(r) /\ req'[r].got = req[r].got \cup ReadOf(r, p)
             /\ req'[r].pc \in {"read", "connect", "finalize", "cases"}
    <3>1. req'[r].paths = req[r].paths
      BY <2>8 DEF Keeps
    <3> QED BY <2>1, <2>4, <2>5, <2>6, <2>8, <3>1 DEF ChunksFollow, Embedding
  <2> QED BY <2>2, <2>7, <2>8
<1>9. CASE Connect(r)
  <2>1. /\ req[r].pc = "connect" /\ req'[r].paths = req[r].paths /\ req'[r].got = req[r].got
        /\ page' = page /\ behind' = behind /\ rows' = rows
        /\ \/ req'[r].pc = "delete" /\ req'[r].ids = GotIds(r)
           \/ req'[r].pc = "create"
    BY <1>9, ConnectEffect DEF Connect, wikiVars, storeVars, Keeps, Rest
  <2>2. GotIds(r)' = GotIds(r)
    BY <2>1 DEF GotIds
  <2> QED BY <2>1, <2>2 DEF ChunksFollow, Embedding
<1>10. CASE DeleteChunks(r)
  <2>1. PICK i \in req[r].ids :
          /\ Keeps(r) /\ req'[r].got = req[r].got
          /\ req'[r].ids = req[r].ids \ {i}
          /\ \/ req'[r].ids = {} /\ req'[r].pc = "add"
             \/ req'[r].pc = "delete"
          /\ \/ /\ rows' = {c \in rows : PageId[c.page] # i}
                /\ req'[r].skipped = req[r].skipped
             \/ rows' = rows /\ req'[r].skipped = req[r].skipped \cup {i}
    BY <1>10, DeleteEffect
  <2>2. page' = page /\ behind' = behind /\ req[r].pc = "delete" /\ req'[r].paths = req[r].paths
    BY <1>10, <2>1 DEF DeleteChunks, wikiVars, At, Keeps
  <2>3. GotIds(r)' = GotIds(r)
    BY <2>1 DEF GotIds
  <2>4. \A c \in rows : PageId[c.page] \in GotIds(r)
                         => PageId[c.page] \in req[r].skipped \cup req[r].ids
    BY <2>2 DEF ChunksFollow
  <2>5. \A c \in rows' : PageId[c.page] \in GotIds(r)
                         => PageId[c.page] \in req'[r].skipped \cup req'[r].ids
    BY <2>1, <2>4
  <2>6. /\ \A p \in req[r].paths : page[p] \in Texts => p \in behind
        /\ \A c \in req[r].got : /\ c.page \in behind \cap req[r].paths
                                 /\ c.text = page[c.page] /\ c.by = r
    BY <2>2 DEF ChunksFollow, Embedding
  <2>7. CASE req'[r].pc = "delete"
    BY <2>1, <2>2, <2>3, <2>5, <2>6, <2>7 DEF ChunksFollow
  <2>8. CASE req'[r].ids = {} /\ req'[r].pc = "add"
    BY <2>1, <2>2, <2>3, <2>5, <2>6, <2>8 DEF ChunksFollow
  <2> QED BY <2>1, <2>7, <2>8
<1>11. CASE NoVectors(r) \/ EmbedRaises(r) \/ Store(r)
  <2>1. PICK l \in {After(r), AfterError(r)} : Goto(r, l)
    BY <1>11 DEF NoVectors, EmbedRaises, Store
  <2>2. l \in Pcs /\ l \in {"finalize", "cases", "ended"}
    BY AfterFacts
  <2>3. req'[r].pc \in {"finalize", "cases", "ended"}
    BY <2>1, <2>2, GotoEffect, FreshRecords
  <2> QED BY <2>3 DEF ChunksFollow, Embedding
<1> QED BY <1>2, <1>3, <1>4, <1>5, <1>6, <1>7, <1>8, <1>9, <1>10, <1>11 DEF Step, PageSteps, Embeds

LEMMA StepChunks ==
  ASSUME Typed, AloneIsAlone, StoreFollows, NEW r \in Requests, Step(r), calm',
         NEW q \in Requests
  PROVE  ChunksFollow(q)'
<1>1. CASE req'[q].pc \notin {"open", "write"} \cup Embedding
  BY <1>1 DEF ChunksFollow, Embedding
<1>2. CASE req'[q].pc \in {"open", "write"} \cup Embedding
  <2>1. Active(q)'
    BY <1>2 DEF Active, Embedding
  <2>2. CASE q = r
    <3>1. CASE calm
      <4>1. ChunksFollow(r)
        BY <3>1 DEF StoreFollows
      <4> QED BY <2>2, <4>1, OwnChunks
    <3>2. CASE ~calm
      <4>1. Store(r)
        BY <3>2, Meetings, MeetsFacts
      <4>2. PICK l \in {After(r), AfterError(r)} : Goto(r, l)
        BY <4>1 DEF Store
      <4>3. l \in Pcs /\ l \in {"finalize", "cases", "ended"}
        BY AfterFacts
      <4>4. req'[r].pc \in {"finalize", "cases", "ended"}
        BY <4>2, <4>3, GotoEffect, FreshRecords
      <4> QED BY <1>2, <2>2, <4>4 DEF Embedding
    <3> QED BY <3>1, <3>2
  <2>3. CASE q # r
    <3>1. Active(q)
      BY <2>1, <2>3, Activity
    <3>2. ~Meeting(r)
      BY <2>3, <3>1, Meetings, MeetsFacts
    <3>3. ~Active(r)
      <4> SUFFICES ASSUME Active(r) PROVE FALSE
        OBVIOUS
      <4>1. calm \/ r \in lone
        BY <3>2, Meetings
      <4> QED BY <2>3, <3>1, <4>1 DEF AloneIsAlone
    <3>4. Quiet /\ Touches(r)
      BY <3>2, <3>3, Idle
    <3>5. /\ page' = page /\ behind' = behind /\ rows' = rows /\ calm
          /\ req'[q].pc = req[q].pc /\ req'[q].paths = req[q].paths /\ req'[q].todo = req[q].todo
          /\ req'[q].got = req[q].got /\ req'[q].ids = req[q].ids
          /\ req'[q].skipped = req[q].skipped
      BY <2>3, <3>4 DEF Quiet, wikiVars, storeVars, Touches, Others
    <3>6. GotIds(q)' = GotIds(q) /\ ChunksFollow(q)
      BY <3>5 DEF GotIds, StoreFollows
    <3> QED BY <3>5, <3>6 DEF ChunksFollow
  <2> QED BY <2>2, <2>3
<1> QED BY <1>1, <1>2

-----------------------------------------------------------------------------
(* The theorems.                                                             *)

LEMMA InitInv == Init => IInv
<1> SUFFICES ASSUME Init PROVE IInv
  OBVIOUS
<1>1. Typed
  BY InitTyped
<1>2. \A r \in Requests : req[r] = Fresh /\ ~Active(r) /\ req[r].op = "none" /\ req[r].pc = "new"
  BY DEF Init, Fresh, Active
<1>3. OneTaskPerTarget /\ AloneIsAlone /\ LoneRebuild
  BY <1>2 DEF OneTaskPerTarget, AloneIsAlone, LoneRebuild, Init
<1>4. SavedStays /\ WritersFollow
  BY <1>2 DEF SavedStays, WritersFollow, PagesFollow, Writers, Init
<1>5. StoreFollows
  <2>1. RowsFollow
    BY ConstantTypes DEF Init, RowsFollow, Texts
  <2>2. \A r \in Requests : ChunksFollow(r)
    BY <1>2 DEF ChunksFollow, Embedding
  <2> QED BY <2>1, <2>2 DEF StoreFollows
<1> QED BY <1>1, <1>3, <1>4, <1>5 DEF IInv, Typed

LEMMA NextInv == IInv /\ [Next]_vars => IInv'
<1> SUFFICES ASSUME IInv, [Next]_vars PROVE IInv'
  OBVIOUS
<1>1. CASE Next
  <2>1. PICK r \in Requests : Step(r)
    BY <1>1, NextSteps
  <2>2. Typed
    BY DEF IInv, Typed
  <2>3. TypeOK' /\ \A q \in Requests : PhaseFits(q)'
    BY <2>1, <2>2, StepTypes, StepFits
  <2>4. SavedStays' /\ WritersFollow'
    BY <2>1, <2>2, StepWriters DEF IInv
  <2>5. OneTaskPerTarget' /\ AloneIsAlone' /\ LoneRebuild'
    BY <2>1, <2>2, StepTasks, StepAlone, StepLone DEF IInv
  <2>6. StoreFollows'
    <3> SUFFICES ASSUME calm' PROVE RowsFollow' /\ \A q \in Requests : ChunksFollow(q)'
      BY DEF StoreFollows
    <3> QED BY <2>1, <2>2, StepRows, StepChunks DEF IInv
  <2> QED BY <2>3, <2>4, <2>5, <2>6 DEF IInv
<1>2. CASE UNCHANGED vars
  <2>1. TypeOK' /\ OneTaskPerTarget' /\ AloneIsAlone'
    BY <1>2 DEF vars, wikiVars, storeVars, IInv, TypeOK, OneTaskPerTarget, TaskOps, Active, AloneIsAlone
  <2>2. \A r \in Requests : PhaseFits(r)'
    BY <1>2 DEF vars, IInv, PhaseFits, Rebuilds, GotIds
  <2>3. SavedStays' /\ WritersFollow'
    BY <1>2 DEF vars, wikiVars, IInv, SavedStays, Writers, Active, WritersFollow, PagesFollow
  <2>4. LoneRebuild'
    BY <1>2 DEF vars, wikiVars, storeVars, IInv, LoneRebuild, PagesThere, Rebuilds
  <2>5. StoreFollows'
    BY <1>2 DEF vars, wikiVars, storeVars, IInv, StoreFollows, RowsFollow, ChunksFollow, GotIds
  <2> QED BY <2>1, <2>2, <2>3, <2>4, <2>5 DEF IInv
<1> QED BY <1>1, <1>2

\* The parts of IInv together say what every request knows of the pages and the
\* vectors between its awaits.
THEOREM InductiveInvariant == Spec => []IInv
BY InitInv, NextInv, PTL DEF Spec

\* A page holds what the last request that succeeded has left there: failed ingest
\* runs and failed applies take back their own writes only (pipeline.py:81-103,
\* feedback/router.py:314-343), as long as no apply that failed has met a busy git.
THEOREM SavedPagesStay == Spec => []SavedStays
<1>1. IInv => SavedStays
  BY DEF IInv
<1> QED BY <1>1, InductiveInvariant, PTL

\* A rebuild that nobody overlaps leaves exactly the pages in the vectors
\* (embedding/service.py:190-205).
THEOREM RebuildExact == Spec => RebuildIsExact
<1>1. IInv /\ [Next]_vars =>
        [\A r \in Requests : Store(r) /\ r \in lone /\ Rebuilds(r) =>
           rows' = {[page |-> p, text |-> page[p], by |-> r] :
                      p \in {q \in Pages : page[q] \in Texts}}]_vars
  <2> SUFFICES ASSUME IInv, NEW r \in Requests, Store(r), r \in lone, Rebuilds(r)
               PROVE  rows' = {[page |-> p, text |-> page[p], by |-> r] :
                                 p \in {q \in Pages : page[q] \in Texts}}
    OBVIOUS
  <2>1. rows' = ChunksOf(page, {q \in Pages : page[q] \in Texts}, r)
    BY LoneStore DEF IInv, Typed
  <2>2. {q \in {x \in Pages : page[x] \in Texts} : page[q] \in Texts} = {q \in Pages : page[q] \in Texts}
    OBVIOUS
  <2> QED BY <2>1, <2>2 DEF ChunksOf
<1> QED BY <1>1, InductiveInvariant, PTL DEF Spec, RebuildIsExact

\* As long as requests do not overlap the vectors follow the pages
\* (embedding/service.py:137-187).
THEOREM VectorsFollowPages == Spec => []VectorsFollow
<1>1. ASSUME IInv PROVE VectorsFollow
  <2> SUFFICES ASSUME calm, NEW p \in Pages \ behind
               PROVE  /\ \A c \in {c \in rows : c.page = p} : c.text = page[p]
                      /\ Cardinality({c \in rows : c.page = p}) <= 1
                      /\ (page[p] \in Texts /\ {q \in Pages : PageId[q] = PageId[p]} \cap behind = {})
                           => \E c \in rows : c.page \in {q \in Pages : PageId[q] = PageId[p]}
    BY DEF VectorsFollow
  <2>1. RowsFollow /\ rows \subseteq Chunks /\ behind \subseteq Pages
    BY <1>1 DEF IInv, StoreFollows, TypeOK
  <2>2. \A c \in {c \in rows : c.page = p} : c.text = page[p]
    BY <2>1 DEF RowsFollow
  <2>3. Cardinality({c \in rows : c.page = p}) <= 1
    <3>1. CASE {c \in rows : c.page = p} = {}
      BY <3>1, FS_EmptySet
    <3>2. CASE {c \in rows : c.page = p} # {}
      <4>1. PICK c \in rows : c.page = p
        BY <3>2
      <4>2. {d \in rows : d.page = p} = {c}
        BY <2>1, <4>1 DEF RowsFollow
      <4> HIDE DEF RowsFollow
      <4>3. Cardinality({c}) = 1
        BY FS_Singleton
      <4> QED BY <4>2, <4>3
    <3> QED BY <3>1, <3>2
  <2>4. ASSUME page[p] \in Texts, {q \in Pages : PageId[q] = PageId[p]} \cap behind = {}
        PROVE  \E c \in rows : c.page \in {q \in Pages : PageId[q] = PageId[p]}
    <3>1. ~ \E q \in behind : PageId[q] = PageId[p]
      BY <2>1, <2>4
    <3>2. PICK c \in rows : PageId[c.page] = PageId[p]
      BY <2>1, <2>4, <3>1 DEF RowsFollow
    <3> QED BY <2>1, <3>2 DEF Chunks
  <2> QED BY <2>2, <2>3, <2>4
<1> QED BY <1>1, InductiveInvariant, PTL
=============================================================================
