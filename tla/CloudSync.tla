------------------------------ MODULE CloudSync ------------------------------
(***************************************************************************)
(* Several installations of the application, each with a database of its   *)
(* own, exchange whole-database snapshots through a shared folder.  The    *)
(* user works on each machine while a sync cycle or a deletion, a worker   *)
(* thread, runs: the article list stays usable in maintenance mode.  A     *)
(* cycle selects the snapshots it has not seen, merges them oldest first,  *)
(* publishes its own and trims the folder; the import and the export       *)
(* command do the one half or the other.                                   *)
(***************************************************************************)
EXTENDS ArticleStore, SequencesExt

CONSTANTS
  Machines,    \* the installations
  Stamps,      \* the times an edit may carry
  MaxImports,  \* snapshots merged per cycle
  Keep,        \* snapshots kept in the folder
  MaxSeen,     \* length of the list of seen snapshots
  Chunk,       \* rows deleted per transaction
  Plans        \* what a behaviour may do: the budgets [edits, cycles, faults], the
               \* operations and kinds of cycle tried [ops, modes], the machines that
               \* edit [who], whether clocks disagree [skewed], the tags tried, the
               \* pages a fetch may bring (sequences of [link, title]) and the page
               \* every machine starts with [start]

\* Pages as upsert_news_detailed works on them: an article that an answer names twice
\* is taken once.
Pages == {items \in Seq([link : Links, title : Titles]) :
            \A i, j \in DOMAIN items : items[i].link = items[j].link => i = j}

ASSUME PlansTyped ==
  Plans \subseteq [edits : Nat, cycles : Nat, faults : Nat, ops : SUBSET STRING,
                  modes : SUBSET STRING, who : SUBSET Machines, skewed : BOOLEAN,
                  tags : SUBSET Tags, pages : SUBSET Pages, start : Pages]
ASSUME FiniteStore == IsFiniteSet(Links) /\ IsFiniteSet(Keys)
ASSUME StampsPositive == Stamps \subseteq Nat \ {0}
ASSUME LimitsPositive == {MaxImports, Keep, MaxSeen, Chunk} \subseteq Nat \ {0}

VARIABLES
  db,       \* the database of each machine
  seen,     \* its list of seen snapshots, newest first, a row of the database
  used,     \* the times its edits carried
  job,      \* its running cycle or deletion
  purged,   \* the articles it has deleted for good
  folder,   \* the snapshots in the shared folder
  pen,      \* the quarantined snapshots
  made,     \* how many snapshots were ever made
  left      \* the plan, with what remains of its budgets

cloudVars == <<db, seen, used, job, purged, folder, pen, made, left>>

Idle == [at |-> "idle", mode |-> "none", todo |-> <<>>, late |-> FALSE]

CloudInit ==
  /\ left \in Plans
  /\ \E k \in Keys : db = [m \in Machines |-> Upsert(EmptyStore, k, left.start)]
  /\ seen = [m \in Machines |-> <<>>]
  /\ used = [m \in Machines |-> {}]
  /\ job = [m \in Machines |-> Idle]
  /\ purged = [m \in Machines |-> {}]
  /\ folder = {} /\ pen = {} /\ made = 0

Spend(what) == left[what] > 0 /\ left' = [left EXCEPT ![what] = @ - 1]

-----------------------------------------------------------------------------
(* Edits *)

\* A machine's clock moves on and no two edits carry the same time; in a skewed
\* plan the clocks of different machines need not agree, in the others they do.
Now(m) ==
  LET others == UNION {used[n] : n \in Machines}
      since  == IF left.skewed THEN used[m] ELSE others
      free   == {s \in Stamps \ others : \A u \in since : s > u}
  IN IF left.skewed THEN free ELSE {s \in free : \A x \in free : s <= x}

MayEdit(m, op) == op \in left.ops /\ m \in left.who /\ Spend("edits")

\* An operation that leaves the database as it is shows nowhere and is not a step.
\* A commit while a merge or a deletion is half way is remembered as a late one.
Commit(m, d, now) ==
  /\ d # db[m]
  /\ db' = [db EXCEPT ![m] = d]
  /\ used' = [used EXCEPT ![m] = @ \cup {now}]
  /\ job' = [job EXCEPT ![m].late = @ \/ job[m].at \in {"merging", "pruning"}]
  /\ UNCHANGED <<seen, purged, folder, pen, made>>

\* A page arrives for a tab, and the automation rules treat its new articles.
Fetch(m) ==
  /\ MayEdit(m, "fetch") /\ job[m].at = "idle"
  /\ \E k \in Keys, items \in left.pages, t \in left.tags, now \in Now(m), rules \in BOOLEAN :
       LET d == Upsert(db[m], k, items)
       IN Commit(m, IF rules THEN Automate(d, NewLinks(db[m], k, items), t, now) ELSE d, now)

\* The buttons of one article, of the archive and of a bookmark file.
EditArticle(m) ==
  \E l \in Stored(db[m]), now \in Now(m) :
    \/ MayEdit(m, "read") /\ \E v \in BOOLEAN : Commit(m, SetRead(db[m], l, v, now), now)
    \/ MayEdit(m, "mark") /\ \E v \in BOOLEAN : Commit(m, SetMarked(db[m], l, v, now), now)
    \/ MayEdit(m, "note") /\ \E v \in BOOLEAN : Commit(m, SetNoted(db[m], l, v, now), now)
    \/ MayEdit(m, "tags") /\ \E T \in SUBSET left.tags : Commit(m, SetTags(db[m], l, T, now), now)
    \/ MayEdit(m, "delete") /\ Commit(m, DeleteLink(db[m], l, now), now)
    \/ MayEdit(m, "restore") /\ Commit(m, RestoreDeletedLink(db[m], l, now), now)
    \/ MayEdit(m, "import") /\ \E v, w \in BOOLEAN : Commit(m, ImportState(db[m], l, v, w, now), now)

\* The tag manager, the bulk actions, and "mark all as read" of a listing.
EditMany(m) ==
  \E now \in Now(m), t \in left.tags :
    \/ MayEdit(m, "retag") /\ \E u \in left.tags : Commit(m, RenameTag(db[m], t, u, now), now)
    \/ MayEdit(m, "retag") /\ Commit(m, DeleteTagEverywhere(db[m], t, now), now)
    \/ MayEdit(m, "bulk") /\ \E S \in SUBSET Stored(db[m]) : Commit(m, BulkAddTag(db[m], S, t, now), now)
    \/ MayEdit(m, "bulk") /\ \E S \in SUBSET Stored(db[m]) : Commit(m, BulkRemoveTag(db[m], S, t, now), now)
    \/ MayEdit(m, "readall") /\ \E sc \in Scopes :
         Commit(m, MarkLinksRead(db[m], MarkScope(db[m], sc), now), now)

-----------------------------------------------------------------------------
(* Deleting everything that is not bookmarked, chunk by chunk *)

StartPruning(m) ==
  /\ job[m].at = "idle" /\ "prune" \in left.ops /\ Spend("cycles")
  /\ job' = [job EXCEPT ![m] = [at |-> "pruning", batch |-> {}, late |-> FALSE]]
  /\ UNCHANGED <<db, seen, used, purged, folder, pen, made>>

\* The links of a chunk are read first and deleted in a later transaction.
PickBatch(m) ==
  /\ job[m].at = "pruning" /\ job[m].batch = {}
  /\ \E S \in SUBSET Prunable(db[m]) :
       /\ S # {} /\ Cardinality(S) <= Chunk
       /\ job' = [job EXCEPT ![m] = [at |-> "pruning", batch |-> S, late |-> FALSE]]
  /\ UNCHANGED <<db, seen, used, purged, folder, pen, made, left>>

DropBatch(m) ==
  /\ job[m].at = "pruning" /\ job[m].batch # {}
  /\ db' = [db EXCEPT ![m] = Purge(db[m], job[m].batch)]
  /\ purged' = [purged EXCEPT ![m] = @ \cup job[m].batch]
  /\ job' = [job EXCEPT ![m].batch = {}]
  /\ UNCHANGED <<seen, used, folder, pen, made, left>>

\* Nothing is left to delete, or the user cancels between two chunks.
StopPruning(m) ==
  /\ job[m].at = "pruning" /\ job[m].batch = {}
  /\ job' = [job EXCEPT ![m] = Idle]
  /\ UNCHANGED <<db, seen, used, purged, folder, pen, made, left>>

-----------------------------------------------------------------------------
(* The sync cycle *)

SeenFront(id, s) ==
  LET list == <<id>> \o RemoveFirst(s, id)
  IN SubSeq(list, 1, IF Len(list) < MaxSeen THEN Len(list) ELSE MaxSeen)

\* list_cloud_snapshots and cleanup_old_snapshots order by modification time.
Oldest(S) == SetToSortSeq(S, LAMBDA a, b : a.id < b.id)
Trimmed(S) == {s \in S : Cardinality({x \in S : x.id >= s.id}) <= Keep}

\* A file that is still being synchronised reads as an invalid snapshot and is put
\* in quarantine; one that cannot be opened is skipped and tried again later.
Select(m) ==
  /\ job[m].at = "idle" /\ left.cycles > 0
  /\ \E mode \in left.modes \ {"export"}, broken \in SUBSET folder :
       /\ broken # {} => left.faults > 0
       /\ left' = [left EXCEPT !.cycles = @ - 1, !.faults = IF broken = {} THEN @ ELSE @ - 1]
       /\ LET read   == folder \ broken
              unseen == {s \in read : \A i \in DOMAIN seen[m] : seen[m][i] # s.id}
              order  == Oldest(unseen)
              some   == SubSeq(order, 1, IF Len(order) < MaxImports THEN Len(order) ELSE MaxImports)
          IN \E torn \in SUBSET broken :
               /\ folder' = folder \ torn
               /\ pen' = pen \cup torn
               /\ job' = [job EXCEPT ![m] = [Idle EXCEPT !.at = "importing", !.mode = mode, !.todo = some]]
  /\ UNCHANGED <<db, seen, used, purged, made>>

NextFile(m) == Head(job[m].todo)
Rest(m) == [job[m] EXCEPT !.todo = Tail(@)]

\* The file has gone, or cannot be opened: it is left for the next cycle.
SkipImport(m) ==
  /\ job[m].at = "importing" /\ job[m].todo # <<>>
  /\ NextFile(m) \notin folder
  /\ job' = [job EXCEPT ![m] = Rest(m)]
  /\ UNCHANGED <<db, seen, used, purged, folder, pen, made, left>>

\* The archive does not unpack to a sound database: quarantine.
RejectImport(m) ==
  /\ job[m].at = "importing" /\ job[m].todo # <<>>
  /\ NextFile(m) \in folder /\ Spend("faults")
  /\ folder' = folder \ {NextFile(m)} /\ pen' = pen \cup {NextFile(m)}
  /\ job' = [job EXCEPT ![m] = Rest(m)]
  /\ UNCHANGED <<db, seen, used, purged, made>>

\* The staged copy is taken, and with it a copy of the whole database to go back
\* to; a machine's own snapshot is only marked as seen.
StartImport(m) ==
  /\ job[m].at = "importing" /\ job[m].todo # <<>>
  /\ NextFile(m) \in folder
  /\ IF NextFile(m).by = m
     THEN /\ seen' = [seen EXCEPT ![m] = SeenFront(NextFile(m).id, @)]
          /\ job' = [job EXCEPT ![m] = Rest(m)]
     ELSE /\ job' = [job EXCEPT ![m] =
                       [at |-> "merging", mode |-> job[m].mode, todo |-> job[m].todo, late |-> FALSE,
                        staged |-> NextFile(m), copy |-> [db |-> db[m], seen |-> seen[m]]]]
          /\ UNCHANGED seen
  /\ UNCHANGED <<db, used, purged, folder, pen, made, left>>

AfterMerge(m) == [Idle EXCEPT !.at = "importing", !.mode = job[m].mode, !.todo = Tail(job[m].todo)]

MergeCommit(m) ==
  /\ job[m].at = "merging"
  /\ db' = [db EXCEPT ![m] = Merge(@, job[m].staged.db)]
  /\ seen' = [seen EXCEPT ![m] = SeenFront(job[m].staged.id, @)]
  /\ job' = [job EXCEPT ![m] = AfterMerge(m)]
  /\ UNCHANGED <<used, purged, folder, pen, made, left>>

\* A mutant: the snapshot that failed counts as seen.
MergeFailSeen(m) ==
  /\ job[m].at = "merging" /\ Spend("faults")
  /\ db' = [db EXCEPT ![m] = job[m].copy.db]
  /\ seen' = [seen EXCEPT ![m] = SeenFront(job[m].staged.id, @)]
  /\ job' = [job EXCEPT ![m] = AfterMerge(m)]
  /\ UNCHANGED <<used, purged, folder, pen, made>>

\* An error rolls the transaction back and then puts the copy over the database.
MergeFail(m) ==
  /\ job[m].at = "merging" /\ Spend("faults")
  /\ db' = [db EXCEPT ![m] = job[m].copy.db]
  /\ seen' = [seen EXCEPT ![m] = job[m].copy.seen]
  /\ job' = [job EXCEPT ![m] = AfterMerge(m)]
  /\ UNCHANGED <<used, purged, folder, pen, made>>

\* After the last import the import command trims the folder; a full cycle goes on.
FinishImport(m) ==
  /\ job[m].at = "importing" /\ job[m].todo = <<>>
  /\ IF job[m].mode = "import"
     THEN folder' = Trimmed(folder) /\ job' = [job EXCEPT ![m] = Idle]
     ELSE UNCHANGED folder /\ job' = [job EXCEPT ![m] = [Idle EXCEPT !.at = "exporting", !.mode = "full"]]
  /\ UNCHANGED <<db, seen, used, purged, pen, made, left>>

StartExport(m) ==
  /\ job[m].at = "idle" /\ "export" \in left.modes /\ Spend("cycles")
  /\ job' = [job EXCEPT ![m] = [Idle EXCEPT !.at = "exporting", !.mode = "export"]]
  /\ UNCHANGED <<db, seen, used, purged, folder, pen, made>>

\* The archive is complete before it gets its name in the folder.
Export(m) ==
  /\ job[m].at = "exporting"
  /\ folder' = folder \cup {[id |-> made + 1, by |-> m, db |-> db[m]]}
  /\ made' = made + 1
  /\ job' = [job EXCEPT ![m] = [at |-> "published", own |-> made + 1, late |-> FALSE]]
  /\ UNCHANGED <<db, seen, used, purged, pen, left>>

MarkExported(m) ==
  /\ job[m].at = "published"
  /\ seen' = [seen EXCEPT ![m] = SeenFront(job[m].own, @)]
  /\ folder' = Trimmed(folder)
  /\ job' = [job EXCEPT ![m] = Idle]
  /\ UNCHANGED <<db, used, purged, pen, made, left>>

\* The process ends; an open transaction is undone by the next start.
Crash(m) ==
  /\ job[m].at # "idle" /\ Spend("faults")
  /\ job' = [job EXCEPT ![m] = Idle]
  /\ UNCHANGED <<db, seen, used, purged, folder, pen, made>>

\* The settings dialog puts a snapshot that reads as valid again back, or removes it.
Release(s) == s \in pen /\ pen' = pen \ {s} /\ folder' = folder \cup {s}
Discard(s) == s \in pen /\ pen' = pen \ {s} /\ UNCHANGED folder
EmptyPen ==
  /\ \E s \in pen : Release(s) \/ Discard(s)
  /\ UNCHANGED <<db, seen, used, job, purged, made, left>>

CloudStep(m) ==
  \/ Fetch(m) \/ EditArticle(m) \/ EditMany(m)
  \/ StartPruning(m) \/ PickBatch(m) \/ DropBatch(m) \/ StopPruning(m)
  \/ Select(m) \/ SkipImport(m) \/ RejectImport(m) \/ StartImport(m) \/ MergeCommit(m)
  \/ MergeFail(m) \/ FinishImport(m) \/ StartExport(m) \/ Export(m) \/ MarkExported(m) \/ Crash(m)

CloudNext == EmptyPen \/ \E m \in Machines : CloudStep(m)

CloudSpec == CloudInit /\ [][CloudNext]_cloudVars

-----------------------------------------------------------------------------
(* Properties *)

Copies == {s.db : s \in folder \cup pen}
          \cup {job[m].copy.db : m \in {n \in Machines : job[n].at = "merging"}}

CloudTypeOK ==
  /\ \A d \in Copies \cup {db[m] : m \in Machines} : IsStore(d, Stamps)
  /\ \A m \in Machines : Len(seen[m]) <= MaxSeen /\ used[m] \subseteq Stamps
  /\ \A s \in folder \cup pen : s.id \in 1..made /\ s.by \in Machines
  /\ folder \cap pen = {}

\* Two copies of an article, wherever they are, agree on every field they carry the
\* same time for: which of two machines merges first makes no difference.
OneStampOneValue ==
  \A c, e \in Copies \cup {db[m] : m \in Machines} : \A l \in Stored(c) \cap Stored(e) :
    LET x == c.news[l]  y == e.news[l]
    IN /\ x.readAt = y.readAt => x.read = y.read
       /\ x.markedAt = y.markedAt => x.marked = y.marked
       /\ x.notedAt = y.notedAt => x.noted = y.noted
       /\ x.deletedAt = y.deletedAt => x.deleted = y.deleted
       /\ x.tagsAt = y.tagsAt => x.tags = y.tags

\* A snapshot in the list of seen ones has been merged whole: the machine knows each
\* of its articles, unless it deleted it for good, at least as lately.  (An emptied
\* tag list is the exception: the merge has no row to carry it.  And a machine whose
\* clock is behind writes over what it merged with an older time.)
SeenMeansMerged == ~ left.skewed =>
  \A m \in Machines : \A s \in folder :
    (\E i \in DOMAIN seen[m] : seen[m][i] = s.id) =>
      \A l \in Stored(s.db) \ purged[m] :
        /\ l \in Stored(db[m])
        /\ LET x == s.db.news[l]  y == db[m].news[l]
           IN /\ y.readAt >= x.readAt /\ y.markedAt >= x.markedAt /\ y.notedAt >= x.notedAt
              /\ y.deletedAt >= x.deletedAt /\ (x.tags # {} => y.tagsAt >= x.tagsAt)

\* No step changes a field of an article except to a value written later: a merge
\* brings back neither an old mark nor a deleted article.  The one step that may is
\* the fallback of a failed merge, and only over what the user did meanwhile.
NewerWins ==
  [][~ left.skewed => \A m \in Machines : \A l \in Stored(db[m]) \cap Stored(db'[m]) :
       LET x == db[m].news[l]  y == db'[m].news[l]
       IN \/ job[m].at = "merging" /\ job[m].late /\ db'[m] = job[m].copy.db
          \/ /\ y.readAt > x.readAt \/ (y.readAt = x.readAt /\ y.read = x.read)
             /\ y.markedAt > x.markedAt \/ (y.markedAt = x.markedAt /\ y.marked = x.marked)
             /\ y.notedAt > x.notedAt \/ (y.notedAt = x.notedAt /\ y.noted = x.noted)
             /\ y.deletedAt > x.deletedAt \/ (y.deletedAt = x.deletedAt /\ y.deleted = x.deleted)
             /\ y.tagsAt > x.tagsAt \/ (y.tagsAt = x.tagsAt /\ y.tags = x.tags)]_cloudVars

\* The groups of a database whose flags are not what a full computation would give.
Inexact(d) ==
  {g \in Keys \X Titles : \E l \in Group(d, g[1], g[2]) :
     d.member[<<l, g[1]>>] # (Cardinality(Group(d, g[1], g[2])) > 1)}

\* The groups whose flags the code does not compute afresh when a step makes e of d:
\* those of a restored article, of one whose title changed through another scope (the
\* group it left and the one it joined), and those with a hidden member.
Shared(e, l) ==
  \E j, k \in Keys : j # k /\ <<l, j>> \in DOMAIN e.member /\ <<l, k>> \in DOMAIN e.member
Restored(d, e) == {l \in Live(e) \cap Stored(d) : d.news[l].deleted}
Retitled(d, e) ==
  {l \in Live(e) \cap Stored(d) : d.news[l].title # e.news[l].title /\ Shared(e, l)}
HiddenGroups(e) == {<<k, e.news[l].title>> : k \in Keys, l \in Stored(e) \ Live(e)}
Uncomputed(d, e) ==
  HiddenGroups(e) \cup Affected(e, Restored(d, e))
    \cup Affected(d, Retitled(d, e)) \cup Affected(e, Retitled(d, e))

FlagsKept(d, e) ==
  IF \E l \in Live(d) \cap Stored(e) : e.news[l].deleted
  THEN Inexact(e) = {}
  ELSE Inexact(e) \subseteq Inexact(d) \cup Uncomputed(d, e)

\* The duplicate flags go wrong only where the code computes nothing: a restored
\* article, a title changed through another scope, a deleted article fetched again
\* beside its twin.  A step that deletes, in the list or by a merge, computes all of
\* them and leaves none wrong.  Only the fallback of a failed merge may bring back
\* flags that were wrong before it, if the user worked meanwhile.
FlagsStayExact ==
  [][\A m \in Machines :
       \/ job[m].at = "merging" /\ job[m].late /\ db'[m] = job[m].copy.db
       \/ FlagsKept(db[m], db'[m])]_cloudVars

\* The list, its total and unread counts, the badge of a tab, the statistics and
\* "mark all as read" are separate queries over the same filters, and the preview of a
\* merge counts by other queries than the merge writes by: they agree.
ListingsAgree ==
  \A m \in Machines :
    LET d == db[m]
        unread(S) == {l \in S : ~ d.news[l].read}
    IN /\ \A sc \in Scopes :
            /\ CountNewsStates(d, sc).total = Cardinality(FetchNews(d, sc))
            /\ CountNewsStates(d, sc).unread = Cardinality(unread(FetchNews(d, sc)))
            /\ MarkScope(d, sc) = unread(FetchNews(d, sc))
       /\ \A k \in Keys : UnreadBadge(d, k) =
            Cardinality(FetchNews(d, [key |-> k, unread |-> TRUE, unique |-> FALSE, tag |-> AnyTag]))
       /\ Statistics(d).total = Cardinality(Archive(d, FALSE, FALSE))
       /\ Statistics(d).unread = Cardinality(Archive(d, FALSE, TRUE))
       /\ job[m].at = "merging" =>
            LET e == Merge(d, job[m].staged.db)
                old == Stored(d)
            IN MergePreview(d, job[m].staged.db) =
                 [news        |-> Cardinality(Stored(e)) - Cardinality(old),
                  memberships |-> Cardinality(DOMAIN e.member) - Cardinality(DOMAIN d.member),
                  read        |-> Cardinality({l \in old : e.news[l].read # d.news[l].read}),
                  marked      |-> Cardinality({l \in old : e.news[l].marked # d.news[l].marked}),
                  tags        |-> Cardinality({l \in Stored(e) : e.news[l].tagsAt #
                                                 IF l \in old THEN d.news[l].tagsAt ELSE 0}),
                  deleted     |-> Cardinality((Stored(e) \ Live(e)) \ (old \ Live(d))),
                  restored    |-> Cardinality(Live(e) \cap (old \ Live(d)))]
=============================================================================
