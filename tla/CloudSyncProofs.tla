---------------------------- MODULE CloudSyncProofs ----------------------------
(***************************************************************************)
(* Machines that exchange snapshots, for any number of machines, articles, *)
(* edits and cycles: two copies of an article agree wherever they carry    *)
(* the same time, newer values win, what was seen is merged, and what the  *)
(* separate queries count agrees.                                          *)
(***************************************************************************)
EXTENDS CloudSync, FiniteSetTheorems, WellFoundedInduction, TLAPS

Row == [title : Titles, read : BOOLEAN, readAt : Nat, marked : BOOLEAN, markedAt : Nat,
        noted : BOOLEAN, notedAt : Nat, deleted : BOOLEAN, deletedAt : Nat,
        tags : SUBSET Tags, tagsAt : Nat]

\* A database, its rows and its flags.
HasRows(d) == Stored(d) \subseteq Links /\ d.news \in [Stored(d) -> Row]
HasFlags(d) ==
  /\ DOMAIN d.member \subseteq Stored(d) \X Keys
  /\ d.member \in [DOMAIN d.member -> BOOLEAN]
IsDb(d) == d = [news |-> d.news, member |-> d.member] /\ HasRows(d) /\ HasFlags(d)

\* The times of a row; a field never written has none, and its first value.
Times(r) == {r.readAt, r.markedAt, r.notedAt, r.deletedAt, r.tagsAt}
Virgin(r) ==
  /\ r.readAt = 0 => ~ r.read
  /\ r.markedAt = 0 => ~ r.marked
  /\ r.notedAt = 0 => ~ r.noted
  /\ r.deletedAt = 0 => ~ r.deleted
  /\ r.tagsAt = 0 => r.tags = {}

\* Two rows agree on every field they carry the same time for.
Agree(x, y) ==
  /\ x.readAt = y.readAt => x.read = y.read
  /\ x.markedAt = y.markedAt => x.marked = y.marked
  /\ x.notedAt = y.notedAt => x.noted = y.noted
  /\ x.deletedAt = y.deletedAt => x.deleted = y.deleted
  /\ x.tagsAt = y.tagsAt => x.tags = y.tags

\* The databases, wherever they are, and the times ever used.
Merging == {m \in Machines : job[m].at = "merging"}
Databases == Copies \cup {job[m].staged.db : m \in Merging} \cup {db[m] : m \in Machines}
UsedTimes == UNION {used[m] : m \in Machines}

Plan == [edits : Nat, cycles : Nat, faults : Nat, ops : SUBSET STRING, modes : SUBSET STRING,
         who : SUBSET Machines, skewed : BOOLEAN, tags : SUBSET Tags, pages : SUBSET Pages,
         start : Pages]

\* The fields a job has at each of its stages.
IsJob(j) ==
  /\ {"at", "late"} \subseteq DOMAIN j /\ j.late \in BOOLEAN
  /\ j.at \in {"idle", "pruning", "importing", "merging", "exporting", "published"}
  /\ j.at = "pruning" => "batch" \in DOMAIN j
  /\ j.at = "importing" => {"mode", "todo"} \subseteq DOMAIN j
  /\ j.at = "merging" => {"mode", "todo", "staged", "copy"} \subseteq DOMAIN j
  /\ j.at = "published" => "own" \in DOMAIN j

CloudTyped ==
  /\ left \in Plan
  /\ used \in [Machines -> SUBSET Stamps]
  /\ db = [m \in Machines |-> db[m]] /\ seen = [m \in Machines |-> seen[m]]
  /\ purged = [m \in Machines |-> purged[m]]
  /\ job = [m \in Machines |-> job[m]] /\ \A m \in Machines : IsJob(job[m])
  /\ made \in Nat
  /\ \A d \in Databases : IsDb(d)

\* The databases hold only what was written.
Written ==
  \A d \in Databases : \A l \in Stored(d) :
    Times(d.news[l]) \subseteq UsedTimes \cup {0} /\ Virgin(d.news[l])

\* What the merges compare agrees, also with a snapshot that has left the folder.
Agreed ==
  \A c, e \in Databases : \A l \in Stored(c) \cap Stored(e) : Agree(c.news[l], e.news[l])

\* A snapshot that was merged on a machine is known to it, article by article.
Knows(d, gone, s) ==
  \A l \in Stored(s.db) \ gone :
    /\ l \in Stored(d)
    /\ LET x == s.db.news[l]  y == d.news[l]
       IN /\ y.readAt >= x.readAt /\ y.markedAt >= x.markedAt /\ y.notedAt >= x.notedAt
          /\ y.deletedAt >= x.deletedAt /\ (x.tags # {} => y.tagsAt >= x.tagsAt)

InList(list, id) == \E i \in DOMAIN list : list[i] = id

\* Snapshots are numbered, a machine's own number names its own snapshot, and a staged
\* one is the only one of its number.
Numbered ==
  /\ \A s \in folder \cup pen : s.id \in 1..made /\ s.by \in Machines
  /\ \A s, t \in folder \cup pen : s.id = t.id => s = t
  /\ \A m \in Machines :
       /\ seen[m] \in Seq(1..made)
       /\ job[m].at = "published" =>
            job[m].own \in 1..made /\ \A s \in folder \cup pen : s.id = job[m].own => s.by = m
       /\ job[m].at = "merging" =>
            /\ job[m].copy.seen \in Seq(1..made) /\ job[m].staged.id \in 1..made
            /\ \A s \in folder \cup pen : s.id = job[m].staged.id => s = job[m].staged

\* What a machine has seen or made itself it knows, and so does the copy it may have to
\* go back to.
Known ==
  ~ left.skewed =>
    \A m \in Machines : \A s \in folder \cup pen :
      /\ s.by = m \/ InList(seen[m], s.id) => Knows(db[m], purged[m], s)
      /\ job[m].at = "merging" /\ (s.by = m \/ InList(job[m].copy.seen, s.id))
           => Knows(job[m].copy.db, purged[m], s)

\* A copy that nothing was written beside is the database.
CopyIsFresh ==
  \A m \in Machines : job[m].at = "merging" /\ ~ job[m].late => job[m].copy.db = db[m]

CloudInv == CloudTyped /\ Written /\ Agreed /\ Numbered /\ Known /\ CopyIsFresh

-----------------------------------------------------------------------------
(* Rows                                                                    *)

\* Row y is row x with some fields written now.
Rewritten(x, y, now) ==
  /\ y.readAt = now \/ (y.readAt = x.readAt /\ y.read = x.read)
  /\ y.markedAt = now \/ (y.markedAt = x.markedAt /\ y.marked = x.marked)
  /\ y.notedAt = now \/ (y.notedAt = x.notedAt /\ y.noted = x.noted)
  /\ y.deletedAt = now \/ (y.deletedAt = x.deletedAt /\ y.deleted = x.deleted)
  /\ y.tagsAt = now \/ (y.tagsAt = x.tagsAt /\ y.tags = x.tags)

\* Row y has every field at least as late as row x has it, and later if it changed.
NewerRow(x, y) ==
  /\ y.readAt > x.readAt \/ (y.readAt = x.readAt /\ y.read = x.read)
  /\ y.markedAt > x.markedAt \/ (y.markedAt = x.markedAt /\ y.marked = x.marked)
  /\ y.notedAt > x.notedAt \/ (y.notedAt = x.notedAt /\ y.noted = x.noted)
  /\ y.deletedAt > x.deletedAt \/ (y.deletedAt = x.deletedAt /\ y.deleted = x.deleted)
  /\ y.tagsAt > x.tagsAt \/ (y.tagsAt = x.tagsAt /\ y.tags = x.tags)

LEMMA RowsOf ==
  ASSUME NEW d, IsDb(d), NEW l \in Stored(d)
  PROVE  d.news[l] \in Row
BY DEF IsDb, HasRows

LEMMA FreshIsVirgin ==
  ASSUME NEW t \in Titles
  PROVE  Fresh(t) \in Row /\ Virgin(Fresh(t)) /\ Times(Fresh(t)) = {0}
BY DEF Fresh, Row, Virgin, Times

\* A rewritten row carries old times and the new one, and agrees with every row that
\* the old one agrees with and that is older than now.
LEMMA RewrittenRow ==
  ASSUME NEW x \in Row, NEW y \in Row, NEW now \in Nat \ {0}, Rewritten(x, y, now)
  PROVE  /\ Times(y) \subseteq Times(x) \cup {now}
         /\ Virgin(x) => Virgin(y)
         /\ \A z \in Row : Agree(x, z) /\ now \notin Times(z) => Agree(y, z)
         /\ (\A t \in Times(x) : now > t) => NewerRow(x, y)
<1>1. Times(y) \subseteq Times(x) \cup {now}
  BY DEF Rewritten, Times
<1>2. Virgin(x) => Virgin(y)
  BY DEF Rewritten, Virgin
<1>3. ASSUME NEW z \in Row, Agree(x, z), now \notin Times(z) PROVE Agree(y, z)
  BY <1>3 DEF Rewritten, Agree, Times
<1>4. ASSUME \A t \in Times(x) : now > t PROVE NewerRow(x, y)
  BY <1>4 DEF Rewritten, NewerRow, Times
<1> QED BY <1>1, <1>2, <1>3, <1>4

LEMMA NewerIsTransitive ==
  ASSUME NEW x \in Row, NEW y \in Row, NEW z \in Row, NewerRow(x, y), NewerRow(y, z)
  PROVE  NewerRow(x, z)
BY DEF NewerRow, Row

\* Any two rows agree in the fields that neither of them was ever written in.
LEMMA VirginsAgree ==
  ASSUME NEW t \in Titles, NEW z \in Row, Virgin(z)
  PROVE  Agree(Fresh(t), z)
BY DEF Fresh, Row, Virgin, Agree

-----------------------------------------------------------------------------
(* Databases                                                               *)

\* The row of an article before an edit.
Before(d, e, l) == IF l \in Stored(d) THEN d.news[l] ELSE Fresh(e.news[l].title)

\* e is d after some of its fields were written now, and with some articles more.
Edited(d, e, now) ==
  /\ IsDb(e)
  /\ Stored(d) \subseteq Stored(e)
  /\ \A l \in Stored(e) : Rewritten(Before(d, e, l), e.news[l], now)

LEMMA RewrittenAgain ==
  ASSUME NEW x, NEW y, NEW z, NEW now, Rewritten(x, y, now), Rewritten(y, z, now)
  PROVE  Rewritten(x, z, now)
BY DEF Rewritten

LEMMA RewrittenNot == \A x, now : Rewritten(x, x, now)
BY DEF Rewritten

\* Only the flags change, or nothing.
LEMMA SameRows ==
  ASSUME NEW d, NEW e, NEW now, IsDb(d), IsDb(e), e.news = d.news
  PROVE  Edited(d, e, now)
BY RewrittenNot DEF Edited, Before, Stored

LEMMA EditedAgain ==
  ASSUME NEW d, NEW e, NEW f, NEW now, Edited(d, e, now), Edited(e, f, now)
  PROVE  Edited(d, f, now)
<1>1. IsDb(f) /\ Stored(d) \subseteq Stored(f)
  BY DEF Edited
<1>2. ASSUME NEW l \in Stored(f) PROVE Rewritten(Before(d, f, l), f.news[l], now)
  <2>1. CASE l \in Stored(d)
    BY <2>1, <1>2, RewrittenAgain DEF Edited, Before
  <2>2. CASE l \in Stored(e) \ Stored(d)
    <3>1. Rewritten(Fresh(e.news[l].title), f.news[l], now)
      BY <2>2, <1>2, RewrittenAgain DEF Edited, Before
    <3> QED BY <3>1, <2>2 DEF Before, Rewritten, Fresh
  <2>3. CASE l \notin Stored(e)
    BY <2>3, <1>2 DEF Edited, Before
  <2> QED BY <2>1, <2>2, <2>3
<1> QED BY <1>1, <1>2 DEF Edited

LEMMA FlagsOfGroups ==
  ASSUME NEW d, IsDb(d), NEW G
  PROVE  /\ IsDb(RecalcGroups(d, G)) /\ RecalcGroups(d, G).news = d.news
         /\ DOMAIN RecalcGroups(d, G).member = DOMAIN d.member
<1> DEFINE fresh(p) == IF p[1] \in Live(d) /\ <<p[2], d.news[p[1]].title>> \in G
                      THEN Cardinality(Group(d, p[2], d.news[p[1]].title)) > 1
                      ELSE d.member[p]
           flags == [p \in DOMAIN d.member |-> fresh(p)]
<1>1. RecalcGroups(d, G) = [d EXCEPT !.member = flags]
  BY Zenon DEF RecalcGroups
<1>2. ASSUME NEW p \in DOMAIN d.member PROVE fresh(p) \in BOOLEAN
  <2>1. (Cardinality(Group(d, p[2], d.news[p[1]].title)) > 1) \in BOOLEAN
    OBVIOUS
  <2>2. d.member[p] \in BOOLEAN
    BY <1>2 DEF IsDb, HasFlags
  <2> QED BY <2>1, <2>2, Zenon
<1>3. flags \in [DOMAIN d.member -> BOOLEAN]
  BY <1>2, Zenon
<1> HIDE DEF flags
<1> QED BY <1>1, <1>3 DEF IsDb, HasRows, HasFlags, Stored

LEMMA FlagsOfAll ==
  ASSUME NEW d, IsDb(d)
  PROVE  /\ IsDb(RecalcAll(d)) /\ RecalcAll(d).news = d.news
         /\ DOMAIN RecalcAll(d).member = DOMAIN d.member
<1>1. CASE \E p \in DOMAIN d.member : p[1] \in Live(d)
  BY <1>1, FlagsOfGroups DEF RecalcAll
<1>2. CASE ~ \E p \in DOMAIN d.member : p[1] \in Live(d)
  <2>1. RecalcAll(d) = [news |-> d.news, member |-> [p \in DOMAIN d.member |-> FALSE]]
    BY <1>2 DEF RecalcAll, IsDb
  <2> QED BY <2>1 DEF IsDb, HasRows, HasFlags, Stored
<1> QED BY <1>1, <1>2

\* Rows are rewritten, none comes or goes.
LEMMA RowsRewritten ==
  ASSUME NEW d, IsDb(d), NEW now, NEW rows \in [Stored(d) -> Row],
         \A l \in Stored(d) : Rewritten(d.news[l], rows[l], now)
  PROVE  Edited(d, [d EXCEPT !.news = rows], now)
<1> DEFINE e == [d EXCEPT !.news = rows]
<1>1. e = [news |-> rows, member |-> d.member]
  BY DEF IsDb
<1>2. IsDb(e)
  BY <1>1 DEF IsDb, HasRows, HasFlags, Stored
<1> QED BY <1>1, <1>2 DEF Edited, Before, Stored

LEMMA OneRowRewritten ==
  ASSUME NEW d, IsDb(d), NEW now, NEW l \in Stored(d), NEW row \in Row,
         Rewritten(d.news[l], row, now)
  PROVE  Edited(d, WithRow(d, l, row), now)
<1> DEFINE rows == [d.news EXCEPT ![l] = row]
<1>1. rows \in [Stored(d) -> Row]
  BY DEF IsDb, HasRows
<1>2. \A k \in Stored(d) : Rewritten(d.news[k], rows[k], now)
  BY RewrittenNot DEF IsDb, HasRows
<1>3. WithRow(d, l, row) = [d EXCEPT !.news = rows]
  BY DEF WithRow
<1> HIDE DEF rows
<1> QED BY <1>1, <1>2, <1>3, RowsRewritten


-----------------------------------------------------------------------------
(* The operations of one article                                           *)

LEMMA ReadIsEdit ==
  ASSUME NEW d, IsDb(d), NEW l \in Stored(d), NEW v \in BOOLEAN, NEW now \in Nat
  PROVE  Edited(d, SetRead(d, l, v, now), now)
<1> DEFINE row == [d.news[l] EXCEPT !.read = v, !.readAt = now]
<1>1. d.news[l] \in Row
  BY DEF IsDb, HasRows
<1>2. row \in Row /\ Rewritten(d.news[l], row, now)
  BY <1>1 DEF Row, Rewritten
<1> HIDE DEF row
<1>3. SetRead(d, l, v, now) = IF d.news[l].read = v THEN d ELSE WithRow(d, l, row)
  BY Zenon DEF SetRead, row
<1> QED BY <1>2, <1>3, SameRows, OneRowRewritten

LEMMA MarkIsEdit ==
  ASSUME NEW d, IsDb(d), NEW l \in Stored(d), NEW v \in BOOLEAN, NEW now \in Nat
  PROVE  Edited(d, SetMarked(d, l, v, now), now)
<1> DEFINE row == [d.news[l] EXCEPT !.marked = v, !.markedAt = now]
<1>1. d.news[l] \in Row
  BY DEF IsDb, HasRows
<1>2. row \in Row /\ Rewritten(d.news[l], row, now)
  BY <1>1 DEF Row, Rewritten
<1> HIDE DEF row
<1>3. SetMarked(d, l, v, now) = IF d.news[l].marked = v THEN d ELSE WithRow(d, l, row)
  BY Zenon DEF SetMarked, row
<1> QED BY <1>2, <1>3, SameRows, OneRowRewritten

LEMMA NoteIsEdit ==
  ASSUME NEW d, IsDb(d), NEW l \in Stored(d), NEW v \in BOOLEAN, NEW now \in Nat
  PROVE  Edited(d, SetNoted(d, l, v, now), now)
<1> DEFINE row == [d.news[l] EXCEPT !.noted = v, !.notedAt = now]
<1>1. d.news[l] \in Row
  BY DEF IsDb, HasRows
<1>2. row \in Row /\ Rewritten(d.news[l], row, now)
  BY <1>1 DEF Row, Rewritten
<1> HIDE DEF row
<1>3. SetNoted(d, l, v, now) = IF d.news[l].noted = v THEN d ELSE WithRow(d, l, row)
  BY Zenon DEF SetNoted, row
<1> QED BY <1>2, <1>3, SameRows, OneRowRewritten

LEMMA ImportIsEdit ==
  ASSUME NEW d, IsDb(d), NEW l \in Stored(d), NEW v \in BOOLEAN, NEW w \in BOOLEAN,
         NEW now \in Nat
  PROVE  Edited(d, ImportState(d, l, v, w, now), now)
<1> DEFINE e == SetMarked(d, l, v, now)
<1>1. Edited(d, e, now)
  BY MarkIsEdit
<1> HIDE DEF e
<1>2. Edited(e, SetNoted(e, l, w, now), now)
  BY <1>1, NoteIsEdit DEF Edited
<1>3. ImportState(d, l, v, w, now) = SetNoted(e, l, w, now)
  BY DEF ImportState, e
<1> QED BY <1>1, <1>2, <1>3, EditedAgain

LEMMA TagsAreEdit ==
  ASSUME NEW d, IsDb(d), NEW l \in Stored(d), NEW T \in SUBSET Tags, NEW now \in Nat
  PROVE  Edited(d, SetTags(d, l, T, now), now)
<1> DEFINE row == [d.news[l] EXCEPT !.tags = T, !.tagsAt = now]
<1>1. d.news[l] \in Row
  BY DEF IsDb, HasRows
<1>2. row \in Row /\ Rewritten(d.news[l], row, now)
  BY <1>1 DEF Row, Rewritten
<1> HIDE DEF row
<1>3. SetTags(d, l, T, now) = IF d.news[l].tags = T THEN d ELSE WithRow(d, l, row)
  BY Zenon DEF SetTags, row
<1> QED BY <1>2, <1>3, SameRows, OneRowRewritten

\* A deletion, or its undoing, and the flags computed after it.
LEMMA DeleteIsEdit ==
  ASSUME NEW d, IsDb(d), NEW l \in Stored(d), NEW now \in Nat
  PROVE  /\ Edited(d, DeleteLink(d, l, now), now)
         /\ Edited(d, RestoreDeletedLink(d, l, now), now)
<1> DEFINE row(v) == [d.news[l] EXCEPT !.deleted = v, !.deletedAt = now]
           e(v) == WithRow(d, l, row(v))
<1>1. d.news[l] \in Row
  BY DEF IsDb, HasRows
<1>2. ASSUME NEW v \in BOOLEAN PROVE Edited(d, e(v), now)
  <2>1. row(v) \in Row /\ Rewritten(d.news[l], row(v), now)
    BY <1>1 DEF Row, Rewritten
  <2> HIDE DEF row
  <2> QED BY <2>1, OneRowRewritten
<1>3. DeleteLink(d, l, now) = IF d.news[l].deleted THEN d ELSE RecalcAll(e(TRUE))
  BY Zenon DEF DeleteLink
<1>4. RestoreDeletedLink(d, l, now) =
        IF ~ d.news[l].deleted THEN d ELSE RecalcGroups(e(FALSE), Affected(d, {l}))
  BY Zenon DEF RestoreDeletedLink
<1> HIDE DEF e
<1>5. ASSUME NEW v \in BOOLEAN
      PROVE  Edited(d, RecalcAll(e(v)), now) /\ Edited(d, RecalcGroups(e(v), Affected(d, {l})), now)
  <2>1. IsDb(e(v)) /\ Edited(d, e(v), now)
    BY <1>2 DEF Edited
  <2>2. /\ Edited(e(v), RecalcAll(e(v)), now)
        /\ Edited(e(v), RecalcGroups(e(v), Affected(d, {l})), now)
    BY <2>1, FlagsOfAll, FlagsOfGroups, SameRows
  <2> QED BY <2>1, <2>2, EditedAgain
<1> QED BY <1>3, <1>4, <1>5, SameRows

-----------------------------------------------------------------------------
(* The operations of many articles                                         *)

LEMMA RetagIsEdit ==
  ASSUME NEW d, IsDb(d), NEW S, NEW now \in Nat, NEW to,
         \A T \in SUBSET Tags : to[T] \subseteq Tags
  PROVE  Edited(d, Retag(d, S, to, now), now)
<1> DEFINE row(l) == IF l \in S \cap Live(d) /\ to[d.news[l].tags] # d.news[l].tags
                     THEN [d.news[l] EXCEPT !.tags = to[@], !.tagsAt = now]
                     ELSE d.news[l]
           rows == [l \in Stored(d) |-> row(l)]
<1>1. ASSUME NEW l \in Stored(d) PROVE row(l) \in Row /\ Rewritten(d.news[l], row(l), now)
  <2>1. d.news[l] \in Row /\ to[d.news[l].tags] \in SUBSET Tags
    BY <1>1 DEF IsDb, HasRows, Row
  <2> QED BY <2>1 DEF Row, Rewritten
<1>2. Retag(d, S, to, now) = [d EXCEPT !.news = rows]
  BY Zenon DEF Retag
<1> HIDE DEF row
<1>3. rows \in [Stored(d) -> Row] /\ \A l \in Stored(d) : rows[l] = row(l)
  BY <1>1
<1> HIDE DEF rows
<1> QED BY <1>1, <1>2, <1>3, RowsRewritten

LEMMA TagsOfManyAreEdit ==
  ASSUME NEW d, IsDb(d), NEW S, NEW now \in Nat, NEW t \in Tags, NEW u \in Tags
  PROVE  /\ Edited(d, RenameTag(d, t, u, now), now)
         /\ Edited(d, DeleteTagEverywhere(d, t, now), now)
         /\ Edited(d, BulkAddTag(d, S, t, now), now)
         /\ Edited(d, BulkRemoveTag(d, S, t, now), now)
<1> DEFINE renamed == [T \in SUBSET Tags |-> IF t \in T THEN (T \ {t}) \cup {u} ELSE T]
           less == [T \in SUBSET Tags |-> T \ {t}]
           more == [T \in SUBSET Tags |-> T \cup {t}]
<1>1. \A T \in SUBSET Tags : renamed[T] \subseteq Tags /\ less[T] \subseteq Tags /\ more[T] \subseteq Tags
  OBVIOUS
<1>2. /\ RenameTag(d, t, u, now) = Retag(d, Links, renamed, now)
      /\ DeleteTagEverywhere(d, t, now) = Retag(d, Links, less, now)
      /\ BulkAddTag(d, S, t, now) = Retag(d, S, more, now)
      /\ BulkRemoveTag(d, S, t, now) = Retag(d, S, less, now)
  BY Zenon DEF RenameTag, DeleteTagEverywhere, BulkAddTag, BulkRemoveTag
<1> HIDE DEF renamed, less, more
<1> QED BY <1>1, <1>2, RetagIsEdit

LEMMA ReadAllIsEdit ==
  ASSUME NEW d, IsDb(d), NEW S, NEW now \in Nat
  PROVE  Edited(d, MarkLinksRead(d, S, now), now)
<1> DEFINE row(l) == IF l \in S \cap Live(d) /\ ~ d.news[l].read
                     THEN [d.news[l] EXCEPT !.read = TRUE, !.readAt = now]
                     ELSE d.news[l]
           rows == [l \in Stored(d) |-> row(l)]
<1>1. ASSUME NEW l \in Stored(d) PROVE row(l) \in Row /\ Rewritten(d.news[l], row(l), now)
  <2>1. d.news[l] \in Row
    BY <1>1 DEF IsDb, HasRows, Row
  <2> QED BY <2>1 DEF Row, Rewritten
<1>2. MarkLinksRead(d, S, now) = [d EXCEPT !.news = rows]
  BY Zenon DEF MarkLinksRead
<1> HIDE DEF row
<1>3. rows \in [Stored(d) -> Row] /\ \A l \in Stored(d) : rows[l] = row(l)
  BY <1>1
<1> HIDE DEF rows
<1> QED BY <1>1, <1>2, <1>3, RowsRewritten

\* The rules tag, read and mark: three edits at one time.
LEMMA AutomationIsEdit ==
  ASSUME NEW d, IsDb(d), NEW S, NEW now \in Nat, NEW t \in Tags
  PROVE  Edited(d, Automate(d, S, t, now), now)
<1> DEFINE e == BulkAddTag(d, S, t, now)
           f == MarkLinksRead(e, S, now)
           row(l) == IF l \in S \cap Live(f) /\ ~ f.news[l].marked
                     THEN [f.news[l] EXCEPT !.marked = TRUE, !.markedAt = now]
                     ELSE f.news[l]
           rows == [l \in Stored(f) |-> row(l)]
<1>1. Automate(d, S, t, now) = [f EXCEPT !.news = rows]
  BY Zenon DEF Automate
<1>2. Edited(d, e, now)
  BY TagsOfManyAreEdit
<1> HIDE DEF e
<1>3. Edited(e, f, now)
  BY <1>2, ReadAllIsEdit DEF Edited
<1> HIDE DEF f
<1>4. ASSUME NEW l \in Stored(f) PROVE row(l) \in Row /\ Rewritten(f.news[l], row(l), now)
  <2>1. f.news[l] \in Row
    BY <1>3, <1>4 DEF Edited, IsDb, HasRows
  <2> QED BY <2>1 DEF Row, Rewritten
<1> HIDE DEF row
<1>5. rows \in [Stored(f) -> Row] /\ \A l \in Stored(f) : rows[l] = row(l)
  BY <1>4
<1> HIDE DEF rows
<1>6. Edited(f, [f EXCEPT !.news = rows], now)
  BY <1>3, <1>4, <1>5, RowsRewritten DEF Edited
<1> QED BY <1>1, <1>2, <1>3, <1>6, EditedAgain


-----------------------------------------------------------------------------
(* Pages, deletions for good and merges                                    *)

LEMMA ElementOf ==
  ASSUME NEW S, NEW q \in Seq(S), NEW i \in DOMAIN q
  PROVE  q[i] \in S
OBVIOUS

\* What a page makes of a database before the groups of its scope are computed: its
\* articles, where it has each, the flag it gives, the titles it touches.
Incoming(items) == {items[i].link : i \in DOMAIN items}
Place(items, l) == CHOOSE i \in DOMAIN items : items[i].link = l
IsMember(d, k, item) == <<item.link, k>> \in DOMAIN d.member
Earlier(items, i) ==
  {items[j].link : j \in {x \in DOMAIN items : x < i /\ items[x].title = items[i].title}}
PageFlag(d, k, items, i) ==
  (Group(d, k, items[i].title) \cup Earlier(items, i)) \ {items[i].link} # {}
Moved(d, k, item) == IsMember(d, k, item) /\ d.news[item.link].title # item.title
Touched(d, k, items) ==
  {items[i].title : i \in {x \in DOMAIN items : ~ IsMember(d, k, items[x]) \/ Moved(d, k, items[x])}}
    \cup {d.news[items[i].link].title : i \in {x \in DOMAIN items : Moved(d, k, items[x])}}
PageRow(d, items, l) ==
  IF l \notin Incoming(items) THEN d.news[l]
  ELSE IF l \in Stored(d)
       THEN [d.news[l] EXCEPT !.title = items[Place(items, l)].title]
       ELSE Fresh(items[Place(items, l)].title)
FlagOf(d, k, items, p) ==
  IF p[1] \in Incoming(items) /\ p[2] = k
  THEN PageFlag(d, k, items, Place(items, p[1])) ELSE d.member[p]
PageStore(d, k, items) ==
  [news   |-> [l \in Stored(d) \cup Incoming(items) |-> PageRow(d, items, l)],
   member |-> [p \in DOMAIN d.member \cup Incoming(items) \X {k} |-> FlagOf(d, k, items, p)]]

LEMMA PageIs ==
  ASSUME NEW d, NEW k, NEW items
  PROVE  Upsert(d, k, items) = RecalcGroups(PageStore(d, k, items), {k} \X Touched(d, k, items))
<1> DEFINE n        == DOMAIN items
           before(i) == Group(d, k, items[i].title) \cup Earlier(items, i)
           flag(i)  == before(i) \ {items[i].link} # {}
           at(l)    == Place(items, l)
           news     == [l \in Stored(d) \cup Incoming(items) |->
                          IF l \notin Incoming(items) THEN d.news[l]
                          ELSE IF l \in Stored(d)
                               THEN [d.news[l] EXCEPT !.title = items[at(l)].title]
                               ELSE Fresh(items[at(l)].title)]
           member   == [p \in DOMAIN d.member \cup Incoming(items) \X {k} |->
                          IF p[1] \in Incoming(items) /\ p[2] = k
                          THEN flag(at(p[1])) ELSE d.member[p]]
<1>1. Upsert(d, k, items) = RecalcGroups([news |-> news, member |-> member], {k} \X Touched(d, k, items))
  BY Zenon DEF Upsert, Earlier, Touched, Moved, IsMember, Incoming, Place
<1>2. PageStore(d, k, items) = [news |-> news, member |-> member]
  BY Zenon DEF PageStore, PageRow, FlagOf, PageFlag
<1> QED BY <1>1, <1>2, Zenon

LEMMA PagePlaces ==
  ASSUME NEW items \in Pages
  PROVE  /\ \A i \in DOMAIN items :
              /\ items[i].link \in Links /\ items[i].title \in Titles
              /\ items[i].link \in Incoming(items) /\ Place(items, items[i].link) = i
         /\ \A l \in Incoming(items) : Place(items, l) \in DOMAIN items /\ items[Place(items, l)].link = l
         /\ Incoming(items) \subseteq Links
<1>1. ASSUME NEW i \in DOMAIN items
      PROVE  items[i].link \in Links /\ items[i].title \in Titles /\ items[i].link \in Incoming(items)
  <2>1. items \in Seq([link : Links, title : Titles])
    BY Zenon DEF Pages
  <2>2. items[i] \in [link : Links, title : Titles]
    BY <2>1, ElementOf
  <2> QED BY <2>2 DEF Incoming
<1>2. \A i, j \in DOMAIN items : items[i].link = items[j].link => i = j
  BY Zenon DEF Pages
<1>3. \A l \in Incoming(items) : Place(items, l) \in DOMAIN items /\ items[Place(items, l)].link = l
  BY DEF Incoming, Place
<1>4. \A i \in DOMAIN items : Place(items, items[i].link) = i
  BY <1>1, <1>2, <1>3
<1>5. Incoming(items) \subseteq Links
  BY <1>1 DEF Incoming
<1> QED BY <1>1, <1>3, <1>4, <1>5

\* A page adds articles and rewrites titles and flags, and no field of a row.
LEMMA PageRows ==
  ASSUME NEW d, IsDb(d), NEW k \in Keys, NEW items \in Pages, NEW now \in Nat
  PROVE  LET s == PageStore(d, k, items)
         IN /\ Edited(d, s, now)
            /\ Stored(s) = Stored(d) \cup Incoming(items)
            /\ DOMAIN s.member = DOMAIN d.member \cup Incoming(items) \X {k}
            /\ \A l \in Stored(s) : s.news[l] = PageRow(d, items, l)
            /\ \A p \in DOMAIN s.member : s.member[p] = FlagOf(d, k, items, p)
<1> DEFINE incoming == Incoming(items)
           row(l) == PageRow(d, items, l)
           fresh(p) == FlagOf(d, k, items, p)
           news == [l \in Stored(d) \cup incoming |-> row(l)]
           member == [p \in DOMAIN d.member \cup incoming \X {k} |-> fresh(p)]
           s == [news |-> news, member |-> member]
<1>1. PageStore(d, k, items) = s
  BY Zenon DEF PageStore
<1>2. incoming \subseteq Links
  BY PagePlaces
<1>3. ASSUME NEW l \in Stored(d) \cup incoming
      PROVE  /\ row(l) \in Row
             /\ Rewritten(IF l \in Stored(d) THEN d.news[l] ELSE Fresh(row(l).title), row(l), now)
  <2> DEFINE title == items[Place(items, l)].title
  <2>1. l \in incoming => title \in Titles
    BY PagePlaces
  <2>2. CASE l \notin incoming
    BY <2>2, <1>3, RewrittenNot DEF PageRow, IsDb, HasRows
  <2>3. CASE l \in incoming /\ l \in Stored(d)
    <3>1. row(l) = [d.news[l] EXCEPT !.title = title] /\ d.news[l] \in Row
      BY <2>3, RowsOf DEF PageRow
    <3> HIDE DEF title, row
    <3> QED BY <2>1, <2>3, <3>1 DEF Row, Rewritten
  <2>4. CASE l \in incoming /\ l \notin Stored(d)
    <3>1. row(l) = Fresh(title)
      BY <2>4 DEF PageRow
    <3> HIDE DEF title, row
    <3>2. row(l).title = title
      BY <3>1 DEF Fresh
    <3> QED BY <2>1, <2>4, <3>1, <3>2, FreshIsVirgin, RewrittenNot
  <2> QED BY <2>2, <2>3, <2>4, <1>3
<1>4. ASSUME NEW p \in DOMAIN d.member \cup incoming \X {k} PROVE fresh(p) \in BOOLEAN
  <2>1. p \notin incoming \X {k} => d.member[p] \in BOOLEAN
    BY <1>4 DEF IsDb, HasFlags
  <2>2. p[1] \in incoming /\ p[2] = k => fresh(p) = PageFlag(d, k, items, Place(items, p[1]))
    BY Zenon DEF FlagOf
  <2>3. ~ (p[1] \in incoming /\ p[2] = k) => fresh(p) = d.member[p]
    BY Zenon DEF FlagOf
  <2>4. p \in incoming \X {k} => p[1] \in incoming /\ p[2] = k
    OBVIOUS
  <2>5. PageFlag(d, k, items, Place(items, p[1])) \in BOOLEAN
    BY DEF PageFlag
  <2> HIDE DEF fresh, incoming
  <2> QED BY <2>1, <2>2, <2>3, <2>4, <2>5, Zenon
<1> HIDE DEF row, fresh
<1>5. /\ news \in [Stored(d) \cup incoming -> Row]
      /\ \A l \in Stored(d) \cup incoming : news[l] = row(l)
  BY <1>3
<1>6. /\ member \in [DOMAIN d.member \cup incoming \X {k} -> BOOLEAN]
      /\ \A p \in DOMAIN d.member \cup incoming \X {k} : member[p] = fresh(p)
  BY <1>4, Zenon
<1>7. DOMAIN member = DOMAIN d.member \cup incoming \X {k}
  BY <1>6
<1> HIDE DEF news, member, incoming
<1>8. Stored(s) = Stored(d) \cup incoming /\ DOMAIN s.member = DOMAIN d.member \cup incoming \X {k}
  BY <1>5, <1>7 DEF Stored
<1>9. IsDb(s)
  <2>1. HasRows(s)
    BY <1>2, <1>5, <1>8 DEF IsDb, HasRows
  <2>2. HasFlags(s)
    BY <1>6, <1>8 DEF IsDb, HasFlags
  <2> QED BY <2>1, <2>2 DEF IsDb
<1>10. Edited(d, s, now)
  BY <1>3, <1>5, <1>8, <1>9 DEF Edited, Before
<1>11. /\ \A l \in Stored(s) : s.news[l] = row(l)
       /\ \A p \in DOMAIN s.member : s.member[p] = fresh(p)
  BY <1>5, <1>6, <1>8
<1> HIDE DEF s
<1> QED BY <1>1, <1>8, <1>10, <1>11 DEF row, fresh, incoming

LEMMA PageIsEdit ==
  ASSUME NEW d, IsDb(d), NEW k \in Keys, NEW items \in Pages, NEW now \in Nat
  PROVE  Edited(d, Upsert(d, k, items), now)
<1> DEFINE s == PageStore(d, k, items)
           G == {k} \X Touched(d, k, items)
<1>1. Upsert(d, k, items) = RecalcGroups(s, G)
  BY PageIs
<1>2. Edited(d, s, now) /\ IsDb(s)
  BY PageRows DEF Edited
<1> HIDE DEF s, G
<1> QED BY <1>1, <1>2, FlagsOfGroups, SameRows, EditedAgain

\* What a deletion for good leaves is as it was.
LEMMA PurgedRows ==
  ASSUME NEW d, IsDb(d), NEW S
  PROVE  /\ IsDb(Purge(d, S)) /\ Stored(Purge(d, S)) = Stored(d) \ S
         /\ \A l \in Stored(d) \ S : Purge(d, S).news[l] = d.news[l]
<1> DEFINE kept == Stored(d) \ S
           rest == [news   |-> [l \in kept |-> d.news[l]],
                    member |-> [p \in {q \in DOMAIN d.member : q[1] \in kept} |-> d.member[p]]]
<1>1. Purge(d, S) = RecalcGroups(rest, Affected(d, S))
  BY Zenon DEF Purge
<1>2. IsDb(rest)
  BY DEF IsDb, HasRows, HasFlags, Stored
<1>3. rest.news = [l \in kept |-> d.news[l]]
  OBVIOUS
<1> HIDE DEF rest
<1> QED BY <1>1, <1>2, <1>3, FlagsOfGroups DEF Stored

\* Each field of row y is that of row x, or of row z and later, or was never written
\* on either side.
Blended(x, z, y) ==
  /\ \/ y.readAt = x.readAt /\ y.read = x.read /\ x.readAt >= z.readAt
     \/ y.readAt = z.readAt /\ y.read = z.read /\ z.readAt > x.readAt
  /\ \/ y.markedAt = x.markedAt /\ y.marked = x.marked /\ x.markedAt >= z.markedAt
     \/ y.markedAt = z.markedAt /\ y.marked = z.marked /\ z.markedAt > x.markedAt
  /\ \/ y.notedAt = x.notedAt /\ y.noted = x.noted /\ x.notedAt >= z.notedAt
     \/ y.notedAt = z.notedAt /\ y.noted = z.noted /\ z.notedAt > x.notedAt
  /\ \/ y.deletedAt = x.deletedAt /\ y.deleted = x.deleted /\ x.deletedAt >= z.deletedAt
     \/ y.deletedAt = z.deletedAt /\ y.deleted = z.deleted /\ z.deletedAt > x.deletedAt
  /\ \/ y.tagsAt = x.tagsAt /\ y.tags = x.tags /\ (z.tags # {} => x.tagsAt >= z.tagsAt)
     \/ y.tagsAt = z.tagsAt /\ y.tags = z.tags /\ z.tags # {} /\ z.tagsAt > x.tagsAt

LEMMA BlendedRow ==
  ASSUME NEW x \in Row, NEW z \in Row, NEW y \in Row, Blended(x, z, y)
  PROVE  /\ Times(y) \subseteq Times(x) \cup Times(z)
         /\ Virgin(x) => Virgin(y)
         /\ \A c \in Row : Agree(x, c) /\ Agree(z, c) => Agree(y, c)
         /\ NewerRow(x, y)
<1>1. Times(y) \subseteq Times(x) \cup Times(z)
  BY DEF Blended, Times
<1>2. Virgin(x) => Virgin(y)
  BY DEF Blended, Virgin, Row
<1>3. ASSUME NEW c \in Row, Agree(x, c), Agree(z, c) PROVE Agree(y, c)
  BY <1>3 DEF Blended, Agree
<1>4. NewerRow(x, y)
  BY DEF Blended, NewerRow
<1> QED BY <1>1, <1>2, <1>3, <1>4


LEMMA BlendedWithFresh ==
  ASSUME NEW t, NEW z \in Row, Virgin(z), NEW y,
         y.readAt = z.readAt, y.read = z.read, y.markedAt = z.markedAt, y.marked = z.marked,
         y.notedAt = z.notedAt, y.noted = z.noted, y.deletedAt = z.deletedAt, y.deleted = z.deleted,
         \/ y.tags = z.tags /\ y.tagsAt = z.tagsAt /\ z.tags # {} /\ z.tagsAt > 0
         \/ y.tags = {} /\ y.tagsAt = 0 /\ ~ (z.tags # {} /\ z.tagsAt > 0)
  PROVE  Blended(Fresh(t), z, y)
<1> DEFINE x == Fresh(t)
<1>1. /\ x.readAt = 0 /\ x.markedAt = 0 /\ x.notedAt = 0 /\ x.deletedAt = 0
      /\ x.tags = {} /\ x.tagsAt = 0
  BY DEF Fresh
<1>2. x.read = FALSE /\ x.marked = FALSE /\ x.noted = FALSE /\ x.deleted = FALSE
  BY DEF Fresh
<1>3. /\ z.readAt = 0 => z.read = FALSE
      /\ z.markedAt = 0 => z.marked = FALSE
      /\ z.notedAt = 0 => z.noted = FALSE
      /\ z.deletedAt = 0 => z.deleted = FALSE
  BY DEF Row, Virgin
<1>4. /\ z.readAt = 0 \/ z.readAt > 0
      /\ z.markedAt = 0 \/ z.markedAt > 0
      /\ z.notedAt = 0 \/ z.notedAt > 0
      /\ z.deletedAt = 0 \/ z.deletedAt > 0
      /\ z.tagsAt \in Nat
  BY DEF Row
<1> HIDE DEF x
<1>5. /\ \/ y.readAt = x.readAt /\ y.read = x.read /\ x.readAt >= z.readAt
         \/ y.readAt = z.readAt /\ y.read = z.read /\ z.readAt > x.readAt
      /\ \/ y.markedAt = x.markedAt /\ y.marked = x.marked /\ x.markedAt >= z.markedAt
         \/ y.markedAt = z.markedAt /\ y.marked = z.marked /\ z.markedAt > x.markedAt
      /\ \/ y.notedAt = x.notedAt /\ y.noted = x.noted /\ x.notedAt >= z.notedAt
         \/ y.notedAt = z.notedAt /\ y.noted = z.noted /\ z.notedAt > x.notedAt
      /\ \/ y.deletedAt = x.deletedAt /\ y.deleted = x.deleted /\ x.deletedAt >= z.deletedAt
         \/ y.deletedAt = z.deletedAt /\ y.deleted = z.deleted /\ z.deletedAt > x.deletedAt
  <2>1. /\ z.readAt = 0 => x.readAt >= z.readAt
        /\ z.markedAt = 0 => x.markedAt >= z.markedAt
        /\ z.notedAt = 0 => x.notedAt >= z.notedAt
        /\ z.deletedAt = 0 => x.deletedAt >= z.deletedAt
    BY <1>1
  <2> QED BY <1>1, <1>2, <1>3, <1>4, <2>1, Zenon
<1>6. \/ y.tagsAt = x.tagsAt /\ y.tags = x.tags /\ (z.tags # {} => x.tagsAt >= z.tagsAt)
      \/ y.tagsAt = z.tagsAt /\ y.tags = z.tags /\ z.tags # {} /\ z.tagsAt > x.tagsAt
  BY <1>1, <1>4
<1> QED BY <1>5, <1>6, Zenon DEF Blended, x

\* Merging: the articles of both sides, each row blended.
LEMMA MergedRows ==
  ASSUME NEW d, IsDb(d), NEW s, IsDb(s), \A l \in Stored(s) : Virgin(s.news[l])
  PROVE  /\ IsDb(Merge(d, s)) /\ Stored(Merge(d, s)) = Stored(d) \cup Stored(s)
         /\ DOMAIN Merge(d, s).member = DOMAIN d.member \cup DOMAIN s.member
         /\ \E e : IsDb(e) /\ Merge(d, s) = RecalcAll(e)
         /\ \A l \in Stored(d) \ Stored(s) : Merge(d, s).news[l] = d.news[l]
         /\ \A l \in Stored(s) : Blended(Before(d, Merge(d, s), l), s.news[l], Merge(d, s).news[l])
<1> DEFINE some == Stored(d) \cup Stored(s)
           row(l) == IF l \notin Stored(s) THEN d.news[l]
                     ELSE IF l \in Stored(d) THEN MergeRow(d.news[l], s.news[l])
                                             ELSE [s.news[l] EXCEPT !.tags = {}, !.tagsAt = 0]
           tagged(l) == IF l \in Stored(s) /\ s.news[l].tags # {} /\ s.news[l].tagsAt > row(l).tagsAt
                        THEN [row(l) EXCEPT !.tags = s.news[l].tags, !.tagsAt = s.news[l].tagsAt]
                        ELSE row(l)
           news == [l \in some |-> tagged(l)]
           member == MergeMembers(d, s)
           e == [news |-> news, member |-> member]
<1>1. MergeNews(d, s) = [l \in some |-> row(l)]
  BY Zenon DEF MergeNews
<1>2. MergeTags(MergeNews(d, s), s) = news
  BY <1>1 DEF MergeTags
<1>3. Merge(d, s) = RecalcAll(e)
  BY <1>2, Zenon DEF Merge
<1>4. ASSUME NEW l \in some
      PROVE  /\ tagged(l) \in Row
             /\ l \notin Stored(s) => tagged(l) = d.news[l]
             /\ l \in Stored(s) =>
                  Blended(IF l \in Stored(d) THEN d.news[l] ELSE Fresh(tagged(l).title), s.news[l], tagged(l))
  <2>1. /\ l \in Stored(d) => d.news[l] \in Row
        /\ l \in Stored(s) => s.news[l] \in Row /\ Virgin(s.news[l])
    BY DEF IsDb, HasRows
  <2>2. CASE l \notin Stored(s)
    BY <2>1, <2>2, <1>4
  <2>3. CASE l \in Stored(s) /\ l \in Stored(d)
    <3>1. row(l) = MergeRow(d.news[l], s.news[l])
      BY <2>3
    <3> DEFINE x == d.news[l]  z == s.news[l]  w == MergeRow(x, z)
    <3>2. /\ w \in Row /\ w.tags = x.tags /\ w.tagsAt = x.tagsAt
          /\ \/ w.readAt = x.readAt /\ w.read = x.read /\ x.readAt >= z.readAt
             \/ w.readAt = z.readAt /\ w.read = z.read /\ z.readAt > x.readAt
          /\ \/ w.markedAt = x.markedAt /\ w.marked = x.marked /\ x.markedAt >= z.markedAt
             \/ w.markedAt = z.markedAt /\ w.marked = z.marked /\ z.markedAt > x.markedAt
          /\ \/ w.notedAt = x.notedAt /\ w.noted = x.noted /\ x.notedAt >= z.notedAt
             \/ w.notedAt = z.notedAt /\ w.noted = z.noted /\ z.notedAt > x.notedAt
          /\ \/ w.deletedAt = x.deletedAt /\ w.deleted = x.deleted /\ x.deletedAt >= z.deletedAt
             \/ w.deletedAt = z.deletedAt /\ w.deleted = z.deleted /\ z.deletedAt > x.deletedAt
      BY SMTT(20), <2>1, <2>3 DEF MergeRow, Row
    <3>3. tagged(l) = IF z.tags # {} /\ z.tagsAt > w.tagsAt
                      THEN [w EXCEPT !.tags = z.tags, !.tagsAt = z.tagsAt] ELSE w
      BY <2>3, <3>1
    <3> HIDE DEF w, tagged, row
    <3> DEFINE offered == z.tags # {} /\ z.tagsAt > w.tagsAt
    <3>4. CASE offered
      <4>1. tagged(l) = [w EXCEPT !.tags = z.tags, !.tagsAt = z.tagsAt]
        BY <3>3, <3>4
      <4> QED BY ZenonT(60), <2>1, <2>3, <3>2, <3>4, <4>1 DEF Row, Blended
    <3>5. CASE ~ offered
      <4>1. tagged(l) = w
        BY <3>3, <3>5
      <4> QED BY <2>1, <2>3, <3>2, <3>5, <4>1 DEF Row, Blended
    <3> QED BY <3>4, <3>5
  <2>4. CASE l \in Stored(s) /\ l \notin Stored(d)
    <3> DEFINE z == s.news[l]  w == [z EXCEPT !.tags = {}, !.tagsAt = 0]
    <3>1. row(l) = w
      BY <2>4
    <3>2. tagged(l) = IF z.tags # {} /\ z.tagsAt > w.tagsAt
                      THEN [w EXCEPT !.tags = z.tags, !.tagsAt = z.tagsAt] ELSE w
      BY <2>4, <3>1
    <3> HIDE DEF tagged, row
    <3>3. w \in Row /\ w = [z EXCEPT !.tags = {}, !.tagsAt = 0]
      BY <2>1, <2>4 DEF Row
    <3> HIDE DEF w
    <3>4. CASE z.tags # {} /\ z.tagsAt > 0
      <4>1. tagged(l) = [w EXCEPT !.tags = z.tags, !.tagsAt = z.tagsAt]
        BY <2>1, <3>2, <3>3, <3>4, <2>4 DEF Row
      <4>2. tagged(l) \in Row
        BY <2>1, <2>4, <3>3, <4>1 DEF Row
      <4>3. Blended(Fresh(tagged(l).title), z, tagged(l))
        BY <2>1, <2>4, <3>3, <3>4, <4>1, BlendedWithFresh DEF Row
      <4> QED BY <2>4, <4>2, <4>3
    <3>5. CASE ~ (z.tags # {} /\ z.tagsAt > 0)
      <4>1. tagged(l) = w
        BY <2>1, <3>2, <3>3, <3>5, <2>4 DEF Row
      <4>2. tagged(l) \in Row
        BY <2>1, <2>4, <3>3, <4>1 DEF Row
      <4>3. Blended(Fresh(tagged(l).title), z, tagged(l))
        BY <2>1, <2>4, <3>3, <3>5, <4>1, BlendedWithFresh DEF Row
      <4> QED BY <2>4, <4>2, <4>3
    <3> QED BY <3>4, <3>5
  <2> QED BY <2>2, <2>3, <2>4
<1> HIDE DEF tagged, row
<1>5. /\ news \in [some -> Row]
      /\ \A l \in some : news[l] = tagged(l)
  BY <1>4
<1>6. member \in [DOMAIN d.member \cup DOMAIN s.member -> BOOLEAN]
  BY DEF IsDb, HasFlags, MergeMembers
<1> HIDE DEF news, member
<1>7. Stored(e) = some /\ DOMAIN e.member = DOMAIN d.member \cup DOMAIN s.member
  BY <1>5, <1>6 DEF Stored
<1>8. IsDb(e)
  <2>1. HasRows(e)
    BY <1>5, <1>7 DEF IsDb, HasRows
  <2>2. HasFlags(e)
    BY <1>6, <1>7 DEF IsDb, HasFlags
  <2> QED BY <2>1, <2>2 DEF IsDb
<1>9. e.news = news
  OBVIOUS
<1> HIDE DEF e
<1>10. /\ IsDb(Merge(d, s)) /\ Merge(d, s).news = news
       /\ DOMAIN Merge(d, s).member = DOMAIN d.member \cup DOMAIN s.member
  BY <1>3, <1>7, <1>8, <1>9, FlagsOfAll
<1>11. Stored(Merge(d, s)) = some
  BY <1>7, <1>9, <1>10 DEF Stored
<1>12. \E f : IsDb(f) /\ Merge(d, s) = RecalcAll(f)
  BY <1>3, <1>8
<1> QED BY <1>4, <1>5, <1>10, <1>11, <1>12 DEF Before


-----------------------------------------------------------------------------
(* Edits and times                                                         *)

\* One machine writes database e at the time now.
Writes(m, e, now) == now \in Now(m) /\ Edited(db[m], e, now) /\ Commit(m, e, now)

LEMMA NowIsNew ==
  ASSUME CloudTyped, NEW m \in Machines, NEW now \in Now(m)
  PROVE  /\ now \in Stamps /\ now \in Nat \ {0} /\ now \notin UsedTimes
         /\ ~ left.skewed => \A u \in UsedTimes : now > u
<1> DEFINE since == IF left.skewed THEN used[m] ELSE UsedTimes
           free == {s \in Stamps \ UsedTimes : \A u \in since : s > u}
<1>1. Now(m) = IF left.skewed THEN free ELSE {s \in free : \A x \in free : s <= x}
  BY Zenon DEF Now, UsedTimes
<1>2. now \in free
  BY <1>1
<1> QED BY <1>2, StampsPositive

LEMMA Budgeted ==
  ASSUME left \in Plan, NEW what \in {"edits", "cycles", "faults"}, Spend(what)
  PROVE  left' \in Plan /\ left'.skewed = left.skewed
BY DEF Plan, Spend

\* Every edit of the user is one commit of an edited database.
LEMMA EditsWrite ==
  ASSUME CloudTyped, NEW m \in Machines, Fetch(m) \/ EditArticle(m) \/ EditMany(m)
  PROVE  /\ left' \in Plan /\ left'.skewed = left.skewed
         /\ \E e, now : Writes(m, e, now)
<1> DEFINE d == db[m]
           Done == \E e, now : Writes(m, e, now)
           Spent == left' \in Plan /\ left'.skewed = left.skewed
<1>1. IsDb(d) /\ left \in Plan /\ left.tags \subseteq Tags /\ left.pages \subseteq Pages
  BY DEF CloudTyped, Databases, Plan
<1>2. ASSUME NEW op, MayEdit(m, op) PROVE Spent
  BY <1>1, <1>2, Budgeted DEF MayEdit
<1>3. ASSUME NEW now \in Now(m) PROVE now \in Nat
  BY <1>3, NowIsNew
<1> SUFFICES Spent /\ Done
  OBVIOUS
<1>4. CASE Fetch(m)
  <2>1. MayEdit(m, "fetch")
    BY <1>4 DEF Fetch
  <2>2. PICK k \in Keys, items \in left.pages, t \in left.tags, now \in Now(m), rules \in BOOLEAN :
          LET u == Upsert(d, k, items)
          IN Commit(m, IF rules THEN Automate(u, NewLinks(d, k, items), t, now) ELSE u, now)
    BY <1>4, Zenon DEF Fetch
  <2> DEFINE u == Upsert(d, k, items)
             f == Automate(u, NewLinks(d, k, items), t, now)
  <2>3. Edited(d, u, now)
    BY <1>1, <1>3, PageIsEdit
  <2>4. Commit(m, IF rules THEN f ELSE u, now)
    BY <2>2
  <2> HIDE DEF u
  <2>5. Edited(u, f, now)
    <3>1. IsDb(u)
      BY <2>3 DEF Edited
    <3> QED BY <3>1, <1>1, <1>3, AutomationIsEdit
  <2> HIDE DEF f
  <2>6. Edited(d, f, now)
    BY <2>3, <2>5, EditedAgain
  <2>7. Writes(m, IF rules THEN f ELSE u, now)
    BY <2>3, <2>4, <2>6 DEF Writes
  <2> QED BY <2>1, <2>7, <1>2, Zenon
<1>5. CASE EditArticle(m)
  <2>1. PICK l \in Stored(d), now \in Now(m) :
          \/ MayEdit(m, "read") /\ \E v \in BOOLEAN : Commit(m, SetRead(d, l, v, now), now)
          \/ MayEdit(m, "mark") /\ \E v \in BOOLEAN : Commit(m, SetMarked(d, l, v, now), now)
          \/ MayEdit(m, "note") /\ \E v \in BOOLEAN : Commit(m, SetNoted(d, l, v, now), now)
          \/ MayEdit(m, "tags") /\ \E T \in SUBSET left.tags : Commit(m, SetTags(d, l, T, now), now)
          \/ MayEdit(m, "delete") /\ Commit(m, DeleteLink(d, l, now), now)
          \/ MayEdit(m, "restore") /\ Commit(m, RestoreDeletedLink(d, l, now), now)
          \/ MayEdit(m, "import") /\ \E v, w \in BOOLEAN : Commit(m, ImportState(d, l, v, w, now), now)
    BY <1>5, Zenon DEF EditArticle
  <2> HIDE DEF d
  <2>2. \A e : Edited(d, e, now) /\ Commit(m, e, now) => Done
    BY Zenon DEF Writes, d
  <2> HIDE DEF Done, Spent
  <2>3. \A v \in BOOLEAN : /\ Edited(d, SetRead(d, l, v, now), now)
                           /\ Edited(d, SetMarked(d, l, v, now), now)
                           /\ Edited(d, SetNoted(d, l, v, now), now)
                           /\ \A w \in BOOLEAN : Edited(d, ImportState(d, l, v, w, now), now)
    BY <1>1, <1>3, ReadIsEdit, MarkIsEdit, NoteIsEdit, ImportIsEdit
  <2>4. \A T \in SUBSET left.tags : Edited(d, SetTags(d, l, T, now), now)
    BY <1>1, <1>3, TagsAreEdit
  <2>5. Edited(d, DeleteLink(d, l, now), now) /\ Edited(d, RestoreDeletedLink(d, l, now), now)
    BY <1>1, <1>3, DeleteIsEdit
  <2> QED BY <2>1, <2>2, <2>3, <2>4, <2>5, <1>2, Zenon
<1>6. CASE EditMany(m)
  <2>1. PICK now \in Now(m), t \in left.tags :
          \/ MayEdit(m, "retag") /\ \E u \in left.tags : Commit(m, RenameTag(d, t, u, now), now)
          \/ MayEdit(m, "retag") /\ Commit(m, DeleteTagEverywhere(d, t, now), now)
          \/ MayEdit(m, "bulk") /\ \E S \in SUBSET Stored(d) : Commit(m, BulkAddTag(d, S, t, now), now)
          \/ MayEdit(m, "bulk") /\ \E S \in SUBSET Stored(d) : Commit(m, BulkRemoveTag(d, S, t, now), now)
          \/ MayEdit(m, "readall") /\ \E sc \in Scopes :
               Commit(m, MarkLinksRead(d, MarkScope(d, sc), now), now)
    BY <1>6, Zenon DEF EditMany
  <2> HIDE DEF d
  <2>2. \A e : Edited(d, e, now) /\ Commit(m, e, now) => Done
    BY Zenon DEF Writes, d
  <2> HIDE DEF Done, Spent
  <2>3. \A u \in left.tags : Edited(d, RenameTag(d, t, u, now), now)
    BY <1>1, <1>3, TagsOfManyAreEdit
  <2>4. /\ Edited(d, DeleteTagEverywhere(d, t, now), now)
        /\ \A S \in SUBSET Stored(d) : /\ Edited(d, BulkAddTag(d, S, t, now), now)
                                       /\ Edited(d, BulkRemoveTag(d, S, t, now), now)
    BY <1>1, <1>3, TagsOfManyAreEdit
  <2>5. \A sc \in Scopes : Edited(d, MarkLinksRead(d, MarkScope(d, sc), now), now)
    BY <1>1, <1>3, ReadAllIsEdit
  <2> QED BY <2>1, <2>2, <2>3, <2>4, <2>5, <1>2, Zenon
<1> QED BY <1>4, <1>5, <1>6


-----------------------------------------------------------------------------
(* One time, one value                                                     *)

\* A database that may join the others.
Fits(e, times) ==
  /\ IsDb(e)
  /\ \A l \in Stored(e) : Times(e.news[l]) \subseteq times \cup {0} /\ Virgin(e.news[l])
  /\ \A c \in Databases : \A l \in Stored(c) \cap Stored(e) : Agree(e.news[l], c.news[l])

Sound == Written /\ Agreed /\ \A d \in Databases : IsDb(d)

LEMMA AgreeBothWays == \A x, y : Agree(x, y) => Agree(y, x)
BY DEF Agree

LEMMA AgreeAlone == \A x : Agree(x, x)
BY DEF Agree

\* An edit agrees with everything: nobody else has used its time.
LEMMA EditFits ==
  ASSUME CloudTyped, Sound, NEW m \in Machines, NEW e, NEW now, Writes(m, e, now)
  PROVE  Fits(e, UsedTimes \cup {now})
<1> DEFINE d == db[m]
<1>1. d \in Databases /\ IsDb(d) /\ IsDb(e) /\ Edited(d, e, now)
  BY DEF CloudTyped, Databases, Writes, Edited
<1>2. now \in Nat \ {0} /\ now \notin UsedTimes
  BY NowIsNew DEF Writes
<1> HIDE DEF d
<1>3. ASSUME NEW l \in Stored(e)
      PROVE  /\ Before(d, e, l) \in Row /\ e.news[l] \in Row /\ Rewritten(Before(d, e, l), e.news[l], now)
             /\ Times(Before(d, e, l)) \subseteq UsedTimes \cup {0} /\ Virgin(Before(d, e, l))
             /\ \A c \in Databases : l \in Stored(c) => Agree(Before(d, e, l), c.news[l])
  <2>1. e.news[l] \in Row /\ Rewritten(Before(d, e, l), e.news[l], now)
    BY <1>1, <1>3, RowsOf DEF Edited
  <2>2. CASE l \in Stored(d)
    BY <2>1, <2>2, <1>1, RowsOf DEF Before, Sound, Written, Agreed
  <2>3. CASE l \notin Stored(d)
    <3>1. Before(d, e, l) = Fresh(e.news[l].title) /\ e.news[l].title \in Titles
      BY <2>1, <2>3 DEF Before, Row
    <3>2. ASSUME NEW c \in Databases, l \in Stored(c) PROVE Agree(Before(d, e, l), c.news[l])
      <4>1. c.news[l] \in Row /\ Virgin(c.news[l])
        BY <3>2, RowsOf DEF Sound, Written
      <4> QED BY <4>1, <3>1, VirginsAgree
    <3>3. Before(d, e, l) \in Row /\ Virgin(Before(d, e, l)) /\ Times(Before(d, e, l)) = {0}
      BY <3>1, FreshIsVirgin
    <3> QED BY <2>1, <3>2, <3>3
  <2> QED BY <2>2, <2>3
<1>4. ASSUME NEW l \in Stored(e)
      PROVE  Times(e.news[l]) \subseteq UsedTimes \cup {now} \cup {0} /\ Virgin(e.news[l])
  BY <1>2, <1>3, RewrittenRow
<1>5. ASSUME NEW c \in Databases, NEW l \in Stored(c) \cap Stored(e)
      PROVE  Agree(e.news[l], c.news[l])
  <2>1. c.news[l] \in Row /\ Times(c.news[l]) \subseteq UsedTimes \cup {0}
    BY RowsOf DEF Sound, Written
  <2>2. now \notin Times(c.news[l])
    BY <2>1, <1>2
  <2> QED BY <2>1, <2>2, <1>2, <1>3, RewrittenRow
<1> QED BY <1>1, <1>4, <1>5 DEF Fits

\* A merge agrees with everything: each field is one of the two databases'.
LEMMA MergeFits ==
  ASSUME Sound, NEW d \in Databases, NEW s \in Databases
  PROVE  /\ Fits(Merge(d, s), UsedTimes)
         /\ Stored(d) \subseteq Stored(Merge(d, s))
         /\ \A l \in Stored(d) : NewerRow(d.news[l], Merge(d, s).news[l])
<1> DEFINE e == Merge(d, s)
<1>1. IsDb(d) /\ IsDb(s) /\ \A l \in Stored(s) : Virgin(s.news[l])
  BY DEF Sound, Written
<1>2. /\ IsDb(e) /\ Stored(e) = Stored(d) \cup Stored(s)
      /\ \A l \in Stored(d) \ Stored(s) : e.news[l] = d.news[l]
      /\ \A l \in Stored(s) : Blended(Before(d, e, l), s.news[l], e.news[l])
  BY <1>1, MergedRows
<1> HIDE DEF e
<1>3. ASSUME NEW l \in Stored(s)
      PROVE  /\ Before(d, e, l) \in Row /\ Virgin(Before(d, e, l))
             /\ Times(Before(d, e, l)) \subseteq UsedTimes \cup {0}
             /\ \A c \in Databases : l \in Stored(c) => Agree(Before(d, e, l), c.news[l])
  <2>1. CASE l \in Stored(d)
    BY <2>1, <1>1, RowsOf DEF Before, Sound, Written, Agreed
  <2>2. CASE l \notin Stored(d)
    <3>1. e.news[l].title \in Titles /\ Before(d, e, l) = Fresh(e.news[l].title)
      BY <2>2, <1>2, <1>3, RowsOf DEF Before, Row
    <3>2. ASSUME NEW c \in Databases, l \in Stored(c) PROVE Agree(Before(d, e, l), c.news[l])
      <4>1. c.news[l] \in Row /\ Virgin(c.news[l])
        BY <3>2, RowsOf DEF Sound, Written
      <4> QED BY <4>1, <3>1, VirginsAgree
    <3> QED BY <3>1, <3>2, FreshIsVirgin
  <2> QED BY <2>1, <2>2
<1>4. ASSUME NEW l \in Stored(s)
      PROVE  /\ Times(e.news[l]) \subseteq UsedTimes \cup {0} /\ Virgin(e.news[l])
             /\ \A c \in Databases : l \in Stored(c) => Agree(e.news[l], c.news[l])
             /\ NewerRow(Before(d, e, l), e.news[l])
  <2>1. s.news[l] \in Row /\ e.news[l] \in Row /\ Times(s.news[l]) \subseteq UsedTimes \cup {0}
    BY <1>1, <1>2, <1>4, RowsOf DEF Sound, Written
  <2>2. \A c \in Databases : l \in Stored(c) => c.news[l] \in Row /\ Agree(s.news[l], c.news[l])
    BY <1>4, RowsOf DEF Sound, Agreed
  <2> QED BY <1>2, <1>3, <2>1, <2>2, BlendedRow
<1>5. ASSUME NEW l \in Stored(d) \ Stored(s)
      PROVE  /\ Times(e.news[l]) \subseteq UsedTimes \cup {0} /\ Virgin(e.news[l])
             /\ \A c \in Databases : l \in Stored(c) => Agree(e.news[l], c.news[l])
  BY <1>2, <1>5 DEF Sound, Written, Agreed
<1>6. Fits(e, UsedTimes)
  <2>1. \A l \in Stored(e) : l \in Stored(s) \/ l \in Stored(d) \ Stored(s)
    BY <1>2
  <2> QED BY <1>2, <1>4, <1>5, <2>1 DEF Fits
<1>7. \A l \in Stored(d) : NewerRow(d.news[l], e.news[l])
  <2>1. \A l \in Stored(d) \cap Stored(s) : NewerRow(d.news[l], e.news[l])
    BY <1>4 DEF Before
  <2>2. \A l \in Stored(d) \ Stored(s) : NewerRow(d.news[l], e.news[l])
    BY <1>2 DEF NewerRow
  <2> QED BY <2>1, <2>2
<1> QED BY <1>2, <1>6, <1>7 DEF e

\* Articles that are deleted for good leave the others as they were.
LEMMA PurgeFits ==
  ASSUME Sound, NEW d \in Databases, NEW S
  PROVE  Fits(Purge(d, S), UsedTimes)
<1>1. IsDb(d)
  BY DEF Sound
<1> QED BY <1>1, PurgedRows DEF Sound, Written, Agreed, Fits

LEMMA StaysSound ==
  ASSUME Sound, UsedTimes \subseteq UsedTimes', NEW e, Fits(e, UsedTimes'),
         Databases' \subseteq Databases \cup {e}
  PROVE  Sound'
<1>1. \A d \in Databases' : IsDb(d)
  BY DEF Sound, Fits
<1>2. Written'
  <2> SUFFICES ASSUME NEW d \in Databases', NEW l \in Stored(d)
               PROVE  Times(d.news[l]) \subseteq UsedTimes' \cup {0} /\ Virgin(d.news[l])
    BY DEF Written
  <2> QED BY DEF Sound, Written, Fits
<1>3. Agreed'
  <2> SUFFICES ASSUME NEW c \in Databases', NEW d \in Databases', NEW l \in Stored(c) \cap Stored(d)
               PROVE  Agree(c.news[l], d.news[l])
    BY DEF Agreed
  <2> QED BY AgreeBothWays, AgreeAlone DEF Sound, Agreed, Fits
<1> QED BY <1>1, <1>2, <1>3 DEF Sound

LEMMA StaysSoundQuietly ==
  ASSUME Sound, UsedTimes' = UsedTimes, Databases' \subseteq Databases
  PROVE  Sound'
BY DEF Sound, Written, Agreed


-----------------------------------------------------------------------------
(* Steps that leave the databases alone                                    *)

LEMMA AreDatabases ==
  /\ \A s \in folder \cup pen : s.db \in Databases
  /\ \A m \in Machines : db[m] \in Databases
  /\ \A m \in Merging : job[m].copy.db \in Databases /\ job[m].staged.db \in Databases
BY DEF Databases, Copies, Merging

LEMMA NextDatabases ==
  ASSUME NEW X,
         \A s \in (folder \cup pen)' : s.db \in X,
         \A m \in Machines : db'[m] \in X,
         \A m \in Machines : job'[m].at = "merging" => job'[m].copy.db \in X /\ job'[m].staged.db \in X
  PROVE  Databases' \subseteq X
BY DEF Databases, Copies, Merging

\* Machine m goes on to job j, its list of seen snapshots perhaps longer by one of its own.
Quiet(m, j) ==
  /\ job' = [job EXCEPT ![m] = j] /\ IsJob(j) /\ j.at \notin {"merging", "published"}
  /\ db' = db /\ used' = used /\ purged' = purged /\ made' = made
  /\ folder' \cup pen' \subseteq folder \cup pen
  /\ left' \in Plan /\ left'.skewed = left.skewed
  /\ \/ seen' = seen
     \/ \E id \in 1..made : /\ seen' = [seen EXCEPT ![m] = SeenFront(id, @)]
                            /\ \A s \in folder \cup pen : s.id = id => s.by = m

LEMMA QuietSteps ==
  ASSUME CloudTyped, Numbered, NEW m \in Machines,
         \/ StartPruning(m) \/ PickBatch(m) \/ StopPruning(m)
         \/ Select(m) \/ SkipImport(m) \/ RejectImport(m)
         \/ StartImport(m) /\ NextFile(m).by = m
         \/ FinishImport(m) \/ StartExport(m) \/ MarkExported(m) \/ Crash(m)
  PROVE  \E j : Quiet(m, j)
<1>1. IsJob(Idle) /\ Idle.at = "idle"
  BY DEF Idle, IsJob
<1>2. left \in Plan /\ IsJob(job[m])
  BY DEF CloudTyped
<1>3. \A S : Trimmed(S) \subseteq S
  BY DEF Trimmed
<1>4. CASE StartPruning(m)
  <2>1. Quiet(m, [at |-> "pruning", batch |-> {}, late |-> FALSE])
    BY <1>2, <1>4, Budgeted DEF StartPruning, Quiet, IsJob
  <2> QED BY <2>1
<1>5. CASE PickBatch(m)
  <2>1. PICK S : job' = [job EXCEPT ![m] = [at |-> "pruning", batch |-> S, late |-> FALSE]]
    BY <1>5 DEF PickBatch
  <2>2. Quiet(m, [at |-> "pruning", batch |-> S, late |-> FALSE])
    BY <1>2, <1>5, <2>1 DEF PickBatch, Quiet, IsJob
  <2> QED BY <2>2
<1>6. CASE StopPruning(m)
  <2>1. Quiet(m, Idle)
    BY <1>1, <1>2, <1>6 DEF StopPruning, Quiet
  <2> QED BY <2>1
<1>7. CASE Select(m)
  <2>1. PICK mode, some, broken, torn :
          /\ broken \subseteq folder /\ torn \subseteq broken
          /\ left' = [left EXCEPT !.cycles = @ - 1, !.faults = IF broken = {} THEN @ ELSE @ - 1]
          /\ broken # {} => left.faults > 0
          /\ folder' = folder \ torn /\ pen' = pen \cup torn
          /\ job' = [job EXCEPT ![m] = [Idle EXCEPT !.at = "importing", !.mode = mode, !.todo = some]]
    BY <1>7, Zenon DEF Select
  <2> DEFINE j == [Idle EXCEPT !.at = "importing", !.mode = mode, !.todo = some]
  <2>2. IsJob(j) /\ j.at = "importing"
    BY DEF IsJob, Idle
  <2>3. left' \in Plan /\ left'.skewed = left.skewed
    <3>1. left.cycles \in Nat /\ left.cycles > 0 /\ left.faults \in Nat
      BY <1>2, <1>7 DEF Plan, Select
    <3> DEFINE c == left.cycles - 1
               f == IF broken = {} THEN left.faults ELSE left.faults - 1
    <3>2. left' = [left EXCEPT !.cycles = c, !.faults = f]
      BY <2>1
    <3>3. c \in Nat /\ f \in Nat
      BY <2>1, <3>1
    <3> HIDE DEF c, f
    <3> QED BY <1>2, <3>2, <3>3 DEF Plan
  <2>4. folder' \cup pen' \subseteq folder \cup pen
    BY <2>1
  <2> HIDE DEF j
  <2>5. Quiet(m, j)
    BY <1>7, <2>1, <2>2, <2>3, <2>4 DEF Select, Quiet, j
  <2> QED BY <2>5
<1>8. CASE SkipImport(m)
  <2>1. IsJob(Rest(m)) /\ Rest(m).at = "importing"
    BY <1>2, <1>8 DEF SkipImport, Rest, IsJob
  <2>2. Quiet(m, Rest(m))
    BY <1>2, <1>8, <2>1 DEF SkipImport, Quiet
  <2> QED BY <2>2
<1>9. CASE RejectImport(m)
  <2>1. IsJob(Rest(m)) /\ Rest(m).at = "importing"
    BY <1>2, <1>9 DEF RejectImport, Rest, IsJob
  <2>2. Quiet(m, Rest(m))
    BY <1>2, <1>9, <2>1, Budgeted DEF RejectImport, Quiet
  <2> QED BY <2>2
<1>10. CASE StartImport(m) /\ NextFile(m).by = m
  <2>1. IsJob(Rest(m)) /\ Rest(m).at = "importing"
    BY <1>2, <1>10 DEF StartImport, Rest, IsJob
  <2>2. NextFile(m) \in folder /\ NextFile(m).id \in 1..made
    BY <1>10 DEF StartImport, Numbered
  <2>3. \A s \in folder \cup pen : s.id = NextFile(m).id => s.by = m
    BY <1>10, <2>2 DEF Numbered
  <2>4. Quiet(m, Rest(m))
    BY <1>2, <1>10, <2>1, <2>2, <2>3 DEF StartImport, Quiet
  <2> QED BY <2>4
<1>11. CASE FinishImport(m)
  <2>1. CASE job[m].mode = "import"
    <3>1. Quiet(m, Idle)
      BY <1>1, <1>2, <1>3, <1>11, <2>1 DEF FinishImport, Quiet
    <3> QED BY <3>1
  <2>2. CASE job[m].mode # "import"
    <3> DEFINE j == [Idle EXCEPT !.at = "exporting", !.mode = "full"]
    <3>1. IsJob(j) /\ j.at = "exporting"
      BY DEF IsJob, Idle
    <3>2. Quiet(m, j)
      BY <1>2, <1>11, <2>2, <3>1 DEF FinishImport, Quiet
    <3> QED BY <3>2
  <2> QED BY <2>1, <2>2
<1>12. CASE StartExport(m)
  <2> DEFINE j == [Idle EXCEPT !.at = "exporting", !.mode = "export"]
  <2>1. IsJob(j) /\ j.at = "exporting"
    BY DEF IsJob, Idle
  <2>2. Quiet(m, j)
    BY <1>2, <1>12, <2>1, Budgeted DEF StartExport, Quiet
  <2> QED BY <2>2
<1>13. CASE MarkExported(m)
  <2>1. /\ job[m].own \in 1..made
        /\ \A s \in folder \cup pen : s.id = job[m].own => s.by = m
    BY <1>13 DEF MarkExported, Numbered
  <2>2. Quiet(m, Idle)
    BY <1>1, <1>2, <1>3, <1>13, <2>1 DEF MarkExported, Quiet
  <2> QED BY <2>2
<1>14. CASE Crash(m)
  <2>1. Quiet(m, Idle)
    BY <1>1, <1>2, <1>14, Budgeted DEF Crash, Quiet
  <2> QED BY <2>1
<1> QED BY <1>4, <1>5, <1>6, <1>7, <1>8, <1>9, <1>10, <1>11, <1>12, <1>13, <1>14


-----------------------------------------------------------------------------
(* The list of seen snapshots                                              *)

LEMMA LeastNumber ==
  ASSUME NEW T \in SUBSET Nat, T # {}
  PROVE  \E n \in T : \A k \in T : n <= k
<1> DEFINE F == {0..n : n \in T}
<1>1. F \subseteq FiniteSubsetsOf(Nat) /\ F # {}
  <2>1. \A n \in T : 0..n \subseteq Nat /\ IsFiniteSet(0..n)
    BY FS_Interval
  <2> QED BY <2>1 DEF FiniteSubsetsOf
<1>2. IsWellFoundedOn(StrictSubsetOrdering(Nat), FiniteSubsetsOf(Nat))
  BY FS_StrictSubsetOrderingWellFounded
<1>3. PICK U \in F : \A V \in F : <<V, U>> \notin StrictSubsetOrdering(Nat)
  <2> HIDE DEF F
  <2> QED BY <1>1, <1>2, WFMin
<1>4. PICK n \in T : U = 0..n
  OBVIOUS
<1>5. ASSUME NEW k \in T, k < n PROVE FALSE
  <2>1. n \in 0..n /\ n \notin 0..k
    BY <1>5
  <2>2. 0..k \in F /\ 0..k \subseteq 0..n /\ 0..k # 0..n
    BY <1>5, <2>1
  <2>3. <<0..k, 0..n>> \in (SUBSET Nat) \X (SUBSET Nat)
    OBVIOUS
  <2>4. <<0..k, 0..n>> \in StrictSubsetOrdering(Nat)
    BY <2>2, <2>3 DEF StrictSubsetOrdering
  <2> QED BY <1>3, <1>4, <2>2, <2>4
<1> QED BY <1>5

\* Taking one entry out leaves a list of the other entries.
LEMMA WithoutFirst ==
  ASSUME NEW S, NEW s \in Seq(S), NEW id
  PROVE  /\ RemoveFirst(s, id) \in Seq(S)
         /\ \A x : InList(RemoveFirst(s, id), x) => InList(s, x)
<1> DEFINE I == {i \in 1..Len(s) : s[i] = id}
           at == CHOOSE x \in I : \A y \in I : x <= y
<1>1. CASE I = {}
  BY <1>1 DEF RemoveFirst
<1>2. CASE I # {}
  <2>1. at \in I
    <3>1. I \subseteq Nat
      OBVIOUS
    <3> HIDE DEF I
    <3>2. \E x \in I : \A y \in I : x <= y
      BY <1>2, <3>1, LeastNumber
    <3> QED BY <3>2, Zenon
  <2>2. RemoveFirst(s, id) = SubSeq(s, 1, at - 1) \o SubSeq(s, at + 1, Len(s))
    BY <1>2 DEF RemoveFirst, RemoveAt, SelectInSeq, Min
  <2>3. at \in 1..Len(s)
    BY <2>1
  <2> HIDE DEF at
  <2> DEFINE a == SubSeq(s, 1, at - 1)  b == SubSeq(s, at + 1, Len(s))
  <2>4. /\ a \in Seq(S) /\ Len(a) = at - 1 /\ \A i \in 1..(at - 1) : a[i] = s[i]
        /\ b \in Seq(S) /\ Len(b) = Len(s) - at /\ \A i \in 1..(Len(s) - at) : b[i] = s[at + i]
    BY <2>3
  <2> HIDE DEF a, b
  <2>5. a \o b \in Seq(S)
    BY <2>4
  <2>6. ASSUME NEW i \in DOMAIN (a \o b) PROVE \E k \in DOMAIN s : (a \o b)[i] = s[k]
    <3>1. CASE i \in 1..(at - 1)
      <4>1. (a \o b)[i] = a[i] /\ i \in 1..Len(s)
        BY <2>3, <2>4, <3>1
      <4>2. a[i] = s[i]
        BY <2>4, <3>1
      <4> QED BY <4>1, <4>2
    <3>2. CASE i \in at..(Len(s) - 1)
      <4> DEFINE k == i - (at - 1)
      <4>1. (a \o b)[i] = b[k] /\ k \in 1..(Len(s) - at)
        BY SMTT(20), <2>3, <2>4, <3>2
      <4>2. at + k = i + 1 /\ i + 1 \in 1..Len(s)
        BY <2>3, <3>2
      <4> HIDE DEF k
      <4>3. b[k] = s[at + k]
        BY <2>4, <4>1
      <4> QED BY <4>1, <4>2, <4>3
    <3> QED BY <2>3, <2>4, <2>6, <3>1, <3>2
  <2> QED BY <2>2, <2>5, <2>6 DEF InList, a, b
<1> QED BY <1>1, <1>2

LEMMA SeenFrontList ==
  ASSUME NEW S, NEW s \in Seq(S), NEW id \in S
  PROVE  /\ SeenFront(id, s) \in Seq(S)
         /\ \A x : InList(SeenFront(id, s), x) => x = id \/ InList(s, x)
         /\ Len(SeenFront(id, s)) <= MaxSeen
<1> DEFINE r == RemoveFirst(s, id)
           list == <<id>> \o r
           n == IF Len(list) < MaxSeen THEN Len(list) ELSE MaxSeen
<1>1. r \in Seq(S) /\ \A x : InList(r, x) => InList(s, x)
  BY WithoutFirst
<1> HIDE DEF r
<1>2. /\ list \in Seq(S)
      /\ \A i \in DOMAIN list : list[i] = id \/ \E k \in DOMAIN r : list[i] = r[k]
  <2>1. list \in Seq(S) /\ Len(list) = Len(r) + 1
    BY <1>1
  <2>2. ASSUME NEW i \in 1..(Len(r) + 1) PROVE list[i] = id \/ \E k \in DOMAIN r : list[i] = r[k]
    <3>1. CASE i = 1
      BY <1>1, <3>1
    <3>2. CASE i # 1
      <4>1. list[i] = r[i - 1] /\ i - 1 \in DOMAIN r
        BY <1>1, <3>2
      <4> QED BY <4>1
    <3> QED BY <3>1, <3>2
  <2> QED BY <2>1, <2>2
<1> HIDE DEF list
<1>3. n \in 0..Len(list) /\ n <= MaxSeen
  BY <1>2, LimitsPositive
<1>4. SeenFront(id, s) = SubSeq(list, 1, n)
  BY DEF SeenFront, list, r
<1> HIDE DEF n
<1>5. /\ SubSeq(list, 1, n) \in Seq(S)
      /\ \A i \in DOMAIN SubSeq(list, 1, n) : i \in DOMAIN list /\ SubSeq(list, 1, n)[i] = list[i]
      /\ Len(SubSeq(list, 1, n)) = n
  BY <1>2, <1>3
<1> QED BY ZenonT(60), <1>1, <1>2, <1>3, <1>4, <1>5 DEF InList


-----------------------------------------------------------------------------
(* What a machine knows                                                    *)

\* Later rows of the same articles know as much.
LEMMA KnowsMore ==
  ASSUME NEW d, NEW e, NEW gone, NEW s, IsDb(d), IsDb(e), IsDb(s.db), Knows(d, gone, s),
         \A l \in Stored(d) \ gone : l \in Stored(e) /\ NewerRow(d.news[l], e.news[l])
  PROVE  Knows(e, gone, s)
<1> SUFFICES ASSUME NEW l \in Stored(s.db) \ gone
             PROVE  /\ l \in Stored(e)
                    /\ LET x == s.db.news[l]  y == e.news[l]
                       IN /\ y.readAt >= x.readAt /\ y.markedAt >= x.markedAt
                          /\ y.notedAt >= x.notedAt /\ y.deletedAt >= x.deletedAt
                          /\ (x.tags # {} => y.tagsAt >= x.tagsAt)
  BY DEF Knows
<1> DEFINE x == s.db.news[l]  y == d.news[l]  z == e.news[l]
<1>1. l \in Stored(d) /\ l \in Stored(e) /\ NewerRow(y, z)
  BY DEF Knows
<1>2. x \in Row /\ y \in Row /\ z \in Row
  BY <1>1, RowsOf
<1>3. /\ y.readAt >= x.readAt /\ y.markedAt >= x.markedAt /\ y.notedAt >= x.notedAt
      /\ y.deletedAt >= x.deletedAt /\ (x.tags # {} => y.tagsAt >= x.tagsAt)
  BY DEF Knows
<1> HIDE DEF x, y, z
<1>4. /\ z.readAt >= x.readAt /\ z.markedAt >= x.markedAt /\ z.notedAt >= x.notedAt
      /\ z.deletedAt >= x.deletedAt /\ (x.tags # {} => z.tagsAt >= x.tagsAt)
  BY <1>1, <1>2, <1>3 DEF NewerRow, Row
<1> QED BY <1>1, <1>4 DEF x, z

LEMMA KnowsItself ==
  ASSUME NEW d, NEW gone, NEW s, IsDb(d), s.db = d
  PROVE  Knows(d, gone, s)
<1> SUFFICES ASSUME NEW l \in Stored(d)
             PROVE  LET x == d.news[l]
                    IN /\ x.readAt >= x.readAt /\ x.markedAt >= x.markedAt /\ x.notedAt >= x.notedAt
                       /\ x.deletedAt >= x.deletedAt /\ x.tagsAt >= x.tagsAt
  BY DEF Knows
<1> QED BY RowsOf DEF Row

\* A merge knows the snapshot that was merged.
LEMMA KnowsMerged ==
  ASSUME NEW d, NEW gone, NEW s, IsDb(d), IsDb(s.db),
         \A l \in Stored(s.db) : Virgin(s.db.news[l])
  PROVE  Knows(Merge(d, s.db), gone, s)
<1> DEFINE e == Merge(d, s.db)
<1>1. /\ IsDb(e) /\ Stored(e) = Stored(d) \cup Stored(s.db)
      /\ \A l \in Stored(s.db) : Blended(Before(d, e, l), s.db.news[l], e.news[l])
  BY MergedRows
<1> HIDE DEF e
<1>2. ASSUME NEW l \in Stored(s.db)
      PROVE  /\ l \in Stored(e)
             /\ LET x == s.db.news[l]  y == e.news[l]
                IN /\ y.readAt >= x.readAt /\ y.markedAt >= x.markedAt /\ y.notedAt >= x.notedAt
                   /\ y.deletedAt >= x.deletedAt /\ (x.tags # {} => y.tagsAt >= x.tagsAt)
  <2> DEFINE x == s.db.news[l]  y == e.news[l]  z == Before(d, e, l)
  <2>1. l \in Stored(e) /\ x \in Row /\ y \in Row /\ Blended(z, x, y)
    BY <1>1, <1>2, RowsOf
  <2> HIDE DEF x, y, z
  <2>2. /\ y.readAt >= x.readAt /\ y.markedAt >= x.markedAt /\ y.notedAt >= x.notedAt
        /\ y.deletedAt >= x.deletedAt /\ (x.tags # {} => y.tagsAt >= x.tagsAt)
    BY <2>1 DEF Blended, Row
  <2> QED BY <2>1, <2>2 DEF x, y
<1> QED BY <1>2 DEF Knows, e

\* A deletion for good forgets only what is deleted.
LEMMA KnowsTheRest ==
  ASSUME NEW d, NEW gone, NEW S, NEW s, IsDb(d), Knows(d, gone, s)
  PROVE  Knows(Purge(d, S), gone \cup S, s)
BY PurgedRows DEF Knows

\* With clocks that agree, what is written is newer than what was there.
LEMMA WrittenIsNewer ==
  ASSUME CloudInv, ~ left.skewed, NEW m \in Machines, NEW e, NEW now, Writes(m, e, now)
  PROVE  /\ Stored(db[m]) \subseteq Stored(e)
         /\ \A l \in Stored(db[m]) : NewerRow(db[m].news[l], e.news[l])
<1> DEFINE d == db[m]
<1>1. d \in Databases /\ IsDb(d) /\ IsDb(e) /\ Edited(d, e, now)
  BY DEF CloudInv, CloudTyped, Databases, Writes, Edited
<1>2. now \in Nat \ {0} /\ \A u \in UsedTimes : now > u
  BY NowIsNew DEF Writes, CloudInv
<1> HIDE DEF d
<1>3. ASSUME NEW l \in Stored(d) PROVE NewerRow(d.news[l], e.news[l])
  <2>1. d.news[l] \in Row /\ e.news[l] \in Row /\ Rewritten(d.news[l], e.news[l], now)
    BY <1>1, <1>3, RowsOf DEF Edited, Before
  <2>2. \A t \in Times(d.news[l]) : now > t
    BY <1>1, <1>2, <1>3 DEF CloudInv, Written
  <2> QED BY <1>2, <2>1, <2>2, RewrittenRow
<1> QED BY <1>1, <1>3 DEF Edited, d


-----------------------------------------------------------------------------
(* The steps keep the invariant                                            *)

\* What a step leaves typed besides the databases.
Shaped ==
  /\ left \in Plan
  /\ used \in [Machines -> SUBSET Stamps]
  /\ db = [m \in Machines |-> db[m]] /\ seen = [m \in Machines |-> seen[m]]
  /\ purged = [m \in Machines |-> purged[m]]
  /\ job = [m \in Machines |-> job[m]] /\ \A m \in Machines : IsJob(job[m])
  /\ made \in Nat

LEMMA TypedIs == CloudTyped <=> Shaped /\ \A d \in Databases : IsDb(d)
BY DEF CloudTyped, Shaped

LEMMA InvIs == CloudInv <=> Shaped /\ Sound /\ Numbered /\ Known /\ CopyIsFresh
BY TypedIs DEF CloudInv, Sound

LEMMA InvNext ==
  ASSUME Shaped', Sound', Numbered', Known', CopyIsFresh'
  PROVE  CloudInv'
<1>1. CloudTyped'
  BY DEF CloudTyped, Shaped, Sound
<1> QED BY <1>1 DEF CloudInv, Sound

LEMMA QuietKeeps ==
  ASSUME CloudInv, NEW m \in Machines, NEW j, Quiet(m, j)
  PROVE  CloudInv' /\ db' = db
<1>1. Shaped /\ Sound /\ Numbered /\ Known /\ CopyIsFresh
  BY InvIs
<1>2. job' = [n \in Machines |-> IF n = m THEN j ELSE job[n]]
  BY <1>1 DEF Quiet, Shaped
<1>3. \A n \in Machines : job'[n].at \in {"merging", "published"} => job'[n] = job[n]
  BY <1>2 DEF Quiet
<1>4. PICK id : \/ seen' = seen
                \/ /\ id \in 1..made /\ seen' = [seen EXCEPT ![m] = SeenFront(id, @)]
                   /\ \A s \in folder \cup pen : s.id = id => s.by = m
  BY DEF Quiet
<1>5. ASSUME NEW n \in Machines
      PROVE  /\ seen'[n] \in Seq(1..made)
             /\ \A s \in folder \cup pen : InList(seen'[n], s.id) => s.by = n \/ InList(seen[n], s.id)
  <2>1. seen[n] \in Seq(1..made)
    BY <1>1 DEF Numbered
  <2>2. CASE seen'[n] = seen[n]
    BY <2>1, <2>2
  <2>3. CASE seen'[n] # seen[n]
    <3>1. n = m /\ id \in 1..made /\ seen'[n] = SeenFront(id, seen[n])
      BY <1>1, <1>4, <2>3 DEF Shaped
    <3>2. /\ seen'[n] \in Seq(1..made)
          /\ \A x : InList(seen'[n], x) => x = id \/ InList(seen[n], x)
      BY <2>1, <3>1, SeenFrontList
    <3>3. \A s \in folder \cup pen : s.id = id => s.by = n
      BY <1>4, <2>3, <3>1
    <3> QED BY <3>2, <3>3
  <2> QED BY <2>2, <2>3
<1>6. Shaped'
  BY <1>1, <1>2, <1>4 DEF Shaped, Quiet
<1>7. Sound'
  <2>1. Databases' \subseteq Databases
    BY <1>3, AreDatabases, NextDatabases DEF Quiet, Merging
  <2>2. UsedTimes' = UsedTimes
    BY DEF Quiet, UsedTimes
  <2> QED BY <1>1, <2>1, <2>2, StaysSoundQuietly
<1>8. Numbered'
  <2>1. \A s \in folder' \cup pen' : s \in folder \cup pen
    BY DEF Quiet
  <2>2. made' = made
    BY DEF Quiet
  <2>3. \A s \in folder' \cup pen' : s.id \in 1..made' /\ s.by \in Machines
    BY <1>1, <2>1, <2>2 DEF Numbered
  <2>4. \A s, t \in folder' \cup pen' : s.id = t.id => s = t
    BY <1>1, <2>1 DEF Numbered
  <2>5. ASSUME NEW n \in Machines, job'[n].at = "published"
        PROVE  /\ job'[n].own \in 1..made'
               /\ \A s \in folder' \cup pen' : s.id = job'[n].own => s.by = n
    <3>1. job'[n] = job[n]
      BY <1>3, <2>5
    <3> QED BY <1>1, <2>1, <2>2, <2>5, <3>1 DEF Numbered
  <2>6. ASSUME NEW n \in Machines, job'[n].at = "merging"
        PROVE  /\ job'[n].copy.seen \in Seq(1..made') /\ job'[n].staged.id \in 1..made'
               /\ \A s \in folder' \cup pen' : s.id = job'[n].staged.id => s = job'[n].staged
    <3>1. job'[n] = job[n]
      BY <1>3, <2>6
    <3> QED BY <1>1, <2>1, <2>2, <2>6, <3>1 DEF Numbered
  <2>7. \A n \in Machines : seen'[n] \in Seq(1..made')
    BY <1>5, <2>2
  <2> QED BY <2>3, <2>4, <2>5, <2>6, <2>7 DEF Numbered
<1>9. Known'
  <2> SUFFICES ASSUME ~ left.skewed, NEW n \in Machines, NEW s \in folder \cup pen
               PROVE  /\ s.by = n \/ InList(seen'[n], s.id) => Knows(db[n], purged[n], s)
                      /\ job'[n].at = "merging" /\ (s.by = n \/ InList(job'[n].copy.seen, s.id))
                           => Knows(job'[n].copy.db, purged[n], s)
    BY DEF Known, Quiet
  <2> QED BY <1>1, <1>3, <1>5 DEF Known
<1>10. CopyIsFresh'
  BY <1>1, <1>3 DEF CopyIsFresh, Quiet
<1> QED BY <1>6, <1>7, <1>8, <1>9, <1>10, InvNext DEF Quiet


LEMMA WritesKeep ==
  ASSUME CloudInv, NEW m \in Machines, NEW e, NEW now, Writes(m, e, now),
         left' \in Plan, left'.skewed = left.skewed
  PROVE  CloudInv'
<1>1. Shaped /\ Sound /\ Numbered /\ Known /\ CopyIsFresh /\ CloudTyped
  BY InvIs DEF CloudInv
<1>2. /\ db' = [db EXCEPT ![m] = e]
      /\ used' = [used EXCEPT ![m] = @ \cup {now}]
      /\ job' = [job EXCEPT ![m].late = @ \/ job[m].at \in {"merging", "pruning"}]
      /\ seen' = seen /\ purged' = purged /\ folder' = folder /\ pen' = pen /\ made' = made
  BY DEF Writes, Commit
<1>3. now \in Stamps
  BY <1>1, NowIsNew DEF Writes
<1>4. /\ \A n \in Machines \ {m} : db'[n] = db[n] /\ job'[n] = job[n]
      /\ db'[m] = e
  BY <1>1, <1>2 DEF Shaped
<1> DEFINE was == job[m].late \/ job[m].at \in {"merging", "pruning"}
<1>5. /\ job'[m] = [job[m] EXCEPT !.late = was] /\ was \in BOOLEAN
      /\ job[m].at = "merging" => was = TRUE
  BY <1>1, <1>2 DEF Shaped
<1> HIDE DEF was
<1>6. /\ DOMAIN job'[m] = DOMAIN job[m] /\ job'[m].at = job[m].at /\ IsJob(job'[m])
      /\ job[m].at = "merging" =>
           /\ job'[m].copy = job[m].copy /\ job'[m].staged = job[m].staged /\ job'[m].late
      /\ job[m].at = "published" => job'[m].own = job[m].own
  BY <1>1, <1>5 DEF Shaped, IsJob
<1>7. \A n \in Machines :
        /\ job'[n].at = job[n].at
        /\ job[n].at = "merging" => job'[n].copy = job[n].copy /\ job'[n].staged = job[n].staged
        /\ job[n].at = "published" => job'[n].own = job[n].own
  BY <1>4, <1>6
<1>8. Shaped'
  <2>1. \A n \in Machines : IsJob(job'[n])
    BY <1>1, <1>4, <1>6 DEF Shaped
  <2>2. used' \in [Machines -> SUBSET Stamps]
    BY <1>1, <1>2, <1>3 DEF Shaped
  <2> QED BY <1>1, <1>2, <2>1, <2>2 DEF Shaped
<1>9. Sound'
  <2>1. Databases' \subseteq Databases \cup {e}
    <3> DEFINE X == Databases \cup {e}
    <3>1. \A s \in (folder \cup pen)' : s.db \in X
      BY <1>2, AreDatabases
    <3>2. \A n \in Machines : db'[n] \in X
      BY <1>4, AreDatabases
    <3>3. \A n \in Machines : job'[n].at = "merging" =>
            job'[n].copy.db \in X /\ job'[n].staged.db \in X
      BY <1>7, AreDatabases DEF Merging
    <3> HIDE DEF X
    <3>4. Databases' \subseteq X
      BY <3>1, <3>2, <3>3, NextDatabases
    <3> QED BY <3>4 DEF X
  <2>2. UsedTimes' = UsedTimes \cup {now}
    BY <1>1, <1>2 DEF UsedTimes, Shaped
  <2>3. Fits(e, UsedTimes \cup {now})
    BY <1>1, EditFits
  <2> QED BY <1>1, <2>1, <2>2, <2>3, StaysSound
<1>10. Numbered'
  BY <1>1, <1>2, <1>7 DEF Numbered
<1>11. Known'
  <2> SUFFICES ASSUME ~ left.skewed, NEW n \in Machines, NEW s \in folder \cup pen
               PROVE  /\ s.by = n \/ InList(seen[n], s.id) => Knows(db'[n], purged[n], s)
                      /\ job'[n].at = "merging" /\ (s.by = n \/ InList(job'[n].copy.seen, s.id))
                           => Knows(job'[n].copy.db, purged[n], s)
    BY <1>2 DEF Known
  <2>1. /\ s.by = n \/ InList(seen[n], s.id) => Knows(db[n], purged[n], s)
        /\ job[n].at = "merging" /\ (s.by = n \/ InList(job[n].copy.seen, s.id))
             => Knows(job[n].copy.db, purged[n], s)
    BY <1>1 DEF Known
  <2>2. Knows(db[m], purged[m], s) => Knows(e, purged[m], s)
    <3>1. IsDb(db[m]) /\ IsDb(s.db) /\ IsDb(e)
      BY <1>1, AreDatabases DEF Sound, Writes, Edited
    <3> QED BY <3>1, WrittenIsNewer, KnowsMore
  <2> QED BY <2>1, <2>2, <1>4, <1>7
<1>12. CopyIsFresh'
  BY <1>1, <1>4, <1>6 DEF CopyIsFresh
<1> QED BY <1>8, <1>9, <1>10, <1>11, <1>12, InvNext

LEMMA DropBatchKeeps ==
  ASSUME CloudInv, NEW m \in Machines, DropBatch(m)
  PROVE  CloudInv'
<1> DEFINE e == Purge(db[m], job[m].batch)
<1>1. Shaped /\ Sound /\ Numbered /\ Known /\ CopyIsFresh
  BY InvIs
<1>2. /\ db' = [db EXCEPT ![m] = e]
      /\ purged' = [purged EXCEPT ![m] = @ \cup job[m].batch]
      /\ job' = [job EXCEPT ![m].batch = {}] /\ job[m].at = "pruning"
      /\ seen' = seen /\ used' = used /\ folder' = folder /\ pen' = pen /\ made' = made
      /\ left' = left
  BY DEF DropBatch
<1> HIDE DEF e
<1>3. /\ \A n \in Machines \ {m} : db'[n] = db[n] /\ purged'[n] = purged[n] /\ job'[n] = job[n]
      /\ db'[m] = e /\ purged'[m] = purged[m] \cup job[m].batch
      /\ job'[m] = [job[m] EXCEPT !.batch = {}]
  BY <1>1, <1>2 DEF Shaped
<1>4. job'[m].at = "pruning" /\ IsJob(job'[m])
  BY <1>1, <1>2, <1>3 DEF Shaped, IsJob
<1>5. \A n \in Machines : job'[n].at \in {"merging", "published"} => n # m /\ job'[n] = job[n]
  BY <1>3, <1>4
<1>6. Shaped'
  <2>1. \A n \in Machines : IsJob(job'[n])
    BY <1>1, <1>3, <1>4 DEF Shaped
  <2> QED BY <1>1, <1>2, <2>1 DEF Shaped
<1>7. Sound'
  <2>1. Databases' \subseteq Databases \cup {e}
    <3> DEFINE X == Databases \cup {e}
    <3>1. \A s \in (folder \cup pen)' : s.db \in X
      BY <1>2, AreDatabases
    <3>2. \A n \in Machines : db'[n] \in X
      BY <1>3, AreDatabases
    <3>3. \A n \in Machines : job'[n].at = "merging" =>
            job'[n].copy.db \in X /\ job'[n].staged.db \in X
      BY <1>5, AreDatabases DEF Merging
    <3> HIDE DEF X
    <3>4. Databases' \subseteq X
      BY <3>1, <3>2, <3>3, NextDatabases
    <3> QED BY <3>4 DEF X
  <2>2. UsedTimes' = UsedTimes
    BY <1>2 DEF UsedTimes
  <2>3. Fits(e, UsedTimes)
    BY <1>1, AreDatabases, PurgeFits DEF e
  <2> QED BY <1>1, <2>1, <2>2, <2>3, StaysSound
<1>8. Numbered'
  BY <1>1, <1>2, <1>5 DEF Numbered
<1>9. Known'
  <2> SUFFICES ASSUME ~ left.skewed, NEW n \in Machines, NEW s \in folder \cup pen
               PROVE  /\ s.by = n \/ InList(seen[n], s.id) => Knows(db'[n], purged'[n], s)
                      /\ job'[n].at = "merging" /\ (s.by = n \/ InList(job'[n].copy.seen, s.id))
                           => Knows(job'[n].copy.db, purged'[n], s)
    BY <1>2 DEF Known
  <2>1. /\ s.by = n \/ InList(seen[n], s.id) => Knows(db[n], purged[n], s)
        /\ job[n].at = "merging" /\ (s.by = n \/ InList(job[n].copy.seen, s.id))
             => Knows(job[n].copy.db, purged[n], s)
    BY <1>1 DEF Known
  <2>2. Knows(db[m], purged[m], s) => Knows(db'[m], purged'[m], s)
    <3>1. IsDb(db[m])
      BY <1>1, AreDatabases DEF Sound
    <3> QED BY <1>3, <3>1, KnowsTheRest DEF e
  <2> QED BY <2>1, <2>2, <1>3, <1>5
<1>10. CopyIsFresh'
  BY <1>1, <1>3, <1>5 DEF CopyIsFresh
<1> QED BY <1>6, <1>7, <1>8, <1>9, <1>10, InvNext


\* The copy taken is the database, and the list of the moment knows no later number.
LEMMA StagingKeeps ==
  ASSUME CloudInv, NEW m \in Machines, StartImport(m), NextFile(m).by # m
  PROVE  CloudInv'
<1> DEFINE s0 == NextFile(m)
           j == [at |-> "merging", mode |-> job[m].mode, todo |-> job[m].todo, late |-> FALSE,
                 staged |-> s0, copy |-> [db |-> db[m], seen |-> seen[m]]]
<1>1. Shaped /\ Sound /\ Numbered /\ Known /\ CopyIsFresh
  BY InvIs
<1>2. /\ job' = [job EXCEPT ![m] = j] /\ s0 \in folder
      /\ db' = db /\ purged' = purged /\ seen' = seen /\ used' = used
      /\ folder' = folder /\ pen' = pen /\ made' = made /\ left' = left
  BY DEF StartImport
<1> HIDE DEF s0
<1>3. /\ j.at = "merging" /\ ~ j.late /\ j.staged = s0 /\ j.copy.db = db[m] /\ j.copy.seen = seen[m]
      /\ IsJob(j)
  BY DEF IsJob
<1> HIDE DEF j
<1>4. job'[m] = j /\ \A n \in Machines \ {m} : job'[n] = job[n]
  BY <1>1, <1>2 DEF Shaped
<1>5. Shaped'
  <2>1. \A n \in Machines : IsJob(job'[n])
    BY <1>1, <1>3, <1>4 DEF Shaped
  <2> QED BY <1>1, <1>2, <2>1 DEF Shaped
<1>6. Sound'
  <2>1. \A n \in Machines : job'[n].at = "merging" =>
          job'[n].copy.db \in Databases /\ job'[n].staged.db \in Databases
    BY <1>2, <1>3, <1>4, AreDatabases DEF Merging
  <2>2. Databases' \subseteq Databases
    BY <1>2, <2>1, AreDatabases, NextDatabases
  <2>3. UsedTimes' = UsedTimes
    BY <1>2 DEF UsedTimes
  <2> QED BY <1>1, <2>2, <2>3, StaysSoundQuietly
<1>7. Numbered'
  BY <1>1, <1>2, <1>3, <1>4 DEF Numbered
<1>8. Known'
  BY <1>1, <1>2, <1>3, <1>4 DEF Known
<1>9. CopyIsFresh'
  BY <1>1, <1>2, <1>3, <1>4 DEF CopyIsFresh
<1> QED BY <1>5, <1>6, <1>7, <1>8, <1>9, InvNext

LEMMA AfterMergeIs ==
  ASSUME NEW m \in Machines
  PROVE  IsJob(AfterMerge(m)) /\ AfterMerge(m).at = "importing"
BY DEF AfterMerge, Idle, IsJob

LEMMA MergeCommitKeeps ==
  ASSUME CloudInv, NEW m \in Machines, MergeCommit(m)
  PROVE  /\ CloudInv'
         /\ Stored(db[m]) \subseteq Stored(db'[m])
         /\ \A l \in Stored(db[m]) : NewerRow(db[m].news[l], db'[m].news[l])
<1> DEFINE s0 == job[m].staged
           e == Merge(db[m], s0.db)
           j == AfterMerge(m)
<1>1. Shaped /\ Sound /\ Numbered /\ Known /\ CopyIsFresh
  BY InvIs
<1>2. /\ job[m].at = "merging" /\ job' = [job EXCEPT ![m] = j]
      /\ db' = [db EXCEPT ![m] = e] /\ seen' = [seen EXCEPT ![m] = SeenFront(s0.id, @)]
      /\ purged' = purged /\ used' = used
      /\ folder' = folder /\ pen' = pen /\ made' = made /\ left' = left
  BY DEF MergeCommit
<1>3. IsJob(j) /\ j.at = "importing"
  BY AfterMergeIs
<1> HIDE DEF j
<1>4. db[m] \in Databases /\ s0.db \in Databases /\ IsDb(db[m]) /\ IsDb(s0.db)
  BY <1>1, <1>2, AreDatabases DEF Sound, Merging
<1>5. /\ Fits(e, UsedTimes) /\ Stored(db[m]) \subseteq Stored(e)
      /\ \A l \in Stored(db[m]) : NewerRow(db[m].news[l], e.news[l])
  BY <1>1, <1>4, MergeFits
<1>6. \A gone : Knows(e, gone, s0)
  BY <1>1, <1>4, KnowsMerged DEF Sound, Written
<1>7. s0.id \in 1..made /\ \A s \in folder \cup pen : s.id = s0.id => s = s0
  BY <1>1, <1>2 DEF Numbered
<1> HIDE DEF e, s0
<1>8. /\ \A n \in Machines \ {m} : db'[n] = db[n] /\ seen'[n] = seen[n] /\ job'[n] = job[n]
      /\ db'[m] = e /\ seen'[m] = SeenFront(s0.id, seen[m]) /\ job'[m] = j
  BY <1>1, <1>2 DEF Shaped
<1>9. /\ seen'[m] \in Seq(1..made)
      /\ \A x : InList(seen'[m], x) => x = s0.id \/ InList(seen[m], x)
  <2>1. seen[m] \in Seq(1..made)
    BY <1>1 DEF Numbered
  <2> QED BY ZenonT(60), <2>1, <1>7, <1>8, SeenFrontList
<1>10. \A n \in Machines : job'[n].at \in {"merging", "published"} => n # m /\ job'[n] = job[n]
  BY <1>3, <1>8
<1>11. Shaped'
  <2>1. \A n \in Machines : IsJob(job'[n])
    BY <1>1, <1>3, <1>8 DEF Shaped
  <2> QED BY <1>1, <1>2, <2>1 DEF Shaped
<1>12. Sound'
  <2> DEFINE X == Databases \cup {e}
  <2>1. \A s \in (folder \cup pen)' : s.db \in X
    BY <1>2, AreDatabases
  <2>2. \A n \in Machines : db'[n] \in X
    BY <1>8, AreDatabases
  <2>3. \A n \in Machines : job'[n].at = "merging" =>
          job'[n].copy.db \in X /\ job'[n].staged.db \in X
    BY <1>10, AreDatabases DEF Merging
  <2> HIDE DEF X
  <2>4. Databases' \subseteq X
    BY <2>1, <2>2, <2>3, NextDatabases
  <2>5. UsedTimes' = UsedTimes
    BY <1>2 DEF UsedTimes
  <2> QED BY <1>1, <1>5, <2>4, <2>5, StaysSound DEF X
<1>13. Numbered'
  BY <1>1, <1>2, <1>8, <1>9, <1>10 DEF Numbered
<1>14. Known'
  <2> SUFFICES ASSUME ~ left.skewed, NEW n \in Machines, NEW s \in folder \cup pen
               PROVE  /\ s.by = n \/ InList(seen'[n], s.id) => Knows(db'[n], purged[n], s)
                      /\ job'[n].at = "merging" /\ (s.by = n \/ InList(job'[n].copy.seen, s.id))
                           => Knows(job'[n].copy.db, purged[n], s)
    BY <1>2 DEF Known
  <2>1. /\ s.by = n \/ InList(seen[n], s.id) => Knows(db[n], purged[n], s)
        /\ job[n].at = "merging" /\ (s.by = n \/ InList(job[n].copy.seen, s.id))
             => Knows(job[n].copy.db, purged[n], s)
    BY <1>1 DEF Known
  <2>2. Knows(db[m], purged[m], s) => Knows(e, purged[m], s)
    <3>1. IsDb(s.db) /\ IsDb(e)
      BY <1>1, <1>5, AreDatabases DEF Sound, Fits
    <3> QED BY <3>1, <1>4, <1>5, KnowsMore
  <2>3. s.id = s0.id => Knows(e, purged[m], s)
    BY <1>6, <1>7
  <2> QED BY <2>1, <2>2, <2>3, <1>8, <1>9, <1>10
<1>15. CopyIsFresh'
  BY <1>1, <1>8, <1>10 DEF CopyIsFresh
<1> QED BY <1>5, <1>8, <1>11, <1>12, <1>13, <1>14, <1>15, InvNext

\* Going back to the copy goes back to what the list of that moment had promised.
LEMMA MergeFailKeeps ==
  ASSUME CloudInv, NEW m \in Machines, MergeFail(m)
  PROVE  CloudInv' /\ db' = [db EXCEPT ![m] = job[m].copy.db] /\ job[m].at = "merging"
<1> DEFINE e == job[m].copy.db
           j == AfterMerge(m)
<1>1. Shaped /\ Sound /\ Numbered /\ Known /\ CopyIsFresh
  BY InvIs
<1>2. /\ job[m].at = "merging" /\ job' = [job EXCEPT ![m] = j]
      /\ db' = [db EXCEPT ![m] = e] /\ seen' = [seen EXCEPT ![m] = job[m].copy.seen]
      /\ purged' = purged /\ used' = used
      /\ folder' = folder /\ pen' = pen /\ made' = made
  BY DEF MergeFail
<1>3. left' \in Plan /\ left'.skewed = left.skewed
  BY <1>1, Budgeted DEF MergeFail, Shaped
<1>4. IsJob(j) /\ j.at = "importing"
  BY AfterMergeIs
<1> HIDE DEF j
<1>5. e \in Databases
  BY <1>2, AreDatabases DEF Merging
<1> HIDE DEF e
<1>6. /\ \A n \in Machines \ {m} : db'[n] = db[n] /\ seen'[n] = seen[n] /\ job'[n] = job[n]
      /\ db'[m] = e /\ seen'[m] = job[m].copy.seen /\ job'[m] = j
  BY <1>1, <1>2 DEF Shaped
<1>7. \A n \in Machines : job'[n].at \in {"merging", "published"} => n # m /\ job'[n] = job[n]
  BY <1>4, <1>6
<1>8. Shaped'
  <2>1. \A n \in Machines : IsJob(job'[n])
    BY <1>1, <1>4, <1>6 DEF Shaped
  <2> QED BY <1>1, <1>2, <1>3, <2>1 DEF Shaped
<1>9. Sound'
  <2>1. \A n \in Machines : db'[n] \in Databases
    BY <1>5, <1>6, AreDatabases
  <2>2. \A n \in Machines : job'[n].at = "merging" =>
          job'[n].copy.db \in Databases /\ job'[n].staged.db \in Databases
    BY <1>7, AreDatabases DEF Merging
  <2>3. Databases' \subseteq Databases
    BY <1>2, <2>1, <2>2, AreDatabases, NextDatabases
  <2>4. UsedTimes' = UsedTimes
    BY <1>2 DEF UsedTimes
  <2> QED BY <1>1, <2>3, <2>4, StaysSoundQuietly
<1>10. Numbered'
  BY <1>1, <1>2, <1>6, <1>7 DEF Numbered
<1>11. Known'
  <2> SUFFICES ASSUME ~ left.skewed, NEW n \in Machines, NEW s \in folder \cup pen
               PROVE  /\ s.by = n \/ InList(seen'[n], s.id) => Knows(db'[n], purged[n], s)
                      /\ job'[n].at = "merging" /\ (s.by = n \/ InList(job'[n].copy.seen, s.id))
                           => Knows(job'[n].copy.db, purged[n], s)
    BY <1>2, <1>3 DEF Known
  <2>1. /\ s.by = n \/ InList(seen[n], s.id) => Knows(db[n], purged[n], s)
        /\ job[n].at = "merging" /\ (s.by = n \/ InList(job[n].copy.seen, s.id))
             => Knows(job[n].copy.db, purged[n], s)
    BY <1>1 DEF Known
  <2> QED BY <2>1, <1>2, <1>6, <1>7 DEF e
<1>12. CopyIsFresh'
  BY <1>1, <1>6, <1>7 DEF CopyIsFresh
<1> QED BY <1>2, <1>8, <1>9, <1>10, <1>11, <1>12, InvNext DEF e


LEMMA ListOfMore ==
  ASSUME NEW S, NEW T, S \subseteq T, NEW q \in Seq(S)
  PROVE  q \in Seq(T)
<1>1. q = [i \in 1..Len(q) |-> q[i]] /\ Len(q) \in Nat /\ \A i \in 1..Len(q) : q[i] \in T
  OBVIOUS
<1> QED BY <1>1

\* The snapshot of a machine is its database, under a number nobody has seen.
LEMMA ExportKeeps ==
  ASSUME CloudInv, NEW m \in Machines, Export(m)
  PROVE  CloudInv' /\ db' = db
<1> DEFINE new == [id |-> made + 1, by |-> m, db |-> db[m]]
           j == [at |-> "published", own |-> made + 1, late |-> FALSE]
<1>1. Shaped /\ Sound /\ Numbered /\ Known /\ CopyIsFresh
  BY InvIs
<1>2. /\ job' = [job EXCEPT ![m] = j] /\ folder' = folder \cup {new} /\ made' = made + 1
      /\ db' = db /\ purged' = purged /\ seen' = seen /\ used' = used
      /\ pen' = pen /\ left' = left
  BY DEF Export
<1>3. /\ j.at = "published" /\ j.own = made + 1 /\ IsJob(j)
      /\ new.id = made + 1 /\ new.by = m /\ new.db = db[m]
  BY DEF IsJob
<1> HIDE DEF new, j
<1>4. job'[m] = j /\ \A n \in Machines \ {m} : job'[n] = job[n]
  BY <1>1, <1>2 DEF Shaped
<1>5. made \in Nat
  BY <1>1 DEF Shaped
<1>6. /\ \A s \in folder \cup pen : s.id \in 1..made /\ s.id # made + 1 /\ s.by \in Machines
      /\ \A n \in Machines : seen[n] \in Seq(1..made)
      /\ \A n \in Merging : job[n].copy.seen \in Seq(1..made) /\ job[n].staged.id \in 1..made
  BY <1>1, <1>5 DEF Numbered, Merging
<1>7. 1..made \subseteq 1..(made + 1) /\ made + 1 \in 1..(made + 1) /\ made + 1 \notin 1..made
  BY <1>5
<1>8. Shaped'
  <2>1. \A n \in Machines : IsJob(job'[n])
    BY <1>1, <1>3, <1>4 DEF Shaped
  <2> QED BY <1>1, <1>2, <2>1 DEF Shaped
<1>9. Sound'
  <2>1. \A n \in Machines : job'[n].at = "merging" =>
          job'[n].copy.db \in Databases /\ job'[n].staged.db \in Databases
    BY <1>3, <1>4, AreDatabases DEF Merging
  <2>2. \A s \in (folder \cup pen)' : s.db \in Databases
    BY <1>2, <1>3, AreDatabases
  <2>3. Databases' \subseteq Databases
    BY <1>2, <2>1, <2>2, AreDatabases, NextDatabases
  <2>4. UsedTimes' = UsedTimes
    BY <1>2 DEF UsedTimes
  <2> QED BY <1>1, <2>3, <2>4, StaysSoundQuietly
<1>10. ASSUME NEW q \in Seq(1..made) PROVE q \in Seq(1..(made + 1))
  BY <1>7, <1>10, ListOfMore
<1>11. Numbered'
  <2>1. \A s \in folder' \cup pen' : s = new \/ s \in folder \cup pen
    BY <1>2
  <2>2. \A s \in folder' \cup pen' : s.id \in 1..made' /\ s.by \in Machines
    BY <1>2, <1>3, <1>6, <1>7, <2>1
  <2>3. \A s, t \in folder' \cup pen' : s.id = t.id => s = t
    BY <1>1, <1>3, <1>6, <2>1 DEF Numbered
  <2>4. ASSUME NEW n \in Machines
        PROVE  /\ seen'[n] \in Seq(1..made')
               /\ job'[n].at = "published" =>
                    job'[n].own \in 1..made' /\ \A s \in folder' \cup pen' : s.id = job'[n].own => s.by = n
               /\ job'[n].at = "merging" =>
                    /\ job'[n].copy.seen \in Seq(1..made') /\ job'[n].staged.id \in 1..made'
                    /\ \A s \in folder' \cup pen' : s.id = job'[n].staged.id => s = job'[n].staged
    <3>1. seen'[n] \in Seq(1..made')
      BY <1>2, <1>6, <1>10
    <3>2. CASE n = m
      BY <1>2, <1>3, <1>4, <1>6, <1>7, <2>1, <3>1, <3>2
    <3>3. CASE n # m
      <4>1. job'[n] = job[n]
        BY <1>4, <3>3
      <4>2. job[n].at = "published" =>
              job[n].own \in 1..made /\ \A s \in folder \cup pen : s.id = job[n].own => s.by = n
        BY <1>1 DEF Numbered
      <4>3. job[n].at = "merging" =>
              /\ job[n].copy.seen \in Seq(1..made) /\ job[n].staged.id \in 1..made
              /\ \A s \in folder \cup pen : s.id = job[n].staged.id => s = job[n].staged
        BY <1>1 DEF Numbered
      <4>4. job[n].at = "merging" => job[n].copy.seen \in Seq(1..(made + 1))
        BY <4>3, <1>10
      <4> QED BY <1>2, <1>3, <1>7, <2>1, <3>1, <4>1, <4>2, <4>3, <4>4
    <3> QED BY <3>2, <3>3
  <2> QED BY <2>2, <2>3, <2>4 DEF Numbered
<1>12. Known'
  <2> SUFFICES ASSUME ~ left.skewed, NEW n \in Machines, NEW s \in folder' \cup pen'
               PROVE  /\ s.by = n \/ InList(seen[n], s.id) => Knows(db[n], purged[n], s)
                      /\ job'[n].at = "merging" /\ (s.by = n \/ InList(job'[n].copy.seen, s.id))
                           => Knows(job'[n].copy.db, purged[n], s)
    BY <1>2 DEF Known
  <2>1. CASE s \in folder \cup pen
    <3>1. /\ s.by = n \/ InList(seen[n], s.id) => Knows(db[n], purged[n], s)
          /\ job[n].at = "merging" /\ (s.by = n \/ InList(job[n].copy.seen, s.id))
               => Knows(job[n].copy.db, purged[n], s)
      BY <1>1, <2>1 DEF Known
    <3> QED BY <3>1, <1>3, <1>4
  <2>2. CASE s = new
    <3>1. ASSUME NEW q \in Seq(1..made) PROVE ~ InList(q, s.id)
      BY <1>3, <1>7, <2>2, <3>1, ElementOf DEF InList
    <3>2. Knows(db[m], purged[m], s)
      BY <1>1, <1>3, <2>2, AreDatabases, KnowsItself DEF Sound
    <3>3. ~ InList(seen[n], s.id)
      BY <1>6, <3>1
    <3>4. job'[n].at = "merging" => n # m /\ ~ InList(job'[n].copy.seen, s.id)
      BY <1>3, <1>4, <1>6, <3>1 DEF Merging
    <3> QED BY <1>3, <2>2, <3>2, <3>3, <3>4
  <2> QED BY <1>2, <2>1, <2>2
<1>13. CopyIsFresh'
  BY <1>1, <1>2, <1>3, <1>4 DEF CopyIsFresh
<1> QED BY <1>2, <1>8, <1>9, <1>11, <1>12, <1>13, InvNext

LEMMA EmptyPenKeeps ==
  ASSUME CloudInv, EmptyPen
  PROVE  CloudInv' /\ db' = db
<1>1. Shaped /\ Sound /\ Numbered /\ Known /\ CopyIsFresh
  BY InvIs
<1>2. /\ folder' \cup pen' \subseteq folder \cup pen
      /\ job' = job /\ db' = db /\ purged' = purged /\ seen' = seen /\ used' = used
      /\ made' = made /\ left' = left
  BY DEF EmptyPen, Release, Discard
<1>3. Sound'
  <2>1. Databases' \subseteq Databases
    BY <1>2, AreDatabases, NextDatabases DEF Merging
  <2>2. UsedTimes' = UsedTimes
    BY <1>2 DEF UsedTimes
  <2> QED BY <1>1, <2>1, <2>2, StaysSoundQuietly
<1>4. Shaped' /\ Numbered' /\ Known' /\ CopyIsFresh'
  <2>1. Shaped'
    BY <1>1, <1>2 DEF Shaped
  <2>2. Numbered'
    BY <1>1, <1>2 DEF Numbered
  <2>3. Known'
    BY <1>1, <1>2 DEF Known
  <2>4. CopyIsFresh'
    BY <1>1, <1>2 DEF CopyIsFresh
  <2> QED BY <2>1, <2>2, <2>3, <2>4
<1> QED BY <1>2, <1>3, <1>4, InvNext

LEMMA StutterKeeps ==
  ASSUME CloudInv, UNCHANGED cloudVars
  PROVE  CloudInv'
<1>1. Shaped /\ Sound /\ Numbered /\ Known /\ CopyIsFresh
  BY InvIs
<1> USE DEF cloudVars
<1>2. Databases' = Databases /\ UsedTimes' = UsedTimes
  BY DEF Databases, UsedTimes, Merging, Copies
<1>3. Sound' /\ Shaped'
  BY <1>1, <1>2, StaysSoundQuietly DEF Shaped
<1>4. Numbered' /\ CopyIsFresh'
  BY <1>1 DEF Numbered, CopyIsFresh
<1>5. Known'
  BY <1>1 DEF Known
<1> QED BY <1>3, <1>4, <1>5, InvNext

\* Every machine begins with the same page, and nothing in it was ever written.
LEMMA CloudInvInit ==
  ASSUME CloudInit
  PROVE  CloudInv
<1>1. left \in Plan /\ left.start \in Pages
  BY PlansTyped DEF CloudInit, Plan
<1>2. PICK k \in Keys : db = [m \in Machines |-> Upsert(EmptyStore, k, left.start)]
  BY DEF CloudInit
<1> DEFINE e == Upsert(EmptyStore, k, left.start)
<1>3. IsDb(EmptyStore) /\ Stored(EmptyStore) = {}
  BY DEF EmptyStore, IsDb, HasRows, HasFlags, Stored
<1>4. Edited(EmptyStore, e, 1) /\ Edited(EmptyStore, e, 2)
  BY <1>1, <1>3, PageIsEdit
<1>5. db = [m \in Machines |-> e]
  BY <1>2
<1> HIDE DEF e
<1>6. IsDb(e)
  BY <1>4 DEF Edited
<1>7. ASSUME NEW l \in Stored(e) PROVE Times(e.news[l]) = {0} /\ Virgin(e.news[l])
  <2> DEFINE x == Fresh(e.news[l].title)  y == e.news[l]
  <2>1. x \in Row /\ Virgin(x) /\ Times(x) = {0} /\ y \in Row
    BY <1>6, <1>7, RowsOf, FreshIsVirgin DEF Row
  <2>2. Rewritten(x, y, 1) /\ Rewritten(x, y, 2)
    BY <1>3, <1>4, <1>7 DEF Edited, Before
  <2> HIDE DEF x, y
  <2>3. /\ y.readAt = x.readAt /\ y.markedAt = x.markedAt /\ y.notedAt = x.notedAt
        /\ y.deletedAt = x.deletedAt /\ y.tagsAt = x.tagsAt
    BY <2>2 DEF Rewritten
  <2>4. Virgin(y)
    BY <2>1, <2>2, RewrittenRow
  <2>5. Times(y) = Times(x)
    BY <2>3 DEF Times
  <2> QED BY <2>1, <2>4, <2>5 DEF y
<1>8. /\ seen = [m \in Machines |-> <<>>] /\ used = [m \in Machines |-> {}]
      /\ job = [m \in Machines |-> Idle] /\ purged = [m \in Machines |-> {}]
      /\ folder = {} /\ pen = {} /\ made = 0
  BY DEF CloudInit
<1>9. IsJob(Idle) /\ Idle.at = "idle"
  BY DEF Idle, IsJob
<1>10. \A d \in Databases : d = e
  BY <1>5, <1>8, <1>9 DEF Databases, Copies, Merging
<1>11. Shaped
  BY <1>1, <1>5, <1>8, <1>9 DEF Shaped
<1>12. Sound
  BY <1>6, <1>7, <1>10, AgreeAlone DEF Sound, Written, Agreed
<1>13. Numbered /\ Known /\ CopyIsFresh
  BY <1>8, <1>9 DEF Numbered, Known, CopyIsFresh
<1> QED BY <1>11, <1>12, <1>13, InvIs


-----------------------------------------------------------------------------
(* The theorems                                                            *)

\* What a step may do to the rows of a machine whose clock agrees with the others.
NewerStep ==
  ~ left.skewed => \A m \in Machines : \A l \in Stored(db[m]) \cap Stored(db'[m]) :
    \/ job[m].at = "merging" /\ job[m].late /\ db'[m] = job[m].copy.db
    \/ NewerRow(db[m].news[l], db'[m].news[l])

LEMMA NewerIsReflexive == \A x : NewerRow(x, x)
BY DEF NewerRow

LEMMA NothingNewer ==
  ASSUME db' = db
  PROVE  NewerStep
BY NewerIsReflexive DEF NewerStep

\* One machine's database moves to newer rows.
LEMMA OneMovesOn ==
  ASSUME NEW m \in Machines, db = [n \in Machines |-> db[n]], NEW e, db' = [db EXCEPT ![m] = e],
         ~ left.skewed => \A l \in Stored(db[m]) \cap Stored(e) :
           \/ job[m].at = "merging" /\ job[m].late /\ e = job[m].copy.db
           \/ NewerRow(db[m].news[l], e.news[l])
  PROVE  NewerStep
<1>1. db'[m] = e /\ \A n \in Machines \ {m} : db'[n] = db[n]
  OBVIOUS
<1> QED BY <1>1, NewerIsReflexive DEF NewerStep

LEMMA StepKeeps ==
  ASSUME CloudInv, CloudNext
  PROVE  CloudInv' /\ NewerStep
<1>1. CASE EmptyPen
  BY <1>1, EmptyPenKeeps, NothingNewer
<1>2. CASE \E m \in Machines : CloudStep(m)
  <2>1. PICK m \in Machines : CloudStep(m)
    BY <1>2
  <2>2. CloudTyped /\ Numbered /\ CopyIsFresh /\ db = [n \in Machines |-> db[n]]
    BY DEF CloudInv, CloudTyped
  <2>3. CASE Fetch(m) \/ EditArticle(m) \/ EditMany(m)
    <3>1. left' \in Plan /\ left'.skewed = left.skewed /\ \E e, now : Writes(m, e, now)
      BY <2>2, <2>3, EditsWrite
    <3>2. PICK e, now : Writes(m, e, now)
      BY <3>1
    <3>3. CloudInv'
      BY <3>1, <3>2, WritesKeep
    <3>4. db' = [db EXCEPT ![m] = e]
      BY <3>2 DEF Writes, Commit
    <3>5. ~ left.skewed => \A l \in Stored(db[m]) : NewerRow(db[m].news[l], e.news[l])
      BY <3>2, WrittenIsNewer
    <3>6. NewerStep
      BY <2>2, <3>4, <3>5, OneMovesOn
    <3> QED BY <3>3, <3>6
  <2>4. CASE DropBatch(m)
    <3>1. CloudInv'
      BY <2>4, DropBatchKeeps
    <3> DEFINE e == Purge(db[m], job[m].batch)
    <3>2. db' = [db EXCEPT ![m] = e]
      BY <2>4 DEF DropBatch
    <3>3. IsDb(db[m])
      BY <2>2 DEF CloudTyped, Databases
    <3>4. \A l \in Stored(db[m]) \cap Stored(e) : e.news[l] = db[m].news[l]
      BY <3>3, PurgedRows
    <3> HIDE DEF e
    <3>5. NewerStep
      BY <2>2, <3>2, <3>4, NewerIsReflexive, OneMovesOn
    <3> QED BY <3>1, <3>5
  <2>5. CASE MergeCommit(m)
    <3>1. CloudInv' /\ \A l \in Stored(db[m]) : NewerRow(db[m].news[l], db'[m].news[l])
      BY <2>5, MergeCommitKeeps
    <3> DEFINE e == Merge(db[m], job[m].staged.db)
    <3>2. db' = [db EXCEPT ![m] = e]
      BY <2>5 DEF MergeCommit
    <3> HIDE DEF e
    <3>3. db'[m] = e
      BY <2>2, <3>2
    <3>4. NewerStep
      BY <2>2, <3>1, <3>2, <3>3, OneMovesOn
    <3> QED BY <3>1, <3>4
  <2>6. CASE MergeFail(m)
    <3>1. CloudInv' /\ db' = [db EXCEPT ![m] = job[m].copy.db] /\ job[m].at = "merging"
      BY <2>6, MergeFailKeeps
    <3>2. ~ job[m].late => job[m].copy.db = db[m]
      BY <2>2, <3>1 DEF CopyIsFresh
    <3>3. NewerStep
      BY <2>2, <3>1, <3>2, NewerIsReflexive, OneMovesOn
    <3> QED BY <3>1, <3>3
  <2>7. CASE StartImport(m) /\ NextFile(m).by # m
    <3>1. db' = db
      BY <2>7 DEF StartImport
    <3> QED BY <2>7, <3>1, StagingKeeps, NothingNewer
  <2>8. CASE Export(m)
    BY <2>8, ExportKeeps, NothingNewer
  <2>9. CASE \/ StartPruning(m) \/ PickBatch(m) \/ StopPruning(m)
             \/ Select(m) \/ SkipImport(m) \/ RejectImport(m)
             \/ StartImport(m) /\ NextFile(m).by = m
             \/ FinishImport(m) \/ StartExport(m) \/ MarkExported(m) \/ Crash(m)
    <3>1. PICK j : Quiet(m, j)
      BY <2>2, <2>9, QuietSteps
    <3> QED BY <3>1, QuietKeeps, NothingNewer
  <2> QED BY <2>1, <2>3, <2>4, <2>5, <2>6, <2>7, <2>8, <2>9 DEF CloudStep
<1> QED BY <1>1, <1>2 DEF CloudNext

LEMMA CloudInvInvariant == CloudSpec => []CloudInv
<1>1. CloudInit => CloudInv
  BY CloudInvInit
<1>2. CloudInv /\ [CloudNext]_cloudVars => CloudInv'
  BY StepKeeps, StutterKeeps
<1> QED BY <1>1, <1>2, PTL DEF CloudSpec

\* Two copies of an article, on whatever machines and in whatever snapshots, agree on
\* every field they carry the same time for: the merge, which takes the strictly newer
\* side of each field, gives one result whichever machine merges first.
THEOREM StampsAreUnique == CloudSpec => []OneStampOneValue
<1>1. CloudInv => OneStampOneValue
  <2>1. ASSUME CloudInv, NEW c \in Copies \cup {db[m] : m \in Machines},
               NEW e \in Copies \cup {db[m] : m \in Machines}, NEW l \in Stored(c) \cap Stored(e)
        PROVE  Agree(c.news[l], e.news[l])
    <3>1. c \in Databases /\ e \in Databases
      BY DEF Databases
    <3> QED BY <2>1, <3>1 DEF CloudInv, Agreed
  <2> QED BY <2>1, Zenon DEF Agree, OneStampOneValue
<1> QED BY <1>1, CloudInvInvariant, PTL

\* What the list of seen snapshots lets a cycle skip has been merged whole, also after
\* a failed merge, a crash and the trimming of the list.
THEOREM SeenIsMerged == CloudSpec => []SeenMeansMerged
<1>1. CloudInv => SeenMeansMerged
  BY Zenon DEF CloudInv, Known, Knows, InList, SeenMeansMerged
<1> QED BY <1>1, CloudInvInvariant, PTL

\* No step, the commit of a merge included, changes a field of an article but to a value
\* written later; only the fallback of a failed merge to its copy does, over what was
\* written meanwhile.
THEOREM NoOlderValueReturns == CloudSpec => NewerWins
<1>1. CloudInv /\ [CloudNext]_cloudVars =>
        [NewerStep]_cloudVars
  BY StepKeeps
<1> DEFINE Step ==
      ~ left.skewed => \A m \in Machines : \A l \in Stored(db[m]) \cap Stored(db'[m]) :
       LET x == db[m].news[l]  y == db'[m].news[l]
       IN \/ job[m].at = "merging" /\ job[m].late /\ db'[m] = job[m].copy.db
          \/ /\ y.readAt > x.readAt \/ (y.readAt = x.readAt /\ y.read = x.read)
             /\ y.markedAt > x.markedAt \/ (y.markedAt = x.markedAt /\ y.marked = x.marked)
             /\ y.notedAt > x.notedAt \/ (y.notedAt = x.notedAt /\ y.noted = x.noted)
             /\ y.deletedAt > x.deletedAt \/ (y.deletedAt = x.deletedAt /\ y.deleted = x.deleted)
             /\ y.tagsAt > x.tagsAt \/ (y.tagsAt = x.tagsAt /\ y.tags = x.tags)
<1>2. NewerStep <=> Step
  BY Zenon DEF NewerStep, NewerRow
<1>3. CloudInv /\ [CloudNext]_cloudVars => [Step]_cloudVars
  BY <1>1, <1>2
<1> QED BY <1>3, CloudInvInvariant, PTL DEF CloudSpec, NewerWins


-----------------------------------------------------------------------------
(* What the separate queries count                                         *)

LEMMA MembersOf ==
  ASSUME NEW d, IsDb(d), NEW p \in DOMAIN d.member
  PROVE  p = <<p[1], p[2]>> /\ p[1] \in Stored(d) /\ p[2] \in Keys /\ d.member[p] \in BOOLEAN
BY DEF IsDb, HasFlags

LEMMA DbIsFinite ==
  ASSUME NEW d, IsDb(d)
  PROVE  IsFiniteSet(Stored(d)) /\ IsFiniteSet(DOMAIN d.member)
<1>1. Stored(d) \in SUBSET Links /\ DOMAIN d.member \in SUBSET (Links \X Keys)
  BY DEF IsDb, HasRows, HasFlags
<1>2. IsFiniteSet(Links \X Keys)
  BY FiniteStore, FS_Product
<1> QED BY <1>1, <1>2, FiniteStore, FS_Subset

\* The list, the rows its counts are taken of and what "mark all as read" reaches.
LEMMA ListedAsCounted ==
  ASSUME NEW d, IsDb(d), NEW sc \in Scopes
  PROVE  /\ {l \in CountedRows(d, sc) : Visible(d, sc, l) /\ ~ (sc.unread /\ d.news[l].read)}
              = FetchNews(d, sc)
         /\ MarkScope(d, sc) = {l \in FetchNews(d, sc) : ~ d.news[l].read}
<1> DEFINE kept(l) == IF sc.key = Bookmarks
                      THEN d.news[l].marked /\ (sc.unique => l \notin FlaggedAnywhere(d))
                      ELSE <<l, sc.key>> \in DOMAIN d.member
                           /\ (sc.unique => ~ d.member[<<l, sc.key>>])
<1>1. ASSUME NEW l PROVE l \in CountedRows(d, sc) <=> l \in Live(d) /\ kept(l)
  <2>1. CASE sc.key = Bookmarks
    BY <2>1 DEF CountedRows
  <2>2. CASE sc.key # Bookmarks
    <3>1. ASSUME l \in CountedRows(d, sc) PROVE l \in Live(d) /\ kept(l)
      <4>1. PICK p \in DOMAIN d.member :
              p[1] = l /\ p[2] = sc.key /\ p[1] \in Live(d) /\ ~ (sc.unique /\ d.member[p])
        BY <2>2, <3>1 DEF CountedRows
      <4>2. p = <<l, sc.key>>
        BY <4>1, MembersOf
      <4> QED BY <2>2, <4>1, <4>2
    <3>2. ASSUME l \in Live(d), kept(l) PROVE l \in CountedRows(d, sc)
      <4> DEFINE p == <<l, sc.key>>
      <4>1. p \in DOMAIN d.member /\ p[1] = l /\ p[2] = sc.key /\ ~ (sc.unique /\ d.member[p])
        BY <2>2, <3>2
      <4> HIDE DEF p
      <4> QED BY <2>2, <3>2, <4>1 DEF CountedRows
    <3> QED BY <3>1, <3>2
  <2> QED BY <2>1, <2>2
<1>2. ASSUME NEW l
      PROVE  l \in FetchNews(d, sc) <=>
               l \in Live(d) /\ kept(l) /\ Visible(d, sc, l) /\ (sc.unread => ~ d.news[l].read)
  BY Zenon DEF FetchNews, Live
<1>3. ASSUME NEW l
      PROVE  l \in MarkScope(d, sc) <=>
               l \in Live(d) /\ kept(l) /\ Visible(d, sc, l) /\ ~ d.news[l].read
  <2>1. <<l, sc.key>> \in DOMAIN d.member => d.member[<<l, sc.key>>] \in BOOLEAN
    BY MembersOf
  <2> QED BY <2>1, Zenon DEF MarkScope
<1> HIDE DEF kept
<1> QED BY <1>1, <1>2, <1>3

LEMMA SameNumber ==
  ASSUME NEW S, NEW T, IsFiniteSet(S), NEW f \in [S -> T],
         \A x, y \in S : f[x] = f[y] => x = y,
         \A t \in T : \E x \in S : f[x] = t
  PROVE  Cardinality(S) = Cardinality(T)
<1>1. f \in Bijection(S, T)
  BY DEF Bijection, Injection, Surjection, IsInjective
<1>2. ExistsBijection(S, T)
  BY <1>1 DEF ExistsBijection
<1> QED BY <1>2, FS_Bijection

\* The badge counts memberships, the list articles: a scope has an article once.
LEMMA BadgeAsListed ==
  ASSUME NEW d, IsDb(d), NEW k \in Keys
  PROVE  UnreadBadge(d, k) =
           Cardinality(FetchNews(d, [key |-> k, unread |-> TRUE, unique |-> FALSE, tag |-> AnyTag]))
<1> DEFINE sc == [key |-> k, unread |-> TRUE, unique |-> FALSE, tag |-> AnyTag]
           S == {p \in DOMAIN d.member : p[2] = k /\ p[1] \in Live(d) /\ ~ d.news[p[1]].read}
           T == FetchNews(d, sc)
           f == [p \in S |-> p[1]]
<1>1. \A l : l \in T <=> l \in Live(d) /\ <<l, k>> \in DOMAIN d.member /\ ~ d.news[l].read
  BY BookmarksApart DEF FetchNews, Visible, Live
<1> HIDE DEF T
<1>2. ASSUME NEW p \in S PROVE p = <<p[1], k>> /\ p[1] \in T /\ f[p] = p[1]
  BY <1>1, MembersOf
<1>3. ASSUME NEW l \in T PROVE <<l, k>> \in S /\ f[<<l, k>>] = l
  BY <1>1
<1>4. IsFiniteSet(S)
  BY DbIsFinite, FS_Subset
<1>5. UnreadBadge(d, k) = Cardinality(S)
  BY DEF UnreadBadge
<1> HIDE DEF S
<1>6. f \in [S -> T]
  BY <1>2
<1> HIDE DEF f
<1>7. \A x, y \in S : f[x] = f[y] => x = y
  BY <1>2
<1>8. \A t \in T : \E x \in S : f[x] = t
  BY <1>3
<1>9. Cardinality(S) = Cardinality(T)
  BY <1>4, <1>6, <1>7, <1>8, SameNumber
<1> QED BY <1>5, <1>9 DEF T

\* How many a superset has more.
LEMMA More ==
  ASSUME NEW S, NEW T, IsFiniteSet(S), IsFiniteSet(T)
  PROVE  Cardinality(T \ S) = Cardinality(S \cup T) - Cardinality(S)
<1>1. T \ S = (S \cup T) \ S /\ (S \cup T) \cap S = S
  OBVIOUS
<1>2. IsFiniteSet(S \cup T)
  BY FS_Union
<1> QED BY <1>1, <1>2, FS_Difference

\* What database e has more than d, and what it has otherwise.
Difference(d, e) ==
  LET old == Stored(d)
  IN [news        |-> Cardinality(Stored(e)) - Cardinality(old),
      memberships |-> Cardinality(DOMAIN e.member) - Cardinality(DOMAIN d.member),
      read        |-> Cardinality({l \in old : e.news[l].read # d.news[l].read}),
      marked      |-> Cardinality({l \in old : e.news[l].marked # d.news[l].marked}),
      tags        |-> Cardinality({l \in Stored(e) : e.news[l].tagsAt #
                                     IF l \in old THEN d.news[l].tagsAt ELSE 0}),
      deleted     |-> Cardinality((Stored(e) \ Live(e)) \ (old \ Live(d))),
      restored    |-> Cardinality(Live(e) \cap (old \ Live(d)))]

\* The preview counts what the merge writes.
LEMMA PreviewAsMerged ==
  ASSUME NEW d, IsDb(d), NEW s, IsDb(s), \A l \in Stored(s) : Virgin(s.news[l])
  PROVE  MergePreview(d, s) = Difference(d, Merge(d, s))
<1> DEFINE e == Merge(d, s)
           old == Stored(d)
           both == Stored(d) \cap Stored(s)
           dead(l) == l \in Stored(d) /\ d.news[l].deleted
           ruled == {l \in Stored(s) : s.news[l].deletedAt >
                                         IF l \in Stored(d) THEN d.news[l].deletedAt ELSE 0}
<1>1. /\ IsDb(e) /\ Stored(e) = Stored(d) \cup Stored(s)
      /\ DOMAIN e.member = DOMAIN d.member \cup DOMAIN s.member
      /\ \A l \in Stored(d) \ Stored(s) : e.news[l] = d.news[l]
      /\ \A l \in Stored(s) : Blended(Before(d, e, l), s.news[l], e.news[l])
  BY MergedRows
<1> HIDE DEF e
<1>2. /\ Cardinality(Stored(s) \ Stored(d)) = Cardinality(Stored(e)) - Cardinality(old)
      /\ Cardinality(DOMAIN s.member \ DOMAIN d.member) =
           Cardinality(DOMAIN e.member) - Cardinality(DOMAIN d.member)
  BY <1>1, DbIsFinite, More
<1>3. \A l \in both : d.news[l] \in Row /\ s.news[l] \in Row /\ e.news[l] \in Row
                      /\ Blended(d.news[l], s.news[l], e.news[l])
  BY <1>1, RowsOf DEF Before
<1>4. {l \in both : s.news[l].readAt > d.news[l].readAt /\ s.news[l].read # d.news[l].read}
        = {l \in old : e.news[l].read # d.news[l].read}
  <2>1. \A l \in both : s.news[l].readAt > d.news[l].readAt /\ s.news[l].read # d.news[l].read
                        <=> e.news[l].read # d.news[l].read
    BY <1>3 DEF Blended, Row
  <2> QED BY <1>1, <2>1
<1>5. {l \in both : s.news[l].markedAt > d.news[l].markedAt /\ s.news[l].marked # d.news[l].marked}
        = {l \in old : e.news[l].marked # d.news[l].marked}
  <2>1. \A l \in both : s.news[l].markedAt > d.news[l].markedAt /\ s.news[l].marked # d.news[l].marked
                        <=> e.news[l].marked # d.news[l].marked
    BY <1>3 DEF Blended, Row
  <2> QED BY <1>1, <2>1
<1>6. ASSUME NEW l \in Stored(s)
      PROVE  LET x == Before(d, e, l)  z == s.news[l]  y == e.news[l]
             IN /\ x \in Row /\ z \in Row /\ y \in Row /\ Blended(x, z, y)
                /\ x.tagsAt = IF l \in Stored(d) THEN d.news[l].tagsAt ELSE 0
                /\ x.deletedAt = IF l \in Stored(d) THEN d.news[l].deletedAt ELSE 0
                /\ x.deleted <=> dead(l)
  <2>1. s.news[l] \in Row /\ e.news[l] \in Row /\ Blended(Before(d, e, l), s.news[l], e.news[l])
    BY <1>1, <1>6, RowsOf
  <2>2. CASE l \in Stored(d)
    BY <2>1, <2>2, RowsOf DEF Before
  <2>3. CASE l \notin Stored(d)
    <3>1. Before(d, e, l) = Fresh(e.news[l].title) /\ e.news[l].title \in Titles
      BY <2>1, <2>3 DEF Before, Row
    <3>2. Before(d, e, l) \in Row
      BY <3>1, FreshIsVirgin
    <3> QED BY <2>1, <2>3, <3>1, <3>2 DEF Fresh
  <2> QED BY <2>2, <2>3
<1>7. {l \in Stored(s) : s.news[l].tags # {} /\ s.news[l].tagsAt >
                           IF l \in Stored(d) THEN d.news[l].tagsAt ELSE 0}
        = {l \in Stored(e) : e.news[l].tagsAt # IF l \in old THEN d.news[l].tagsAt ELSE 0}
  <2>1. \A l \in Stored(s) :
          s.news[l].tags # {} /\ s.news[l].tagsAt > (IF l \in Stored(d) THEN d.news[l].tagsAt ELSE 0)
          <=> e.news[l].tagsAt # (IF l \in old THEN d.news[l].tagsAt ELSE 0)
    <3> SUFFICES ASSUME NEW l \in Stored(s)
                 PROVE  s.news[l].tags # {} /\ s.news[l].tagsAt > Before(d, e, l).tagsAt
                        <=> e.news[l].tagsAt # Before(d, e, l).tagsAt
      BY <1>6
    <3> QED BY <1>6 DEF Blended, Row
  <2> QED BY <1>1, <2>1
<1>8. ASSUME NEW l \in Stored(s)
      PROVE  /\ l \in ruled /\ s.news[l].deleted /\ ~ dead(l) <=> e.news[l].deleted /\ ~ dead(l)
             /\ l \in ruled /\ ~ s.news[l].deleted /\ dead(l) <=> ~ e.news[l].deleted /\ dead(l)
  <2> DEFINE x == Before(d, e, l)  z == s.news[l]  y == e.news[l]
  <2>1. x \in Row /\ z \in Row /\ y \in Row /\ Blended(x, z, y) /\ (x.deleted <=> dead(l))
    BY <1>6
  <2>2. l \in ruled <=> z.deletedAt > x.deletedAt
    BY <1>6
  <2> HIDE DEF x, y, z, dead, ruled
  <2>3. /\ z.deletedAt > x.deletedAt => (y.deleted <=> z.deleted)
        /\ ~ (z.deletedAt > x.deletedAt) => (y.deleted <=> x.deleted)
    BY <2>1 DEF Blended, Row
  <2>4. /\ l \in ruled /\ z.deleted /\ ~ dead(l) <=> y.deleted /\ ~ dead(l)
        /\ l \in ruled /\ ~ z.deleted /\ dead(l) <=> ~ y.deleted /\ dead(l)
    BY <2>1, <2>2, <2>3, Zenon
  <2> QED BY <2>4 DEF y, z
<1>9. {l \in ruled : s.news[l].deleted /\ ~ dead(l)} = (Stored(e) \ Live(e)) \ (old \ Live(d))
  <2>1. \A l : l \in old \ Live(d) <=> dead(l)
    BY DEF Live
  <2>2. \A l : l \in Stored(e) \ Live(e) <=> l \in Stored(e) /\ e.news[l].deleted
    BY DEF Live
  <2>3. \A l \in Stored(d) \ Stored(s) : e.news[l].deleted => dead(l)
    BY <1>1
  <2>4. ruled \subseteq Stored(s)
    OBVIOUS
  <2> HIDE DEF dead, ruled
  <2> QED BY <1>1, <1>8, <2>1, <2>2, <2>3, <2>4
<1>10. {l \in ruled : ~ s.news[l].deleted /\ dead(l)} = Live(e) \cap (old \ Live(d))
  <2>1. \A l : l \in old \ Live(d) <=> dead(l)
    BY DEF Live
  <2>2. \A l : l \in Live(e) <=> l \in Stored(e) /\ ~ e.news[l].deleted
    BY DEF Live
  <2>3. \A l \in Stored(d) \ Stored(s) : ~ e.news[l].deleted => ~ dead(l)
    BY <1>1
  <2>4. ruled \subseteq Stored(s) /\ \A l : dead(l) => l \in Stored(d)
    OBVIOUS
  <2> HIDE DEF dead, ruled
  <2> QED BY <1>1, <1>8, <2>1, <2>2, <2>3, <2>4
<1>11. MergePreview(d, s) =
         [news        |-> Cardinality(Stored(s) \ Stored(d)),
          memberships |-> Cardinality(DOMAIN s.member \ DOMAIN d.member),
          read        |-> Cardinality({l \in both : s.news[l].readAt > d.news[l].readAt
                                                    /\ s.news[l].read # d.news[l].read}),
          marked      |-> Cardinality({l \in both : s.news[l].markedAt > d.news[l].markedAt
                                                    /\ s.news[l].marked # d.news[l].marked}),
          tags        |-> Cardinality({l \in Stored(s) : s.news[l].tags # {} /\ s.news[l].tagsAt >
                                         IF l \in Stored(d) THEN d.news[l].tagsAt ELSE 0}),
          deleted     |-> Cardinality({l \in ruled : s.news[l].deleted /\ ~ dead(l)}),
          restored    |-> Cardinality({l \in ruled : ~ s.news[l].deleted /\ dead(l)})]
  BY Zenon DEF MergePreview
<1> QED BY <1>2, <1>4, <1>5, <1>7, <1>9, <1>10, <1>11, Zenon DEF Difference, e

\* The list, its counts, the badge, the statistics, "mark all as read" and the preview of
\* a merge are separate queries over the database: on every database the program can
\* reach they count the same articles.
THEOREM QueriesAgree == CloudSpec => []ListingsAgree
<1>1. ASSUME CloudInv PROVE ListingsAgree
  <2>1. \A m \in Machines : IsDb(db[m])
    BY <1>1 DEF CloudInv, CloudTyped, Databases
  <2>2. \A m \in Merging : /\ IsDb(job[m].staged.db)
                           /\ \A l \in Stored(job[m].staged.db) : Virgin(job[m].staged.db.news[l])
    BY <1>1, AreDatabases DEF CloudInv, CloudTyped, Written
  <2>3. ASSUME NEW d, IsDb(d), NEW sc \in Scopes
        PROVE  /\ CountNewsStates(d, sc).total = Cardinality(FetchNews(d, sc))
               /\ CountNewsStates(d, sc).unread = Cardinality({l \in FetchNews(d, sc) : ~ d.news[l].read})
               /\ MarkScope(d, sc) = {l \in FetchNews(d, sc) : ~ d.news[l].read}
    BY <2>3, ListedAsCounted DEF CountNewsStates
  <2>4. \A d : /\ Statistics(d).total = Cardinality(Archive(d, FALSE, FALSE))
               /\ Statistics(d).unread = Cardinality(Archive(d, FALSE, TRUE))
    <3>1. \A d : /\ Archive(d, FALSE, FALSE) = Live(d)
                 /\ Archive(d, FALSE, TRUE) = {l \in Live(d) : ~ d.news[l].read}
      BY DEF Archive, Live
    <3> QED BY <3>1 DEF Statistics
  <2>5. \A d : IsDb(d) => \A k \in Keys : UnreadBadge(d, k) =
          Cardinality(FetchNews(d, [key |-> k, unread |-> TRUE, unique |-> FALSE, tag |-> AnyTag]))
    BY BadgeAsListed
  <2>6. \A m \in Machines : job[m].at = "merging" =>
          MergePreview(db[m], job[m].staged.db) = Difference(db[m], Merge(db[m], job[m].staged.db))
    BY <2>1, <2>2, PreviewAsMerged DEF Merging
  <2> QED BY <2>1, <2>3, <2>4, <2>5, <2>6, Zenon DEF ListingsAgree, Difference
<1> QED BY <1>1, CloudInvInvariant, PTL


-----------------------------------------------------------------------------
(* Duplicate flags                                                         *)

\* Two databases with the same articles, titles, deletions and memberships.
SameShape(d, e) ==
  /\ Stored(e) = Stored(d) /\ e.member = d.member
  /\ \A l \in Stored(d) :
       e.news[l].title = d.news[l].title /\ e.news[l].deleted = d.news[l].deleted

LEMMA SameShapeFlags ==
  ASSUME NEW d, NEW e, SameShape(d, e)
  PROVE  /\ Live(e) = Live(d) /\ Inexact(e) = Inexact(d)
         /\ \A S : Affected(e, S) = Affected(d, S)
         /\ HiddenGroups(e) = HiddenGroups(d)
<1>1. Live(e) = Live(d)
  BY DEF SameShape, Live
<1>2. \A k, t : Group(e, k, t) = Group(d, k, t)
  BY <1>1 DEF SameShape, Group, Live
<1>3. Inexact(e) = Inexact(d)
  BY <1>2 DEF SameShape, Inexact
<1>4. ASSUME NEW S PROVE Affected(e, S) = Affected(d, S)
  <2>1. \A l \in S \cap Live(d) : e.news[l].title = d.news[l].title
    BY DEF SameShape, Live
  <2> QED BY <1>1, <2>1 DEF SameShape, Affected
<1>5. HiddenGroups(e) = HiddenGroups(d)
  <2>1. \A l \in Stored(d) \ Live(d) : e.news[l].title = d.news[l].title
    BY DEF SameShape
  <2> QED BY <1>1, <2>1 DEF SameShape, HiddenGroups
<1> QED BY <1>1, <1>3, <1>4, <1>5

\* What is kept by a step is kept when it goes on to a database of the same shape.
LEMMA KeptAgain ==
  ASSUME NEW d, NEW e, NEW f, FlagsKept(d, e), SameShape(e, f)
  PROVE  FlagsKept(d, f)
<1>1. /\ Live(f) = Live(e) /\ Inexact(f) = Inexact(e)
      /\ \A S : Affected(f, S) = Affected(e, S)
      /\ HiddenGroups(f) = HiddenGroups(e)
  BY SameShapeFlags
<1>2. Restored(d, f) = Restored(d, e)
  BY <1>1 DEF Restored
<1>3. Retitled(d, f) = Retitled(d, e)
  <2>1. \A l \in Live(e) : f.news[l].title = e.news[l].title
    BY DEF SameShape, Live
  <2>2. \A l : Shared(f, l) <=> Shared(e, l)
    BY DEF SameShape, Shared
  <2> QED BY <1>1, <2>1, <2>2 DEF Retitled
<1>4. Uncomputed(d, f) = Uncomputed(d, e)
  BY <1>1, <1>2, <1>3 DEF Uncomputed
<1>5. (\E l \in Live(d) \cap Stored(f) : f.news[l].deleted)
        <=> (\E l \in Live(d) \cap Stored(e) : e.news[l].deleted)
  BY DEF SameShape
<1> QED BY <1>1, <1>4, <1>5 DEF FlagsKept

LEMMA NothingDeleted == \A d : FlagsKept(d, d)
BY DEF FlagsKept, Live

LEMMA SameShapeKept ==
  ASSUME NEW d, NEW e, SameShape(d, e)
  PROVE  FlagsKept(d, e)
BY NothingDeleted, KeptAgain

\* What computing a set of groups afresh does: their flags are right, the others stay.
LEMMA FreshFlags ==
  ASSUME NEW d, IsDb(d), NEW G
  PROVE  LET e == RecalcGroups(d, G)
         IN /\ Live(e) = Live(d) /\ \A k, t : Group(e, k, t) = Group(d, k, t)
            /\ Inexact(e) \cap G = {}
            /\ \A p \in DOMAIN d.member :
                 <<p[2], d.news[p[1]].title>> \notin G => e.member[p] = d.member[p]
<1> DEFINE fresh(p) == IF p[1] \in Live(d) /\ <<p[2], d.news[p[1]].title>> \in G
                      THEN Cardinality(Group(d, p[2], d.news[p[1]].title)) > 1
                      ELSE d.member[p]
           flags == [p \in DOMAIN d.member |-> fresh(p)]
           e == [news |-> d.news, member |-> flags]
<1>1. RecalcGroups(d, G) = e
  <2>1. RecalcGroups(d, G) = [d EXCEPT !.member = flags]
    BY Zenon DEF RecalcGroups
  <2> HIDE DEF flags
  <2> QED BY <2>1 DEF IsDb
<1>2. e.news = d.news /\ DOMAIN e.member = DOMAIN d.member
      /\ \A p \in DOMAIN d.member : e.member[p] = fresh(p)
  OBVIOUS
<1> HIDE DEF fresh, flags, e
<1>3. Live(e) = Live(d)
  BY <1>2 DEF Live, Stored
<1>4. \A k, t : Group(e, k, t) = Group(d, k, t)
  BY <1>2, <1>3 DEF Group
<1>5. ASSUME NEW g \in Inexact(e), g \in G PROVE FALSE
  <2>1. PICK l \in Group(e, g[1], g[2]) :
          e.member[<<l, g[1]>>] # (Cardinality(Group(e, g[1], g[2])) > 1)
    BY <1>5 DEF Inexact
  <2> DEFINE p == <<l, g[1]>>
  <2>2. g = <<g[1], g[2]>>
    BY <1>5 DEF Inexact
  <2>3. l \in Group(d, g[1], g[2])
    BY <1>4
  <2>4. l \in Live(d) /\ p \in DOMAIN d.member /\ d.news[l].title = g[2]
    BY <2>3 DEF Group
  <2>5. p[1] = l /\ p[2] = g[1]
    OBVIOUS
  <2>6. e.member[p] = fresh(p)
    BY <1>2, <2>4
  <2> HIDE DEF p
  <2>7. fresh(p) = (Cardinality(Group(d, g[1], g[2])) > 1)
    BY <2>2, <2>4, <2>5, <1>5, Zenon DEF fresh
  <2>8. Group(e, g[1], g[2]) = Group(d, g[1], g[2])
    BY <1>4
  <2> QED BY <2>1, <2>6, <2>7, <2>8, Zenon DEF p
<1>6. ASSUME NEW p \in DOMAIN d.member, <<p[2], d.news[p[1]].title>> \notin G
      PROVE  e.member[p] = d.member[p]
  BY <1>2, <1>6, Zenon DEF fresh
<1> QED BY <1>1, <1>3, <1>4, <1>5, <1>6

LEMMA AllFresh ==
  ASSUME NEW d, IsDb(d)
  PROVE  Inexact(RecalcAll(d)) = {}
<1>1. CASE \E p \in DOMAIN d.member : p[1] \in Live(d)
  <2>1. RecalcAll(d) = RecalcGroups(d, Keys \X Titles)
    BY <1>1 DEF RecalcAll
  <2>2. Inexact(RecalcGroups(d, Keys \X Titles)) \cap (Keys \X Titles) = {}
    BY FreshFlags
  <2> QED BY <2>1, <2>2 DEF Inexact
<1>2. CASE ~ \E p \in DOMAIN d.member : p[1] \in Live(d)
  <2>1. RecalcAll(d) = [news |-> d.news, member |-> [p \in DOMAIN d.member |-> FALSE]]
    BY <1>2 DEF RecalcAll, IsDb
  <2> DEFINE e == RecalcAll(d)
  <2>2. e.news = d.news /\ DOMAIN e.member = DOMAIN d.member
    BY <2>1
  <2> HIDE DEF e
  <2>3. \A k, t : Group(e, k, t) = {}
    <3>1. Live(e) = Live(d)
      BY <2>2 DEF Live, Stored
    <3>2. ASSUME NEW k, NEW t, NEW l \in Group(e, k, t) PROVE FALSE
      <4>1. l \in Live(d) /\ <<l, k>> \in DOMAIN d.member
        BY <2>2, <3>1, <3>2 DEF Group
      <4> QED BY <4>1, <1>2
    <3> QED BY <3>2
  <2>4. Inexact(e) = {}
    BY <2>3 DEF Inexact
  <2> QED BY <2>4 DEF e
<1> QED BY <1>1, <1>2

\* A group is more than one article when it has another.
LEMMA AnotherOne ==
  ASSUME NEW S, IsFiniteSet(S), NEW x \in S
  PROVE  (Cardinality(S) > 1) <=> S \ {x} # {}
<1>1. IsFiniteSet(S \ {x}) /\ Cardinality(S \ {x}) = Cardinality(S) - 1
  BY FS_RemoveElement
<1>2. Cardinality(S) \in Nat /\ Cardinality(S \ {x}) \in Nat
  BY <1>1, FS_CardinalityType
<1>3. Cardinality(S \ {x}) = 0 <=> S \ {x} = {}
  BY <1>1, FS_EmptySet
<1> QED BY <1>1, <1>2, <1>3

-----------------------------------------------------------------------------
(* What each operation does to the flags                                   *)

\* The rows of a database are replaced by others of the same titles.
LEMMA RowsReshaped ==
  ASSUME NEW d, IsDb(d), NEW rows, DOMAIN rows = Stored(d),
         \A l \in Stored(d) :
           rows[l].title = d.news[l].title /\ rows[l].deleted = d.news[l].deleted
  PROVE  SameShape(d, [d EXCEPT !.news = rows])
<1>1. [d EXCEPT !.news = rows] = [news |-> rows, member |-> d.member]
  BY DEF IsDb
<1> QED BY <1>1 DEF SameShape, Stored

LEMMA OneRowReshaped ==
  ASSUME NEW d, IsDb(d), NEW l \in Stored(d), NEW row,
         row.title = d.news[l].title, row.deleted = d.news[l].deleted
  PROVE  SameShape(d, WithRow(d, l, row))
<1> DEFINE rows == [d.news EXCEPT ![l] = row]
<1>1. DOMAIN rows = Stored(d) /\ \A k \in Stored(d) : rows[k] = IF k = l THEN row ELSE d.news[k]
  BY DEF Stored
<1>2. WithRow(d, l, row) = [d EXCEPT !.news = rows]
  BY DEF WithRow
<1> HIDE DEF rows
<1> QED BY <1>1, <1>2, RowsReshaped

LEMMA SameShapeAlone == \A d : SameShape(d, d)
BY DEF SameShape

LEMMA SameShapeAgain ==
  ASSUME NEW d, NEW e, NEW f, SameShape(d, e), SameShape(e, f)
  PROVE  SameShape(d, f)
BY DEF SameShape

\* The state of one article, and the tags, have no part in the groups.
LEMMA StatesReshape ==
  ASSUME NEW d, IsDb(d), NEW l \in Stored(d), NEW v \in BOOLEAN, NEW T, NEW now
  PROVE  /\ SameShape(d, SetRead(d, l, v, now)) /\ SameShape(d, SetMarked(d, l, v, now))
         /\ SameShape(d, SetNoted(d, l, v, now)) /\ SameShape(d, SetTags(d, l, T, now))
<1>1. d.news[l] \in Row
  BY RowsOf
<1>2. SameShape(d, SetRead(d, l, v, now))
  BY <1>1, OneRowReshaped, SameShapeAlone DEF SetRead, Row
<1>3. SameShape(d, SetMarked(d, l, v, now))
  BY <1>1, OneRowReshaped, SameShapeAlone DEF SetMarked, Row
<1>4. SameShape(d, SetNoted(d, l, v, now))
  BY <1>1, OneRowReshaped, SameShapeAlone DEF SetNoted, Row
<1>5. SameShape(d, SetTags(d, l, T, now))
  BY <1>1, OneRowReshaped, SameShapeAlone DEF SetTags, Row
<1> QED BY <1>2, <1>3, <1>4, <1>5

LEMMA ImportReshapes ==
  ASSUME NEW d, IsDb(d), NEW l \in Stored(d), NEW v \in BOOLEAN, NEW w \in BOOLEAN, NEW now \in Nat
  PROVE  SameShape(d, ImportState(d, l, v, w, now))
<1> DEFINE e == SetMarked(d, l, v, now)
<1>1. SameShape(d, e)
  BY StatesReshape
<1>2. IsDb(e)
  BY MarkIsEdit DEF Edited
<1> HIDE DEF e
<1>3. l \in Stored(e)
  BY <1>1 DEF SameShape
<1>4. SameShape(e, SetNoted(e, l, w, now))
  BY <1>2, <1>3, StatesReshape
<1> QED BY <1>1, <1>4, SameShapeAgain DEF ImportState, e

LEMMA RetagReshapes ==
  ASSUME NEW d, IsDb(d), NEW S, NEW to, NEW now
  PROVE  SameShape(d, Retag(d, S, to, now))
<1> DEFINE row(l) == IF l \in S \cap Live(d) /\ to[d.news[l].tags] # d.news[l].tags
                     THEN [d.news[l] EXCEPT !.tags = to[@], !.tagsAt = now]
                     ELSE d.news[l]
           rows == [l \in Stored(d) |-> row(l)]
<1>1. \A l \in Stored(d) : row(l).title = d.news[l].title /\ row(l).deleted = d.news[l].deleted
  BY RowsOf DEF Row
<1>2. Retag(d, S, to, now) = [d EXCEPT !.news = rows]
  BY Zenon DEF Retag
<1> HIDE DEF row
<1>3. DOMAIN rows = Stored(d) /\ \A l \in Stored(d) : rows[l] = row(l)
  OBVIOUS
<1> HIDE DEF rows
<1> QED BY <1>1, <1>2, <1>3, RowsReshaped

LEMMA ReadAllReshapes ==
  ASSUME NEW d, IsDb(d), NEW S, NEW now
  PROVE  SameShape(d, MarkLinksRead(d, S, now))
<1> DEFINE row(l) == IF l \in S \cap Live(d) /\ ~ d.news[l].read
                     THEN [d.news[l] EXCEPT !.read = TRUE, !.readAt = now]
                     ELSE d.news[l]
           rows == [l \in Stored(d) |-> row(l)]
<1>1. \A l \in Stored(d) : row(l).title = d.news[l].title /\ row(l).deleted = d.news[l].deleted
  BY RowsOf DEF Row
<1>2. MarkLinksRead(d, S, now) = [d EXCEPT !.news = rows]
  BY Zenon DEF MarkLinksRead
<1> HIDE DEF row
<1>3. DOMAIN rows = Stored(d) /\ \A l \in Stored(d) : rows[l] = row(l)
  OBVIOUS
<1> HIDE DEF rows
<1> QED BY <1>1, <1>2, <1>3, RowsReshaped

LEMMA TagsOfManyReshape ==
  ASSUME NEW d, IsDb(d), NEW S, NEW t, NEW u, NEW now
  PROVE  /\ SameShape(d, RenameTag(d, t, u, now))
         /\ SameShape(d, DeleteTagEverywhere(d, t, now))
         /\ SameShape(d, BulkAddTag(d, S, t, now))
         /\ SameShape(d, BulkRemoveTag(d, S, t, now))
BY RetagReshapes, Zenon DEF RenameTag, DeleteTagEverywhere, BulkAddTag, BulkRemoveTag

LEMMA AutomationReshapes ==
  ASSUME NEW d, IsDb(d), NEW S, NEW now \in Nat, NEW t \in Tags
  PROVE  SameShape(d, Automate(d, S, t, now))
<1> DEFINE e == BulkAddTag(d, S, t, now)
           f == MarkLinksRead(e, S, now)
           row(l) == IF l \in S \cap Live(f) /\ ~ f.news[l].marked
                     THEN [f.news[l] EXCEPT !.marked = TRUE, !.markedAt = now]
                     ELSE f.news[l]
           rows == [l \in Stored(f) |-> row(l)]
<1>1. Automate(d, S, t, now) = [f EXCEPT !.news = rows]
  BY Zenon DEF Automate
<1>2. IsDb(e) /\ SameShape(d, e)
  BY TagsOfManyAreEdit, TagsOfManyReshape DEF Edited
<1> HIDE DEF e
<1>3. IsDb(f) /\ SameShape(e, f)
  BY <1>2, ReadAllIsEdit, ReadAllReshapes DEF Edited
<1> HIDE DEF f
<1>4. \A l \in Stored(f) : row(l).title = f.news[l].title /\ row(l).deleted = f.news[l].deleted
  BY <1>3, RowsOf DEF Row
<1> HIDE DEF row
<1>5. DOMAIN rows = Stored(f) /\ \A l \in Stored(f) : rows[l] = row(l)
  OBVIOUS
<1> HIDE DEF rows
<1>6. SameShape(f, [f EXCEPT !.news = rows])
  BY <1>3, <1>4, <1>5, RowsReshaped
<1> QED BY <1>1, <1>2, <1>3, <1>6, SameShapeAgain

\* A step that computes the groups of G afresh, and makes no other group wrong than
\* those that it may.
LEMMA ComputedKept ==
  ASSUME NEW d, NEW s, IsDb(s), NEW G,
         \A l \in Live(d) \cap Stored(s) : ~ s.news[l].deleted,
         Inexact(s) \subseteq G \cup Inexact(d) \cup Uncomputed(d, s)
  PROVE  FlagsKept(d, RecalcGroups(s, G))
<1> DEFINE e == RecalcGroups(s, G)
<1>1. e.news = s.news /\ DOMAIN e.member = DOMAIN s.member
  BY FlagsOfGroups
<1>2. /\ Live(e) = Live(s) /\ \A k, t : Group(e, k, t) = Group(s, k, t)
      /\ Inexact(e) \cap G = {}
      /\ \A p \in DOMAIN s.member :
           <<p[2], s.news[p[1]].title>> \notin G => e.member[p] = s.member[p]
  BY FreshFlags
<1> HIDE DEF e
<1>3. Stored(e) = Stored(s)
  BY <1>1 DEF Stored
<1>4. ASSUME NEW g \in Inexact(e) PROVE g \in Inexact(s)
  <2>1. g = <<g[1], g[2]>> /\ g \in Keys \X Titles /\ g \notin G
    BY <1>2, <1>4 DEF Inexact
  <2>2. PICK l \in Group(s, g[1], g[2]) :
          e.member[<<l, g[1]>>] # (Cardinality(Group(s, g[1], g[2])) > 1)
    BY <1>2, <1>4 DEF Inexact
  <2> DEFINE p == <<l, g[1]>>
  <2>3. p \in DOMAIN s.member /\ s.news[l].title = g[2] /\ p[1] = l /\ p[2] = g[1]
    BY <2>2 DEF Group
  <2>4. e.member[p] = s.member[p]
    BY <1>2, <2>1, <2>3
  <2>5. s.member[p] # (Cardinality(Group(s, g[1], g[2])) > 1)
    BY <2>2, <2>4, Zenon
  <2> QED BY <2>1, <2>2, <2>5 DEF Inexact
<1>5. \A S : Affected(e, S) = Affected(s, S)
  BY <1>1, <1>2 DEF Affected
<1>6. HiddenGroups(e) = HiddenGroups(s)
  BY <1>1, <1>2, <1>3 DEF HiddenGroups
<1>7. Restored(d, e) = Restored(d, s)
  BY <1>2 DEF Restored
<1>8. Retitled(d, e) = Retitled(d, s)
  BY <1>1, <1>2 DEF Retitled, Shared
<1>9. Uncomputed(d, e) = Uncomputed(d, s)
  BY <1>5, <1>6, <1>7, <1>8 DEF Uncomputed
<1>10. ~ \E l \in Live(d) \cap Stored(e) : e.news[l].deleted
  BY <1>1, <1>3
<1> QED BY <1>2, <1>4, <1>9, <1>10 DEF FlagsKept, e

\* A group that a step leaves as it was is right if it was.
LEMMA SameGroup ==
  ASSUME NEW d, NEW e, NEW g \in Inexact(e), Group(e, g[1], g[2]) = Group(d, g[1], g[2]),
         \A l \in Group(d, g[1], g[2]) : e.member[<<l, g[1]>>] = d.member[<<l, g[1]>>]
  PROVE  g \in Inexact(d)
BY DEF Inexact

LEMMA DeletionKept ==
  ASSUME NEW d, IsDb(d), NEW l \in Stored(d), NEW now \in Nat
  PROVE  FlagsKept(d, DeleteLink(d, l, now))
<1> DEFINE row == [d.news[l] EXCEPT !.deleted = TRUE, !.deletedAt = now]
           s == WithRow(d, l, row)
<1>1. CASE d.news[l].deleted
  BY <1>1, NothingDeleted DEF DeleteLink
<1>2. CASE ~ d.news[l].deleted
  <2>1. row \in Row /\ Rewritten(d.news[l], row, now)
    BY RowsOf DEF Row, Rewritten
  <2> HIDE DEF row
  <2>2. IsDb(s)
    BY <2>1, OneRowRewritten DEF Edited
  <2>3. DeleteLink(d, l, now) = RecalcAll(s)
    BY <1>2, Zenon DEF DeleteLink, row
  <2> HIDE DEF s
  <2>4. Inexact(RecalcAll(s)) = {}
    BY <2>2, AllFresh
  <2> QED BY <2>3, <2>4 DEF FlagsKept
<1> QED BY <1>1, <1>2

LEMMA RestoreKept ==
  ASSUME NEW d, IsDb(d), NEW l \in Stored(d), NEW now \in Nat
  PROVE  FlagsKept(d, RestoreDeletedLink(d, l, now))
<1> DEFINE row == [d.news[l] EXCEPT !.deleted = FALSE, !.deletedAt = now]
           s == WithRow(d, l, row)
<1>1. CASE ~ d.news[l].deleted
  BY <1>1, NothingDeleted DEF RestoreDeletedLink
<1>2. CASE d.news[l].deleted
  <2>1. /\ row \in Row /\ Rewritten(d.news[l], row, now)
        /\ row.title = d.news[l].title /\ row.deleted = FALSE
    BY RowsOf DEF Row, Rewritten
  <2>2. RestoreDeletedLink(d, l, now) = RecalcGroups(s, Affected(d, {l}))
    BY <1>2, Zenon DEF RestoreDeletedLink
  <2> HIDE DEF row
  <2>3. IsDb(s) /\ Stored(s) = Stored(d)
    <3>1. IsDb(s)
      BY <2>1, OneRowRewritten DEF Edited
    <3>2. Stored(s) = Stored(d)
      BY DEF WithRow, Stored, IsDb
    <3> QED BY <3>1, <3>2
  <2>4. /\ s.member = d.member
        /\ \A k \in Stored(d) : s.news[k] = IF k = l THEN row ELSE d.news[k]
    BY DEF WithRow, IsDb, Stored
  <2> HIDE DEF s
  <2>5. Live(s) = Live(d) \cup {l} /\ l \notin Live(d)
    BY <1>2, <2>1, <2>3, <2>4 DEF Live
  <2>6. \A k \in Live(d) \cap Stored(s) : ~ s.news[k].deleted
    BY <2>3, <2>4, <2>5 DEF Live
  <2>7. ASSUME NEW g \in Inexact(s) PROVE g \in Inexact(d) \cup Uncomputed(d, s)
    <3>1. g = <<g[1], g[2]>>
      BY <2>7 DEF Inexact
    <3>2. CASE <<l, g[1]>> \in DOMAIN d.member /\ row.title = g[2]
      <4>1. l \in Restored(d, s) \cap Live(s)
        BY <1>2, <2>5 DEF Restored
      <4> DEFINE p == <<l, g[1]>>
      <4>2. p \in DOMAIN s.member /\ p[1] = l /\ p[2] = g[1] /\ s.news[l].title = g[2]
        BY <2>4, <3>2
      <4> HIDE DEF p
      <4>3. g \in Affected(s, Restored(d, s))
        BY <3>1, <4>1, <4>2 DEF Affected
      <4> QED BY <4>3 DEF Uncomputed
    <3>3. CASE ~ (<<l, g[1]>> \in DOMAIN d.member /\ row.title = g[2])
      <4>1. Group(s, g[1], g[2]) = Group(d, g[1], g[2])
        BY <2>3, <2>4, <2>5, <3>3 DEF Group, Live
      <4> QED BY <4>1, <2>4, SameGroup
    <3> QED BY <3>2, <3>3
  <2> QED BY <2>2, <2>3, <2>6, <2>7, ComputedKept
<1> QED BY <1>1, <1>2

\* The groups that lose an article for good are computed afresh.
LEMMA PurgeKept ==
  ASSUME NEW d, IsDb(d), NEW S
  PROVE  FlagsKept(d, Purge(d, S))
<1> DEFINE kept == Stored(d) \ S
           s == [news   |-> [l \in kept |-> d.news[l]],
                 member |-> [p \in {q \in DOMAIN d.member : q[1] \in kept} |-> d.member[p]]]
<1>1. Purge(d, S) = RecalcGroups(s, Affected(d, S))
  BY Zenon DEF Purge
<1>2. IsDb(s)
  BY DEF IsDb, HasRows, HasFlags, Stored
<1>3. /\ Stored(s) = kept /\ \A l \in kept : s.news[l] = d.news[l]
      /\ DOMAIN s.member = {q \in DOMAIN d.member : q[1] \in kept}
      /\ \A p \in DOMAIN s.member : s.member[p] = d.member[p]
  BY DEF Stored
<1> HIDE DEF s
<1>4. Live(s) = Live(d) \ S
  BY <1>3 DEF Live
<1>5. \A l \in Live(d) \cap Stored(s) : ~ s.news[l].deleted
  BY <1>3 DEF Live
<1>6. ASSUME NEW g \in Inexact(s), g \notin Affected(d, S) PROVE g \in Inexact(d)
  <2>1. g = <<g[1], g[2]>>
    BY <1>6 DEF Inexact
  <2>2. ASSUME NEW l \in Group(d, g[1], g[2]) PROVE l \notin S
    <3> DEFINE p == <<l, g[1]>>
    <3>1. l \in Live(d) /\ p \in DOMAIN d.member /\ p[1] = l /\ p[2] = g[1] /\ d.news[l].title = g[2]
      BY <2>2 DEF Group
    <3> HIDE DEF p
    <3> QED BY <2>1, <3>1, <1>6 DEF Affected
  <2>3. Group(s, g[1], g[2]) \subseteq Group(d, g[1], g[2])
    BY <1>3, <1>4 DEF Group, Live
  <2>4. ASSUME NEW l \in Group(d, g[1], g[2])
        PROVE  l \in Group(s, g[1], g[2]) /\ s.member[<<l, g[1]>>] = d.member[<<l, g[1]>>]
    <3> DEFINE p == <<l, g[1]>>
    <3>1. l \in Live(d) /\ l \notin S /\ p \in DOMAIN d.member /\ p[1] = l /\ d.news[l].title = g[2]
      BY <2>2, <2>4 DEF Group
    <3>2. l \in kept
      BY <3>1 DEF Live
    <3>3. p \in DOMAIN s.member
      BY <1>3, <3>1, <3>2
    <3> QED BY <1>3, <1>4, <3>1, <3>2, <3>3 DEF Group
  <2>5. Group(s, g[1], g[2]) = Group(d, g[1], g[2])
    BY <2>3, <2>4
  <2> QED BY <2>4, <2>5, <1>6, SameGroup
<1> QED BY <1>1, <1>2, <1>5, <1>6, ComputedKept

LEMMA MergeKept ==
  ASSUME NEW d, IsDb(d), NEW s, IsDb(s), \A l \in Stored(s) : Virgin(s.news[l])
  PROVE  FlagsKept(d, Merge(d, s))
<1>1. PICK e : IsDb(e) /\ Merge(d, s) = RecalcAll(e)
  BY MergedRows
<1>2. Inexact(Merge(d, s)) = {}
  BY <1>1, AllFresh
<1> QED BY <1>2 DEF FlagsKept

\* A page leaves wrong flags in its own scope only beside a hidden article: the article
\* that is fetched again counts as a twin of the ones after it.
LEMMA OwnScopeKept ==
  ASSUME NEW d, IsDb(d), NEW k \in Keys, NEW items \in Pages,
         NEW g \in Inexact(PageStore(d, k, items)), g[1] = k, g[2] \notin Touched(d, k, items)
  PROVE  g \in Inexact(d) \cup HiddenGroups(PageStore(d, k, items))
<1> DEFINE s == PageStore(d, k, items)
           t == g[2]
           group == Group(d, k, t)
           item(l) == items[Place(items, l)]
<1>1. /\ IsDb(s) /\ Stored(s) = Stored(d) \cup Incoming(items)
      /\ DOMAIN s.member = DOMAIN d.member \cup Incoming(items) \X {k}
      /\ \A l \in Stored(s) : s.news[l] = PageRow(d, items, l)
      /\ \A p \in DOMAIN s.member : s.member[p] = FlagOf(d, k, items, p)
  BY PageRows DEF Edited
<1>2. \A l \in Incoming(items) : Place(items, l) \in DOMAIN items /\ item(l).link = l
  BY PagePlaces
<1> HIDE DEF s
<1>3. \A l \in Stored(s) \ Incoming(items) : s.news[l] = d.news[l]
  BY <1>1 DEF PageRow
<1>4. ASSUME NEW l \in Incoming(items)
      PROVE  /\ s.news[l].title = item(l).title
             /\ s.news[l].deleted = IF l \in Stored(d) THEN d.news[l].deleted ELSE FALSE
  <2>1. s.news[l] = PageRow(d, items, l)
    BY <1>1
  <2>2. CASE l \in Stored(d)
    <3>1. s.news[l] = [d.news[l] EXCEPT !.title = item(l).title] /\ d.news[l] \in Row
      BY <2>1, <2>2, RowsOf DEF PageRow
    <3> HIDE DEF item
    <3> QED BY <2>2, <3>1 DEF Row
  <2>3. CASE l \notin Stored(d)
    <3>1. s.news[l] = Fresh(item(l).title)
      BY <2>1, <2>3 DEF PageRow
    <3> HIDE DEF item
    <3> QED BY <2>3, <3>1 DEF Fresh
  <2> QED BY <2>2, <2>3
<1>5. ASSUME NEW l \in Incoming(items),
             item(l).title = t \/ (<<l, k>> \in DOMAIN d.member /\ d.news[l].title = t)
      PROVE  <<l, k>> \in DOMAIN d.member /\ d.news[l].title = t /\ item(l).title = t
  <2> DEFINE i == Place(items, l)
  <2>1. i \in DOMAIN items /\ items[i].link = l
    BY <1>2
  <2> HIDE DEF i
  <2>2. item(l) = items[i]
    BY DEF i
  <2>3. ~ IsMember(d, k, items[i]) => items[i].title # t
    BY <2>1 DEF Touched
  <2>4. Moved(d, k, items[i]) => items[i].title # t /\ d.news[l].title # t
    BY <2>1 DEF Touched
  <2> QED BY <1>5, <2>1, <2>2, <2>3, <2>4 DEF Moved, IsMember
<1>6. \A l \in Incoming(items) : <<l, k>> \in DOMAIN d.member => l \in Stored(d)
  BY DEF IsDb, HasFlags
<1>7. Live(s) \cap Stored(d) = Live(d)
  BY <1>1, <1>3, <1>4 DEF Live
<1> HIDE DEF item
<1>8. Group(s, k, t) = group
  <2>1. ASSUME NEW l \in Group(s, k, t) PROVE l \in group
    <3>1. l \in Live(s) /\ <<l, k>> \in DOMAIN s.member /\ s.news[l].title = t
      BY <2>1 DEF Group
    <3>2. l \in Incoming(items) => <<l, k>> \in DOMAIN d.member /\ d.news[l].title = t /\ l \in Stored(d)
      BY <3>1, <1>4, <1>5, <1>6
    <3>3. l \notin Incoming(items) => <<l, k>> \in DOMAIN d.member /\ l \in Stored(d)
      BY <3>1, <1>1 DEF Live
    <3> QED BY <1>3, <1>7, <3>1, <3>2, <3>3 DEF Group, Live
  <2>2. ASSUME NEW l \in group PROVE l \in Group(s, k, t)
    <3>1. l \in Live(d) /\ <<l, k>> \in DOMAIN d.member /\ d.news[l].title = t
      BY <2>2 DEF Group
    <3>2. l \in Live(s) /\ l \in Stored(s) /\ <<l, k>> \in DOMAIN s.member
      BY <3>1, <1>1, <1>7 DEF Live
    <3>3. s.news[l].title = t
      BY <3>1, <3>2, <1>3, <1>4, <1>5
    <3> QED BY <3>2, <3>3 DEF Group
  <2> QED BY <2>1, <2>2
<1>9. g = <<k, t>> /\ t \in Titles
  BY DEF Inexact
<1>10. PICK l \in Group(s, k, t) : s.member[<<l, k>>] # (Cardinality(Group(s, k, t)) > 1)
  BY DEF Inexact, s
<1>11. l \in group /\ <<l, k>> \in DOMAIN s.member /\ <<l, k>> \in DOMAIN d.member
  BY <1>8, <1>10 DEF Group
<1>12. s.member[<<l, k>>] # (Cardinality(group) > 1)
  BY <1>8, <1>10, Zenon
<1>13. CASE l \notin Incoming(items)
  <2>1. s.member[<<l, k>>] = d.member[<<l, k>>]
    BY <1>1, <1>11, <1>13 DEF FlagOf
  <2>2. d.member[<<l, k>>] # (Cardinality(group) > 1)
    BY <1>12, <2>1, Zenon
  <2> QED BY <1>9, <1>11, <2>2 DEF Inexact
<1>14. CASE l \in Incoming(items)
  <2> DEFINE i == Place(items, l)
  <2>1. i \in DOMAIN items /\ items[i].link = l /\ items[i].title = t
    BY <1>2, <1>5, <1>11, <1>14 DEF item, Group
  <2>2. s.member[<<l, k>>] = PageFlag(d, k, items, i)
    <3> DEFINE p == <<l, k>>
    <3>1. p[1] = l /\ p[2] = k /\ p \in DOMAIN s.member
      BY <1>11
    <3> HIDE DEF p
    <3>2. s.member[p] = FlagOf(d, k, items, p)
      BY <1>1, <3>1
    <3> QED BY <1>14, <3>1, <3>2, Zenon DEF FlagOf, p
  <2> HIDE DEF i
  <2>3. PageFlag(d, k, items, i) = ((group \cup Earlier(items, i)) \ {l} # {})
    BY <2>1 DEF PageFlag
  <2>4. IsFiniteSet(group)
    BY DbIsFinite, FS_Subset DEF Group, Live
  <2>5. CASE Earlier(items, i) \subseteq group
    <3>1. (group \cup Earlier(items, i)) \ {l} = group \ {l}
      BY <2>5
    <3> HIDE DEF group
    <3>2. (Cardinality(group) > 1) <=> group \ {l} # {}
      BY <1>11, <2>4, AnotherOne
    <3> QED BY <1>12, <2>2, <2>3, <3>1, <3>2
  <2>6. ASSUME NEW x \in Earlier(items, i), x \notin group PROVE g \in HiddenGroups(s)
    <3>1. PICK j \in DOMAIN items : items[j].title = t /\ x = items[j].link
      BY <2>1, <2>6 DEF Earlier
    <3>2. x \in Incoming(items) /\ item(x).title = t
      BY <3>1, PagePlaces DEF item
    <3>3. <<x, k>> \in DOMAIN d.member /\ d.news[x].title = t /\ x \in Stored(d)
      BY <3>2, <1>5, <1>6
    <3>4. x \notin Live(s) /\ x \in Stored(s)
      BY <1>1, <1>7, <2>6, <3>3 DEF Group
    <3>5. s.news[x].title = t
      BY <1>4, <3>2
    <3> QED BY <1>9, <3>4, <3>5 DEF HiddenGroups
  <2> QED BY <2>5, <2>6 DEF s
<1> QED BY <1>13, <1>14

\* In another scope a page changes nothing but titles.
LEMMA OtherScopesKept ==
  ASSUME NEW d, IsDb(d), NEW k \in Keys, NEW items \in Pages,
         NEW g \in Inexact(PageStore(d, k, items)), g[1] # k
  PROVE  g \in Inexact(d) \cup Uncomputed(d, PageStore(d, k, items))
<1> DEFINE s == PageStore(d, k, items)
           j == g[1]
           t == g[2]
           both(l) == l \in Live(d) /\ <<l, j>> \in DOMAIN d.member /\ d.news[l].title # s.news[l].title
<1>1. /\ IsDb(s) /\ Stored(s) = Stored(d) \cup Incoming(items)
      /\ DOMAIN s.member = DOMAIN d.member \cup Incoming(items) \X {k}
      /\ \A l \in Stored(s) : s.news[l] = PageRow(d, items, l)
      /\ \A p \in DOMAIN s.member : s.member[p] = FlagOf(d, k, items, p)
  BY PageRows DEF Edited
<1>2. g = <<j, t>> /\ j \in Keys /\ t \in Titles
  BY DEF Inexact
<1> HIDE DEF s
<1>3. \A l \in Stored(s) \ Incoming(items) : s.news[l] = d.news[l]
  BY <1>1 DEF PageRow
<1>4. \A l \in Stored(d) : s.news[l].deleted = d.news[l].deleted
  <2>1. ASSUME NEW l \in Stored(d), l \in Incoming(items)
        PROVE  s.news[l].deleted = d.news[l].deleted
    <3> DEFINE title == items[Place(items, l)].title
    <3>1. s.news[l] = [d.news[l] EXCEPT !.title = title] /\ d.news[l] \in Row
      BY <1>1, <2>1, RowsOf DEF PageRow
    <3> HIDE DEF title
    <3> QED BY <3>1 DEF Row
  <2> QED BY <1>1, <1>3, <2>1
<1>5. Live(s) \cap Stored(d) = Live(d)
  BY <1>1, <1>4 DEF Live
<1>6. \A l : <<l, j>> \in DOMAIN s.member <=> <<l, j>> \in DOMAIN d.member
  BY <1>1
<1>7. \A l : <<l, j>> \in DOMAIN d.member => l \in Stored(d)
  BY DEF IsDb, HasFlags
<1>8. CASE \E l : both(l) /\ (d.news[l].title = t \/ s.news[l].title = t)
  <2>1. PICK l : both(l) /\ (d.news[l].title = t \/ s.news[l].title = t)
    BY <1>8
  <2>2. l \in Live(s) /\ l \in Stored(s) /\ l \in Stored(d) /\ l \in Incoming(items)
    BY <2>1, <1>1, <1>3, <1>5 DEF Live
  <2>3. <<l, k>> \in DOMAIN s.member /\ <<l, j>> \in DOMAIN s.member
    BY <2>1, <2>2, <1>1, <1>6
  <2>4. Shared(s, l)
    BY <2>3, <1>2 DEF Shared
  <2>5. l \in Retitled(d, s)
    BY <2>1, <2>2, <2>4 DEF Retitled
  <2> DEFINE p == <<l, j>>
  <2>6. p[1] = l /\ p[2] = j /\ p \in DOMAIN d.member /\ p \in DOMAIN s.member
    BY <2>1, <2>3
  <2> HIDE DEF p, both
  <2>7. CASE d.news[l].title = t
    BY <2>1, <2>5, <2>6, <2>7, <1>2 DEF both, Affected, Uncomputed, s
  <2>8. CASE s.news[l].title = t
    BY <2>2, <2>5, <2>6, <2>8, <1>2 DEF Affected, Uncomputed, s
  <2> QED BY <2>1, <2>7, <2>8
<1>9. CASE ~ \E l : both(l) /\ (d.news[l].title = t \/ s.news[l].title = t)
  <2>1. Group(s, j, t) = Group(d, j, t)
    <3>1. ASSUME NEW l PROVE l \in Group(s, j, t) <=> l \in Group(d, j, t)
      <4>1. l \in Live(s) /\ <<l, j>> \in DOMAIN s.member <=> l \in Live(d) /\ <<l, j>> \in DOMAIN d.member
        BY <1>5, <1>6, <1>7
      <4>2. l \in Live(d) /\ <<l, j>> \in DOMAIN d.member =>
              (d.news[l].title = t <=> s.news[l].title = t)
        BY <1>9
      <4> QED BY <4>1, <4>2 DEF Group
    <3> QED BY <3>1
  <2>2. ASSUME NEW l \in Group(d, j, t) PROVE s.member[<<l, j>>] = d.member[<<l, j>>]
    <3> DEFINE p == <<l, j>>
    <3>1. p \in DOMAIN s.member /\ p[2] = j
      BY <2>2, <1>6 DEF Group
    <3> HIDE DEF p
    <3> QED BY <1>1, <3>1 DEF FlagOf, p
  <2>3. g \in Inexact(s)
    BY DEF s
  <2> QED BY <2>1, <2>2, <2>3, SameGroup
<1> QED BY <1>8, <1>9

LEMMA PageKept ==
  ASSUME NEW d, IsDb(d), NEW k \in Keys, NEW items \in Pages
  PROVE  FlagsKept(d, Upsert(d, k, items))
<1> DEFINE s == PageStore(d, k, items)
           G == {k} \X Touched(d, k, items)
<1>1. Upsert(d, k, items) = RecalcGroups(s, G)
  BY PageIs
<1>2. /\ IsDb(s) /\ \A l \in Stored(s) : s.news[l] = PageRow(d, items, l)
  BY PageRows DEF Edited
<1>3. ASSUME NEW l \in Live(d) \cap Stored(s) PROVE ~ s.news[l].deleted
  <2> DEFINE title == items[Place(items, l)].title
  <2>1. d.news[l] \in Row /\ l \in Stored(d) /\ ~ d.news[l].deleted
    BY <1>3, RowsOf DEF Live
  <2>2. s.news[l] = d.news[l] \/ s.news[l] = [d.news[l] EXCEPT !.title = title]
    BY <1>2, <2>1 DEF PageRow
  <2> HIDE DEF title, s
  <2> QED BY <2>1, <2>2 DEF Row
<1>4. ASSUME NEW g \in Inexact(s), g \notin G PROVE g \in Inexact(d) \cup Uncomputed(d, s)
  <2>1. g = <<g[1], g[2]>>
    BY <1>4 DEF Inexact
  <2>2. CASE g[1] = k
    BY <1>4, <2>1, <2>2, OwnScopeKept DEF Uncomputed
  <2>3. CASE g[1] # k
    BY <1>4, <2>3, OtherScopesKept
  <2> QED BY <2>2, <2>3
<1> HIDE DEF s, G
<1> QED BY <1>1, <1>2, <1>3, <1>4, ComputedKept

\* Every edit of the user keeps the flags.
LEMMA EditsKeepFlags ==
  ASSUME CloudTyped, NEW m \in Machines, Fetch(m) \/ EditArticle(m) \/ EditMany(m)
  PROVE  \E e : db' = [db EXCEPT ![m] = e] /\ FlagsKept(db[m], e)
<1> DEFINE d == db[m]
           Done == \E e : db' = [db EXCEPT ![m] = e] /\ FlagsKept(d, e)
<1>1. IsDb(d) /\ left \in Plan /\ left.tags \subseteq Tags /\ left.pages \subseteq Pages
  BY DEF CloudTyped, Databases, Plan
<1>2. ASSUME NEW now \in Now(m) PROVE now \in Nat
  BY <1>2, NowIsNew
<1> SUFFICES Done
  OBVIOUS
<1>3. CASE Fetch(m)
  <2>1. PICK k \in Keys, items \in left.pages, t \in left.tags, now \in Now(m), rules \in BOOLEAN :
          LET u == Upsert(d, k, items)
          IN Commit(m, IF rules THEN Automate(u, NewLinks(d, k, items), t, now) ELSE u, now)
    BY <1>3, Zenon DEF Fetch
  <2> DEFINE u == Upsert(d, k, items)
             f == Automate(u, NewLinks(d, k, items), t, now)
  <2>2. FlagsKept(d, u) /\ IsDb(u)
    BY <1>1, <1>2, PageKept, PageIsEdit DEF Edited
  <2>3. Commit(m, IF rules THEN f ELSE u, now)
    BY <2>1
  <2> HIDE DEF u
  <2>4. FlagsKept(d, f)
    <3>1. SameShape(u, f)
      BY <2>2, <1>1, <1>2, AutomationReshapes
    <3> HIDE DEF f
    <3> QED BY <2>2, <3>1, KeptAgain
  <2> HIDE DEF f
  <2> QED BY <2>2, <2>3, <2>4 DEF Commit
<1>4. CASE EditArticle(m)
  <2>1. PICK l \in Stored(d), now \in Now(m) :
          \/ \E v \in BOOLEAN : Commit(m, SetRead(d, l, v, now), now)
          \/ \E v \in BOOLEAN : Commit(m, SetMarked(d, l, v, now), now)
          \/ \E v \in BOOLEAN : Commit(m, SetNoted(d, l, v, now), now)
          \/ \E T \in SUBSET left.tags : Commit(m, SetTags(d, l, T, now), now)
          \/ Commit(m, DeleteLink(d, l, now), now)
          \/ Commit(m, RestoreDeletedLink(d, l, now), now)
          \/ \E v, w \in BOOLEAN : Commit(m, ImportState(d, l, v, w, now), now)
    BY <1>4, Zenon DEF EditArticle
  <2> HIDE DEF d
  <2>2. \A e : FlagsKept(d, e) /\ Commit(m, e, now) => Done
    BY Zenon DEF Commit, d
  <2> HIDE DEF Done
  <2>3. \A v \in BOOLEAN : /\ FlagsKept(d, SetRead(d, l, v, now))
                           /\ FlagsKept(d, SetMarked(d, l, v, now))
                           /\ FlagsKept(d, SetNoted(d, l, v, now))
                           /\ \A T : FlagsKept(d, SetTags(d, l, T, now))
                           /\ \A w \in BOOLEAN : FlagsKept(d, ImportState(d, l, v, w, now))
    BY <1>1, <1>2, StatesReshape, ImportReshapes, SameShapeKept
  <2>4. FlagsKept(d, DeleteLink(d, l, now)) /\ FlagsKept(d, RestoreDeletedLink(d, l, now))
    BY <1>1, <1>2, DeletionKept, RestoreKept
  <2> QED BY <2>1, <2>2, <2>3, <2>4, Zenon
<1>5. CASE EditMany(m)
  <2>1. PICK now \in Now(m), t \in left.tags :
          \/ \E u \in left.tags : Commit(m, RenameTag(d, t, u, now), now)
          \/ Commit(m, DeleteTagEverywhere(d, t, now), now)
          \/ \E S \in SUBSET Stored(d) : Commit(m, BulkAddTag(d, S, t, now), now)
          \/ \E S \in SUBSET Stored(d) : Commit(m, BulkRemoveTag(d, S, t, now), now)
          \/ \E sc \in Scopes : Commit(m, MarkLinksRead(d, MarkScope(d, sc), now), now)
    BY <1>5, Zenon DEF EditMany
  <2> HIDE DEF d
  <2>2. \A e : FlagsKept(d, e) /\ Commit(m, e, now) => Done
    BY Zenon DEF Commit, d
  <2> HIDE DEF Done
  <2>3. /\ \A u : FlagsKept(d, RenameTag(d, t, u, now))
        /\ FlagsKept(d, DeleteTagEverywhere(d, t, now))
        /\ \A S : FlagsKept(d, BulkAddTag(d, S, t, now)) /\ FlagsKept(d, BulkRemoveTag(d, S, t, now))
        /\ \A S : FlagsKept(d, MarkLinksRead(d, S, now))
    BY <1>1, TagsOfManyReshape, ReadAllReshapes, SameShapeKept
  <2> QED BY <2>1, <2>2, <2>3, Zenon
<1> QED BY <1>3, <1>4, <1>5

\* What a step may do to the flags of the machines.
FlagsStep ==
  \A m \in Machines :
    \/ job[m].at = "merging" /\ job[m].late /\ db'[m] = job[m].copy.db
    \/ FlagsKept(db[m], db'[m])

LEMMA NoFlagMoves ==
  ASSUME db' = db
  PROVE  FlagsStep
BY NothingDeleted DEF FlagsStep

LEMMA OneKept ==
  ASSUME NEW m \in Machines, db = [n \in Machines |-> db[n]], NEW e, db' = [db EXCEPT ![m] = e],
         \/ job[m].at = "merging" /\ job[m].late /\ e = job[m].copy.db
         \/ FlagsKept(db[m], e)
  PROVE  FlagsStep
<1>1. db'[m] = e /\ \A n \in Machines \ {m} : db'[n] = db[n]
  OBVIOUS
<1> QED BY <1>1, NothingDeleted DEF FlagsStep

LEMMA StepKeepsFlags ==
  ASSUME CloudInv, CloudNext
  PROVE  FlagsStep
<1>1. CloudTyped /\ Written /\ CopyIsFresh /\ db = [n \in Machines |-> db[n]]
  BY DEF CloudInv, CloudTyped
<1>2. CASE EmptyPen
  BY <1>2, NoFlagMoves DEF EmptyPen
<1>3. CASE \E m \in Machines : CloudStep(m)
  <2>1. PICK m \in Machines : CloudStep(m)
    BY <1>3
  <2>2. IsDb(db[m])
    BY <1>1 DEF CloudTyped, Databases
  <2>3. CASE Fetch(m) \/ EditArticle(m) \/ EditMany(m)
    <3>1. PICK e : db' = [db EXCEPT ![m] = e] /\ FlagsKept(db[m], e)
      BY <1>1, <2>3, EditsKeepFlags
    <3> QED BY <1>1, <3>1, OneKept
  <2>4. CASE DropBatch(m)
    <3> DEFINE e == Purge(db[m], job[m].batch)
    <3>1. db' = [db EXCEPT ![m] = e]
      BY <2>4 DEF DropBatch
    <3>2. FlagsKept(db[m], e)
      BY <2>2, PurgeKept
    <3> HIDE DEF e
    <3> QED BY <1>1, <3>1, <3>2, OneKept
  <2>5. CASE MergeCommit(m)
    <3> DEFINE s == job[m].staged.db
               e == Merge(db[m], s)
    <3>1. db' = [db EXCEPT ![m] = e] /\ m \in Merging
      BY <2>5 DEF MergeCommit, Merging
    <3>2. IsDb(s) /\ \A l \in Stored(s) : Virgin(s.news[l])
      <4>1. s \in Databases
        BY <3>1, AreDatabases
      <4> QED BY <4>1, <1>1 DEF CloudTyped, Written
    <3> HIDE DEF s
    <3>3. FlagsKept(db[m], e)
      BY <2>2, <3>2, MergeKept
    <3> HIDE DEF e
    <3> QED BY <1>1, <3>1, <3>3, OneKept
  <2>6. CASE MergeFail(m)
    <3>1. db' = [db EXCEPT ![m] = job[m].copy.db] /\ job[m].at = "merging"
      BY <2>6 DEF MergeFail
    <3>2. ~ job[m].late => job[m].copy.db = db[m]
      BY <1>1, <3>1 DEF CopyIsFresh
    <3>3. job[m].late \/ FlagsKept(db[m], job[m].copy.db)
      BY <3>2, NothingDeleted
    <3> QED BY <1>1, <3>1, <3>3, OneKept
  <2>7. CASE \/ StartPruning(m) \/ PickBatch(m) \/ StopPruning(m)
             \/ Select(m) \/ SkipImport(m) \/ RejectImport(m) \/ StartImport(m)
             \/ FinishImport(m) \/ StartExport(m) \/ Export(m) \/ MarkExported(m) \/ Crash(m)
    <3>1. db' = db
      BY <2>7 DEF StartPruning, PickBatch, StopPruning, Select, SkipImport, RejectImport,
                  StartImport, FinishImport, StartExport, Export, MarkExported, Crash
    <3> QED BY <3>1, NoFlagMoves
  <2> QED BY <2>1, <2>3, <2>4, <2>5, <2>6, <2>7 DEF CloudStep
<1> QED BY <1>2, <1>3 DEF CloudNext

\* The duplicate flags of a database are those of a full computation, but for the
\* groups where the code computes nothing: those of a restored article, of a title that
\* changed through another scope, and those with a hidden member.  A step that deletes
\* an article leaves no flag wrong.  Only the fallback of a failed merge is excepted.
THEOREM FlagsGoWrongOnlyThere == CloudSpec => FlagsStayExact
<1>1. CloudInv /\ [CloudNext]_cloudVars => [FlagsStep]_cloudVars
  BY StepKeepsFlags
<1> DEFINE Step == \A m \in Machines :
       \/ job[m].at = "merging" /\ job[m].late /\ db'[m] = job[m].copy.db
       \/ FlagsKept(db[m], db'[m])
<1>2. FlagsStep <=> Step
  BY DEF FlagsStep
<1>3. CloudInv /\ [CloudNext]_cloudVars => [Step]_cloudVars
  BY <1>1, <1>2
<1> QED BY <1>3, CloudInvInvariant, PTL DEF CloudSpec, FlagsStayExact

-----------------------------------------------------------------------------
(* Types                                                                   *)

\* The lists of seen snapshots keep to their length, and no snapshot is in the folder
\* and in quarantine.
Bounded ==
  \A m \in Machines :
    /\ Len(seen[m]) <= MaxSeen
    /\ job[m].at = "merging" => Len(job[m].copy.seen) <= MaxSeen
Apart == folder \cap pen = {}

\* A step that moves machine m to job j and its list to one that is still short enough.
LEMMA BoundedStep ==
  ASSUME Bounded, NEW m \in Machines, NEW j, NEW list,
         job = [n \in Machines |-> job[n]], seen = [n \in Machines |-> seen[n]],
         job' = [job EXCEPT ![m] = j], seen' = [seen EXCEPT ![m] = list],
         Len(list) <= MaxSeen, j.at = "merging" => Len(j.copy.seen) <= MaxSeen
  PROVE  Bounded'
<1>1. /\ job'[m] = j /\ seen'[m] = list
      /\ \A n \in Machines \ {m} : job'[n] = job[n] /\ seen'[n] = seen[n]
  OBVIOUS
<1> QED BY <1>1 DEF Bounded

LEMMA SeenStaysShort ==
  ASSUME CloudInv, Bounded, NEW m \in Machines, CloudStep(m)
  PROVE  Bounded'
<1>1. /\ CloudTyped /\ Numbered /\ job = [n \in Machines |-> job[n]]
      /\ seen = [n \in Machines |-> seen[n]]
  BY DEF CloudInv, CloudTyped
<1>2. seen[m] \in Seq(1..made) /\ Len(seen[m]) <= MaxSeen
  BY <1>1 DEF Numbered, Bounded
<1>3. ASSUME NEW id \in 1..made PROVE Len(SeenFront(id, seen[m])) <= MaxSeen
  BY <1>2, SeenFrontList
<1>4. CASE MergeCommit(m)
  <2>1. job[m].staged.id \in 1..made
    BY <1>1, <1>4 DEF MergeCommit, Numbered
  <2> DEFINE list == SeenFront(job[m].staged.id, seen[m])
             j == AfterMerge(m)
  <2>2. Len(list) <= MaxSeen
    BY <1>3, <2>1
  <2>3. job' = [job EXCEPT ![m] = j] /\ seen' = [seen EXCEPT ![m] = list]
    BY <1>4 DEF MergeCommit
  <2>4. j.at = "importing"
    BY DEF AfterMerge, Idle
  <2> HIDE DEF list, j
  <2> QED BY <1>1, <2>2, <2>3, <2>4, BoundedStep
<1>5. CASE MergeFail(m)
  <2> DEFINE list == job[m].copy.seen
             j == AfterMerge(m)
  <2>1. Len(list) <= MaxSeen
    BY <1>5 DEF MergeFail, Bounded
  <2>2. job' = [job EXCEPT ![m] = j] /\ seen' = [seen EXCEPT ![m] = list]
    BY <1>5 DEF MergeFail
  <2>3. j.at = "importing"
    BY DEF AfterMerge, Idle
  <2> HIDE DEF list, j
  <2> QED BY <1>1, <2>1, <2>2, <2>3, BoundedStep
<1>6. CASE StartImport(m) /\ NextFile(m).by # m
  <2> DEFINE j == [at |-> "merging", mode |-> job[m].mode, todo |-> job[m].todo, late |-> FALSE,
                   staged |-> NextFile(m), copy |-> [db |-> db[m], seen |-> seen[m]]]
  <2>1. job' = [job EXCEPT ![m] = j] /\ seen' = [seen EXCEPT ![m] = seen[m]]
    BY <1>1, <1>6 DEF StartImport
  <2>2. j.copy.seen = seen[m]
    OBVIOUS
  <2> HIDE DEF j
  <2> QED BY <1>1, <1>2, <2>1, <2>2, BoundedStep
<1>7. CASE Export(m)
  <2> DEFINE j == [at |-> "published", own |-> made + 1, late |-> FALSE]
  <2>1. job' = [job EXCEPT ![m] = j] /\ seen' = [seen EXCEPT ![m] = seen[m]]
    BY <1>1, <1>7 DEF Export
  <2>2. j.at = "published"
    OBVIOUS
  <2> HIDE DEF j
  <2> QED BY <1>1, <1>2, <2>1, <2>2, BoundedStep
<1>8. CASE DropBatch(m)
  <2> DEFINE j == [job[m] EXCEPT !.batch = {}]
  <2>1. job' = [job EXCEPT ![m] = j] /\ seen' = [seen EXCEPT ![m] = seen[m]]
    BY <1>1, <1>8 DEF DropBatch
  <2>2. j.at = "pruning"
    BY <1>8 DEF DropBatch
  <2> HIDE DEF j
  <2> QED BY <1>1, <1>2, <2>1, <2>2, BoundedStep
<1>9. CASE Fetch(m) \/ EditArticle(m) \/ EditMany(m)
  <2>1. PICK e, now : Writes(m, e, now)
    BY <1>1, <1>9, EditsWrite
  <2> DEFINE late == job[m].late \/ job[m].at \in {"merging", "pruning"}
             j == [job[m] EXCEPT !.late = late]
  <2>2. job' = [job EXCEPT ![m] = j] /\ seen' = [seen EXCEPT ![m] = seen[m]]
    BY <1>1, <2>1 DEF Writes, Commit
  <2> HIDE DEF late
  <2>3. IsJob(job[m])
    BY <1>1 DEF CloudTyped
  <2>4. j.at = job[m].at /\ (j.at = "merging" => j.copy = job[m].copy)
    BY <2>3 DEF IsJob
  <2> HIDE DEF j
  <2>5. j.at = "merging" => Len(j.copy.seen) <= MaxSeen
    BY <2>4 DEF Bounded
  <2> QED BY <1>1, <1>2, <2>2, <2>5, BoundedStep
<1>10. CASE \/ StartPruning(m) \/ PickBatch(m) \/ StopPruning(m)
            \/ Select(m) \/ SkipImport(m) \/ RejectImport(m)
            \/ StartImport(m) /\ NextFile(m).by = m
            \/ FinishImport(m) \/ StartExport(m) \/ MarkExported(m) \/ Crash(m)
  <2>1. PICK j : Quiet(m, j)
    BY <1>1, <1>10, QuietSteps
  <2>2. job' = [job EXCEPT ![m] = j] /\ j.at # "merging"
    BY <2>1 DEF Quiet
  <2>3. CASE seen' = seen
    <3>1. seen' = [seen EXCEPT ![m] = seen[m]]
      BY <1>1, <2>3
    <3> QED BY <1>1, <1>2, <2>2, <3>1, BoundedStep
  <2>4. CASE \E id \in 1..made : seen' = [seen EXCEPT ![m] = SeenFront(id, @)]
    <3>1. PICK id \in 1..made : seen' = [seen EXCEPT ![m] = SeenFront(id, seen[m])]
      BY <2>4
    <3> DEFINE list == SeenFront(id, seen[m])
    <3>2. Len(list) <= MaxSeen /\ seen' = [seen EXCEPT ![m] = list]
      BY <1>3, <3>1
    <3> HIDE DEF list
    <3> QED BY <1>1, <2>2, <3>2, BoundedStep
  <2> QED BY <2>1, <2>3, <2>4 DEF Quiet
<1> QED BY <1>4, <1>5, <1>6, <1>7, <1>8, <1>9, <1>10 DEF CloudStep

LEMMA SnapshotsStayApart ==
  ASSUME CloudInv, Apart, NEW m \in Machines, CloudStep(m)
  PROVE  Apart'
<1>1. \A S : Trimmed(S) \subseteq S
  BY DEF Trimmed
<1>2. CASE folder' \subseteq folder /\ pen' = pen
  BY <1>2 DEF Apart
<1>3. CASE Fetch(m) \/ EditArticle(m) \/ EditMany(m)
  <2>1. CloudTyped
    BY DEF CloudInv
  <2>2. PICK e, now : Writes(m, e, now)
    BY <1>3, <2>1, EditsWrite
  <2> QED BY <1>2, <2>2 DEF Writes, Commit
<1>4. CASE Select(m)
  BY <1>4 DEF Select, Apart
<1>5. CASE RejectImport(m)
  BY <1>5 DEF RejectImport, Apart
<1>6. CASE Export(m)
  <2> DEFINE new == [id |-> made + 1, by |-> m, db |-> db[m]]
  <2>1. folder' = folder \cup {new} /\ pen' = pen /\ new.id = made + 1
    BY <1>6 DEF Export
  <2>2. made \in Nat /\ \A s \in pen : s.id \in 1..made
    BY DEF CloudInv, CloudTyped, Numbered
  <2> HIDE DEF new
  <2>3. new \notin pen
    BY <2>1, <2>2
  <2> QED BY <2>1, <2>3 DEF Apart
<1>7. CASE \/ StartPruning(m) \/ PickBatch(m) \/ DropBatch(m) \/ StopPruning(m)
           \/ SkipImport(m) \/ StartImport(m) \/ MergeCommit(m) \/ MergeFail(m)
           \/ FinishImport(m) \/ StartExport(m) \/ MarkExported(m) \/ Crash(m)
  <2>1. folder' \subseteq folder /\ pen' = pen
    BY <1>1, <1>7 DEF StartPruning, PickBatch, DropBatch, StopPruning, SkipImport, StartImport,
         MergeCommit, MergeFail, FinishImport, StartExport, MarkExported, Crash
  <2> QED BY <1>2, <2>1
<1> QED BY <1>3, <1>4, <1>5, <1>6, <1>7 DEF CloudStep

CloudTypes == CloudInv /\ Bounded /\ Apart

LEMMA CloudTypesAlways == CloudSpec => []CloudTypes
<1>1. CloudInit => CloudTypes
  <2>1. Idle.at = "idle" /\ MaxSeen \in Nat
    BY LimitsPositive DEF Idle
  <2>2. CloudInit => Bounded /\ Apart
    BY <2>1 DEF CloudInit, Bounded, Apart
  <2> QED BY <2>2, CloudInvInit DEF CloudTypes
<1>2. ASSUME CloudTypes, [CloudNext]_cloudVars PROVE CloudTypes'
  <2>1. CASE UNCHANGED cloudVars
    BY <2>1, <1>2, StutterKeeps DEF CloudTypes, Bounded, Apart, cloudVars
  <2>2. CASE EmptyPen
    <3>1. Bounded'
      BY <1>2, <2>2 DEF CloudTypes, EmptyPen, Bounded
    <3>2. Apart'
      BY <1>2, <2>2 DEF CloudTypes, EmptyPen, Release, Discard, Apart
    <3> QED BY <1>2, <2>2, <3>1, <3>2, StepKeeps DEF CloudTypes, CloudNext
  <2>3. CASE \E m \in Machines : CloudStep(m)
    <3>1. PICK m \in Machines : CloudStep(m)
      BY <2>3
    <3>2. Bounded' /\ Apart'
      BY <1>2, <3>1, SeenStaysShort, SnapshotsStayApart DEF CloudTypes
    <3> QED BY <1>2, <2>3, <3>2, StepKeeps DEF CloudTypes, CloudNext
  <2> QED BY <1>2, <2>1, <2>2, <2>3 DEF CloudNext
<1> QED BY <1>1, <1>2, PTL DEF CloudSpec

\* What the machines' databases, lists, folder and quarantine hold is of its type, with
\* times of the clock only and lists no longer than they may be.
THEOREM CloudTypeCorrect == CloudSpec => []CloudTypeOK
<1>1. CloudTypes => CloudTypeOK
  <2> SUFFICES ASSUME CloudTypes PROVE CloudTypeOK
    OBVIOUS
  <2>1. CloudTyped /\ Written /\ Numbered /\ Bounded /\ Apart
    BY DEF CloudTypes, CloudInv
  <2>2. ASSUME NEW d \in Databases PROVE IsStore(d, Stamps)
    <3>1. IsDb(d)
      BY <2>1 DEF CloudTyped
    <3>2. UsedTimes \subseteq Stamps
      BY <2>1 DEF CloudTyped, UsedTimes
    <3>3. ASSUME NEW l \in Stored(d)
          PROVE  /\ d.news[l].title \in Titles /\ d.news[l].tags \subseteq Tags
                 /\ Times(d.news[l]) \subseteq Stamps \cup {0}
                 /\ {d.news[l].read, d.news[l].marked, d.news[l].noted, d.news[l].deleted} \subseteq BOOLEAN
      <4>1. d.news[l] \in Row
        BY <3>1, RowsOf
      <4>2. Times(d.news[l]) \subseteq UsedTimes \cup {0}
        BY <2>1 DEF Written
      <4> QED BY <4>1, <4>2, <3>2 DEF Row
    <3>4. DOMAIN d = {"news", "member"}
      BY <3>1 DEF IsDb
    <3>5. Stored(d) \subseteq Links /\ DOMAIN d.member \subseteq Stored(d) \X Keys
          /\ \A p \in DOMAIN d.member : d.member[p] \in BOOLEAN
      BY <3>1 DEF IsDb, HasRows, HasFlags
    <3> QED BY <3>3, <3>4, <3>5 DEF IsStore, Times
  <2>3. \A d \in Copies \cup {db[m] : m \in Machines} : IsStore(d, Stamps)
    BY <2>2 DEF Databases
  <2>4. \A m \in Machines : Len(seen[m]) <= MaxSeen /\ used[m] \subseteq Stamps
    BY <2>1 DEF Bounded, CloudTyped
  <2> QED BY <2>1, <2>3, <2>4 DEF Numbered, Apart, CloudTypeOK
<1> QED BY <1>1, CloudTypesAlways, PTL
=============================================================================
