----------------------------- MODULE ArticleStore -----------------------------
(***************************************************************************)
(* The article database as a value, and what each operation of             *)
(* DatabaseManager makes of it.  A database d is a record:                 *)
(*   d.news    the rows of table news, a function on the stored links      *)
(*   d.member  the rows of table news_keywords, a function on pairs        *)
(*             <<link, query key>> giving the is_duplicate flag            *)
(* A row keeps the title (its hash: two titles are the same title when     *)
(* their hashes are), the four user fields with the time each was last     *)
(* written, and the tags with theirs.  The remaining columns travel with   *)
(* the title.  No operation here is an action: each is one transaction,    *)
(* applied by the modules that use it, and a failed one changes nothing.   *)
(***************************************************************************)
EXTENDS Naturals, Sequences, FiniteSets

CONSTANTS
  Links,    \* the articles
  Keys,     \* the query keys (search scopes, one per tab)
  Titles,   \* the title hashes
  Tags      \* the tags, up to case

Fresh(t) ==
  [title |-> t, read |-> FALSE, readAt |-> 0, marked |-> FALSE, markedAt |-> 0,
   noted |-> FALSE, notedAt |-> 0, deleted |-> FALSE, deletedAt |-> 0,
   tags |-> {}, tagsAt |-> 0]

EmptyStore == [news |-> <<>>, member |-> <<>>]

Stored(d) == DOMAIN d.news
Live(d) == {l \in Stored(d) : ~ d.news[l].deleted}

IsStore(d, stamps) ==
  /\ DOMAIN d = {"news", "member"}
  /\ Stored(d) \subseteq Links
  /\ \A l \in Stored(d) :
       /\ d.news[l].title \in Titles
       /\ d.news[l].tags \subseteq Tags
       /\ {d.news[l].readAt, d.news[l].markedAt, d.news[l].notedAt,
           d.news[l].deletedAt, d.news[l].tagsAt} \subseteq stamps \cup {0}
       /\ {d.news[l].read, d.news[l].marked, d.news[l].noted,
           d.news[l].deleted} \subseteq BOOLEAN
  /\ DOMAIN d.member \subseteq Stored(d) \X Keys
  /\ \A p \in DOMAIN d.member : d.member[p] \in BOOLEAN

WithRow(d, l, row) == [d EXCEPT !.news[l] = row]

-----------------------------------------------------------------------------
(* Duplicate flags *)

\* The articles of one scope that are shown and carry one title.
Group(d, k, t) ==
  {l \in Live(d) : <<l, k>> \in DOMAIN d.member /\ d.news[l].title = t}

\* The flags of the groups in G are computed afresh; a deleted article keeps
\* the flag it had.
RecalcGroups(d, G) ==
  [d EXCEPT !.member = [p \in DOMAIN d.member |->
     LET g == <<p[2], d.news[p[1]].title>>
     IN IF p[1] \in Live(d) /\ g \in G THEN Cardinality(Group(d, g[1], g[2])) > 1
                                       ELSE d.member[p]]]

\* recalculate_duplicate_flags: with nothing left to show, every flag is cleared.
RecalcAll(d) ==
  IF \E p \in DOMAIN d.member : p[1] \in Live(d)
  THEN RecalcGroups(d, Keys \X Titles)
  ELSE [d EXCEPT !.member = [p \in DOMAIN d.member |-> FALSE]]

\* The groups the shown articles among S belong to.
Affected(d, S) ==
  {<<p[2], d.news[p[1]].title>> : p \in {q \in DOMAIN d.member : q[1] \in S \cap Live(d)}}

-----------------------------------------------------------------------------
(* A fetched page *)

\* items: a sequence of [link, title] with distinct links.  A title or a flag is
\* written also over a deleted row, which stays deleted; only the groups of this
\* scope whose titles changed or that got a new member are computed afresh.
Upsert(d, k, items) ==
  LET n        == DOMAIN items
      known(i) == <<items[i].link, k>> \in DOMAIN d.member
      before(i) == Group(d, k, items[i].title)
                     \cup {items[j].link : j \in {x \in n : x < i /\ items[x].title = items[i].title}}
      flag(i)  == before(i) \ {items[i].link} # {}
      moved(i) == known(i) /\ d.news[items[i].link].title # items[i].title
      touched  == {items[i].title : i \in {x \in n : ~ known(x) \/ moved(x)}}
                    \cup {d.news[items[i].link].title : i \in {x \in n : moved(x)}}
      incoming == {items[i].link : i \in n}
      at(l)    == CHOOSE i \in n : items[i].link = l
      news     == [l \in Stored(d) \cup incoming |->
                     IF l \notin incoming THEN d.news[l]
                     ELSE IF l \in Stored(d)
                          THEN [d.news[l] EXCEPT !.title = items[at(l)].title]
                          ELSE Fresh(items[at(l)].title)]
      member   == [p \in DOMAIN d.member \cup incoming \X {k} |->
                     IF p[1] \in incoming /\ p[2] = k
                     THEN flag(at(p[1])) ELSE d.member[p]]
  IN RecalcGroups([news |-> news, member |-> member], {k} \X touched)

\* The links a page adds to the scope (NewsUpsertResult.new_links).
NewLinks(d, k, items) ==
  {items[i].link : i \in {x \in DOMAIN items : <<items[x].link, k>> \notin DOMAIN d.member}}

-----------------------------------------------------------------------------
(* One article's state; an unchanged value leaves its time alone *)

SetRead(d, l, v, now) ==
  IF d.news[l].read = v THEN d
  ELSE WithRow(d, l, [d.news[l] EXCEPT !.read = v, !.readAt = now])

SetMarked(d, l, v, now) ==
  IF d.news[l].marked = v THEN d
  ELSE WithRow(d, l, [d.news[l] EXCEPT !.marked = v, !.markedAt = now])

SetNoted(d, l, v, now) ==
  IF d.news[l].noted = v THEN d
  ELSE WithRow(d, l, [d.news[l] EXCEPT !.noted = v, !.notedAt = now])

\* import_article_state: a bookmark and a note from a file, in one transaction.
ImportState(d, l, marked, noted, now) ==
  SetNoted(SetMarked(d, l, marked, now), l, noted, now)

SetTags(d, l, T, now) ==
  IF d.news[l].tags = T THEN d
  ELSE WithRow(d, l, [d.news[l] EXCEPT !.tags = T, !.tagsAt = now])

DeleteLink(d, l, now) ==
  IF d.news[l].deleted THEN d
  ELSE RecalcAll(WithRow(d, l, [d.news[l] EXCEPT !.deleted = TRUE, !.deletedAt = now]))

\* The groups to compute afresh are collected while the article is still hidden,
\* so there are none.
RestoreDeletedLink(d, l, now) ==
  IF ~ d.news[l].deleted THEN d
  ELSE RecalcGroups(WithRow(d, l, [d.news[l] EXCEPT !.deleted = FALSE, !.deletedAt = now]),
                    Affected(d, {l}))

-----------------------------------------------------------------------------
(* Many articles in one transaction *)

\* Each shown article of S gets the tags to[its tags]; the deleted ones none.
Retag(d, S, to, now) ==
  [d EXCEPT !.news = [l \in Stored(d) |->
     IF l \in S \cap Live(d) /\ to[d.news[l].tags] # d.news[l].tags
     THEN [d.news[l] EXCEPT !.tags = to[@], !.tagsAt = now]
     ELSE d.news[l]]]

RenameTag(d, old, new, now) ==
  Retag(d, Links, [T \in SUBSET Tags |-> IF old \in T THEN (T \ {old}) \cup {new} ELSE T], now)

DeleteTagEverywhere(d, tag, now) == Retag(d, Links, [T \in SUBSET Tags |-> T \ {tag}], now)

BulkAddTag(d, S, tag, now) == Retag(d, S, [T \in SUBSET Tags |-> T \cup {tag}], now)
BulkRemoveTag(d, S, tag, now) == Retag(d, S, [T \in SUBSET Tags |-> T \ {tag}], now)

MarkLinksRead(d, S, now) ==
  [d EXCEPT !.news = [l \in Stored(d) |->
     IF l \in S \cap Live(d) /\ ~ d.news[l].read
     THEN [d.news[l] EXCEPT !.read = TRUE, !.readAt = now]
     ELSE d.news[l]]]

\* apply_automation_actions for the articles of S: a tag, read and bookmarked.
Automate(d, S, tag, now) ==
  LET marked(e) == [e EXCEPT !.news = [l \in Stored(e) |->
                      IF l \in S \cap Live(e) /\ ~ e.news[l].marked
                      THEN [e.news[l] EXCEPT !.marked = TRUE, !.markedAt = now]
                      ELSE e.news[l]]]
  IN marked(MarkLinksRead(BulkAddTag(d, S, tag, now), S, now))

-----------------------------------------------------------------------------
(* Clearing the database: rows go for good and leave no trace to merge *)

Prunable(d) == {l \in Live(d) : ~ d.news[l].marked}

\* A mutant: the groups that lost a row keep their flags.
PurgeOnly(d, S) ==
  LET kept == Stored(d) \ S
  IN [news   |-> [l \in kept |-> d.news[l]],
      member |-> [p \in {q \in DOMAIN d.member : q[1] \in kept} |-> d.member[p]]]

\* One chunk of delete_all_news or delete_old_news: the memberships go with the rows.
Purge(d, S) ==
  LET kept == Stored(d) \ S
      left == [news   |-> [l \in kept |-> d.news[l]],
               member |-> [p \in {q \in DOMAIN d.member : q[1] \in kept} |-> d.member[p]]]
  IN RecalcGroups(left, Affected(d, S))

-----------------------------------------------------------------------------
(* Listings.  A scope is the bookmarks view (key = Bookmarks) or a tab's   *)
(* query key, with the filters of the tab: only unread, no duplicates, a   *)
(* tag or AnyTag.                                                          *)

CONSTANTS Bookmarks, AnyTag

\* The bookmarks view has no query key: it is a flag of the request.
ASSUME BookmarksApart == Bookmarks \notin Keys

Scopes == [key : Keys \cup {Bookmarks}, unread : BOOLEAN, unique : BOOLEAN,
           tag : Tags \cup {AnyTag}]

FlaggedAnywhere(d) == {p[1] : p \in {q \in DOMAIN d.member : d.member[q]}}

Visible(d, sc, l) == sc.tag = AnyTag \/ sc.tag \in d.news[l].tags

\* fetch_news
FetchNews(d, sc) ==
  {l \in Stored(d) :
     /\ IF sc.key = Bookmarks THEN d.news[l].marked ELSE <<l, sc.key>> \in DOMAIN d.member
     /\ ~ d.news[l].deleted
     /\ sc.unread => ~ d.news[l].read
     /\ sc.unique => IF sc.key = Bookmarks THEN l \notin FlaggedAnywhere(d)
                                           ELSE ~ d.member[<<l, sc.key>>]
     /\ Visible(d, sc, l)}

\* The rows a count is taken of, one for each membership.
CountedRows(d, sc) ==
  IF sc.key = Bookmarks
  THEN {l \in Live(d) : d.news[l].marked /\ (sc.unique => l \notin FlaggedAnywhere(d))}
  ELSE {p[1] : p \in {q \in DOMAIN d.member :
                        q[2] = sc.key /\ q[1] \in Live(d) /\ ~ (sc.unique /\ d.member[q])}}

\* count_news_states
CountNewsStates(d, sc) ==
  LET shown == {l \in CountedRows(d, sc) : Visible(d, sc, l) /\ ~ (sc.unread /\ d.news[l].read)}
  IN [total |-> Cardinality(shown), unread |-> Cardinality({l \in shown : ~ d.news[l].read})]

\* _build_mark_query_scope_sql: what "mark all as read" reaches.
MarkScope(d, sc) ==
  {l \in Live(d) :
     /\ ~ d.news[l].read
     /\ IF sc.key = Bookmarks
        THEN d.news[l].marked /\ (sc.unique => l \notin FlaggedAnywhere(d))
        ELSE \E dup \in BOOLEAN :
               <<l, sc.key>> \in DOMAIN d.member /\ d.member[<<l, sc.key>>] = dup
               /\ (sc.unique => ~ dup)
     /\ Visible(d, sc, l)}

\* A mutant: the deleted articles of the tab are counted too.
BadgeOfAll(d, k) ==
  Cardinality({p \in DOMAIN d.member : p[2] = k /\ ~ d.news[p[1]].read})

\* get_unread_count and get_unread_counts_by_query_keys: the badge of a tab.
UnreadBadge(d, k) ==
  Cardinality({p \in DOMAIN d.member : p[2] = k /\ p[1] \in Live(d) /\ ~ d.news[p[1]].read})

\* search_archive and count_archive: every article, the deleted ones on request.
Archive(d, withDeleted, onlyUnread) ==
  {l \in Stored(d) : (withDeleted \/ ~ d.news[l].deleted) /\ (onlyUnread => ~ d.news[l].read)}

\* get_statistics
Statistics(d) ==
  [total      |-> Cardinality(Live(d)),
   unread     |-> Cardinality({l \in Live(d) : ~ d.news[l].read}),
   bookmarked |-> Cardinality({l \in Live(d) : d.news[l].marked}),
   tagged     |-> Cardinality({l \in Live(d) : d.news[l].tags # {}}),
   duplicates |-> Cardinality(FlaggedAnywhere(d) \cap Live(d))]

-----------------------------------------------------------------------------
(* Merging another machine's database into this one *)

\* A mutant: the deletion is taken over without the time it was written.
MergeRowWithoutTime(mine, theirs) ==
  LET newer(x, y) == y > x
      pick(is, a, b) == IF is THEN b ELSE a
  IN [mine EXCEPT !.title = theirs.title,
        !.read = pick(newer(mine.readAt, theirs.readAt), mine.read, theirs.read),
        !.readAt = pick(newer(mine.readAt, theirs.readAt), mine.readAt, theirs.readAt),
        !.marked = pick(newer(mine.markedAt, theirs.markedAt), mine.marked, theirs.marked),
        !.markedAt = pick(newer(mine.markedAt, theirs.markedAt), mine.markedAt, theirs.markedAt),
        !.noted = pick(newer(mine.notedAt, theirs.notedAt), mine.noted, theirs.noted),
        !.notedAt = pick(newer(mine.notedAt, theirs.notedAt), mine.notedAt, theirs.notedAt),
        !.deleted = pick(newer(mine.deletedAt, theirs.deletedAt), mine.deleted, theirs.deleted)]

\* Each user field goes to the side that wrote it strictly later; a title of the
\* other side always wins.
MergeRow(mine, theirs) ==
  LET later(a, b) == IF b > a THEN b ELSE a
  IN [title     |-> theirs.title,
      read      |-> IF theirs.readAt > mine.readAt THEN theirs.read ELSE mine.read,
      readAt    |-> later(mine.readAt, theirs.readAt),
      marked    |-> IF theirs.markedAt > mine.markedAt THEN theirs.marked ELSE mine.marked,
      markedAt  |-> later(mine.markedAt, theirs.markedAt),
      noted     |-> IF theirs.notedAt > mine.notedAt THEN theirs.noted ELSE mine.noted,
      notedAt   |-> later(mine.notedAt, theirs.notedAt),
      deleted   |-> IF theirs.deletedAt > mine.deletedAt THEN theirs.deleted ELSE mine.deleted,
      deletedAt |-> later(mine.deletedAt, theirs.deletedAt),
      tags      |-> mine.tags,
      tagsAt    |-> mine.tagsAt]

\* _merge_cloud_news_rows
MergeNews(d, s) ==
  [l \in Stored(d) \cup Stored(s) |->
     IF l \notin Stored(s) THEN d.news[l]
     ELSE IF l \in Stored(d) THEN MergeRow(d.news[l], s.news[l])
                             ELSE [s.news[l] EXCEPT !.tags = {}, !.tagsAt = 0]]

\* _merge_cloud_keyword_rows
MergeMembers(d, s) ==
  [p \in DOMAIN d.member \cup DOMAIN s.member |->
     IF p \in DOMAIN d.member THEN d.member[p] ELSE s.member[p]]

\* A mutant: the tags of the other side win whatever their time.
MergeTagsAlways(news, s) ==
  [l \in DOMAIN news |->
     IF l \in Stored(s) /\ s.news[l].tags # {}
     THEN [news[l] EXCEPT !.tags = s.news[l].tags, !.tagsAt = s.news[l].tagsAt]
     ELSE news[l]]

\* _merge_cloud_tag_rows: the source has rows to offer only for a tagged article.
MergeTags(news, s) ==
  [l \in DOMAIN news |->
     IF l \in Stored(s) /\ s.news[l].tags # {} /\ s.news[l].tagsAt > news[l].tagsAt
     THEN [news[l] EXCEPT !.tags = s.news[l].tags, !.tagsAt = s.news[l].tagsAt]
     ELSE news[l]]

\* merge_cloud_snapshot_db, without the list of seen snapshots.
Merge(d, s) ==
  RecalcAll([news |-> MergeTags(MergeNews(d, s), s), member |-> MergeMembers(d, s)])

\* _preview_cloud_merge_with_attached, counted before the rows change; an article that
\* comes along deleted is both added and deleted.
MergePreview(d, s) ==
  LET both == Stored(d) \cap Stored(s)
      dead(l) == l \in Stored(d) /\ d.news[l].deleted
      ruled == {l \in Stored(s) : s.news[l].deletedAt >
                                    IF l \in Stored(d) THEN d.news[l].deletedAt ELSE 0}
  IN [news        |-> Cardinality(Stored(s) \ Stored(d)),
      memberships |-> Cardinality(DOMAIN s.member \ DOMAIN d.member),
      read        |-> Cardinality({l \in both : s.news[l].readAt > d.news[l].readAt
                                                /\ s.news[l].read # d.news[l].read}),
      marked      |-> Cardinality({l \in both : s.news[l].markedAt > d.news[l].markedAt
                                                /\ s.news[l].marked # d.news[l].marked}),
      tags        |-> Cardinality({l \in Stored(s) : s.news[l].tags # {} /\ s.news[l].tagsAt >
                                     IF l \in Stored(d) THEN d.news[l].tagsAt ELSE 0}),
      deleted     |-> Cardinality({l \in ruled : s.news[l].deleted /\ ~ dead(l)}),
      restored    |-> Cardinality({l \in ruled : ~ s.news[l].deleted /\ dead(l)})]
=============================================================================
