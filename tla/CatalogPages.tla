----------------------------- MODULE CatalogPages -----------------------------
(***************************************************************************)
(* Listings that a client reads page by page while the catalog changes:    *)
(* ranked search and its count (metadata_store/ranked_search.py,           *)
(* search_store.py), the library inspector (inspector_store.py), folder    *)
(* browsing (browse_store.py), prompt usage (prompt_discovery.py) and raw  *)
(* workflow search (workflow_raw_search.py).                               *)
(*                                                                         *)
(* Each page is one read transaction, hence one step.  Its cursor is the   *)
(* key of the last row handed out (an offset when browsing), and nothing   *)
(* holds the catalog still between two pages.  Two listings look at a      *)
(* bounded preselection of the rows only: free-text search over all        *)
(* libraries and the inspector.  They take the first rows of the index in  *)
(* key order and only then drop those that are offline or stale.           *)
(*                                                                         *)
(* Asset ids stand for the names and paths they sort like.                 *)
(***************************************************************************)
EXTENDS Naturals, Sequences, FiniteSets, Functions

CONSTANTS
  Assets,          \* asset ids
  RowId,           \* image_metadata.id of each asset's row: its own order
  PromptOf,        \* the prompt stored in each file
  InitTexts,       \* which columns of each asset match the query, to begin with
  InitTimes,       \* mtime of each asset, to begin with
  AsFloat,         \* a time in nanoseconds after a conversion to float seconds and back
  PageSize,        \* limit
  CandidateLimit,  \* rows a search preselects: max(256, 4 * (limit + 1))
  CountLimit,      \* rows a count preselects: 4096
  Slack,           \* rows the inspector preselects beyond a page: 8
  Overscan,        \* page size of the inspector's second try: max(2 * limit, limit + 25)
  MaxRows,         \* rows a client takes (bound)
  Budget           \* how often the catalog changes (bound)

Texts == {"name", "prompt", "negative"}
Ranks == {0, 1}

ASSUME PagesAssumption ==
  /\ Assets \subseteq Nat \ {0} /\ IsFiniteSet(Assets)
  /\ RowId \in [Assets -> Nat]
  /\ \A a, b \in Assets : RowId[a] = RowId[b] => a = b
  /\ PromptOf \in [Assets -> Nat]
  /\ InitTexts \subseteq [Assets -> SUBSET Texts]
  /\ InitTimes \in [Assets -> Nat]
  /\ DOMAIN AsFloat \subseteq Nat /\ \A t \in DOMAIN AsFloat : AsFloat[t] \in Nat
  /\ PageSize \in Nat \ {0} /\ Slack \in Nat \ {0} /\ Budget \in Nat /\ MaxRows \in Nat
  /\ Overscan \in Nat /\ Overscan > PageSize
  /\ CandidateLimit \in Nat /\ CandidateLimit > PageSize
  /\ CountLimit \in Nat /\ CountLimit >= CandidateLimit

VARIABLES
  mtime,    \* assets.mtime_ns, and with it file_index.mtime_ns
  active,   \* assets neither offline nor deleted
  gone,     \* assets whose file has left the disk
  stored,   \* image_metadata.mtime_ns: the file version the metadata describes
  text,     \* columns of each asset that match the query
  rank,     \* bm25 rank of each asset: it depends on every row of the index
  derived,  \* assets whose prompt values and raw workflow are extracted
  reader,   \* the client: listing, cursor, rows received
  steady,   \* history: results that did not change since the reader began
  quiet,    \* history: the catalog did not change since the reader began
  short,    \* history: some preselection held too few rows a page could use
  used      \* changes so far

vars == <<mtime, active, gone, stored, text, rank, derived, reader, steady, quiet, short, used>>
catalog == <<mtime, active, gone, stored, text, rank, derived>>

Searches == {"plain", "legacy", "scoped", "fields"}
Kinds == Searches \cup {"raw", "inspector", "browse", "usage"}

NoRow == [id |-> 0, tier |-> 0, rank |-> 0, mt |-> 0]
Away == [pc |-> "away", kind |-> "plain", begun |-> FALSE, after |-> NoRow, offset |-> 0,
         exact |-> TRUE, got |-> <<>>]

PInit ==
  /\ mtime = InitTimes /\ stored = InitTimes
  /\ active = Assets /\ derived = Assets /\ gone = {}
  /\ text \in InitTexts
  /\ rank = [a \in Assets |-> 0]
  /\ reader = Away
  /\ steady = {} /\ quiet = TRUE /\ short = FALSE /\ used = 0

-----------------------------------------------------------------------------
(* Rows and their order: tier down, rank up, mtime down, id up              *)

Row(id, tier, r, mt) == [id |-> id, tier |-> tier, rank |-> r, mt |-> mt]

Ahead(r, s) ==
  \/ r.tier > s.tier
  \/ r.tier = s.tier /\ r.rank < s.rank
  \/ r.tier = s.tier /\ r.rank = s.rank /\ r.mt > s.mt
  \/ r.tier = s.tier /\ r.rank = s.rank /\ r.mt = s.mt /\ r.id < s.id

\* A set of rows as ORDER BY lists it: row i has i - 1 rows ahead of it.
Place(r, S) == Cardinality({o \in S : Ahead(o, r)}) + 1
InOrder(S) == [i \in 1..Cardinality(S) |-> CHOOSE r \in S : Place(r, S) = i]

\* The n assets whose rows come first.
First(n, rows) ==
  {a \in DOMAIN rows : Cardinality({b \in DOMAIN rows : Ahead(rows[b], rows[a])}) < n}

\* Mutant: the row of the cursor is let through again.
MutantBehind(r) == ~reader.begun \/ reader.kind = "browse" \/ ~Ahead(r, reader.after)
\* What the cursor lets through.
Behind(r) == ~reader.begun \/ reader.kind = "browse" \/ Ahead(reader.after, r)

-----------------------------------------------------------------------------
(* Search candidates                                                       *)

TierOf == [name |-> 70, prompt |-> 80, negative |-> 40]
Copy(a, s) == Row(a, TierOf[s], rank[a], mtime[a])

\* The metadata describes the file as it is indexed.
Current(a) == stored[a] = mtime[a]
\* A file name is found without metadata.
Usable(a, s) == a \in active /\ (s = "name" \/ Current(a))

\* Each column is searched on its own, so an asset may have several copies.
CopiesOf(found, s) == {Copy(a, s) : a \in {b \in found : Usable(b, s)}}
Copies == UNION {CopiesOf({a \in Assets : s \in text[a]}, s) : s \in Texts}

\* A free-text search without scope takes the first rows of each prompt
\* index.  With a cursor it knows the assets, drops what is offline and cuts
\* behind the cursor; the first page sorts by the metadata rows alone.
PreRow(a, s) ==
  IF reader.begun THEN Copy(a, s) ELSE Row(RowId[a], TierOf[s], rank[a], stored[a])
Matching(s) ==
  {a \in Assets : s \in text[a] /\ (reader.begun => a \in active /\ Ahead(reader.after, Copy(a, s)))}
Preselected(s, limit) == First(limit, [a \in Matching(s) |-> PreRow(a, s)])
Bounded(limit) ==
  CopiesOf({a \in Assets : "name" \in text[a]}, "name")
    \cup UNION {CopiesOf(Preselected(s, limit), s) : s \in {"prompt", "negative"}}

\* A search by fields alone: every hit has the same tier and rank.
Filtered(a) == Row(a, 30, 0, mtime[a])
FieldMatching == {a \in active : "prompt" \in text[a] /\ Behind(Filtered(a))}
FieldPreselected(limit) == First(limit, [a \in FieldMatching |-> Filtered(a)])

-----------------------------------------------------------------------------
(* The other listings                                                      *)

Inspected(a) == Row(a, 0, 0, stored[a])
InspectorMatching == {a \in active : Behind(Inspected(a))}
\* The first page looks no further than the newest metadata rows, offline or not.
AboveCutoff(a, limit) ==
  reader.begun \/ Cardinality({b \in Assets : stored[b] > stored[a]}) < limit + Slack
InspectorPreselected(limit) ==
  First(limit + Slack, [a \in {b \in InspectorMatching : AboveCutoff(b, limit)} |-> Inspected(a)])
InspectorRows(limit) ==
  InOrder({Inspected(a) : a \in {b \in InspectorPreselected(limit) : Current(b)}})

\* The raw document holds the prompt.
Document(a) == Row(a, 0, rank[a], mtime[a])
Documents == {Document(a) : a \in {b \in active \cap derived : "prompt" \in text[b]}}

Listed(a) == Row(a, 0, 0, 0)

\* Prompts by use: how many active assets share it and the newest of them.
UsersOf(v) == {a \in active \cap derived : PromptOf[a] = v}
Newest(S) == CHOOSE t \in {mtime[a] : a \in S} : \A a \in S : mtime[a] <= t
Group(v) == Row(v, Cardinality(UsersOf(v)), 0, Newest(UsersOf(v)))
Groups == {Group(v) : v \in {PromptOf[a] : a \in active \cap derived}}

-----------------------------------------------------------------------------
(* A page                                                                  *)

\* Everything a listing is about, before any cut.
Results(kind) ==
  CASE kind \in {"plain", "legacy", "scoped"} -> Copies
    [] kind = "fields"    -> {Filtered(a) : a \in {b \in active : "prompt" \in text[b] /\ Current(b)}}
    [] kind = "raw"       -> Documents
    [] kind = "inspector" -> {Inspected(a) : a \in {b \in active \ gone : Current(b)}}
    [] kind = "browse"    -> {Listed(a) : a \in active}
    [] kind = "usage"     -> Groups

\* A decimal cursor asks for the whole candidate set; the cursor of its page
\* is an ordinary one.
Candidates ==
  CASE reader.kind = "plain" \/ (reader.kind = "legacy" /\ reader.begun) -> Bounded(CandidateLimit)
    [] reader.kind = "fields" ->
         {Filtered(a) : a \in {b \in FieldPreselected(CandidateLimit) : Current(b)}}
    [] OTHER -> Results(reader.kind)

\* Mutant: the copies of an asset are not merged.
MutantBest(rows) == rows
\* An asset counts once, with its best copy.
Best(rows) == {r \in rows : \A o \in rows : o.id = r.id => ~Ahead(o, r)}

\* The rows behind the cursor in the order of the page, the offset skipped.
Fetched ==
  LET rows == InOrder({r \in Best(Candidates) : Behind(r)})
  IN  IF reader.offset > Len(rows) THEN <<>> ELSE SubSeq(rows, reader.offset + 1, Len(rows))

\* Mutant: the cursor is the row that was fetched to see whether there are more.
MutantNextCursor(rows) == rows[PageSize + 1]
\* The cursor of the next page.
NextCursor(rows) == rows[PageSize]

Start(rows, n) == SubSeq(rows, 1, IF Len(rows) > n THEN n ELSE Len(rows))
PageOf(rows) ==
  LET more == Len(rows) > PageSize
  IN  [rows |-> Start(rows, PageSize), more |-> more, exact |-> TRUE,
       after |-> IF more /\ reader.kind # "browse" THEN NextCursor(rows) ELSE NoRow]

\* The inspector leaves out rows whose file is missing and, to fill the page,
\* tries once more with a larger limit.  Its cursor is made from the row as
\* it is shown, whose time is a float.
Shown(rows, n) == InOrder({r \in Range(Start(rows, n)) : r.id \notin gone})
Retry(rows) ==
  LET shown == Shown(rows, PageSize) IN
  /\ Len(shown) < Len(Start(rows, PageSize))
  /\ Len(shown) < PageSize \/ Len(rows) > PageSize
InspectorLimit == IF Retry(InspectorRows(PageSize)) THEN Overscan ELSE PageSize
InspectorPage(limit) ==
  LET rows == InspectorRows(limit)
      shown == Shown(rows, limit)
      page == Start(shown, PageSize)
      more == Len(rows) > limit \/ Len(shown) > PageSize
      after == CASE ~more -> NoRow
                 [] more /\ page # <<>> -> [page[Len(page)] EXCEPT !.mt = AsFloat[@]]
                 [] more /\ page = <<>> -> rows[limit]
  IN  [rows |-> page, more |-> more, exact |-> after \in Range(rows) \cup {NoRow}, after |-> after]

\* search_ranked_media_count: the copies merged, of a larger preselection.
RankedCount == Cardinality(Best(Bounded(CountLimit)))

\* Mutant: the count does not merge copies.
MutantCount == Cardinality(Bounded(CountLimit))
\* The count announced for a search.
Count ==
  CASE reader.kind \in {"plain", "legacy"} -> RankedCount
    [] reader.kind = "scoped" -> Cardinality(Best(Copies))
    [] reader.kind = "fields" -> Cardinality({a \in FieldPreselected(CountLimit) : Current(a)})

-----------------------------------------------------------------------------
(* History: when did a preselection hold too few rows?                     *)

\* Rows were cut off although fewer than a page and its look-ahead were of use.
Lacking(kept, all, useful, limit) == kept # all /\ Cardinality(kept \cap useful) <= limit

\* A copy is of no use when its asset is found ahead of the cursor otherwise.
UsefulTo(rows, s) == {r.id : r \in {q \in Range(rows) : Usable(q.id, s)}}
\* On the first page rows of equal rank and mtime are cut by another order.
TieCut(s) ==
  ~reader.begun /\ \E a \in Preselected(s, CandidateLimit), b \in Matching(s) \ Preselected(s, CandidateLimit) :
                      rank[a] = rank[b] /\ stored[a] = stored[b]
SearchShort(rows) ==
  \E s \in {"prompt", "negative"} :
    \/ Lacking(Preselected(s, CandidateLimit), Matching(s), UsefulTo(rows, s), PageSize)
    \/ TieCut(s)
PageShort(rows) ==
  CASE reader.kind = "plain" \/ (reader.kind = "legacy" /\ reader.begun) -> SearchShort(rows)
    [] reader.kind = "fields" ->
         Lacking(FieldPreselected(CandidateLimit), FieldMatching, {a \in Assets : Current(a)}, PageSize)
    [] OTHER -> FALSE
InspectorShort(limit) ==
  Lacking(InspectorPreselected(limit), InspectorMatching, {a \in Assets : Current(a)}, limit)

\* An offset means nothing once the list has changed.
Observe ==
  /\ quiet' = FALSE
  /\ LET before == Results(reader.kind) IN LET after == Results(reader.kind)'
     IN  steady' = IF reader.kind = "browse" /\ before # after THEN {}
                   ELSE {i \in steady : {r \in before : r.id = i} = {r \in after : r.id = i}}

-----------------------------------------------------------------------------
(* The client                                                              *)

Open(kind) ==
  /\ reader.pc = "away"
  /\ reader' = [reader EXCEPT !.pc = "paging", !.kind = kind]
  /\ steady' = {r.id : r \in Results(kind)} /\ quiet' = TRUE
  /\ UNCHANGED <<catalog, short, used>>

Receive(page) ==
  reader' = [reader EXCEPT
               !.got = @ \o page.rows,
               !.pc = IF page.more THEN "paging" ELSE "done",
               !.begun = page.more,
               !.offset = IF page.more /\ reader.kind = "browse" THEN @ + PageSize ELSE 0,
               !.after = page.after,
               !.exact = @ /\ page.exact]

Fetch ==
  /\ reader.pc = "paging" /\ Len(reader.got) < MaxRows
  /\ IF reader.kind = "inspector"
     THEN LET limit == InspectorLimit
          IN  Receive(InspectorPage(limit)) /\ short' = (short \/ InspectorShort(limit))
     ELSE LET rows == Fetched
          IN  Receive(PageOf(rows)) /\ short' = (short \/ PageShort(rows))
  /\ UNCHANGED <<catalog, steady, quiet, used>>

\* The cursor names the request it belongs to; sent with another one it is
\* refused, unless it is decimal: the search by GET takes the offset of any
\* listing for one of its own.
Misuse(kind) ==
  /\ reader.pc = "paging" /\ reader.begun
  /\ kind # reader.kind /\ ~({kind, reader.kind} \subseteq {"plain", "legacy"})
  /\ ~(reader.kind = "browse" /\ kind = "legacy")
  /\ reader' = [reader EXCEPT !.pc = "refused"]
  /\ UNCHANGED <<catalog, steady, quiet, short, used>>

-----------------------------------------------------------------------------
(* The catalog                                                             *)

Change == /\ used < Budget
          /\ used' = used + 1
          /\ UNCHANGED <<reader, short>>
          /\ Observe

\* A scan finds a changed file; its metadata describes the old one.
Rescan(a) ==
  /\ a \in active \ gone
  /\ mtime' = [mtime EXCEPT ![a] = @ + 1]
  /\ UNCHANGED <<active, gone, stored, text, rank, derived>>
  /\ Change

\* A scan or a change of the configuration takes an asset offline, and brings it
\* back.  The cleanup an inspector page schedules, which deletes the rows of a file
\* that is gone, is the same to a reader.
Toggle(a) ==
  /\ active' = IF a \in active THEN active \ {a} ELSE active \cup {a}
  /\ UNCHANGED <<mtime, gone, stored, text, rank, derived>>
  /\ Change

\* A file leaves the disk, or comes back, before the catalog knows.
Vanish(a) ==
  /\ gone' = IF a \in gone THEN gone \ {a} ELSE gone \cup {a}
  /\ UNCHANGED <<mtime, active, stored, text, rank, derived>>
  /\ Change

\* invalidate_prompt_discovery_conn and invalidate_raw_workflow_conn.
Underived(a) == derived \ {a}

\* A metadata job replaces the row.  The index changed, so the rank of other
\* rows may change too; what was derived from the asset is gone.
Reindex(a) ==
  /\ a \in active \ gone /\ ~Current(a)
  /\ stored' = [stored EXCEPT ![a] = mtime[a]]
  /\ \E b \in Assets, r \in Ranks : rank' = [rank EXCEPT ![b] = r]
  /\ \E t \in {text[a], text[a] \cap {"name"}} : text' = [text EXCEPT ![a] = t]
  /\ derived' = Underived(a)
  /\ UNCHANGED <<mtime, active, gone>>
  /\ Change

\* The search index job derives it again.
Derive(a) ==
  /\ a \in active \ (derived \cup gone)
  /\ derived' = derived \cup {a}
  /\ UNCHANGED <<mtime, active, gone, stored, text, rank>>
  /\ Change

PNext ==
  \/ \E kind \in Kinds : Open(kind) \/ Misuse(kind)
  \/ Fetch
  \/ \E a \in Assets : Rescan(a) \/ Toggle(a) \/ Vanish(a) \/ Reindex(a) \/ Derive(a)

PSpec == PInit /\ [][PNext]_vars

-----------------------------------------------------------------------------
(* Properties                                                              *)

GotIds == {reader.got[i].id : i \in DOMAIN reader.got}

\* A result that did not change while the client read is received once.
\* Free-text search over all libraries keeps less: its preselection drops the
\* better copy of an asset the client has, so the asset may come back as a
\* weaker match (its negative prompt), never as the same one.  The inspector
\* keeps it as long as the times in its cursors survive the conversion.
ReceivedOnce(i, j) == reader.got[i].id = reader.got[j].id => reader.got[i].id \notin steady
DeliveredOnce ==
  reader.exact =>
    \A i, j \in DOMAIN reader.got :
      i < j => \/ ReceivedOnce(i, j)
               \/ reader.kind \in {"plain", "legacy"} /\ reader.got[i].tier > reader.got[j].tier

\* A client that reads to the end has every result that did not change in
\* the meantime, whatever else did, unless some preselection was full and
\* held no more than a page of usable rows: CandidateLimit - PageSize - 1
\* unusable rows are harmless to a search, Slack - 1 to the inspector.
NothingOmitted == reader.pc = "done" /\ reader.exact /\ ~short => steady \subseteq GotIds

\* While the catalog stays as it is, the count announced for a search is the
\* number of assets its pages bring, as long as no preselection is cut short.
CountAgrees ==
  (reader.kind \in Searches /\ reader.pc = "done" /\ quiet /\ ~short
     /\ \A s \in Texts : Cardinality({a \in Assets : s \in text[a]}) <= CountLimit)
    => Count = Cardinality(GotIds)

\* Whatever changes between two pages, the rows a client receives never fall
\* back behind an earlier one: a cursor only moves forward.
ReceivedInOrder ==
  (reader.kind # "browse" /\ reader.exact) =>
    \A i, j \in DOMAIN reader.got : i < j => Ahead(reader.got[i], reader.got[j])

\* ARCHITECTURE.md:1280 says of the inspector that "its keyset uses
\* nanosecond mtime ordering", and the inspector's test that no row comes
\* twice.  The endpoint rebuilds its cursor from the float the row shows.
InspectorRowsOnce ==
  reader.kind = "inspector" => \A i, j \in DOMAIN reader.got : i < j => ReceivedOnce(i, j)
=============================================================================
