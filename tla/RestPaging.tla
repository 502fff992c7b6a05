----------------------------- MODULE RestPaging -----------------------------
(***************************************************************************)
(* The pages of the lists the server answers with (server/rest.go): each   *)
(* endpoint asks a store for some prefix of a list, removes what the       *)
(* caller must not see and cuts the page [offset, offset + n) out of what  *)
(* is left.  A client walks through a list page by page until a page is    *)
(* short; meanwhile nothing changes.                                       *)
(*                                                                         *)
(* Entries are 1..NEntries, best first.  A walk is one endpoint with one   *)
(* situation: what is hidden, what the user named by user-id has feedback  *)
(* for, what is in the category asked for, how many neighbours are similar *)
(* at all, and (Self) the entry whose neighbours are asked for.            *)
(***************************************************************************)
EXTENDS Naturals, Sequences, FiniteSets, FiniteSetsExt, SequencesExt

CONSTANTS NEntries, PageSize, CacheSize, ContextSize, Self

VARIABLES walk, offset, got, ended

pageVars == <<walk, offset, got, ended>>

Entries == 1..NEntries

PageInit ==
  /\ walk \in [endpoint : {"documents", "latest", "itemToItem", "userToUser", "session"},
               hidden : SUBSET {2, NEntries}, read : SUBSET {1, 3}, category : {Entries, Entries \ {2, 3}}, similar : {NEntries - 1, NEntries}]
  /\ offset = 0 /\ got = <<>> /\ ended = FALSE

-----------------------------------------------------------------------------
Ranked(S) == SetToSortSeq(S, LAMBDA i, j : i < j)
First(s, k) == SubSeq(s, 1, Min({k, Len(s)}))
From(s, k) == SubSeq(s, k + 1, Len(s))
Unread(s) == SelectSeq(s, LAMBDA i : i \notin walk.read)

(* SearchScores(begin, end): hidden documents and other categories are left *)
(* out by the cache.                                                        *)
SearchScores(begin, end) == From(First(Ranked(walk.category \ walk.hidden), end), begin)

(* SearchDocuments: the offset goes to the cache, the entries already read  *)
(* are removed from what comes back.                                        *)
SearchDocuments(n) ==
  LET end == offset + n + Cardinality(walk.read) IN First(Unread(SearchScores(offset, end)), n)

(* getLatest: GetLatestItems leaves hidden items and other categories out.  *)
getLatest(n) ==
  LET items == Unread(First(Ranked(walk.category \ walk.hidden), offset + n + Cardinality(walk.read)))
  IN First(From(items, Min({offset, Len(items)})), n)

(* QueryItemToItem and QueryUserToUser: n + 1 vectors, without the one      *)
(* itself and those that are not similar, n at most.                        *)
QueryNeighbours(self, n) ==
  First(SelectSeq(First(Ranked(Entries), n + 1), LAMBDA i : i # self /\ i <= walk.similar), n)

FilterVisibleItemsByCategories(s) == SelectSeq(s, LAMBDA i : i \notin walk.hidden /\ i \in walk.category)

Slice(s, n) == IF offset < Len(s) THEN First(From(s, offset), n) ELSE <<>>

\* Mutant of SearchItemToItem: the offset is applied before the filters.
SearchItemToItemEarly(n) ==
  First(Unread(FilterVisibleItemsByCategories(From(QueryNeighbours(Self, Max({offset + n + Cardinality(walk.read), CacheSize})), offset))), n)

SearchItemToItem(n) ==
  LET queryN == Max({offset + n + Cardinality(walk.read), CacheSize})
  IN Slice(Unread(FilterVisibleItemsByCategories(QueryNeighbours(Self, queryN))), n)

SearchUserToUser(n) == Slice(QueryNeighbours(Self, offset + n), n)

(* sessionRecommend: the feedback in the request is the context and is      *)
(* excluded; entries without visible neighbours do not count towards        *)
(* ContextSize.  The similarities to all entries of the context are equal   *)
(* here, so the candidates keep their order when they are added up.         *)
sessionRecommend(n) ==
  LET neighbours(f) == FilterVisibleItemsByCategories(QueryNeighbours(f, CacheSize))
      used == SelectSeq(Ranked(walk.read), LAMBDA f : neighbours(f) # <<>>)
      context == First(used, ContextSize)
      candidates == UNION {Range(neighbours(context[k])) : k \in DOMAIN context} \ walk.read
  IN Slice(First(Ranked(candidates), n + offset), n)

Page(n) ==
  CASE walk.endpoint = "documents" -> SearchDocuments(n)
    [] walk.endpoint = "latest" -> getLatest(n)
    [] walk.endpoint = "itemToItem" -> SearchItemToItem(n)
    [] walk.endpoint = "userToUser" -> SearchUserToUser(n)
    [] walk.endpoint = "session" -> sessionRecommend(n)

NextPage ==
  /\ ~ended
  /\ got' = got \o Page(PageSize) /\ ended' = (Len(Page(PageSize)) < PageSize)
  /\ offset' = offset + PageSize /\ UNCHANGED walk

PageSpec == PageInit /\ [][NextPage]_pageVars

-----------------------------------------------------------------------------
Similar == {i \in Entries : i <= walk.similar /\ i # Self}
Allowed ==
  CASE walk.endpoint \in {"documents", "latest"} -> walk.category \ (walk.hidden \cup walk.read)
    [] walk.endpoint = "session" -> ((1..walk.similar) \cap walk.category) \ (walk.hidden \cup walk.read)
    [] walk.endpoint = "itemToItem" -> (Similar \cap walk.category) \ (walk.hidden \cup walk.read)
    [] walk.endpoint = "userToUser" -> Similar

(* The pages of a list never show an entry twice, never one that is hidden, *)
(* read or of another category, and follow its order.  The cached lists are *)
(* the exception when a user is named: the offset counts the entries before *)
(* those the user has read are removed, while the limit makes room for      *)
(* them, so pages repeat.                                                   *)
PagesAreDisjoint ==
  (walk.endpoint = "documents" => walk.read = {}) =>
    /\ Range(got) \subseteq Allowed
    /\ \A j, k \in DOMAIN got : j < k => got[j] < got[k]

(* A client that stops at the first short page has seen the whole list: the *)
(* store is asked for enough to make up for what is removed afterwards.     *)
(* The neighbours of an item are filtered by category and visibility after  *)
(* the query, and a session's are cut to CacheSize: there a page may be     *)
(* short although more entries would follow.                                *)
ShortPageIsLast ==
  ended /\ ~(walk.endpoint = "documents" /\ walk.read # {})
        /\ (walk.endpoint = "itemToItem" => walk.hidden = {} /\ walk.category = Entries)
        /\ walk.endpoint # "session" => got = Ranked(Allowed)
=============================================================================
