------------------------------ MODULE MCStores ------------------------------
(***************************************************************************)
(* Model checking of the stores and of what is written to them.  A         *)
(* behaviour is one of a single component, chosen in the initial state.    *)
(* The components whose properties are proved are extended, and stay in    *)
(* one initial state while it is the turn of another; the stores that are  *)
(* compared side by side share the slots s1 to s5 for their variables.     *)
(***************************************************************************)
EXTENDS ItemLists, SearchIndex, VectorWriter, RedisScores, DataPaging, Backup, Integers, TLC

VARIABLES part,  \* the component this behaviour is of
          s1, s2, s3, s4, s5

\* Lists are alike, and so are the handlers of requests; no liveness is checked.
Alike == Permutations(Lists) \cup Permutations(Writers)

\* Vectors of two items, each of which is written twice, and the collections
\* asked for: every metric, sparse ones, and quantisations with and without a width.
TwoItems == {[id |-> 1, point |-> 1, hidden |-> FALSE, cats |-> {"x"}, time |-> 1],
             [id |-> 1, point |-> 3, hidden |-> TRUE, cats |-> {"x"}, time |-> 2],
             [id |-> 2, point |-> 2, hidden |-> FALSE, cats |-> {"x", "y"}, time |-> 3],
             [id |-> 2, point |-> 3, hidden |-> FALSE, cats |-> {}, time |-> 2]}
Collections ==
    {[dim |-> 4, distance |-> m, type |-> "", bits |-> 0] : m \in {"Cosine", "Euclidean", "Dot"}}
    \cup {[dim |-> 0, distance |-> "Dot", type |-> "", bits |-> 0]}
    \cup {[dim |-> 4, distance |-> "Euclidean", type |-> q[1], bits |-> q[2]] :
            q \in {<<"sq", 0>>, <<"sq", 8>>, <<"pq", 2>>, <<"pq", 8>>, <<"rq", 0>>, <<"rq", 2>>}}

\* Columns of the index: the comment, the labels "comment" and "Comment", and one that
\* MongoDB alone understands.  MySQL finds the comment in the text of either label and
\* either label in the other's, PostgreSQL finds but labels in labels.
LowerCase == [c \in {"comment", "label", "Label", "odd"} |-> IF c = "Label" THEN "label" ELSE c]
Texts ==
    [server \in {"mysql", "postgres"} |->
       [c \in {"comment", "label", "Label", "odd"} |->
          {d \in {"comment", "label", "Label", "odd"} : LowerCase[d] = LowerCase[c]}
             \cup (IF server = "mysql" /\ c \in {"label", "Label"} THEN {"comment"} ELSE {})]]

\* Three calls on four cache stores side by side.
Cache == INSTANCE CacheStores WITH Names <- {"n"}, Collections <- {"np", "ic"},
        Subsets <- [np |-> {"s", "t"}, ic |-> {""}], Ids <- {"i", "j"},
        CategorySets <- {{""}, {"", "x"}}, MaxTime <- 2, MaxCalls <- 3, values <- s1,
        scores <- s2, points <- s3, forked <- s4, calls <- s5

\* Three calls on three data stores side by side; time 3 is in the future.
Data == INSTANCE DataStores WITH UserIds <- {"u"}, ItemIds <- {"i", "j"}, Types <- {"p"},
        Infos <- {"null", "a"}, CategorySets <- {{}, {"x"}}, MaxTime <- 3, Now <- 2, MaxCalls <- 3,
        users <- s1, items <- s2, feedback <- s3, split <- s4, made <- s5

\* Four calls on four vector stores side by side.
Vectors == INSTANCE VectorStores WITH Vectors <- TwoItems, Asks <- Collections, MaxTime <- 3,
        MaxCalls <- 4, holds <- s1, given <- s2, cutoffs <- s3, live <- s4, vcalls <- s5

slots == <<s1, s2, s3, s4, s5>>

Parts == {"lists", "index", "writer", "sparse", "redis", "paging", "backup", "cache", "data", "vectors"}

\* A component starts anywhere in its turn, and in one state in that of another.
MCInit ==
    /\ part \in Parts
    /\ ListInit /\ (part = "lists" \/ \A i \in ItemIds : item[i] = Absent)
    /\ IndexInit /\ (part = "index" \/ (driver = "sqlite" /\ wanted = {} /\ Stored = {}))
    /\ WriterInit /\ (part = "writer" \/ of = "items")
    /\ SparseInit /\ (part = "sparse" \/ \A i \in Indices : weight[i] = 0)
    /\ RedisInit /\ (part = "redis" \/ watched = {})
    /\ PagingInit /\ (part = "paging" \/ (store = "sql" /\ table = "items" /\ stored = {}))
    /\ BackupInit /\ (part = "backup" \/ (db = Empty /\ ~auto))
    /\ CASE part = "cache" -> Cache!Init
         [] part = "data" -> Data!DataInit
         [] part = "vectors" -> Vectors!StoreInit
         [] OTHER -> s1 = 0 /\ s2 = 0 /\ s3 = 0 /\ s4 = 0 /\ s5 = 0

SlotsNext ==
    \/ part = "cache" /\ Cache!Next
    \/ part = "data" /\ Data!DataNext
    \/ part = "vectors" /\ Vectors!StoreNext

MCNext ==
    /\ \/ part = "lists" /\ ListNext
       \/ part = "index" /\ IndexNext
       \/ part = "writer" /\ WriterNext
       \/ part = "sparse" /\ SparseNext
       \/ part = "redis" /\ RedisNext
       \/ part = "paging" /\ PagingNext
       \/ part = "backup" /\ BackupNext
       \/ SlotsNext
    /\ UNCHANGED part
    /\ (part # "lists" => UNCHANGED listVars)
    /\ (part # "index" => UNCHANGED indexVars)
    /\ (part # "writer" => UNCHANGED writerVars)
    /\ (part # "sparse" => UNCHANGED sparseVars)
    /\ (part # "redis" => UNCHANGED redisVars)
    /\ (part # "paging" => UNCHANGED pagingVars)
    /\ (part # "backup" => UNCHANGED backupVars)
    /\ (part \notin {"cache", "data", "vectors"} => UNCHANGED slots)

mcVars == <<listVars, indexVars, writerVars, sparseVars, redisVars, pagingVars, backupVars, part, slots>>

MCSpec == MCInit /\ [][MCNext]_mcVars

-----------------------------------------------------------------------------

\* SQL, Redis, MongoDB and the proxy list the same documents after the same calls
\* (SearchScores), but for a document written again while hidden, which SQL alone
\* may leave out; values and time series read the same from all (Get,
\* GetTimeSeriesPoints).
CacheStoresAgree ==
    part = "cache" => Cache!SearchesAgree /\ Cache!SQLShowsLeast /\ Cache!ReadsAgree

\* SQL, MongoDB and the proxy answer alike about users, items and feedback after the
\* same calls, feedback adds up alike, and none is left without its user and item.
DataStoresAgree ==
    part = "data" => Data!EntitiesAgree /\ Data!FeedbackAgrees /\ Data!FeedbackHasOwners

\* Milvus, Qdrant, Weaviate and the embedded store hold and answer the same, describe
\* a collection as it was asked for, so that it is reused, answer visible rows as
\* last written only, n neighbours if there are n, and the nearer of two rows with
\* the higher score (but for Euclidean collections of Qdrant).
VectorStoresAgree ==
    part = "vectors" => /\ Vectors!DescribedAsAsked
                        /\ Vectors!StoresAgree
                        /\ Vectors!AnswersAreCurrent
                        /\ Vectors!NeighboursAreComplete
                        /\ Vectors!HigherIsCloser
=============================================================================
