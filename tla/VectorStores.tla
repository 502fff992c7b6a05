---------------------------- MODULE VectorStores ----------------------------
(***************************************************************************)
(* The four vector stores (Milvus, Qdrant, Weaviate, xvec) and the gRPC    *)
(* proxy in front of them, given the same calls about one collection, the  *)
(* way the similarity writer of the master and the recommenders make them. *)
(*                                                                         *)
(* A dense vector is a point of a line, a sparse one (dimension 0) a set   *)
(* of indices coded in two bits.  Times count half milliseconds, since all *)
(* stores but Weaviate keep milliseconds.  A store holds no collection,    *)
(* <<>>, or one, <<c>>: what was asked for, the index and its size as the  *)
(* server keeps them, and the rows.  Vectors are the rows that callers     *)
(* write, [id, point, hidden, cats, time], Asks the collections they ask   *)
(* for, [dim, distance, type, bits].  MaxCalls bounds the calls.           *)
(***************************************************************************)
EXTENDS Integers, Sequences, FiniteSets, SequencesExt, FiniteSetsExt

CONSTANTS Vectors, Asks, MaxTime, MaxCalls

VARIABLES holds,    \* the collection of each store
          given,    \* the last vector written under each id
          cutoffs,  \* the times DeleteVectors was called with
          live,     \* the ids written at or after every cutoff since
          vcalls

storeVars == <<holds, given, cutoffs, live, vcalls>>

Drivers == {"milvus", "qdrant", "weaviate", "xvec"}
Millis(t) == t \div 2
Whole(t) == 2 * Millis(t)

StoreInit ==
  /\ holds = [d \in Drivers |-> <<>>]
  /\ given = {}
  /\ cutoffs = {} /\ live = {}
  /\ vcalls = 0

-----------------------------------------------------------------------------
(* Creating a collection.  The index the server is asked for: its kind and *)
(* its size, or nothing when the configuration is not supported.           *)

SparseRefused(a) == a.dim = 0 /\ (a.distance # "Dot" \/ a.type # "" \/ a.bits # 0)

milvusIndex(a) ==
  LET bits == IF a.bits = 0 THEN 8 ELSE a.bits
      m    == (a.dim * bits) \div 8
  IN CASE a.type = "" -> <<[kind |-> "hnsw", size |-> 0]>>
       [] a.type = "rq" -> IF a.bits = 0 THEN <<[kind |-> "rq", size |-> 0]>> ELSE <<>>
       [] a.type = "pq" -> IF /\ (a.dim * bits) % 8 = 0
                              /\ m > 0 /\ m <= a.dim /\ a.dim % m = 0
                           THEN <<[kind |-> "pq", size |-> m]>> ELSE <<>>
       [] a.type = "sq" -> IF a.bits \in {0, 8} THEN <<[kind |-> "sq", size |-> 0]>> ELSE <<>>

(* The size of a product quantisation is Qdrant's compression ratio, x4 the zero value. *)
qdrantQuantizationConfig(a) ==
  CASE a.type = "" -> <<[kind |-> "none", size |-> 0]>>
    [] a.type = "rq" -> IF a.bits \in {0, 1, 2, 4} THEN <<[kind |-> "turbo", size |-> a.bits]>> ELSE <<>>
    [] a.type = "sq" -> IF a.bits \in {0, 8} THEN <<[kind |-> "scalar", size |-> 8]>> ELSE <<>>
    [] a.type = "pq" -> IF a.bits = 0 THEN <<[kind |-> "product", size |-> 4]>>
                        ELSE IF a.bits \in {1, 2, 4, 8} THEN <<[kind |-> "product", size |-> 32 \div a.bits]>>
                        ELSE <<>>

(* The server's own number of bits for a rotational quantisation is 8. *)
weaviateApplyQuantization(a) ==
  CASE a.type = "" -> <<[kind |-> "none", size |-> 0]>>
    [] a.type \in {"sq", "pq"} -> IF a.bits = 0 THEN <<[kind |-> a.type, size |-> 0]>> ELSE <<>>
    [] a.type = "rq" -> <<[kind |-> "rq", size |-> IF a.bits = 0 THEN 8 ELSE a.bits]>>

collectionSchema(a) ==
  IF a.type # "" \/ (a.dim = 0 /\ a.distance # "Dot") THEN <<>>
  ELSE <<[kind |-> IF a.dim = 0 THEN "flat" ELSE "hnsw", size |-> 0]>>

Empty(a, i) == <<[asked |-> a, index |-> i, rows |-> {}]>>
NoIndex == [kind |-> "missing", size |-> 0]

(* Milvus has the collection before its index is known to be possible, or made. *)
MilvusAddCollection(c, a, broken) ==
  IF SparseRefused(a) \/ c # <<>> THEN c
  ELSE LET i == IF a.dim = 0 THEN <<[kind |-> "sparse", size |-> 0]>> ELSE milvusIndex(a)
       IN Empty(a, IF i = <<>> \/ broken THEN NoIndex ELSE i[1])
QdrantAddCollection(c, a) ==
  IF SparseRefused(a) \/ c # <<>> \/ qdrantQuantizationConfig(a) = <<>> THEN c
  ELSE Empty(a, IF a.dim = 0 THEN [kind |-> "sparse", size |-> 0] ELSE qdrantQuantizationConfig(a)[1])
WeaviateAddCollection(c, a) ==
  IF c # <<>> \/ weaviateApplyQuantization(a) = <<>> THEN c ELSE Empty(a, weaviateApplyQuantization(a)[1])
XvecAddCollection(c, a) ==
  IF c # <<>> \/ collectionSchema(a) = <<>> THEN c ELSE Empty(a, collectionSchema(a)[1])

(* The proxy hands the call on: the enumeration of distances and the two   *)
(* fields of the configuration survive the way there and back.             *)
AddCollection(a, broken) ==
  /\ holds' = [d \in Drivers |->
       CASE d = "milvus" -> MilvusAddCollection(holds[d], a, broken)
         [] d = "qdrant" -> QdrantAddCollection(holds[d], a)
         [] d = "weaviate" -> WeaviateAddCollection(holds[d], a)
         [] d = "xvec" -> XvecAddCollection(holds[d], a)]
  /\ UNCHANGED <<given, cutoffs, live>>

(* Milvus and Weaviate look first whether there is one, Qdrant lets the    *)
(* server say so, xvec takes the handle out of its map and destroys it:    *)
(* each is an error when there is none, and none is left after.            *)
MilvusDeleteCollection(c) == <<>>
QdrantDeleteCollection(c) == <<>>
WeaviateDeleteCollection(c) == <<>>
XvecDeleteCollection(c) == <<>>
Purge ==
  /\ holds' = [d \in Drivers |->
       CASE d = "milvus" -> MilvusDeleteCollection(holds[d])
         [] d = "qdrant" -> QdrantDeleteCollection(holds[d])
         [] d = "weaviate" -> WeaviateDeleteCollection(holds[d])
         [] d = "xvec" -> XvecDeleteCollection(holds[d])]
  /\ given' = {} /\ cutoffs' = {} /\ live' = {}

-----------------------------------------------------------------------------
(* DescribeCollection: the request as it can be read off the server.  Only *)
(* "missing" has no description: Milvus answers with an error.             *)

MilvusDescribe(a, i) ==
  [a EXCEPT !.type = CASE i.kind \in {"rq", "sq", "pq"} -> i.kind [] OTHER -> "",
            !.bits = CASE i.kind = "sq" -> 8
                       [] i.kind = "pq" -> (i.size * 8) \div a.dim
                       [] OTHER -> 0]
qdrantVectorConfig(i) ==
  CASE i.kind = "turbo" -> [type |-> "rq", bits |-> i.size]
    [] i.kind = "scalar" -> [type |-> "sq", bits |-> 8]
    [] i.kind = "product" -> [type |-> "pq", bits |-> 32 \div i.size]
    [] OTHER -> [type |-> "", bits |-> 0]
QdrantDescribe(a, i) ==
  [a EXCEPT !.type = qdrantVectorConfig(i).type, !.bits = qdrantVectorConfig(i).bits]
(* The dimension of a Weaviate class is not kept: it is described as 0. *)
weaviateVectorConfig(i) ==
  [type |-> IF i.kind = "none" THEN "" ELSE i.kind, bits |-> IF i.kind = "rq" THEN i.size ELSE 0]
WeaviateDescribe(a, i) ==
  [a EXCEPT !.dim = 0, !.type = weaviateVectorConfig(i).type, !.bits = weaviateVectorConfig(i).bits]
XvecDescribe(a, i) == [a EXCEPT !.type = "", !.bits = 0]

DescribeCollection(d) ==
  LET c == holds[d][1]
  IN CASE d = "milvus" -> MilvusDescribe(c.asked, c.index)
       [] d = "qdrant" -> QdrantDescribe(c.asked, c.index)
       [] d = "weaviate" -> WeaviateDescribe(c.asked, c.index)
       [] d = "xvec" -> XvecDescribe(c.asked, c.index)

-----------------------------------------------------------------------------
(* Rows.  An upsert replaces the row of the same id.                       *)

Upsert(rows, v) == {r \in rows : r.id # v.id} \cup {v}
MilvusAddVectors(rows, v) == Upsert(rows, [v EXCEPT !.time = Whole(v.time)])
QdrantAddVectors(rows, v) == Upsert(rows, [v EXCEPT !.time = Whole(v.time)])
WeaviateAddVectors(rows, v) == Upsert(rows, v)
XvecAddVectors(rows, v) == Upsert(rows, [v EXCEPT !.time = Whole(v.time)])

Serves(d) == holds[d] # <<>> /\ holds[d][1].index # NoIndex
(* Weaviate refuses sparse vectors one by one, in an answer nobody reads. *)
Takes(d) == Serves(d) /\ (d = "weaviate" => holds[d][1].asked.dim # 0)
Rewritten(New(_, _)) ==
  [d \in Drivers |-> IF Takes(d) THEN <<[holds[d][1] EXCEPT !.rows = New(d, @)]>> ELSE holds[d]]

AddVectors(v) ==
  /\ holds' = Rewritten(LAMBDA d, rows :
       CASE d = "milvus" -> MilvusAddVectors(rows, v) [] d = "qdrant" -> QdrantAddVectors(rows, v)
         [] d = "weaviate" -> WeaviateAddVectors(rows, v) [] d = "xvec" -> XvecAddVectors(rows, v))
  /\ given' = Upsert(given, v) /\ live' = live \cup {v.id}
  /\ UNCHANGED cutoffs

MilvusDeleteVectors(rows, t) == {r \in rows : ~(Millis(r.time) < Millis(t))}
\* Mutant of QdrantDeleteVectors: a row of the cutoff's own millisecond goes too.
QdrantDeleteVectorsUpTo(rows, t) == {r \in rows : ~(Millis(r.time) <= Millis(t))}
QdrantDeleteVectors(rows, t) == {r \in rows : ~(Millis(r.time) < Millis(t))}
WeaviateDeleteVectors(rows, t) == {r \in rows : ~(r.time < t)}
XvecDeleteVectors(rows, t) == {r \in rows : ~(Millis(r.time) < Millis(t))}

Since(t) == {v.id : v \in {w \in given : w.time >= t}}
DeleteVectors(t) ==
  /\ holds' = Rewritten(LAMBDA d, rows :
       CASE d = "milvus" -> MilvusDeleteVectors(rows, t) [] d = "qdrant" -> QdrantDeleteVectors(rows, t)
         [] d = "weaviate" -> WeaviateDeleteVectors(rows, t) [] d = "xvec" -> XvecDeleteVectors(rows, t))
  /\ cutoffs' = cutoffs \cup {t} /\ live' = live \cap Since(t)
  /\ UNCHANGED given

-----------------------------------------------------------------------------
(* Queries.                                                                *)

Apart(p, q) == IF p < q THEN q - p ELSE p - q
Shared(p, q) == Cardinality({b \in {1, 2} : (p \div b) % 2 = 1 /\ (q \div b) % 2 = 1})
Dot(a, p, q) == IF a.dim = 0 THEN Shared(p, q) ELSE p * q
(* How near two vectors are, larger being nearer; the servers sort by it. *)
Nearness(a, p, q) == IF a.distance = "Dot" THEN Dot(a, p, q) ELSE 0 - Apart(p, q)
(* The number that comes with a row: a similarity or a distance. *)
Reported(d, a, p, q) ==
  CASE a.distance = "Dot" -> IF d = "weaviate" THEN 0 - Dot(a, p, q) ELSE Dot(a, p, q)
    [] a.distance = "Euclidean" -> IF d = "weaviate" THEN Apart(p, q) * Apart(p, q) ELSE Apart(p, q)
    [] a.distance = "Cosine" -> IF d \in {"milvus", "qdrant"} THEN 0 - Apart(p, q) ELSE Apart(p, q)

(* Every category is asked for, hidden rows are left out; a row that       *)
(* shares no index with a sparse query is not an answer.                   *)
Filtered(c, q, cats) ==
  {r \in c.rows : ~r.hidden /\ cats \subseteq r.cats /\ (c.asked.dim = 0 => Shared(r.point, q) > 0)}
Nearer(a, q, r, s) ==
  \/ Nearness(a, r.point, q) > Nearness(a, s.point, q)
  \/ Nearness(a, r.point, q) = Nearness(a, s.point, q) /\ r.id < s.id
Found(d, q, cats, topK) ==
  LET c    == holds[d][1]
      rows == SetToSortSeq(Filtered(c, q, cats), LAMBDA r, s : Nearer(c.asked, q, r, s))
  IN IF topK <= 0 THEN <<>>
     ELSE [i \in 1 .. Min({topK, Len(rows)}) |->
             [id |-> rows[i].id, cats |-> rows[i].cats, score |-> Reported(d, c.asked, rows[i].point, q)]]

Negated(f) == [i \in DOMAIN f |-> [f[i] EXCEPT !.score = 0 - @]]
MilvusQueryVectors(q, cats, k) ==
  LET f == Found("milvus", q, cats, k) IN IF holds["milvus"][1].asked.distance = "Euclidean" THEN Negated(f) ELSE f
QdrantQueryVectors(q, cats, k) == Found("qdrant", q, cats, k)
WeaviateQueryVectors(q, cats, k) == Negated(Found("weaviate", q, cats, k))
XvecQueryVectors(q, cats, k) ==
  LET f == Found("xvec", q, cats, k) IN IF holds["xvec"][1].asked.distance = "Dot" THEN f ELSE Negated(f)
QueryVectors(d, q, cats, k) ==
  CASE d = "milvus" -> MilvusQueryVectors(q, cats, k) [] d = "qdrant" -> QdrantQueryVectors(q, cats, k)
    [] d = "weaviate" -> WeaviateQueryVectors(q, cats, k) [] d = "xvec" -> XvecQueryVectors(q, cats, k)

(* The rows of some ids, in the order of the ids, each once. *)
orderVectors(ids, rows) ==
  LET once == SelectSeq([n \in DOMAIN ids |-> <<n, ids[n]>>],
                        LAMBDA x : \A m \in 1 .. x[1] - 1 : ids[m] # x[2])
      here == SelectSeq(once, LAMBDA x : \E r \in rows : r.id = x[2])
  IN [n \in DOMAIN here |-> CHOOSE r \in rows : r.id = here[n][2]]
(* The servers answer an id that was asked for twice once, in an order of  *)
(* their own; xvec answers position by position, with gaps.                *)
MilvusGetVectors(ids) == orderVectors(ids, {r \in holds["milvus"][1].rows : r.id \in Range(ids)})
QdrantGetVectors(ids) == orderVectors(ids, {r \in holds["qdrant"][1].rows : r.id \in Range(ids)})
WeaviateGetVectors(ids) == orderVectors(ids, {r \in holds["weaviate"][1].rows : r.id \in Range(ids)})
XvecGetVectors(ids) == orderVectors(ids, {r \in holds["xvec"][1].rows : \E n \in DOMAIN ids : r.id = ids[n]})
GetVectors(d, ids) ==
  CASE d = "milvus" -> MilvusGetVectors(ids) [] d = "qdrant" -> QdrantGetVectors(ids)
    [] d = "weaviate" -> WeaviateGetVectors(ids) [] d = "xvec" -> XvecGetVectors(ids)

(* Through the proxy: the distance travels as a code, a missing collection *)
(* as a status code, every other failure as a failure.                     *)
distanceToProtoDistance(x) == CASE x = "Cosine" -> 1 [] x = "Euclidean" -> 2 [] x = "Dot" -> 3
protoDistanceToDistance(x) == CASE x = 1 -> "Cosine" [] x = 2 -> "Euclidean" [] x = 3 -> "Dot"
Describe(d) ==
  CASE holds[d] = <<>> -> [status |-> "not found"]
    [] holds[d] # <<>> /\ ~Serves(d) -> [status |-> "failed"]
    [] Serves(d) -> [status |-> "ok", info |-> DescribeCollection(d)]
ProxyServerDescribe(d) ==
  IF Describe(d).status # "ok" THEN Describe(d)
  ELSE [status |-> "ok", info |-> [Describe(d).info EXCEPT !.distance = distanceToProtoDistance(@)]]
ProxyClientDescribe(d) ==
  IF ProxyServerDescribe(d).status # "ok" THEN ProxyServerDescribe(d)
  ELSE [status |-> "ok", info |-> [ProxyServerDescribe(d).info EXCEPT !.distance = protoDistanceToDistance(@)]]
ProxyServerQuery(d, q, cats, k) ==
  LET f == QueryVectors(d, q, cats, k)
  IN [i \in DOMAIN f |-> [vector |-> [id |-> f[i].id, cats |-> f[i].cats], score |-> f[i].score]]
ProxyClientQuery(d, q, cats, k) ==
  LET f == ProxyServerQuery(d, q, cats, k)
  IN [i \in DOMAIN f |-> [id |-> f[i].vector.id, cats |-> f[i].vector.cats, score |-> f[i].score]]

(* QueryItemToItem and QueryUserToUser: one row more is asked for, since   *)
(* the vector itself is among its own neighbours.                          *)
Neighbours(d, id, n) ==
  LET own == GetVectors(d, <<id>>)
  IN IF own = <<>> THEN <<>>
     ELSE LET f == SelectSeq(QueryVectors(d, own[1].point, {}, n + 1), LAMBDA x : x.id # id)
          IN SubSeq(f, 1, Min({n, Len(f)}))

-----------------------------------------------------------------------------
StoreNext ==
  /\ vcalls < MaxCalls
  /\ vcalls' = vcalls + 1
  /\ \/ \E a \in Asks, broken \in BOOLEAN : AddCollection(a, broken)
     \/ Purge
     \/ \E v \in Vectors : AddVectors(v)
     \/ \E t \in 0 .. MaxTime : DeleteVectors(t)

StoreSpec == StoreInit /\ [][StoreNext]_storeVars

-----------------------------------------------------------------------------
Points == {v.point : v \in Vectors}
AllCats == UNION {v.cats : v \in Vectors}
IdsOf(d) == {r.id : r \in holds[d][1].rows}
Same(d, e) == holds[d][1].asked = holds[e][1].asked

(***************************************************************************)
(* A collection whose number of bits was given is described as it was      *)
(* asked for, so that the similarity writer, which compares the two,       *)
(* reuses it instead of deleting everybody's vectors.  Not compared: the   *)
(* dimension that Weaviate does not keep, and the bits that were left to   *)
(* the store.                                                              *)
(***************************************************************************)
DescribedAsAsked ==
  \A d \in Drivers : Serves(d) =>
    LET a == holds[d][1].asked
        i == DescribeCollection(d)
    IN /\ i.distance = a.distance /\ i.type = a.type
       /\ d # "weaviate" => i.dim = a.dim
       /\ (a.bits # 0 /\ a.type # "") => i.bits = a.bits

(***************************************************************************)
(* Two stores that accepted the same collection hold the same vectors, but *)
(* for those older than a cutoff of their own millisecond, and when they   *)
(* do they answer every query with the same items in the same order, to a  *)
(* client of the proxy too, which is told when there is no collection.     *)
(***************************************************************************)
StoresAgree ==
  LET Taking == {d \in Drivers : Takes(d)}
      Queries == Points \X (SUBSET AllCats) \X (0 .. 2)
      IdsIn(f) == [i \in 1 .. Len(f) |-> f[i].id]
      direct == [d \in Taking |-> [q \in Queries |-> IdsIn(QueryVectors(d, q[1], q[2], q[3]))]]
      proxied == [d \in Taking |-> [q \in Queries |-> IdsIn(ProxyClientQuery(d, q[1], q[2], q[3]))]]
  IN /\ \A d \in Drivers : ProxyClientDescribe(d) = Describe(d)
     /\ \A d, e \in Taking : Same(d, e) =>
          /\ \A v \in given : (v.id \in IdsOf(d)) # (v.id \in IdsOf(e)) =>
               v.id \notin live /\ Millis(v.time) \in {Millis(t) : t \in cutoffs}
          /\ IdsOf(d) = IdsOf(e) => direct[d] = proxied[e]

(***************************************************************************)
(* A client that reads the vectors of some ids gets each stored one once,  *)
(* in its own order, and a vector is never its own neighbour, nor does it  *)
(* cost one of the n neighbours: n visible others are found if there are n.*)
(***************************************************************************)
NeighboursAreComplete ==
  \A d \in Drivers : (Takes(d) /\ holds[d][1].asked.dim # 0) =>
    /\ \A i, j \in IdsOf(d) : i # j => [n \in 1 .. 2 |-> GetVectors(d, <<j, i, j>>)[n].id] = <<j, i>>
    /\ \A i, j \in IdsOf(d) : Len(GetVectors(d, <<i, j, i>>)) = Cardinality({i, j})
    /\ \A i \in IdsOf(d), n \in 1 .. 2 :
         LET others == {r \in holds[d][1].rows : r.id # i /\ ~r.hidden}
         IN /\ Len(Neighbours(d, i, n)) = Min({n, Cardinality(others)})
            /\ \A x \in Range(Neighbours(d, i, n)) : \E r \in others : r.id = x.id

(***************************************************************************)
(* An answer holds only visible rows with every category asked for, and a  *)
(* row that was rewritten answers with what was written last.              *)
(***************************************************************************)
AnswersAreCurrent ==
  \A d \in Drivers : Takes(d) =>
    \A q \in Points, cats \in SUBSET AllCats :
      \A x \in Range(QueryVectors(d, q, cats, 2)) :
        \E v \in given : v.id = x.id /\ ~v.hidden /\ v.cats = x.cats /\ cats \subseteq v.cats

(***************************************************************************)
(* "Higher scores indicate greater similarity" (database.go): of two rows  *)
(* the nearer one has the higher score.  Qdrant reports the distance of a  *)
(* Euclidean collection as it is and is excepted there.                    *)
(***************************************************************************)
HigherIsCloser ==
  \A d \in Drivers : Takes(d) /\ ~(d = "qdrant" /\ holds[d][1].asked.distance = "Euclidean") =>
    \A q \in Points :
      LET a == holds[d][1].asked
          f == QueryVectors(d, q, {}, 2)
          P(x) == (CHOOSE r \in holds[d][1].rows : r.id = x.id).point
      IN \A i, j \in DOMAIN f : Nearness(a, P(f[i]), q) > Nearness(a, P(f[j]), q) => f[i].score > f[j].score
=============================================================================
