---------------------------- MODULE CacheStores ----------------------------
(***************************************************************************)
(* The cache store interface (storage/cache/database.go) and four of its   *)
(* implementations: the SQL stores, Redis, MongoDB, and the gRPC proxy     *)
(* through which servers and workers reach the store of the master.  The   *)
(* rest of the program is written against the interface alone and must not *)
(* be able to tell the stores apart.  All four are given the same calls,   *)
(* one after the other, and their answers are compared.                    *)
(*                                                                         *)
(* A score document is a row of a table keyed by collection, subset and    *)
(* id.  Categories are sets; the order of equal scores is not promised by  *)
(* any store, so a search answers a set of documents.  Subsets[c] are the  *)
(* subsets that the program uses in collection c (the empty one only where *)
(* it is the only one), CategorySets the categories it writes, which are   *)
(* never empty (withWildCard).  MaxCalls bounds the calls of a behaviour.  *)
(***************************************************************************)
EXTENDS Naturals, Sequences, FiniteSets, TLC

CONSTANTS Names, Collections, Subsets, Ids, CategorySets, MaxTime, MaxCalls

VARIABLES values, scores, points, forked, calls

vars == <<values, scores, points, forked, calls>>

Stores == {"sql", "redis", "mongo", "proxy"}
None == "none"
Times == 1 .. MaxTime
AnySubset == UNION {Subsets[c] : c \in Collections} \ {""}
Point == Names \X Times

(* What has come to differ: names <<n>>, document keys, the time series. *)
Points == <<"time", "series">>

(* An optional argument (a Go pointer) is a set of at most one element. *)
Option(S) == {{}} \cup {{x} : x \in S}

(* Partial functions, as the tables of a store. *)
Without(t, K) == [k \in DOMAIN t \ K |-> t[k]]

Init ==
  /\ values = [s \in Stores |-> <<>>]
  /\ scores = [s \in Stores |-> <<>>]
  /\ points = [s \in Stores |-> <<>>]
  /\ forked = {}
  /\ calls = 0

-----------------------------------------------------------------------------
(* Values: a call sets a sequence of <<name, value>> pairs. *)

FirstOf(vs, n) == vs[CHOOSE i \in DOMAIN vs :
                       vs[i][1] = n /\ \A j \in 1 .. i - 1 : vs[j][1] # n][2]
LastOf(vs, n) == vs[CHOOSE i \in DOMAIN vs :
                      vs[i][1] = n /\ \A j \in i + 1 .. Len(vs) : vs[j][1] # n][2]
NamesOf(vs) == {vs[i][1] : i \in DOMAIN vs}

(* One statement may not name a row twice: the first value of a name is kept. *)
SQLSet(t, vs) == [n \in NamesOf(vs) |-> FirstOf(vs, n)] @@ t
(* A pipeline of SET commands, carried out in order. *)
RedisSet(t, vs) == [n \in NamesOf(vs) |-> LastOf(vs, n)] @@ t
(* An ordered bulk write of upserts. *)
MongoSet(t, vs) == [n \in NamesOf(vs) |-> LastOf(vs, n)] @@ t
(* The client packs the values into a request, the server hands them on. *)
ProxySet(t, vs) == MongoSet(t, vs)

(* Get: a missing name is not an error, it has no value. *)
SQLGet(t, n) == IF n \in DOMAIN t THEN t[n] ELSE None
RedisGet(t, n) == IF n \in DOMAIN t THEN t[n] ELSE None
MongoGet(t, n) == IF n \in DOMAIN t THEN t[n] ELSE None
ProxyServerGet(t, n) == MongoGet(t, n)
ProxyGet(t, n) == ProxyServerGet(t, n)

SQLDelete(t, n) == Without(t, {n})
RedisDelete(t, n) == Without(t, {n})
MongoDelete(t, n) == Without(t, {n})
ProxyDelete(t, n) == MongoDelete(t, n)

-----------------------------------------------------------------------------
(* Score documents.  docs is a set of documents with different ids. *)

Document(d) == [hidden |-> d.hidden, cats |-> d.cats, ts |-> d.ts]
Rows(c, s, docs) ==
  [k \in {<<c, s, d.id>> : d \in docs} |-> Document(CHOOSE d \in docs : d.id = k[3])]

(* On conflict the SQL stores update score, categories and timestamp; the   *)
(* hidden flag of an existing row stays.                                    *)
SQLAddScores(t, c, s, docs) ==
  [k \in DOMAIN Rows(c, s, docs) |->
     [Rows(c, s, docs)[k] EXCEPT !.hidden = IF k \in DOMAIN t THEN t[k].hidden ELSE @]] @@ t
(* HSET writes every field. *)
RedisAddScores(t, c, s, docs) == Rows(c, s, docs) @@ t
MongoAddScores(t, c, s, docs) == IF docs = {} THEN t ELSE Rows(c, s, docs) @@ t
ProxyServerAddScores(t, c, s, docs) == MongoAddScores(t, c, s, docs)
ProxyAddScores(t, c, s, docs) == ProxyServerAddScores(t, c, s, docs)

Found(t, K) == {[id |-> k[3], cats |-> t[k].cats, ts |-> t[k].ts] : k \in K}

(* The visible documents of a subset that have all categories of the query. *)
SQLSearchScores(t, c, s, q) ==
  Found(t, {k \in DOMAIN t : k[1] = c /\ k[2] = s /\ ~t[k].hidden /\ q \subseteq t[k].cats})
(* An empty subset is no condition at all for Redis. *)
RedisSearchScores(t, c, s, q) ==
  Found(t, {k \in DOMAIN t : /\ k[1] = c
                             /\ ~t[k].hidden
                             /\ s # "" => k[2] = s
                             /\ q \subseteq t[k].cats})
MongoSearchScores(t, c, s, q) ==
  Found(t, {k \in DOMAIN t : /\ k[1] = c
                             /\ k[2] = s
                             /\ ~t[k].hidden
                             /\ q # {} => q \subseteq t[k].cats})
ProxyServerSearchScores(t, c, s, q) == MongoSearchScores(t, c, s, q)
ProxySearchScores(t, c, s, q) == ProxyServerSearchScores(t, c, s, q)

(* A patch has an optional hidden flag and optional categories. *)
Empty(p) == p.hidden = {} /\ p.cats = {}
Patched(r, p) ==
  [r EXCEPT !.hidden = IF p.hidden = {} THEN @ ELSE p.hidden = {TRUE},
            !.cats = IF p.cats = {} THEN @ ELSE UNION p.cats]
Matches(t, cs, sub, id) ==
  {k \in DOMAIN t : k[1] \in cs /\ k[3] = id /\ (sub = {} \/ k[2] \in sub)}
PatchAll(t, K, p) == [k \in DOMAIN t |-> IF k \in K THEN Patched(t[k], p) ELSE t[k]]

SQLUpdateScores(t, cs, sub, id, p) ==
  IF cs = {} \/ Empty(p) THEN t ELSE PatchAll(t, Matches(t, cs, sub, id), p)
\* Mutant of RedisUpdateScores: the subset is not asked for.
RedisUpdateScoresAnywhere(t, cs, sub, id, p) ==
  IF cs = {} \/ Empty(p) THEN t ELSE PatchAll(t, Matches(t, cs, {}, id), p)
RedisUpdateScores(t, cs, sub, id, p) ==
  IF cs = {} \/ Empty(p) THEN t ELSE PatchAll(t, Matches(t, cs, sub, id), p)
MongoUpdateScores(t, cs, sub, id, p) ==
  IF cs = {} \/ Empty(p) THEN t ELSE PatchAll(t, Matches(t, cs, sub, id), p)
(* A repeated field of a message does not tell an empty list from none. *)
ProxyServerUpdateScores(t, cs, sub, id, p) == MongoUpdateScores(t, cs, sub, id, p)
ProxyUpdateScores(t, cs, sub, id, p) ==
  ProxyServerUpdateScores(t, cs, sub, id, [p EXCEPT !.cats = @ \ {{}}])

(* ScoreCondition.Check: a deletion without any condition is refused. *)
Refused(cond) == cond.subset = {} /\ cond.id = {} /\ cond.before = {}
Doomed(t, cs, cond) ==
  {k \in DOMAIN t : /\ k[1] \in cs
                    /\ \A s \in cond.subset : k[2] = s
                    /\ \A i \in cond.id : k[3] = i
                    /\ \A b \in cond.before : t[k].ts < b}
SQLDeleteScores(t, cs, cond) == IF Refused(cond) THEN t ELSE Without(t, Doomed(t, cs, cond))
RedisDeleteScores(t, cs, cond) == IF Refused(cond) THEN t ELSE Without(t, Doomed(t, cs, cond))
MongoDeleteScores(t, cs, cond) == IF Refused(cond) THEN t ELSE Without(t, Doomed(t, cs, cond))
ProxyServerDeleteScores(t, cs, cond) == MongoDeleteScores(t, cs, cond)
ProxyDeleteScores(t, cs, cond) ==
  IF Refused(cond) THEN t ELSE ProxyServerDeleteScores(t, cs, cond)

-----------------------------------------------------------------------------
(* Time series: ps is a set of <<name, time>> with one value each. *)

SQLAddTimeSeriesPoints(t, ps, v) == IF ps = {} THEN t ELSE [p \in ps |-> v] @@ t
RedisAddTimeSeriesPoints(t, ps, v) == [p \in ps |-> v] @@ t
MongoAddTimeSeriesPoints(t, ps, v) == [p \in ps |-> v] @@ t
ProxyServerAddTimeSeriesPoints(t, ps, v) == MongoAddTimeSeriesPoints(t, ps, v)
ProxyAddTimeSeriesPoints(t, ps, v) == ProxyServerAddTimeSeriesPoints(t, ps, v)

(* The last value of each bucket of d time units, dated at its start. *)
InBucket(t, n, b, d) == {p \in DOMAIN t : p[1] = n /\ p[2] \div d = b}
Latest(P) == CHOOSE p \in P : \A o \in P : o[2] <= p[2]
SQLGetTimeSeriesPoints(t, n, d) ==
  {<<b * d, t[Latest(InBucket(t, n, b, d))]>> :
     b \in {p[2] \div d : p \in {x \in DOMAIN t : x[1] = n}}}
RedisGetTimeSeriesPoints(t, n, d) ==
  {<<p[2] - (p[2] % d), t[p]>> :
     p \in {x \in DOMAIN t : /\ x[1] = n
                             /\ \A o \in DOMAIN t :
                                  o[1] = n /\ o[2] > x[2] => o[2] \div d # x[2] \div d}}
MongoGetTimeSeriesPoints(t, n, d) ==
  {<<b * d, t[Latest(InBucket(t, n, b, d))]>> :
     b \in {p[2] \div d : p \in {x \in DOMAIN t : x[1] = n}}}
ProxyGetTimeSeriesPoints(t, n, d) == MongoGetTimeSeriesPoints(t, n, d)

-----------------------------------------------------------------------------
(* The calls, made to every store at once. *)

Tick == calls < MaxCalls /\ calls' = calls + 1

Set(vs) ==
  /\ Tick
  /\ values' = [sql |-> SQLSet(values["sql"], vs), redis |-> RedisSet(values["redis"], vs),
                mongo |-> MongoSet(values["mongo"], vs), proxy |-> ProxySet(values["proxy"], vs)]
  /\ forked' = (forked \ {<<n>> : n \in NamesOf(vs)})
               \cup {<<n>> : n \in {m \in NamesOf(vs) : FirstOf(vs, m) # LastOf(vs, m)}}
  /\ UNCHANGED <<scores, points>>

Delete(n) ==
  /\ Tick
  /\ values' = [sql |-> SQLDelete(values["sql"], n), redis |-> RedisDelete(values["redis"], n),
                mongo |-> MongoDelete(values["mongo"], n), proxy |-> ProxyDelete(values["proxy"], n)]
  /\ forked' = forked \ {<<n>>}
  /\ UNCHANGED <<scores, points>>

(* A document written over a hidden one forks its key. *)
AddScores(c, s, docs) ==
  LET K == {<<c, s, d.id>> : d \in docs}
      t == scores["redis"] IN
  /\ Tick
  /\ scores' = [sql |-> SQLAddScores(scores["sql"], c, s, docs),
                redis |-> RedisAddScores(scores["redis"], c, s, docs),
                mongo |-> MongoAddScores(scores["mongo"], c, s, docs),
                proxy |-> ProxyAddScores(scores["proxy"], c, s, docs)]
  /\ forked' = forked \cup {k \in K : k \in DOMAIN t /\ t[k].hidden}
  /\ UNCHANGED <<values, points>>

UpdateScores(cs, sub, id, p) ==
  /\ Tick
  /\ scores' = [sql |-> SQLUpdateScores(scores["sql"], cs, sub, id, p),
                redis |-> RedisUpdateScores(scores["redis"], cs, sub, id, p),
                mongo |-> MongoUpdateScores(scores["mongo"], cs, sub, id, p),
                proxy |-> ProxyUpdateScores(scores["proxy"], cs, sub, id, p)]
  /\ forked' = IF p.hidden = {} THEN forked
               ELSE forked \ Matches(scores["sql"], cs, sub, id)
  /\ UNCHANGED <<values, points>>

DeleteScores(cs, cond) ==
  /\ Tick
  /\ scores' = [sql |-> SQLDeleteScores(scores["sql"], cs, cond),
                redis |-> RedisDeleteScores(scores["redis"], cs, cond),
                mongo |-> MongoDeleteScores(scores["mongo"], cs, cond),
                proxy |-> ProxyDeleteScores(scores["proxy"], cs, cond)]
  /\ forked' = IF Refused(cond) THEN forked ELSE forked \ Doomed(scores["sql"], cs, cond)
  /\ UNCHANGED <<values, points>>

AddTimeSeriesPoints(ps, v) ==
  /\ Tick
  /\ points' = [sql |-> SQLAddTimeSeriesPoints(points["sql"], ps, v),
                redis |-> RedisAddTimeSeriesPoints(points["redis"], ps, v),
                mongo |-> MongoAddTimeSeriesPoints(points["mongo"], ps, v),
                proxy |-> ProxyAddTimeSeriesPoints(points["proxy"], ps, v)]
  /\ UNCHANGED <<values, scores, forked>>

(* The SQL stores and MongoDB empty the tables of values and documents;     *)
(* Redis deletes every key of the program, the time series too.  The proxy  *)
(* refuses, and the store behind it is purged by the master.                *)
SQLPurge == <<>>
RedisPurge == <<>>
MongoPurge == <<>>
Purge ==
  /\ Tick
  /\ values' = [sql |-> SQLPurge, redis |-> RedisPurge, mongo |-> MongoPurge, proxy |-> MongoPurge]
  /\ scores' = [sql |-> SQLPurge, redis |-> RedisPurge, mongo |-> MongoPurge, proxy |-> MongoPurge]
  /\ points' = [points EXCEPT !["redis"] = RedisPurge]
  /\ forked' = IF points["redis"] = points'["redis"] THEN forked \cap {Points} ELSE {Points}

Next ==
  \/ \E n \in Names, v1, v2 \in {"v", "w"} : Set(<< <<n, v1>> >>) \/ Set(<< <<n, v1>>, <<n, v2>> >>)
  \/ \E n \in Names : Delete(n)
  \/ \E c \in Collections : \E s \in Subsets[c], I \in SUBSET Ids, C \in CategorySets, ts \in Times :
       AddScores(c, s, {[id |-> i, hidden |-> FALSE, cats |-> C, ts |-> ts] : i \in I})
  \/ \E cs \in SUBSET Collections, sub \in Option(AnySubset), id \in Ids,
        h \in Option(BOOLEAN), C \in Option(CategorySets) :
       UpdateScores(cs, sub, id, [hidden |-> h, cats |-> C])
  \/ \E c \in Collections : \E sub \in Option(Subsets[c]), id \in Option(Ids),
        b \in Option(Times) :
       DeleteScores({c}, [subset |-> sub, id |-> id, before |-> b])
  \/ \E P \in {{}} \cup {{p} : p \in Point}, v \in {1, 2} : AddTimeSeriesPoints(P, v)
  \/ Purge

Spec == Init /\ [][Next]_vars

-----------------------------------------------------------------------------
SearchScores(c, s, q) ==
  [sql |-> SQLSearchScores(scores["sql"], c, s, q),
   redis |-> RedisSearchScores(scores["redis"], c, s, q),
   mongo |-> MongoSearchScores(scores["mongo"], c, s, q),
   proxy |-> ProxySearchScores(scores["proxy"], c, s, q)]

(* The documents with the ids of a subset that have forked are left out. *)
Settled(c, s, docs) == {d \in docs : <<c, s, d.id>> \notin forked}

(* The program cannot tell the stores apart by a search: after the same     *)
(* calls every store lists the same documents.  The one exception is a      *)
(* document written again while it is hidden, which the SQL stores keep     *)
(* hidden and the others show.                                              *)
SearchesAgree ==
  \A c \in Collections : \A s \in Subsets[c], q \in CategorySets \cup {{}}, b \in Stores :
    Settled(c, s, SearchScores(c, s, q)[b]) = Settled(c, s, SearchScores(c, s, q)["sql"])

(* A document the SQL stores show is shown by every store: where they       *)
(* differ, it is the SQL store that still hides.                            *)
SQLShowsLeast ==
  \A c \in Collections : \A s \in Subsets[c], b \in Stores :
    SearchScores(c, s, {})["sql"] \subseteq SearchScores(c, s, {})[b]

(* Values and time series read the same from every store, except a name     *)
(* set twice by one call and, after a purge, the points that only Redis     *)
(* forgets.                                                                 *)
ReadsAgree ==
  /\ \A n \in {m \in Names : <<m>> \notin forked} :
       /\ RedisGet(values["redis"], n) = SQLGet(values["sql"], n)
       /\ MongoGet(values["mongo"], n) = SQLGet(values["sql"], n)
       /\ ProxyGet(values["proxy"], n) = SQLGet(values["sql"], n)
  /\ \A n \in Names, d \in {1, MaxTime + 1} :
       LET P == SQLGetTimeSeriesPoints(points["sql"], n, d) IN
       /\ MongoGetTimeSeriesPoints(points["mongo"], n, d) = P
       /\ ProxyGetTimeSeriesPoints(points["proxy"], n, d) = P
       /\ Points \notin forked => RedisGetTimeSeriesPoints(points["redis"], n, d) = P

=============================================================================
