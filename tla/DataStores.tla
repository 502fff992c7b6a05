----------------------------- MODULE DataStores -----------------------------
(***************************************************************************)
(* The data store interface (storage/data/database.go) and three of its    *)
(* implementations: the SQL stores, MongoDB, and the gRPC proxy through    *)
(* which servers and workers reach the store of the master (here a SQL     *)
(* store).  All are given the same calls, one after the other, and their   *)
(* answers are compared.                                                   *)
(*                                                                         *)
(* A table is a partial function: users by id, items by id, feedback by    *)
(* <<type, user, item>>.  Labels and comments are one value, info; the     *)
(* write time UpdateAt, which no caller compares, is left out.  Times are  *)
(* 0 .. MaxTime: 0 is the zero time of an item that only feedback made.    *)
(* Now is the present; feedback may be dated later.  split holds the keys  *)
(* on which the stores are known to differ.  MaxCalls bounds the calls.    *)
(***************************************************************************)
EXTENDS Naturals, Sequences, FiniteSets, TLC, SequencesExt

CONSTANTS UserIds, ItemIds, Types, Infos, CategorySets, MaxTime, Now, MaxCalls

VARIABLES users, items, feedback, split, made

dataVars == <<users, items, feedback, split, made>>

Servers == {"sql", "mongo", "proxy"}
NoInfo == "null"
Moments == 1 .. MaxTime

(* An optional argument (a Go pointer) is a set of at most one element. *)
Maybe(S) == {{}} \cup {{x} : x \in S}
The(o) == CHOOSE x \in o : TRUE
Drop(t, K) == [k \in DOMAIN t \ K |-> t[k]]
Rows(t, K) == {<<k, t[k]>> : k \in K}

DataInit ==
  /\ users = [s \in Servers |-> <<>>]
  /\ items = [s \in Servers |-> <<>>]
  /\ feedback = [s \in Servers |-> <<>>]
  /\ split = {}
  /\ made = 0

-----------------------------------------------------------------------------
(* A batch is a sequence of <<key, row>>.  One SQL statement may not name a *)
(* row twice, so the first of a key is kept; MongoDB carries out its        *)
(* upserts in order.                                                        *)
FirstPerKey(rows) ==
  FoldLeft(LAMBDA acc, e : IF \E i \in DOMAIN acc : acc[i][1] = e[1] THEN acc ELSE Append(acc, e),
           <<>>, rows)
Upserts(t, rows) == FoldLeft(LAMBDA acc, e : (e[1] :> e[2]) @@ acc, t, rows)
KeysOf(rows) == {rows[i][1] : i \in DOMAIN rows}

SQLBatchInsertUsers(t, rows) == Upserts(t, FirstPerKey(rows))
MongoBatchInsertUsers(t, rows) == Upserts(t, rows)
ProxyServerBatchInsertUsers(t, rows) == SQLBatchInsertUsers(t, rows)
ProxyBatchInsertUsers(t, rows) == ProxyServerBatchInsertUsers(t, rows)

SQLBatchInsertItems(t, rows) == Upserts(t, FirstPerKey(rows))
MongoBatchInsertItems(t, rows) == Upserts(t, rows)
ProxyServerBatchInsertItems(t, rows) == SQLBatchInsertItems(t, rows)
ProxyBatchInsertItems(t, rows) == ProxyServerBatchInsertItems(t, rows)

(* A patch changes the fields that it has, of a row that exists. *)
With(t, id, r) == IF id \in DOMAIN t THEN [t EXCEPT ![id] = r] ELSE t
SQLModifyUser(t, id, info) == IF info = {} THEN t ELSE With(t, id, The(info))
MongoModifyUser(t, id, info) == IF info = {} THEN t ELSE With(t, id, The(info))
ProxyServerModifyUser(t, id, info) == SQLModifyUser(t, id, info)
ProxyModifyUser(t, id, info) == ProxyServerModifyUser(t, id, info)

EmptyPatch(p) == p.hidden = {} /\ p.cats = {} /\ p.ts = {} /\ p.info = {}
PatchItem(r, p) ==
  [hidden |-> IF p.hidden = {} THEN r.hidden ELSE The(p.hidden),
   cats |-> IF p.cats = {} THEN r.cats ELSE The(p.cats),
   ts |-> IF p.ts = {} THEN r.ts ELSE The(p.ts),
   info |-> IF p.info = {} THEN r.info ELSE The(p.info)]
SQLModifyItem(t, id, p) ==
  IF EmptyPatch(p) \/ id \notin DOMAIN t THEN t ELSE With(t, id, PatchItem(t[id], p))
MongoModifyItem(t, id, p) ==
  IF EmptyPatch(p) \/ id \notin DOMAIN t THEN t ELSE With(t, id, PatchItem(t[id], p))
(* A repeated field does not tell an empty list of categories from none. *)
ProxyServerModifyItem(t, id, p) == SQLModifyItem(t, id, p)
ProxyModifyItem(t, id, p) == ProxyServerModifyItem(t, id, [p EXCEPT !.cats = @ \ {{}}])

(* A user or an item is deleted first, and then its feedback. *)
OfUser(t, u) == {k \in DOMAIN t : k[2] = u}
OfItem(t, i) == {k \in DOMAIN t : k[3] = i}
SQLDeleteUser(u, f, id) == <<Drop(u, {id}), Drop(f, OfUser(f, id))>>
MongoDeleteUser(u, f, id) == <<Drop(u, {id}), Drop(f, OfUser(f, id))>>
ProxyDeleteUser(u, f, id) == SQLDeleteUser(u, f, id)
SQLDeleteItem(t, f, id) == <<Drop(t, {id}), Drop(f, OfItem(f, id))>>
\* Mutant of MongoDeleteItem: the feedback is looked up by user.
MongoDeleteItemOnly(t, f, id) == <<Drop(t, {id}), Drop(f, OfUser(f, id))>>
MongoDeleteItem(t, f, id) == <<Drop(t, {id}), Drop(f, OfItem(f, id))>>
ProxyDeleteItem(t, f, id) == SQLDeleteItem(t, f, id)

(* Feedback types: an empty list means all of them. *)
OfTypes(t, T) == {k \in DOMAIN t : T # {} => k[1] \in T}
SQLDeleteUserItemFeedback(t, u, i, T) == Drop(t, OfUser(t, u) \cap OfItem(t, i) \cap OfTypes(t, T))
MongoDeleteUserItemFeedback(t, u, i, T) == Drop(t, OfUser(t, u) \cap OfItem(t, i) \cap OfTypes(t, T))
ProxyServerDeleteUserItemFeedback(t, u, i, T) == SQLDeleteUserItemFeedback(t, u, i, T)
ProxyDeleteUserItemFeedback(t, u, i, T) == ProxyServerDeleteUserItemFeedback(t, u, i, T)

SQLPurge == <<>>
MongoPurge == <<>>

-----------------------------------------------------------------------------
(* BatchInsertFeedback.  rows is a sequence of <<key, [value, ts]>>, flags  *)
(* says whether unknown users and items are inserted and whether feedback   *)
(* that exists is overwritten.  Feedback of a user or an item that is then  *)
(* still unknown is skipped.                                                *)
NewItem == [hidden |-> FALSE, cats |-> {}, ts |-> 0, info |-> NoInfo]
Inserted(t, ids, r, flag) == IF flag THEN t @@ [id \in ids |-> r] ELSE t
Eligible(rows, u, t) == SelectSeq(rows, LAMBDA e : e[1][2] \in DOMAIN u /\ e[1][3] \in DOMAIN t)

Min2(a, b) == IF a < b THEN a ELSE b
Max2(a, b) == IF a < b THEN b ELSE a
Fresh(r) == [value |-> r.value, ts |-> r.ts, updated |-> r.ts]
Merged(old, r) ==
  [value |-> old.value + r.value, ts |-> Min2(old.ts, r.ts), updated |-> Max2(old.updated, r.ts)]
Feed(t, e, overwrite) ==
  (e[1] :> IF e[1] \in DOMAIN t /\ ~overwrite THEN Merged(t[e[1]], e[2]) ELSE Fresh(e[2])) @@ t
Fed(t, rows, overwrite) == FoldLeft(LAMBDA acc, e : Feed(acc, e, overwrite), t, rows)

SQLBatchInsertFeedback(u, t, f, rows, flags) ==
  LET nu == Inserted(u, {k[2] : k \in KeysOf(rows)}, NoInfo, flags.insertUser)
      nt == Inserted(t, {k[3] : k \in KeysOf(rows)}, NewItem, flags.insertItem)
  IN <<nu, nt, Fed(f, FirstPerKey(Eligible(rows, nu, nt)), flags.overwrite)>>
MongoBatchInsertFeedback(u, t, f, rows, flags) ==
  LET nu == Inserted(u, {k[2] : k \in KeysOf(rows)}, NoInfo, flags.insertUser)
      nt == Inserted(t, {k[3] : k \in KeysOf(rows)}, NewItem, flags.insertItem)
  IN <<nu, nt, Fed(f, Eligible(rows, nu, nt), flags.overwrite)>>
ProxyServerBatchInsertFeedback(u, t, f, rows, flags) == SQLBatchInsertFeedback(u, t, f, rows, flags)
ProxyBatchInsertFeedback(u, t, f, rows, flags) == ProxyServerBatchInsertFeedback(u, t, f, rows, flags)

-----------------------------------------------------------------------------
(* Reading items. *)

SQLGetItem(t, id) == Rows(t, DOMAIN t \cap {id})
MongoGetItem(t, id) == Rows(t, DOMAIN t \cap {id})
(* Not found travels as an empty response. *)
ProxyServerGetItem(t, id) == SQLGetItem(t, id)
ProxyGetItem(t, id) == ProxyServerGetItem(t, id)

Chosen(t, q) == {k \in DOMAIN t : /\ q.cats \subseteq t[k].cats
                                  /\ q.skipHidden => ~t[k].hidden
                                  /\ \A a \in q.after : t[k].ts > a}
SQLBatchGetItems(t, ids, q) == Rows(t, Chosen(t, q) \cap ids)
MongoBatchGetItems(t, ids, q) == Rows(t, Chosen(t, q) \cap ids)
ProxyServerBatchGetItems(t, ids, q) == SQLBatchGetItems(t, ids, q)
(* No options are sent when none is set. *)
ProxyBatchGetItems(t, ids, q) == ProxyServerBatchGetItems(t, ids, q)

(* The items that may be among the n latest, those of equal age included. *)
TopBy(t, K, n) == {k \in K : Cardinality({j \in K : t[j].ts > t[k].ts}) < n}
SQLGetLatestItems(t, n, q) == Rows(t, TopBy(t, Chosen(t, q), n))
MongoGetLatestItems(t, n, q) == Rows(t, TopBy(t, Chosen(t, q), n))
ProxyServerGetLatestItems(t, n, q) == SQLGetLatestItems(t, n, q)
ProxyGetLatestItems(t, n, q) == ProxyServerGetLatestItems(t, n, q)

(* The time limit of a stream of items is inclusive in the SQL stores,      *)
(* exclusive in MongoDB, and not sent by the proxy.                         *)
SQLGetItemStream(t, limit) == Rows(t, {k \in DOMAIN t : \A b \in limit : t[k].ts >= b})
MongoGetItemStream(t, limit) == Rows(t, {k \in DOMAIN t : \A b \in limit : t[k].ts > b})
ProxyServerGetItemStream(t, limit) == SQLGetItemStream(t, limit)
ProxyGetItemStream(t, limit) == ProxyServerGetItemStream(t, {})

SQLGetUser(t, id) == Rows(t, DOMAIN t \cap {id})
MongoGetUser(t, id) == Rows(t, DOMAIN t \cap {id})
ProxyServerGetUser(t, id) == SQLGetUser(t, id)
ProxyGetUser(t, id) == ProxyServerGetUser(t, id)
SQLGetUserStream(t) == Rows(t, DOMAIN t)
MongoGetUserStream(t) == Rows(t, DOMAIN t)
ProxyServerGetUserStream(t) == SQLGetUserStream(t)
ProxyGetUserStream(t) == ProxyServerGetUserStream(t)

-----------------------------------------------------------------------------
(* Reading feedback.  A feedback type expression is a type with an optional *)
(* comparison <<operator, bound>> of the value.                             *)
Compare(v, c) == CASE c[1] = "<" -> v < c[2] [] c[1] = "<=" -> v <= c[2]
                   [] c[1] = ">" -> v > c[2] [] c[1] = ">=" -> v >= c[2]
Match(e, k, r) == k[1] = e.type /\ \A c \in e.than : Compare(r.value, c)
FeedbackTypeExpressionToSQL(e, k, r) == Match(e, k, r)
FeedbackTypeExpressionToMongo(e, k, r) == k[1] = e.type /\ \A c \in e.than : Compare(r.value, c)
(* The expression crosses the wire field by field. *)
ToPB(e) == <<e.type, e.than>>
FromPB(m) == [type |-> m[1], than |-> m[2]]

SQLMatches(t, E) == {k \in DOMAIN t : E # {} => \E e \in E : FeedbackTypeExpressionToSQL(e, k, t[k])}
MongoMatches(t, E) == {k \in DOMAIN t : E # {} => \E e \in E : FeedbackTypeExpressionToMongo(e, k, t[k])}
Until(t, end) == {k \in DOMAIN t : \A b \in end : t[k].ts <= b}
Sent(E) == {FromPB(ToPB(e)) : e \in E}

SQLGetUserFeedback(t, u, end, E) == Rows(t, OfUser(t, u) \cap Until(t, end) \cap SQLMatches(t, E))
MongoGetUserFeedback(t, u, end, E) == Rows(t, OfUser(t, u) \cap Until(t, end) \cap MongoMatches(t, E))
ProxyServerGetUserFeedback(t, u, end, E) == SQLGetUserFeedback(t, u, end, E)
ProxyGetUserFeedback(t, u, end, E) == ProxyServerGetUserFeedback(t, u, end, Sent(E))

SQLGetItemFeedback(t, i, T) == Rows(t, OfItem(t, i) \cap Until(t, {Now}) \cap OfTypes(t, T))
MongoGetItemFeedback(t, i, T) == Rows(t, OfItem(t, i) \cap Until(t, {Now}) \cap OfTypes(t, T))
ProxyServerGetItemFeedback(t, i, T) == SQLGetItemFeedback(t, i, T)
ProxyGetItemFeedback(t, i, T) == ProxyServerGetItemFeedback(t, i, T)

SQLGetUserItemFeedback(t, u, i, T) == Rows(t, OfUser(t, u) \cap OfItem(t, i) \cap OfTypes(t, T))
MongoGetUserItemFeedback(t, u, i, T) == Rows(t, OfUser(t, u) \cap OfItem(t, i) \cap OfTypes(t, T))
ProxyServerGetUserItemFeedback(t, u, i, T) == SQLGetUserItemFeedback(t, u, i, T)
ProxyGetUserItemFeedback(t, u, i, T) == ProxyServerGetUserItemFeedback(t, u, i, T)

(* A scan has optional bounds of time and of items (first and last, both    *)
(* included) and feedback type expressions.                                 *)
Among(t, o) == {k \in DOMAIN t : \A g \in o.items : k[3] \in g}
SQLGetFeedbackStream(t, o) ==
  Rows(t, SQLMatches(t, o.types) \cap Until(t, o.end) \cap Among(t, o) \cap
          {k \in DOMAIN t : \A b \in o.begin : t[k].ts >= b})
MongoGetFeedbackStream(t, o) ==
  Rows(t, MongoMatches(t, o.types) \cap Until(t, o.end) \cap Among(t, o) \cap
          {k \in DOMAIN t : \A b \in o.begin : t[k].ts > b})
ProxyServerGetFeedbackStream(t, o) == SQLGetFeedbackStream(t, o)
ProxyGetFeedbackStream(t, o) == ProxyServerGetFeedbackStream(t, [o EXCEPT !.types = Sent(@)])

-----------------------------------------------------------------------------
(* The calls, made to every store at once. *)

Call == made < MaxCalls /\ made' = made + 1
Repeated(rows) == {k \in KeysOf(rows) : Cardinality({i \in DOMAIN rows : rows[i][1] = k}) > 1}

BatchInsertUsers(rows) ==
  /\ Call
  /\ users' = [sql |-> SQLBatchInsertUsers(users["sql"], rows),
               mongo |-> MongoBatchInsertUsers(users["mongo"], rows),
               proxy |-> ProxyBatchInsertUsers(users["proxy"], rows)]
  /\ split' = (split \ {<<"user", u>> : u \in KeysOf(rows)}) \cup {<<"user", u>> : u \in Repeated(rows)}
  /\ UNCHANGED <<items, feedback>>

BatchInsertItems(rows) ==
  /\ Call
  /\ items' = [sql |-> SQLBatchInsertItems(items["sql"], rows),
               mongo |-> MongoBatchInsertItems(items["mongo"], rows),
               proxy |-> ProxyBatchInsertItems(items["proxy"], rows)]
  /\ split' = (split \ {<<"item", i>> : i \in KeysOf(rows)}) \cup {<<"item", i>> : i \in Repeated(rows)}
  /\ UNCHANGED <<users, feedback>>

ModifyUser(id, info) ==
  /\ Call
  /\ users' = [sql |-> SQLModifyUser(users["sql"], id, info),
               mongo |-> MongoModifyUser(users["mongo"], id, info),
               proxy |-> ProxyModifyUser(users["proxy"], id, info)]
  /\ UNCHANGED <<items, feedback, split>>

(* Taking all categories from an item is lost on the way to the master. *)
ModifyItem(id, p) ==
  /\ Call
  /\ items' = [sql |-> SQLModifyItem(items["sql"], id, p),
               mongo |-> MongoModifyItem(items["mongo"], id, p),
               proxy |-> ProxyModifyItem(items["proxy"], id, p)]
  /\ split' = IF p.cats = {{}} THEN split \cup {<<"item", id>>} ELSE split
  /\ UNCHANGED <<users, feedback>>

DeleteUser(id) ==
  LET sql == SQLDeleteUser(users["sql"], feedback["sql"], id)
      mongo == MongoDeleteUser(users["mongo"], feedback["mongo"], id)
      proxy == ProxyDeleteUser(users["proxy"], feedback["proxy"], id)
  IN /\ Call
     /\ users' = [sql |-> sql[1], mongo |-> mongo[1], proxy |-> proxy[1]]
     /\ feedback' = [sql |-> sql[2], mongo |-> mongo[2], proxy |-> proxy[2]]
     /\ split' = {k \in split : k # <<"user", id>> /\ ~(Len(k) = 3 /\ k[2] = id)}
     /\ UNCHANGED items

DeleteItem(id) ==
  LET sql == SQLDeleteItem(items["sql"], feedback["sql"], id)
      mongo == MongoDeleteItem(items["mongo"], feedback["mongo"], id)
      proxy == ProxyDeleteItem(items["proxy"], feedback["proxy"], id)
  IN /\ Call
     /\ items' = [sql |-> sql[1], mongo |-> mongo[1], proxy |-> proxy[1]]
     /\ feedback' = [sql |-> sql[2], mongo |-> mongo[2], proxy |-> proxy[2]]
     /\ split' = {k \in split : k # <<"item", id>> /\ ~(Len(k) = 3 /\ k[3] = id)}
     /\ UNCHANGED users

BatchInsertFeedback(rows, flags) ==
  LET sql == SQLBatchInsertFeedback(users["sql"], items["sql"], feedback["sql"], rows, flags)
      mongo == MongoBatchInsertFeedback(users["mongo"], items["mongo"], feedback["mongo"], rows, flags)
      proxy == ProxyBatchInsertFeedback(users["proxy"], items["proxy"], feedback["proxy"], rows, flags)
  IN /\ Call
     /\ users' = [sql |-> sql[1], mongo |-> mongo[1], proxy |-> proxy[1]]
     /\ items' = [sql |-> sql[2], mongo |-> mongo[2], proxy |-> proxy[2]]
     /\ feedback' = [sql |-> sql[3], mongo |-> mongo[3], proxy |-> proxy[3]]
     /\ split' = (IF flags.overwrite THEN split \ KeysOf(rows) ELSE split) \cup Repeated(rows)

DeleteUserItemFeedback(u, i, T) ==
  /\ Call
  /\ feedback' = [sql |-> SQLDeleteUserItemFeedback(feedback["sql"], u, i, T),
                  mongo |-> MongoDeleteUserItemFeedback(feedback["mongo"], u, i, T),
                  proxy |-> ProxyDeleteUserItemFeedback(feedback["proxy"], u, i, T)]
  /\ split' = split \ {k \in split : Len(k) = 3 /\ k[2] = u /\ k[3] = i /\ (T # {} => k[1] \in T)}
  /\ UNCHANGED <<users, items>>

(* The proxy refuses to purge; the store behind it is purged by the master. *)
Purge ==
  /\ Call
  /\ users' = [sql |-> SQLPurge, mongo |-> MongoPurge, proxy |-> SQLPurge]
  /\ items' = [sql |-> SQLPurge, mongo |-> MongoPurge, proxy |-> SQLPurge]
  /\ feedback' = [sql |-> SQLPurge, mongo |-> MongoPurge, proxy |-> SQLPurge]
  /\ split' = {}

UpTo2(S) == {<<a>> : a \in S} \cup (S \X S)
ItemRows == ItemIds \X {[hidden |-> FALSE, cats |-> C, ts |-> 2, info |-> NoInfo] : C \in CategorySets}
FeedbackRows == (Types \X UserIds \X ItemIds) \X [value : {1}, ts : {1, MaxTime}]

(* Two rows of a batch have the same key or the same value, not both. *)
Related(batch) ==
  \A m, n \in DOMAIN batch : m < n => (batch[m][1] = batch[n][1]) # (batch[m][2] = batch[n][2])

DataNext ==
  \/ \E rows \in UpTo2(UserIds \X Infos) : BatchInsertUsers(rows)
  \/ \E rows \in UpTo2(ItemRows) : BatchInsertItems(rows)
  \/ \E id \in UserIds, info \in Maybe(Infos) : ModifyUser(id, info)
  \/ \E id \in ItemIds, h \in Maybe({TRUE}), C \in Maybe(CategorySets), ts \in Maybe({1}) :
       ModifyItem(id, [hidden |-> h, cats |-> C, ts |-> ts, info |-> {}])
  \/ \E id \in UserIds : DeleteUser(id)
  \/ \E id \in ItemIds : DeleteItem(id)
  \/ \E rows \in {b \in UpTo2(FeedbackRows) : Related(b)}, u, i, o \in BOOLEAN :
       BatchInsertFeedback(rows, [insertUser |-> u, insertItem |-> i, overwrite |-> o])
  \/ \E u \in UserIds, i \in ItemIds, T \in SUBSET Types : DeleteUserItemFeedback(u, i, T)
  \/ Purge

DataSpec == DataInit /\ [][DataNext]_dataVars

-----------------------------------------------------------------------------
SettledItems(R) == {r \in R : <<"item", r[1]>> \notin split}
SettledUsers(R) == {r \in R : <<"user", r[1]>> \notin split}
SettledFeedback(R) == {r \in R : r[1] \notin split}
Queries == [cats : CategorySets \cup {{}}, skipHidden : BOOLEAN, after : Maybe({1})]
Newer(S) == {b + 1 : b \in S}

(* The program cannot tell by reading users and items which store it has:   *)
(* after the same calls they answer alike, however the items are asked for. *)
(* Left out are rows that one batch wrote twice, and an item that lost its  *)
(* categories.  With a time limit MongoDB leaves out the boundary.          *)
EntitiesAgree ==
  LET t == [s \in Servers |-> items[s]] IN
  /\ \A id \in ItemIds : /\ SettledItems(MongoGetItem(t["mongo"], id)) = SettledItems(SQLGetItem(t["sql"], id))
                         /\ SettledItems(ProxyGetItem(t["proxy"], id)) = SettledItems(SQLGetItem(t["sql"], id))
  /\ \A q \in Queries :
       LET all == SettledItems(SQLBatchGetItems(t["sql"], ItemIds, q)) IN
       /\ SettledItems(MongoBatchGetItems(t["mongo"], ItemIds, q)) = all
       /\ SettledItems(ProxyBatchGetItems(t["proxy"], ItemIds, q)) = all
  /\ {k \in split : k[1] = "item"} = {} =>
       \A q \in {x \in Queries : x.skipHidden}, n \in {1, 2} :
         /\ MongoGetLatestItems(t["mongo"], n, q) = SQLGetLatestItems(t["sql"], n, q)
         /\ ProxyGetLatestItems(t["proxy"], n, q) = SQLGetLatestItems(t["sql"], n, q)
  /\ \A b \in Maybe(Moments) :
       SettledItems(MongoGetItemStream(t["mongo"], b)) = SettledItems(SQLGetItemStream(t["sql"], Newer(b)))
  /\ SettledItems(ProxyGetItemStream(t["proxy"], {})) = SettledItems(SQLGetItemStream(t["sql"], {}))
  /\ \A id \in UserIds : /\ SettledUsers(MongoGetUser(users["mongo"], id)) = SettledUsers(SQLGetUser(users["sql"], id))
                         /\ SettledUsers(ProxyGetUser(users["proxy"], id)) = SettledUsers(SQLGetUser(users["sql"], id))
  /\ SettledUsers(MongoGetUserStream(users["mongo"])) = SettledUsers(SQLGetUserStream(users["sql"]))
  /\ SettledUsers(ProxyGetUserStream(users["proxy"])) = SettledUsers(SQLGetUserStream(users["sql"]))

Exprs == {{}} \cup {{[type |-> y, than |-> c]} : y \in Types, c \in {{}, {<<">=", 2>>}, {<<"<", 2>>}}}
Scans == {o \in [types : Exprs, begin : Maybe({1, MaxTime}), end : Maybe({Now}), items : Maybe({{i} : i \in ItemIds})] :
            o.types = {} \/ o.items = {}}

(* Feedback adds up alike in every store, and is found alike by user, by    *)
(* item, by both and by a scan, except what one batch wrote twice.  A scan  *)
(* of MongoDB that begins at b starts just after b.                         *)
FeedbackAgrees ==
  LET f == feedback IN
  /\ \A u \in UserIds, end \in Maybe({Now}), E \in Exprs :
       LET all == SettledFeedback(SQLGetUserFeedback(f["sql"], u, end, E)) IN
       /\ SettledFeedback(MongoGetUserFeedback(f["mongo"], u, end, E)) = all
       /\ SettledFeedback(ProxyGetUserFeedback(f["proxy"], u, end, E)) = all
  /\ \A i \in ItemIds, T \in SUBSET Types :
       /\ SettledFeedback(MongoGetItemFeedback(f["mongo"], i, T)) = SettledFeedback(SQLGetItemFeedback(f["sql"], i, T))
       /\ SettledFeedback(ProxyGetItemFeedback(f["proxy"], i, T)) = SettledFeedback(SQLGetItemFeedback(f["sql"], i, T))
       /\ \A u \in UserIds :
            LET all == SettledFeedback(SQLGetUserItemFeedback(f["sql"], u, i, T)) IN
            /\ SettledFeedback(MongoGetUserItemFeedback(f["mongo"], u, i, T)) = all
            /\ SettledFeedback(ProxyGetUserItemFeedback(f["proxy"], u, i, T)) = all
  /\ \A o \in Scans :
       /\ SettledFeedback(MongoGetFeedbackStream(f["mongo"], o))
            = SettledFeedback(SQLGetFeedbackStream(f["sql"], [o EXCEPT !.begin = Newer(@)]))
       /\ SettledFeedback(ProxyGetFeedbackStream(f["proxy"], o)) = SettledFeedback(SQLGetFeedbackStream(f["sql"], o))

(* Calls that come one after the other never leave feedback without its     *)
(* user and its item, in any store.                                         *)
FeedbackHasOwners ==
  \A s \in Servers : \A k \in DOMAIN feedback[s] :
    k[2] \in DOMAIN users[s] /\ k[3] \in DOMAIN items[s]
=============================================================================
