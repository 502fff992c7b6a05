---------------------------- MODULE RedisScores ----------------------------
(***************************************************************************)
(* The operations of the Redis cache store that take several commands      *)
(* (storage/cache/redis.go): UpdateScores pages through a search and then  *)
(* patches key by key, DeleteScores searches and deletes until a search    *)
(* has found everything, scanScores reads pages of keys and then their     *)
(* hashes.  One client of each kind runs while another adds documents; the *)
(* commands of the four interleave.                                        *)
(*                                                                         *)
(* Keys are 1..NKeys in the order of their scores; a search answers them   *)
(* from the highest down.  A hash is "none", "old" or "new" (whole, with a *)
(* timestamp before or after the one DeleteScores is given) or "part":     *)
(* fields written to a key that is gone.  A part has no collection, no     *)
(* search finds it.  Limit is maxSearchResults, and the fixed limit of     *)
(* DeleteScores.  The keys found are patched in any order.                 *)
(***************************************************************************)
EXTENDS Integers, FiniteSets

CONSTANTS NKeys, Limit, MaxAdds

\* A limit that is not positive is replaced by the default.
ASSUME RedisAssumption == NKeys \in Nat /\ Limit \in Nat \ {0} /\ MaxAdds \in Nat

VARIABLES hash, hidden, upd, del, scan, adds, watched, kept

redisVars == <<hash, hidden, upd, del, scan, adds, watched, kept>>

RKeys == 1 .. NKeys
Whole(h) == {k \in RKeys : h[k] \in {"old", "new"}}

(* A search for S: the keys that have at least offset and fewer than        *)
(* offset + Limit of S before them.                                         *)
Before(S, k) == Cardinality({j \in S : j > k})
PageOf(S, offset) == {k \in S : offset <= Before(S, k) /\ Before(S, k) < offset + Limit}

RedisInit ==
  /\ hash \in [RKeys -> {"none", "old"}]
  /\ hidden = [k \in RKeys |-> FALSE]
  /\ upd = [pc |-> "page", keys |-> {}, offset |-> 0, key |-> 0]
  /\ del = [pc |-> "search", docs |-> {}, total |-> 0]
  /\ scan = [pc |-> "scan", todo |-> RKeys, page |-> {}]
  /\ adds = 0
  /\ watched = Whole(hash)
  /\ kept = Whole(hash)

(* AddScores: HSET of every field, visible and fresh. *)
AddScore(k) ==
  /\ adds < MaxAdds
  /\ adds' = adds + 1
  /\ hash' = [hash EXCEPT ![k] = "new"]
  /\ hidden' = [hidden EXCEPT ![k] = FALSE]
  /\ watched' = watched \ {k}
  /\ kept' = kept \ {k}
  /\ UNCHANGED <<upd, del, scan>>

-----------------------------------------------------------------------------
(* UpdateScores with is_hidden = true.  watched are the documents that were *)
(* there from the start and are still, if none was deleted while it paged;  *)
(* kept those that were there and were not written again.                   *)

\* Mutant of NextPage: a full page is taken for the last.
NextPageStrict(docs, new) == Cardinality(docs) > Limit /\ new # {}

(* A short page, or one without a new key, is the last. *)
NextPage(docs, new) == Cardinality(docs) = Limit /\ new # {}

UpdateFind ==
  /\ upd.pc = "page"
  /\ LET docs == PageOf(Whole(hash), upd.offset)
     IN upd' = [pc |-> IF NextPage(docs, docs \ upd.keys) THEN "page" ELSE "check",
                keys |-> upd.keys \cup docs,
                offset |-> upd.offset + Cardinality(docs),
                key |-> 0]
  /\ UNCHANGED <<hash, hidden, del, scan, adds, watched, kept>>

(* EXISTS and HSET are two commands: WATCH guards only a transaction, and   *)
(* there is none.                                                           *)
UpdateExists ==
  /\ upd.pc = "check"
  /\ \/ upd.keys = {} /\ upd' = [upd EXCEPT !.pc = "done"]
     \/ \E k \in upd.keys :
          upd' = IF hash[k] = "none" THEN [upd EXCEPT !.keys = @ \ {k}]
                 ELSE [upd EXCEPT !.keys = @ \ {k}, !.pc = "set", !.key = k]
  /\ UNCHANGED <<hash, hidden, del, scan, adds, watched, kept>>

UpdateSet ==
  /\ upd.pc = "set"
  /\ hash' = [hash EXCEPT ![upd.key] = IF @ = "none" THEN "part" ELSE @]
  /\ hidden' = [hidden EXCEPT ![upd.key] = TRUE]
  /\ upd' = [upd EXCEPT !.pc = "check", !.key = 0]
  /\ UNCHANGED <<del, scan, adds, watched, kept>>

-----------------------------------------------------------------------------
(* DeleteScores of the documents with an old timestamp. *)

OldKeys == {k \in RKeys : hash[k] = "old"}

DeleteFind ==
  /\ del.pc = "search"
  /\ del' = [pc |-> "del", docs |-> PageOf(OldKeys, 0), total |-> Cardinality(OldKeys)]
  /\ UNCHANGED <<hash, hidden, upd, scan, adds, watched, kept>>

DeleteEnds == del.total = Cardinality(del.docs)

DeleteFound ==
  /\ del.pc = "del"
  /\ hash' = [k \in RKeys |-> IF k \in del.docs THEN "none" ELSE hash[k]]
  /\ hidden' = [k \in RKeys |-> IF k \in del.docs THEN FALSE ELSE hidden[k]]
  /\ del' = [del EXCEPT !.pc = IF DeleteEnds THEN "done" ELSE "search", !.docs = {}]
  /\ watched' = IF upd.pc = "page" THEN {} ELSE watched \ del.docs
  /\ UNCHANGED <<upd, scan, adds, kept>>

-----------------------------------------------------------------------------
(* scanScores: SCAN answers some of the keys not yet seen, HGETALL reads    *)
(* the page in one round trip.  The hash of a missing key is empty, not     *)
(* redis.Nil, and an empty timestamp does not parse.                        *)

ScanPage ==
  /\ scan.pc = "scan"
  /\ \E P \in SUBSET scan.todo :
       /\ P # {} \/ scan.todo = {}
       /\ LET page == {k \in P : hash[k] # "none"} IN
          scan' = IF scan.todo = {} THEN [scan EXCEPT !.pc = "done"]
                  ELSE [pc |-> "fetch", todo |-> scan.todo \ P, page |-> page]
  /\ UNCHANGED <<hash, hidden, upd, del, adds, watched, kept>>

Parses(k) == hash[k] \in {"old", "new"}

ScanFetch ==
  /\ scan.pc = "fetch"
  /\ scan' = [scan EXCEPT !.pc = IF \A k \in scan.page : Parses(k) THEN "scan" ELSE "failed",
                          !.page = {}]
  /\ UNCHANGED <<hash, hidden, upd, del, adds, watched, kept>>

RedisNext ==
  \/ \E k \in RKeys : AddScore(k)
  \/ UpdateFind \/ UpdateExists \/ UpdateSet
  \/ DeleteFind \/ DeleteFound
  \/ ScanPage \/ ScanFetch

RedisSpec == RedisInit /\ [][RedisNext]_redisVars

-----------------------------------------------------------------------------
(* UpdateScores hides every document that was there all the time, whatever  *)
(* is added while it pages; only a deletion during the search can make it   *)
(* skip one.  The search ends early when a page brings nothing new, so      *)
(* fewer documents may be added than a page holds.                          *)
UpdateReachesAll == upd.pc = "done" => \A k \in watched : hidden[k]

(* DeleteScores leaves no old document behind that was there when it began: *)
(* a search that finds fewer documents than there are is repeated.          *)
DeleteLeavesNone == del.pc = "done" => \A k \in kept : hash[k] # "old"

(* While other clients add and delete, no operation passes a document over. *)
RedisPassesNoneOver == UpdateReachesAll /\ DeleteLeavesNone
=============================================================================
