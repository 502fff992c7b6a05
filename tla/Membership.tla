----------------------------- MODULE Membership -----------------------------
(***************************************************************************)
(* Who belongs to the cluster, and who computes for which user.  A node    *)
(* registers with the master by GetMeta (master/rpc.go) every MetaTimeout; *)
(* the meta store lists the nodes registered within MetaTimeout, the same  *)
(* duration, and deletes the others (storage/meta/sqlite.go).  A worker    *)
(* divides the users by a consistent hash over the workers it was last     *)
(* told of (pullUsers of worker/worker.go).                                *)
(*                                                                         *)
(* Time is counted in ticks, TicksPerSecond to a second: registrations     *)
(* have fractions, datetime('now') has none.  A node wakes up at most      *)
(* Jitter ticks late.  Place is the position of a worker or of one of the  *)
(* RingUsers on the ring of the hash.                                      *)
(***************************************************************************)
EXTENDS Naturals, Integers, FiniteSets

CONSTANTS Workers, Servers, RingUsers, Place, TicksPerSecond, Timeout, Jitter, MaxTime, MaxFaults

VARIABLES time, registered, alive, due, peers, missed, died, faults

memberVars == <<time, registered, alive, due, peers, missed, died, faults>>

Nodes == Workers \cup Servers
Never == -1

MemberInit ==
  /\ time = Timeout + TicksPerSecond
  /\ registered = [n \in Nodes |-> Never]
  /\ alive = [n \in Nodes |-> TRUE] /\ due = [n \in Nodes |-> Timeout + TicksPerSecond]
  /\ peers = [n \in Nodes |-> {}] /\ missed = [n \in Nodes |-> FALSE]
  /\ died = [n \in Nodes |-> Never] /\ faults = 0

-----------------------------------------------------------------------------
(* The threshold of ListNodes: whole seconds. *)
Threshold == (time \div TicksPerSecond) * TicksPerSecond - Timeout

(* A fraction, even an empty one, makes the string of a registration larger *)
(* than that of the whole second.                                           *)
Listed(r) == {n \in Workers : r[n] # Never /\ r[n] >= Threshold}

Kept(r) == [n \in Nodes |-> IF r[n] # Never /\ r[n] < Threshold THEN Never ELSE r[n]]

(* GetMeta: register, list, delete the outdated. *)
GetMeta(n) ==
  LET r == [registered EXCEPT ![n] = time] IN
  /\ registered' = Kept(r)
  /\ peers' = [peers EXCEPT ![n] = Listed(r)]

Awake(n) == alive[n] /\ due[n] <= time

Sync(n) ==
  /\ Awake(n) /\ GetMeta(n) /\ due' = [due EXCEPT ![n] = time + Timeout] /\ missed' = [missed EXCEPT ![n] = FALSE]
  /\ UNCHANGED <<time, alive, died, faults>>

(* GetMeta fails: the node goes on with what it knows. *)
SyncFails(n) ==
  /\ Awake(n) /\ faults < MaxFaults /\ faults' = faults + 1 /\ due' = [due EXCEPT ![n] = time + Timeout] /\ missed' = [missed EXCEPT ![n] = TRUE]
  /\ UNCHANGED <<time, registered, alive, peers, died>>

Crash(n) ==
  /\ alive[n] /\ faults < MaxFaults /\ faults' = faults + 1
  /\ alive' = [alive EXCEPT ![n] = FALSE] /\ died' = [died EXCEPT ![n] = time]
  /\ UNCHANGED <<time, registered, due, peers, missed>>

Restart(n) ==
  /\ ~alive[n] /\ alive' = [alive EXCEPT ![n] = TRUE] /\ peers' = [peers EXCEPT ![n] = {}]
  /\ due' = [due EXCEPT ![n] = time] /\ missed' = [missed EXCEPT ![n] = FALSE]
  /\ UNCHANGED <<time, registered, died, faults>>

Tick ==
  /\ time < MaxTime /\ \A n \in Nodes : alive[n] => time < due[n] + Jitter
  /\ time' = time + 1
  /\ UNCHANGED <<registered, alive, due, peers, missed, died, faults>>

MemberNext ==
  \/ \E n \in Nodes : Sync(n) \/ SyncFails(n) \/ Crash(n) \/ Restart(n)
  \/ Tick

MemberSpec == MemberInit /\ [][MemberNext]_memberVars

-----------------------------------------------------------------------------
(* The owner of a user on the ring of a list: the next worker from its      *)
(* place on, around the ring.                                               *)
Ring == Cardinality(Workers) + Cardinality(RingUsers)
Distance(u, w) == (Place[w] - Place[u] + Ring) % Ring

\* Mutant of Owner: the users are counted off over the sorted list.
OwnerByRank(L, u) ==
  CHOOSE w \in L : Cardinality({v \in L : Place[v] < Place[w]}) = Place[u] % Cardinality(L)
Owner(L, u) == CHOOSE w \in L : \A v \in L : Distance(u, w) <= Distance(u, v)

(* A worker that is not in its own list visits nobody. *)
pullUsers(w) == IF w \notin peers[w] THEN {} ELSE {u \in RingUsers : Owner(peers[w], u) = w}

Live == {w \in Workers : alive[w] /\ peers[w] # {}}

(* However much their lists differ (a worker joined, a registration ran out *)
(* a moment before it was renewed, a synchronisation failed), the workers   *)
(* visit every user between them as long as no list names a worker that is  *)
(* gone: the owner among all of them owns the user in its own list too.     *)
UsersAreCovered ==
  Live # {} /\ (\A w \in Live : peers[w] \cap Workers \subseteq Live) => \A u \in RingUsers : \E w \in Live : u \in pullUsers(w)

(* A worker that is gone is soon forgotten: a list of a node that reached   *)
(* the master at its last synchronisation names nobody who died longer ago  *)
(* than the time-out, its rounding and one round of synchronisation.        *)
DeadAreForgotten ==
  \A w \in Nodes : \A v \in peers[w] :
    alive[w] /\ ~missed[w] /\ ~alive[v] => time - died[v] < 2 * Timeout + Jitter + TicksPerSecond

(* Both: the workers visit all users between them, at once or as soon as    *)
(* those that are gone are forgotten.                                       *)
EveryUserIsVisited == UsersAreCovered /\ DeadAreForgotten
=============================================================================
