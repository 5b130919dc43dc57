---------------------------- MODULE ScopedStore -----------------------------
(***************************************************************************)
(* What memory_c promises, seen from the items: an item has at most one    *)
(* place, a scope and a key; binding a key evicts what was in that place;  *)
(* closing the innermost scope moves the items promised to the parent and  *)
(* ends the life of the others.                                            *)
(***************************************************************************)
EXTENDS Integers

CONSTANTS Keys, Items, Limit

VARIABLES depth, place, promises

vars == <<depth, place, promises>>

Stored == DOMAIN place
At(s) == {i \in Stored : place[i] = s}

Init ==
  /\ depth = 1
  /\ place = [i \in {} |-> <<1, 1>>]
  /\ promises = {}

Open ==
  /\ depth \in 1 .. Limit - 1
  /\ depth' = depth + 1
  /\ UNCHANGED <<place, promises>>

Lifted == {i \in Stored : place[i][1] = depth /\ place[i] \in promises}

Evicted == UNION {At(<<depth - 1, place[i][2]>>) : i \in Lifted}

Close ==
  /\ depth > 1
  /\ depth' = depth - 1
  /\ place' = [i \in ({j \in Stored : place[j][1] < depth} \ Evicted) \cup Lifted
                 |-> IF i \in Lifted THEN <<depth - 1, place[i][2]>> ELSE place[i]]
  /\ promises' = {s \in promises : s[1] < depth}

Bind(k, i) ==
  /\ depth > 0
  /\ i \notin Stored
  /\ place' = [j \in (Stored \ At(<<depth, k>>)) \cup {i} |->
                 IF j = i THEN <<depth, k>> ELSE place[j]]
  /\ UNCHANGED <<depth, promises>>

Unbind(k) ==
  /\ depth > 0
  /\ place' = [j \in Stored \ At(<<depth, k>>) |-> place[j]]
  /\ UNCHANGED <<depth, promises>>

Promise(k) ==
  /\ depth > 0
  /\ promises' = promises \cup {<<depth, k>>}
  /\ UNCHANGED <<depth, place>>

Dispose ==
  /\ depth > 0
  /\ depth' = 0
  /\ place' = [i \in {} |-> <<1, 1>>]
  /\ promises' = {}

Create ==
  /\ depth = 0
  /\ depth' = 1
  /\ UNCHANGED <<place, promises>>

Next ==
  \/ Open
  \/ Close
  \/ \E k \in Keys, i \in Items : Bind(k, i)
  \/ \E k \in Keys : Unbind(k)
  \/ \E k \in Keys : Promise(k)
  \/ Dispose
  \/ Create

Spec == Init /\ [][Next]_vars
=============================================================================
