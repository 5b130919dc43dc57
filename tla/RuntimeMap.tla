----------------------------- MODULE RuntimeMap -----------------------------
(***************************************************************************)
(* The hash map of the runtime (runtime/sxs/src/ds/map.c) and the "each"   *)
(* loop the compiler emits over it.                                        *)
(*                                                                         *)
(* A map is an array of chains of heap nodes.  A node holds a copy of the  *)
(* key bytes, the hash the key had when it was stored, and the value.  For *)
(* string keys the bytes copied are the pointer, so that comparing reads   *)
(* the text the pointer leads to at that time.  For the other key types    *)
(* the pointer is the key and its "text" never changes.                    *)
(***************************************************************************)
EXTENDS Integers, Sequences, SequencesExt, FiniteSets, FiniteSetsExt

CONSTANTS
  Keys,        \* key bytes: the pointers of string keys
  Texts,       \* what keys are compared by
  Values,
  Nodes,       \* addresses of nodes; malloc may fail while some are free
  TextOf,      \* the text of each key at the start
  HashOf,      \* hash_fn: the hash of each text
  KeysChange,  \* may the program free a key that is still in the map?
  Freed,       \* the memory has been freed
  Nil          \* the null pointer

(* The contents of an allocated node.                                      *)
Node == [hash : Nat, key : Keys, value : Values]

ASSUME RuntimeMapAssumption ==
  /\ TextOf \in [Keys -> Texts]
  /\ HashOf \in [Texts -> Nat]
  /\ KeysChange \in BOOLEAN
  /\ IsFiniteSet(Nodes)
  /\ Freed \notin Texts \cup Node
  /\ Nil \notin Nodes \cup Values

VARIABLES
  text,     \* what each key pointer leads to
  heap,     \* the nodes: [hash, key, value], or Freed
  buckets,  \* the chain of each bucket, head first
  nnodes,   \* the counter kept by the map
  iter,     \* the iterator of "each": [bucket, node]
  phase,    \* "idle", or where "each" is
  visited   \* the keys "each" has passed to the callback, in order

map == <<heap, buckets, nnodes>>
each == <<iter, phase, visited>>
vars == <<text, heap, buckets, nnodes, iter, phase, visited>>

nbuckets == Len(buckets)

(* Buckets are numbered from 0; buckets[b + 1] is bucket b.                *)
BucketIdx(hash, n) == hash % n
Chain(hash) == buckets[BucketIdx(hash, nbuckets) + 1]

(* map_iter: before the first bucket (the code's index is unsigned and     *)
(* wraps to 0 at the first increment).                                     *)
NewIter == [bucket |-> -1, node |-> Nil]

Live == {a \in Nodes : heap[a] # Freed}

(* The nodes of a chain that are in T, in their order.                     *)
Kept(chain, T) ==
  FlattenSeq([n \in DOMAIN chain |->
                IF chain[n] \in T THEN <<chain[n]>> ELSE << >>])

-----------------------------------------------------------------------------
(* getref: the first node of the chain with the hash and the text of k.    *)
SameHash(a, k) == heap[a].hash = HashOf[text[k]]   \* mutant: no cmp_fn
SameKey(a, k) ==
  /\ heap[a].hash = HashOf[text[k]]
  /\ text[heap[a].key] = text[k]

GetRef(k) ==
  IF nbuckets = 0 THEN Nil
  ELSE LET chain == Chain(HashOf[text[k]])
           hits == {n \in DOMAIN chain : SameKey(chain[n], k)}
       IN IF hits = {} THEN Nil ELSE chain[Min(hits)]

Get(k) == IF GetRef(k) = Nil THEN Nil ELSE heap[GetRef(k)].value

(* resize takes all nodes out, from the last bucket to the first and from  *)
(* head to tail, into a list, and puts the list back in front of the       *)
(* chains: within a new bucket that order is kept.                         *)
Unlinked == FlattenSeq(Reverse(buckets))

RelinkedBefore(n, nodes) ==   \* mutant: nbuckets is updated afterwards
  [b \in 1 .. n |->
     Kept(nodes, {a \in Live : BucketIdx(heap[a].hash, nbuckets) = b - 1})]

Relinked(n, nodes) ==
  [b \in 1 .. n |->
     Kept(nodes, {a \in Live : BucketIdx(heap[a].hash, n) = b - 1})]

Full == nnodes >= nbuckets

Grown == IF nbuckets > 0 THEN nbuckets * 2 ELSE 1

NewNode(k, v) == [hash |-> HashOf[text[k]], key |-> k, value |-> v]

AddNode(bs, hash, a) ==
  LET b == BucketIdx(hash, Len(bs)) + 1
  IN [bs EXCEPT ![b] = <<a>> \o bs[b]]

-----------------------------------------------------------------------------
Init ==
  /\ text = TextOf
  /\ heap = [a \in Nodes |-> Freed]
  /\ buckets = << >>
  /\ nnodes = 0
  /\ iter = NewIter
  /\ phase = "idle"
  /\ visited = << >>

Readable(k) == text[k] # Freed

(* map_set of a key that is there writes through the node's value pointer. *)
(* A callback of "each" may do it too.                                     *)
SetExisting(k, v) ==
  /\ phase \in {"idle", "callback"}
  /\ Readable(k)
  /\ GetRef(k) # Nil
  /\ heap' = [heap EXCEPT ![GetRef(k)].value = v]
  /\ UNCHANGED <<text, buckets, nnodes, each>>

Allocating(k) == phase = "idle" /\ Readable(k)   \* mutant: before getref

Inserting(k) == phase = "idle" /\ Readable(k) /\ GetRef(k) = Nil

(* map_set of a new key: allocate the node, make room, link it in front.   *)
SetNew(k, v) ==
  /\ Inserting(k)
  /\ \E a \in Nodes \ Live :
       /\ heap' = [heap EXCEPT ![a] = NewNode(k, v)]
       /\ buckets' = AddNode(IF Full THEN Relinked(Grown, Unlinked) ELSE buckets,
                             HashOf[text[k]], a)
  /\ nnodes' = nnodes + 1
  /\ UNCHANGED <<text, each>>

(* map_set when the node cannot be allocated, and when the bucket array    *)
(* cannot be reallocated: then the nodes go back to the old array and the  *)
(* new node is freed.  Both return -1.                                     *)
SetFails(k) ==
  /\ Inserting(k)
  /\ \/ UNCHANGED buckets
     \/ Full /\ buckets' = Relinked(nbuckets, Unlinked)
  /\ UNCHANGED <<text, heap, nnodes, each>>

Truncate(a) ==   \* mutant: the rest of the chain is lost
  [b \in DOMAIN buckets |->
     IF a \in ToSet(buckets[b])
     THEN SubSeq(buckets[b], 1, (CHOOSE n \in DOMAIN buckets[b] :
                                   buckets[b][n] = a) - 1)
     ELSE buckets[b]]

Unlink(a) ==
  [b \in DOMAIN buckets |-> Kept(buckets[b], Nodes \ {a})]

RemoveKey(k) ==
  /\ phase = "idle"
  /\ Readable(k)
  /\ GetRef(k) # Nil
  /\ buckets' = Unlink(GetRef(k))
  /\ heap' = [heap EXCEPT ![GetRef(k)] = Freed]
  /\ nnodes' = nnodes - 1
  /\ UNCHANGED <<text, each>>

(* delete(m), and make of the next map: deinit frees the nodes it reaches  *)
(* and the bucket array, init zeroes the header.                           *)
Reached == UNION {ToSet(buckets[b]) : b \in DOMAIN buckets}

Recreate ==
  /\ phase = "idle"
  /\ heap' = [a \in Nodes |-> IF a \in Reached THEN Freed ELSE heap[a]]
  /\ buckets' = << >>
  /\ nnodes' = 0
  /\ UNCHANGED <<text, each>>

(* The program frees the memory a string key points to: a key it has not   *)
(* stored, or any key when KeysChange.                                     *)
Stored == {heap[a].key : a \in Live}

FreeKey(k) ==
  /\ KeysChange \/ k \notin Stored
  /\ Readable(k)
  /\ text' = [text EXCEPT ![k] = Freed]
  /\ UNCHANGED <<map, each>>

-----------------------------------------------------------------------------
(* The loop "each" emits: iter, then next and the callback until next      *)
(* returns NULL or the callback returns false.                             *)
Start ==
  /\ phase = "idle"
  /\ iter' = NewIter
  /\ phase' = "next"
  /\ UNCHANGED <<text, map, visited>>

(* map_next: on in the chain, or to the head of the next bucket that has   *)
(* one.  An iterator beyond the last bucket has no node.                   *)
Successor(a) ==
  LET b == CHOOSE b \in DOMAIN buckets : a \in ToSet(buckets[b])
      chain == buckets[b]
      n == CHOOSE n \in DOMAIN chain : chain[n] = a
  IN IF n < Len(chain) THEN chain[n + 1] ELSE Nil

NextBucketLate(b) ==   \* mutant: the end is tested with >
  LET more == {c \in b + 1 .. nbuckets - 1 : buckets[c + 1] # << >>}
  IN IF more = {} THEN [bucket |-> nbuckets + 1, node |-> Nil]
     ELSE [bucket |-> Min(more), node |-> Head(buckets[Min(more) + 1])]

NextBucket(b) ==
  LET more == {c \in b + 1 .. nbuckets - 1 : buckets[c + 1] # << >>}
  IN IF more = {} THEN [bucket |-> nbuckets, node |-> Nil]
     ELSE [bucket |-> Min(more), node |-> Head(buckets[Min(more) + 1])]

HeadsOnly == NextBucket(iter.bucket)   \* mutant: chains are not followed

Advanced ==
  IF iter.node # Nil /\ Successor(iter.node) # Nil
  THEN [iter EXCEPT !.node = Successor(iter.node)]
  ELSE NextBucket(iter.bucket)

(* The emitted loop takes the key from the node and the value from one     *)
(* more look-up of that key, which finds this node (LookupFindsContents).  *)
Advance ==
  /\ phase = "next"
  /\ iter' = Advanced
  /\ phase' = IF Advanced.node = Nil THEN "exhausted" ELSE "callback"
  /\ visited' = IF Advanced.node = Nil THEN visited
                ELSE Append(visited, heap[Advanced.node].key)
  /\ UNCHANGED <<text, map>>

(* The callback returned true.                                             *)
Continue ==
  /\ phase = "callback"
  /\ phase' = "next"
  /\ UNCHANGED <<text, map, iter, visited>>

(* The callback returned false, or there is no next node: the iterator, a  *)
(* local of the emitted loop, is gone.                                     *)
Finish ==
  /\ phase \in {"callback", "exhausted"}
  /\ phase' = "idle"
  /\ iter' = NewIter
  /\ visited' = << >>
  /\ UNCHANGED <<text, map>>

Next ==
  \/ \E k \in Keys, v \in Values : SetExisting(k, v) \/ SetNew(k, v)
  \/ \E k \in Keys : SetFails(k) \/ RemoveKey(k) \/ FreeKey(k)
  \/ Recreate
  \/ Start \/ Advance \/ Continue \/ Finish

Spec == Init /\ [][Next]_vars

-----------------------------------------------------------------------------
TypeOK ==
  /\ text \in [Keys -> Texts \cup {Freed}]
  /\ heap \in [Nodes -> Node \cup {Freed}]
  /\ buckets \in Seq(Seq(Nodes))
  /\ nnodes \in 0 .. Cardinality(Nodes)
  /\ iter.node \in Nodes \cup {Nil} /\ iter.bucket \in -1 .. nbuckets
  /\ phase \in {"idle", "next", "callback", "exhausted"}
  /\ visited \in Seq(Keys)

(* What the map is for: the value of each text, wherever its node is.      *)
Holding(t) == {a \in Live : text[heap[a].key] = t}

Contents ==
  [t \in Texts |-> IF Holding(t) = {} THEN Nil
                   ELSE heap[CHOOSE a \in Holding(t) : TRUE].value]

(* The chains hold exactly the allocated nodes, each once, so that nothing *)
(* is leaked and nothing freed is linked; the counter counts them, and the *)
(* table never has more nodes than buckets.                                *)
ChainsOwnNodes ==
  /\ Reached = Live
  /\ \A b, c \in DOMAIN buckets : \A m \in DOMAIN buckets[b], n \in DOMAIN buckets[c] :
       buckets[b][m] = buckets[c][n] => b = c /\ m = n
  /\ nnodes = Cardinality(Live)
  /\ nnodes <= nbuckets

(* Whatever was inserted, removed and resized, in whatever order, and      *)
(* whatever failed: looking a key up in its bucket finds what the map      *)
(* holds for its text, and no text is held twice.                          *)
LookupFindsContents ==
  /\ \A t \in Texts : Cardinality(Holding(t)) <= 1
  /\ \A k \in Keys : Readable(k) => Get(k) = Contents[text[k]]

(* A set that succeeds changes what the map holds for the text of its key  *)
(* and for no other, a remove likewise, and delete(m) leaves nothing.  A   *)
(* set that fails, with the table taken apart or not, loses no entry; what *)
(* a program sees that goes on after it: LookupIsLastAssigned.  A loop     *)
(* changes nothing.                                                        *)
EditIsExact ==
  LET edit(k, v) == Contents' = [Contents EXCEPT ![text[k]] = v]
  IN /\ \A k \in Keys, v \in Values :
          SetExisting(k, v) \/ SetNew(k, v) => edit(k, v)
     /\ \A k \in Keys : RemoveKey(k) => edit(k, Nil)
     /\ Recreate => \A t \in Texts : Contents'[t] = Nil
     /\ (\E k \in Keys : SetFails(k)) \/ UNCHANGED map => Contents' = Contents

EditsAreExact == [][EditIsExact]_vars

(* A loop that is not stopped passes every key to the callback, once, even *)
(* if callbacks overwrite values.                                          *)
EachVisitsAll ==
  /\ IsInjective(visited)
  /\ phase = "exhausted" => ToSet(visited) = Stored

(* maps.md stores a slice key and then deletes the slice.  No lookup may   *)
(* compare with a key whose text has been freed: one with the same hash,   *)
(* reached before the key that is looked for.                              *)
NoFreedKeyCompared ==
  \A k \in Keys :
     nbuckets > 0 /\ Readable(k) =>
       LET chain == Chain(HashOf[text[k]])
       IN \A n \in DOMAIN chain :
            /\ heap[chain[n]].hash = HashOf[text[k]]
            /\ ~Readable(heap[chain[n]].key)
            => \E m \in 1 .. n - 1 : SameKey(chain[m], k)
=============================================================================
