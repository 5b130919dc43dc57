-------------------------- MODULE RuntimeMapProofs --------------------------
(***************************************************************************)
(* The runtime map, for every number of keys, texts and nodes and every    *)
(* hash function: the chains own the allocated nodes, a lookup finds what  *)
(* the map holds, edits are exact, and a loop passes every key once.       *)
(*                                                                         *)
(* None of these is inductive alone.  A node stays in the chain a lookup   *)
(* looks in because every node is in the bucket of its hash, through every *)
(* resize (Table); two nodes never have the same text because the hash a   *)
(* node holds is the hash of its text for as long as the text can be read  *)
(* (Keyed); and a loop is a prefix of the table, in the order of map_next  *)
(* (Loop).  The last part is about MapClient, whose steps are those of the *)
(* map.                                                                    *)
(***************************************************************************)
EXTENDS MapClient, SequenceFacts, FiniteSetTheorems

(* A well-formed bucket array for a heap: it links exactly the allocated   *)
(* nodes, no chain twice, and each in the bucket of the hash it holds.     *)
Table(bs, hp) ==
  /\ bs \in Seq(Seq(Nodes))
  /\ \A a : (\E b \in DOMAIN bs : a \in ToSet(bs[b])) <=> a \in Nodes /\ hp[a] # Freed
  /\ \A b \in DOMAIN bs : IsInjective(bs[b])
  /\ \A b \in DOMAIN bs : \A a \in ToSet(bs[b]) : b = BucketIdx(hp[a].hash, Len(bs)) + 1

(* Nodes are told apart by their keys and, while the text can be read, by  *)
(* their texts; the hash a node holds is still that of its text.           *)
SameText(tx, k, l) == k = l \/ (tx[k] # Freed /\ tx[k] = tx[l])

Keyed(tx, hp) ==
  /\ \A a \in Nodes :
       hp[a] # Freed /\ tx[hp[a].key] # Freed => hp[a].hash = HashOf[tx[hp[a].key]]
  /\ \A a, c \in Nodes :
       hp[a] # Freed /\ hp[c] # Freed /\ SameText(tx, hp[a].key, hp[c].key) => a = c

Counted == nnodes = Cardinality(Live) /\ nnodes <= nbuckets

Types ==
  /\ text \in [Keys -> Texts \cup {Freed}]
  /\ heap \in [Nodes -> Node \cup {Freed}]

(* The nodes map_next has passed: those of the buckets before the iterator *)
(* and those of its bucket up to the node it is at.                        *)
Passed(bs, it, a) ==
  \E b \in DOMAIN bs : \E n \in DOMAIN bs[b] :
    /\ bs[b][n] = a
    /\ \/ b - 1 < it.bucket
       \/ b - 1 = it.bucket /\ \E m \in DOMAIN bs[b] : bs[b][m] = it.node /\ n <= m

At(bs, it) ==
  /\ it \in [bucket : 0 .. Len(bs) - 1, node : Nodes]
  /\ it.node \in ToSet(bs[it.bucket + 1])

Loop ==
  /\ phase \in {"idle", "next", "callback", "exhausted"}
  /\ phase = "idle" => iter = NewIter /\ visited = << >>
  /\ phase = "callback" => At(buckets, iter)
  /\ phase = "next" => iter = NewIter \/ At(buckets, iter)
  /\ phase = "exhausted" => iter = [bucket |-> nbuckets, node |-> Nil]
  /\ visited \in Seq(Keys)
  /\ IsInjective(visited)
  /\ \A k : k \in ToSet(visited) <=>
              \E a \in Nodes : Passed(buckets, iter, a) /\ heap[a].key = k

IInv == Types /\ Table(buckets, heap) /\ Keyed(text, heap) /\ Counted /\ Loop

-----------------------------------------------------------------------------
(* Operators.                                                              *)

LEMMA MinIsLeast ==
  ASSUME NEW X \in SUBSET Nat, X # {}
  PROVE  Min(X) \in X /\ \A n \in X : Min(X) <= n
BY LeastExists DEF Min

(* What is kept of a chain.                                                *)
LEMMA KeptFacts ==
  ASSUME NEW chain \in Seq(Nodes), NEW T
  PROVE  /\ Kept(chain, T) \in Seq(Nodes)
         /\ \A a : a \in ToSet(Kept(chain, T)) <=> a \in ToSet(chain) /\ a \in T
         /\ IsInjective(chain) => IsInjective(Kept(chain, T))
<1> DEFINE piece(n) == IF chain[n] \in T THEN <<chain[n]>> ELSE << >>
           pieces == [n \in DOMAIN chain |-> piece(n)]
<1>1. ASSUME NEW n \in 1 .. Len(chain) PROVE piece(n) \in Seq(Nodes)
  <2>1. chain[n] \in Nodes
    OBVIOUS
  <2>2. <<chain[n]>> \in Seq(Nodes) /\ << >> \in Seq(Nodes)
    BY <2>1
  <2> QED
    BY <2>2
<1>2. /\ DOMAIN pieces = DOMAIN chain /\ DOMAIN chain = 1 .. Len(chain)
      /\ \A n \in DOMAIN chain : pieces[n] = piece(n)
  OBVIOUS
<1>3. pieces \in Seq(Seq(Nodes))
  <2>1. pieces = [n \in 1 .. Len(chain) |-> piece(n)] /\ Len(chain) \in Nat
    BY <1>2
  <2>2. \A n \in 1 .. Len(chain) : piece(n) \in Seq(Nodes)
    BY <1>1
  <2> HIDE DEF piece, pieces
  <2> QED
    BY <2>1, <2>2
<1>4. ASSUME NEW n, NEW a
      PROVE  a \in ToSet(piece(n)) <=> a = chain[n] /\ a \in T
  <2>1. CASE chain[n] \in T
    <3>1. piece(n) = <<chain[n]>> /\ DOMAIN <<chain[n]>> = {1} /\ <<chain[n]>>[1] = chain[n]
      BY <2>1
    <3>2. ToSet(<<chain[n]>>) = {chain[n]}
      BY <3>1 DEF ToSet
    <3> QED
      BY <2>1, <3>1, <3>2
  <2>2. CASE chain[n] \notin T
    <3>1. piece(n) = << >> /\ DOMAIN << >> = {}
      BY <2>2
    <3>2. ToSet(<< >>) = {}
      BY <3>1 DEF ToSet
    <3> QED
      BY <2>2, <3>1, <3>2
  <2> QED
    BY <2>1, <2>2
<1>5. Kept(chain, T) = FlattenSeq(pieces)
  BY DEF Kept
<1> HIDE DEF pieces
<1>6. /\ FlattenSeq(pieces) \in Seq(Nodes)
      /\ \A a : a \in ToSet(FlattenSeq(pieces)) <=>
                  \E n \in DOMAIN pieces : a \in ToSet(pieces[n])
  BY <1>3, FlattenMembers
<1>7. \A a : a \in ToSet(Kept(chain, T)) <=> a \in ToSet(chain) /\ a \in T
  <2>1. \A a : a \in ToSet(chain) <=> \E n \in DOMAIN chain : a = chain[n]
    BY DEF ToSet
  <2>2. \A n \in DOMAIN chain : \A a : a \in ToSet(pieces[n]) <=> a = chain[n] /\ a \in T
    BY <1>2, <1>4
  <2> HIDE DEF piece
  <2> QED
    BY <1>2, <1>5, <1>6, <2>1, <2>2
<1>8. ASSUME IsInjective(chain) PROVE IsInjective(Kept(chain, T))
  <2>1. \A n \in DOMAIN pieces : IsInjective(pieces[n])
    BY <1>2 DEF IsInjective
  <2>2. \A m, n \in DOMAIN pieces : m # n => ToSet(pieces[m]) \cap ToSet(pieces[n]) = {}
    <3> HIDE DEF piece
    <3> QED
      BY <1>2, <1>4, <1>8 DEF IsInjective
  <2> QED
    BY <1>3, <1>5, <2>1, <2>2, FlattenInjective
<1> QED
  BY <1>5, <1>6, <1>7, <1>8

(* What a table says of one bucket, and that buckets share no node.        *)
LEMMA TableFacts ==
  ASSUME NEW bs, NEW hp, Table(bs, hp)
  PROVE  /\ bs \in Seq(Seq(Nodes)) /\ Len(bs) \in Nat /\ DOMAIN bs = 1 .. Len(bs)
         /\ \A b \in 1 .. Len(bs) :
              /\ bs[b] \in Seq(Nodes) /\ IsInjective(bs[b])
              /\ \A a \in ToSet(bs[b]) :
                   /\ a \in Nodes /\ hp[a] # Freed
                   /\ b = BucketIdx(hp[a].hash, Len(bs)) + 1
                   /\ \A c \in 1 .. Len(bs) : a \in ToSet(bs[c]) => b = c
         /\ \A a \in Nodes : hp[a] # Freed => \E b \in 1 .. Len(bs) : a \in ToSet(bs[b])
<1>1. bs \in Seq(Seq(Nodes)) /\ Len(bs) \in Nat /\ DOMAIN bs = 1 .. Len(bs)
  BY DEF Table
<1>2. \A b \in 1 .. Len(bs) : bs[b] \in Seq(Nodes)
  BY <1>1
<1>3. \A b \in 1 .. Len(bs) : \A a \in ToSet(bs[b]) : b = BucketIdx(hp[a].hash, Len(bs)) + 1
  BY <1>1 DEF Table
<1> QED
  BY <1>1, <1>2, <1>3 DEF Table

(* Removing a live node leaves a table for the heap without it.            *)
LEMMA UnlinkTable ==
  ASSUME Types, Table(buckets, heap), NEW a \in Live
  PROVE  /\ Table(Unlink(a), [heap EXCEPT ![a] = Freed])
         /\ Len(Unlink(a)) = nbuckets
<1> DEFINE bs == Unlink(a)
           hp == [heap EXCEPT ![a] = Freed]
           T == Nodes \ {a}
<1>1. buckets \in Seq(Seq(Nodes)) /\ DOMAIN buckets = 1 .. nbuckets /\ nbuckets \in Nat
  BY TableFacts DEF nbuckets
<1>2. /\ DOMAIN bs = DOMAIN buckets
      /\ \A b \in DOMAIN buckets : bs[b] = Kept(buckets[b], T)
  BY DEF Unlink
<1>3. ASSUME NEW b \in DOMAIN buckets
      PROVE  /\ bs[b] \in Seq(Nodes)
             /\ \A c : c \in ToSet(bs[b]) <=> c \in ToSet(buckets[b]) /\ c \in T
             /\ IsInjective(bs[b])
  <2>1. buckets[b] \in Seq(Nodes) /\ IsInjective(buckets[b])
    BY <1>1 DEF Table
  <2> QED
    BY <1>2, <2>1, KeptFacts
<1>4. bs \in Seq(Seq(Nodes)) /\ Len(bs) = nbuckets
  <2>1. bs = [b \in 1 .. nbuckets |-> bs[b]]
    BY <1>1 DEF Unlink
  <2> HIDE DEF bs
  <2>2. \A b \in 1 .. nbuckets : bs[b] \in Seq(Nodes)
    BY <1>1, <1>3
  <2> QED
    BY <1>1, <2>1, <2>2, SequenceOf
<1>5. \A c \in Nodes : hp[c] = IF c = a THEN Freed ELSE heap[c]
  BY DEF Types
<1>6. a \in Nodes /\ heap[a] # Freed
  BY DEF Live
<1> HIDE DEF bs, hp
<1>7. \A c : (\E b \in DOMAIN bs : c \in ToSet(bs[b])) <=> c \in Nodes /\ hp[c] # Freed
  BY <1>2, <1>3, <1>5, <1>6, ZenonT(30) DEF Table
<1>8. ASSUME NEW b \in DOMAIN bs, NEW c \in ToSet(bs[b])
      PROVE  b = BucketIdx(hp[c].hash, Len(bs)) + 1
  <2>1. c \in ToSet(buckets[b]) /\ b \in 1 .. Len(buckets) /\ c \in T
    BY <1>1, <1>2, <1>3 DEF nbuckets
  <2>2. b = BucketIdx(heap[c].hash, Len(buckets)) + 1 /\ hp[c] = heap[c]
    BY <1>5, <2>1, TableFacts
  <2> QED
    BY <1>4, <2>2 DEF nbuckets
<1>9. Table(bs, hp)
  BY <1>2, <1>3, <1>4, <1>7, <1>8 DEF Table
<1> QED
  BY <1>4, <1>9 DEF bs, hp

LEMMA BucketRange ==
  ASSUME NEW h \in Nat, NEW n \in Nat, n # 0
  PROVE  BucketIdx(h, n) + 1 \in 1 .. n
BY DEF BucketIdx

(* Putting all nodes into n new buckets leaves a table.  No buckets are    *)
(* enough only when there were none.                                       *)
LEMMA RelinkTable ==
  ASSUME Types, Table(buckets, heap), NEW n \in Nat, n = 0 => nbuckets = 0
  PROVE  /\ Table(Relinked(n, Unlinked), heap)
         /\ Len(Relinked(n, Unlinked)) = n
<1> DEFINE bs == Relinked(n, Unlinked)
           back == Reverse(buckets)
           T(b) == {a \in Live : BucketIdx(heap[a].hash, n) = b - 1}
<1> USE DEF nbuckets
<1>1. buckets \in Seq(Seq(Nodes)) /\ DOMAIN buckets = 1 .. nbuckets /\ nbuckets \in Nat
  BY TableFacts
<1>2. /\ back \in Seq(Seq(Nodes)) /\ Len(back) = nbuckets /\ DOMAIN back = 1 .. nbuckets
      /\ \A b \in 1 .. nbuckets :
           /\ nbuckets - b + 1 \in 1 .. nbuckets
           /\ back[b] = buckets[nbuckets - b + 1]
           /\ back[nbuckets - b + 1] = buckets[b]
  BY <1>1, ReverseFacts
<1>f. /\ \A b \in 1 .. nbuckets : IsInjective(buckets[b])
      /\ \A b, c \in 1 .. nbuckets : \A a :
           a \in ToSet(buckets[b]) /\ a \in ToSet(buckets[c]) => b = c
      /\ \A a : a \in Live <=> \E b \in 1 .. nbuckets : a \in ToSet(buckets[b])
  <2>1. /\ \A b \in 1 .. nbuckets : IsInjective(buckets[b])
        /\ \A b, c \in 1 .. nbuckets : \A a :
             a \in ToSet(buckets[b]) /\ a \in ToSet(buckets[c]) => b = c
    BY TableFacts
  <2>2. \A a : a \in Live <=> \E b \in 1 .. nbuckets : a \in ToSet(buckets[b])
    BY <1>1 DEF Table, Live
  <2> QED
    BY <2>1, <2>2
<1> HIDE DEF back
<1>3. \A b, c \in DOMAIN back : b # c => ToSet(back[b]) \cap ToSet(back[c]) = {}
  <2> SUFFICES ASSUME NEW b \in 1 .. nbuckets, NEW c \in 1 .. nbuckets,
                      NEW a \in ToSet(back[b]), a \in ToSet(back[c])
               PROVE  b = c
    BY <1>2
  <2>1. nbuckets - b + 1 = nbuckets - c + 1
    BY <1>2, <1>f
  <2> QED
    BY <1>1, <2>1
<1>4. \A b \in DOMAIN back : IsInjective(back[b])
  BY <1>2, <1>f
<1>5. Unlinked \in Seq(Nodes) /\ IsInjective(Unlinked)
  BY <1>2, <1>3, <1>4, FlattenMembers, FlattenInjective DEF Unlinked, back
<1>6. \A a : a \in ToSet(Unlinked) <=> a \in Live
  <2>1. \A a : a \in ToSet(Unlinked) <=> \E b \in 1 .. nbuckets : a \in ToSet(back[b])
    BY <1>2, FlattenMembers DEF Unlinked, back
  <2>2. \A a : (\E b \in 1 .. nbuckets : a \in ToSet(back[b]))
                <=> \E b \in 1 .. nbuckets : a \in ToSet(buckets[b])
    BY <1>2
  <2> QED
    BY <1>f, <2>1, <2>2
<1>7. DOMAIN bs = 1 .. n /\ \A b \in 1 .. n : bs[b] = Kept(Unlinked, T(b))
  BY DEF Relinked
<1>8. \A b \in 1 .. n :
        /\ bs[b] \in Seq(Nodes) /\ IsInjective(bs[b])
        /\ \A a : a \in ToSet(bs[b]) <=> a \in Live /\ a \in T(b)
  <2> HIDE DEF T, bs
  <2> QED
    BY <1>5, <1>6, <1>7, KeptFacts
<1>9. bs \in Seq(Seq(Nodes)) /\ Len(bs) = n
  <2>1. bs = [b \in 1 .. n |-> bs[b]]
    BY DEF Relinked
  <2> HIDE DEF bs, T
  <2> QED
    BY <1>8, <2>1, SequenceOf
<1>10. \A b \in 1 .. n : \A a \in ToSet(bs[b]) : b = BucketIdx(heap[a].hash, n) + 1
  <2> SUFFICES ASSUME NEW b \in 1 .. n, NEW a \in ToSet(bs[b])
               PROVE  b = BucketIdx(heap[a].hash, n) + 1
    OBVIOUS
  <2>1. BucketIdx(heap[a].hash, n) = b - 1
    BY <1>8
  <2> QED
    BY <2>1
<1>11. \A a : (\E b \in 1 .. n : a \in ToSet(bs[b])) <=> a \in Live
  <2>1. ASSUME NEW a \in Live PROVE \E b \in 1 .. n : a \in ToSet(bs[b])
    <3>1. heap[a].hash \in Nat
      BY DEF Live, Types, Node
    <3>2. n # 0
      <4>1. PICK b \in 1 .. nbuckets : a \in ToSet(buckets[b])
        BY TableFacts DEF Live
      <4> QED
        BY <1>1, <4>1
    <3>3. BucketIdx(heap[a].hash, n) + 1 \in 1 .. n
      BY <3>1, <3>2, BucketRange
    <3> DEFINE x == BucketIdx(heap[a].hash, n)
    <3>4. x \in Int /\ x + 1 - 1 = x
      BY <3>1, <3>2 DEF BucketIdx
    <3>5. a \in T(x + 1)
      BY <3>4
    <3> QED
      BY <1>8, <3>3, <3>5
  <2> QED
    BY <1>8, <2>1
<1> HIDE DEF bs
<1>12. Table(bs, heap)
  BY <1>7, <1>8, <1>9, <1>10, <1>11 DEF Table, Live
<1> QED
  BY <1>9, <1>12 DEF bs

(* Linking a new node in front of the chain of its hash.                   *)
LEMMA AddNodeTable ==
  ASSUME NEW hp \in [Nodes -> Node \cup {Freed}], NEW bs, Table(bs, hp), Len(bs) # 0,
         NEW a \in Nodes, hp[a] = Freed, NEW node \in Node
  PROVE  /\ Table(AddNode(bs, node.hash, a), [hp EXCEPT ![a] = node])
         /\ Len(AddNode(bs, node.hash, a)) = Len(bs)
<1> DEFINE n == Len(bs)
           i == BucketIdx(node.hash, n) + 1
           ms == AddNode(bs, node.hash, a)
           new == [hp EXCEPT ![a] = node]
<1>1. bs \in Seq(Seq(Nodes)) /\ DOMAIN bs = 1 .. n /\ n \in Nat /\ i \in 1 .. n
  <2>1. node.hash \in Nat
    BY DEF Node
  <2> QED
    BY <2>1, BucketRange, TableFacts
<1>2. ms = [bs EXCEPT ![i] = <<a>> \o bs[i]]
  BY DEF AddNode
<1> HIDE DEF i
<1>3. /\ bs[i] \in Seq(Nodes) /\ <<a>> \in Seq(Nodes)
      /\ ToSet(<<a>>) = {a} /\ IsInjective(<<a>>) /\ IsInjective(bs[i])
  <2>1. DOMAIN <<a>> = {1} /\ <<a>>[1] = a /\ <<a>> \in Seq(Nodes)
    OBVIOUS
  <2>2. ToSet(<<a>>) = {a} /\ IsInjective(<<a>>)
    BY <2>1 DEF ToSet, IsInjective
  <2> QED
    BY <1>1, <2>1, <2>2, TableFacts
<1>4. \A b \in DOMAIN bs : a \notin ToSet(bs[b])
  BY <1>1 DEF Table
<1>5. /\ <<a>> \o bs[i] \in Seq(Nodes)
      /\ ToSet(<<a>> \o bs[i]) = {a} \cup ToSet(bs[i])
      /\ IsInjective(<<a>> \o bs[i])
  <2>1. \A u, v : u \in Seq(Nodes) /\ v \in Seq(Nodes) =>
           u \o v \in Seq(Nodes) /\ ToSet(u \o v) = ToSet(u) \cup ToSet(v)
    BY ConcatMembers
  <2>2. \A u, v : /\ u \in Seq(Nodes) /\ v \in Seq(Nodes) /\ ToSet(u) \cap ToSet(v) = {}
                  /\ IsInjective(u) /\ IsInjective(v)
                  => IsInjective(u \o v)
    BY ConcatInjective
  <2>3. ToSet(<<a>>) \cap ToSet(bs[i]) = {}
    BY <1>1, <1>3, <1>4
  <2> QED
    BY <1>3, <2>1, <2>2, <2>3, Zenon
<1>6. /\ ms \in Seq(Seq(Nodes)) /\ Len(ms) = n /\ DOMAIN ms = 1 .. n
      /\ ms[i] = <<a>> \o bs[i]
      /\ \A b \in 1 .. n : b # i => ms[b] = bs[b]
  <2> HIDE DEF ms
  <2> QED
    BY <1>1, <1>2, <1>5
<1>7. \A c \in Nodes : new[c] = IF c = a THEN node ELSE hp[c]
  OBVIOUS
<1>8. new[a] # Freed
  BY <1>7, RuntimeMapAssumption
<1> HIDE DEF ms, new
<1>9. \A b \in 1 .. n : \A c : c \in ToSet(ms[b]) <=> c \in ToSet(bs[b]) \/ (b = i /\ c = a)
  BY <1>5, <1>6
<1>10. \A c : (\E b \in DOMAIN ms : c \in ToSet(ms[b])) <=> c \in Nodes /\ new[c] # Freed
  <2>1. \A c : (\E b \in 1 .. n : c \in ToSet(ms[b]))
              <=> c = a \/ \E b \in 1 .. n : c \in ToSet(bs[b])
    BY <1>1, <1>9
  <2>2. \A c : (\E b \in 1 .. n : c \in ToSet(bs[b])) <=> c \in Nodes /\ hp[c] # Freed
    BY <1>1 DEF Table
  <2>3. \A c : c \in Nodes /\ new[c] # Freed <=> c = a \/ (c \in Nodes /\ hp[c] # Freed)
    BY <1>1, <1>7, <1>8
  <2>4. DOMAIN ms = 1 .. n
    BY <1>6
  <2> QED
    BY <2>1, <2>2, <2>3, <2>4, Zenon
<1>11. \A b \in DOMAIN ms : IsInjective(ms[b])
  BY <1>1, <1>5, <1>6 DEF Table
<1>12. ASSUME NEW b \in DOMAIN ms, NEW c \in ToSet(ms[b])
       PROVE  b = BucketIdx(new[c].hash, n) + 1
  <2>1. CASE c = a
    <3>1. b = i
      BY <1>1, <1>4, <1>6, <1>9, <2>1
    <3> QED
      BY <1>7, <2>1, <3>1 DEF i
  <2>2. CASE c # a
    <3>1. c \in ToSet(bs[b]) /\ b \in DOMAIN bs /\ c \in Nodes
      BY <1>1, <1>6, <1>9, <2>2 DEF Table
    <3> QED
      BY <1>7, <2>2, <3>1 DEF Table
  <2> QED
    BY <2>1, <2>2
<1>13. Table(ms, new)
  BY <1>6, <1>10, <1>11, <1>12 DEF Table
<1> QED
  BY <1>6, <1>13 DEF ms, new

(* Writing the value of a node changes nothing a table depends on.         *)
LEMMA WriteValue ==
  ASSUME Types, Table(buckets, heap), NEW a \in Live, NEW v \in Values,
         heap' = [heap EXCEPT ![a].value = v]
  PROVE  /\ heap' \in [Nodes -> Node \cup {Freed}]
         /\ Table(buckets, heap')
         /\ \A c \in Nodes : heap'[c] = Freed <=> heap[c] = Freed
         /\ \A c \in Live :
              /\ heap'[c].hash = heap[c].hash /\ heap'[c].key = heap[c].key
              /\ heap'[c].value = IF c = a THEN v ELSE heap[c].value
<1>1. a \in Nodes /\ heap[a] \in Node /\ heap \in [Nodes -> Node \cup {Freed}]
  BY DEF Live, Types
<1>2. PICK h \in Nat, k \in Keys, w \in Values :
        heap[a] = [hash |-> h, key |-> k, value |-> w]
  BY <1>1 DEF Node
<1> DEFINE node == [hash |-> h, key |-> k, value |-> v]
<1>3. heap' = [heap EXCEPT ![a] = node]
  <2>1. [heap[a] EXCEPT !.value = v] = node
    BY <1>2
  <2>2. heap' = [heap EXCEPT ![a] = [heap[a] EXCEPT !.value = v]]
    BY <1>1
  <2> QED
    BY <2>1, <2>2
<1>4. node \in Node /\ node.hash = h /\ node.key = k /\ node.value = v
  BY DEF Node
<1>5. heap[a].hash = h /\ heap[a].key = k
  BY <1>2
<1> HIDE DEF node
<1>6. \A c \in Nodes : heap'[c] = IF c = a THEN node ELSE heap[c]
  BY <1>1, <1>3
<1>7. heap' \in [Nodes -> Node \cup {Freed}]
  BY <1>1, <1>3, <1>4
<1>8. \A c \in Nodes : heap'[c] = Freed <=> heap[c] = Freed
  BY <1>1, <1>4, <1>6, RuntimeMapAssumption DEF Live
<1>9. \A c \in Live :
        /\ heap'[c].hash = heap[c].hash /\ heap'[c].key = heap[c].key
        /\ heap'[c].value = IF c = a THEN v ELSE heap[c].value
  BY <1>4, <1>5, <1>6 DEF Live
<1>10. Table(buckets, heap')
  <2>1. \A b \in DOMAIN buckets : \A c \in ToSet(buckets[b]) : c \in Live
    BY DEF Table, Live
  <2>2. \A b \in DOMAIN buckets : \A c \in ToSet(buckets[b]) :
           b = BucketIdx(heap'[c].hash, Len(buckets)) + 1
    BY <1>9, <2>1 DEF Table
  <2>3. \A c : c \in Nodes /\ heap'[c] # Freed <=> c \in Nodes /\ heap[c] # Freed
    BY <1>8
  <2> QED
    BY <2>2, <2>3 DEF Table
<1> QED
  BY <1>7, <1>8, <1>9, <1>10

-----------------------------------------------------------------------------
(* Looking a key up.                                                       *)

(* A lookup of a key that can be read finds the node with its text, and    *)
(* nothing when there is none.                                             *)
LEMMA GetRefFinds ==
  ASSUME Types, Table(buckets, heap), Keyed(text, heap), NEW k \in Keys, Readable(k)
  PROVE  /\ GetRef(k) # Nil => GetRef(k) \in Live /\ text[heap[GetRef(k)].key] = text[k]
         /\ \A a \in Live : text[heap[a].key] = text[k] => GetRef(k) = a
<1> DEFINE h == HashOf[text[k]]
           chain == Chain(h)
           hits == {n \in DOMAIN chain : SameKey(chain[n], k)}
<1> USE DEF nbuckets
<1>1. text[k] \in Texts /\ h \in Nat
  BY RuntimeMapAssumption DEF Types, Readable
<1>2. nbuckets \in Nat /\ \A a \in Live : \E b \in 1 .. nbuckets : a \in ToSet(buckets[b])
  <2>1. \A a \in Nodes : heap[a] # Freed => \E b \in 1 .. nbuckets : a \in ToSet(buckets[b])
    BY TableFacts
  <2> QED
    BY <2>1, TableFacts DEF Live
<1>3. CASE nbuckets = 0
  <2>1. GetRef(k) = Nil /\ Live = {}
    BY <1>2, <1>3 DEF GetRef
  <2> QED
    BY <2>1
<1>4. CASE nbuckets # 0
  <2> DEFINE i == BucketIdx(h, nbuckets) + 1
  <2>1. i \in 1 .. nbuckets /\ chain = buckets[i]
    BY <1>1, <1>2, <1>4, BucketRange DEF Chain
  <2>2. /\ chain \in Seq(Nodes) /\ IsInjective(chain)
        /\ \A a \in ToSet(chain) : a \in Live
    BY <2>1, TableFacts DEF Live
  <2>3. GetRef(k) = IF hits = {} THEN Nil ELSE chain[Min(hits)]
    BY <1>4 DEF GetRef
  <2> HIDE DEF i, chain, h
  <2>4. hits \in SUBSET Nat
    BY <2>2
  <2>5. ASSUME hits # {}
        PROVE  /\ GetRef(k) = chain[Min(hits)] /\ SameKey(GetRef(k), k)
               /\ GetRef(k) \in Live /\ GetRef(k) # Nil
    <3>1. Min(hits) \in hits
      BY <2>4, <2>5, MinIsLeast
    <3>2. chain[Min(hits)] \in ToSet(chain) /\ SameKey(chain[Min(hits)], k)
      BY <3>1 DEF ToSet
    <3>3. GetRef(k) = chain[Min(hits)]
      BY <2>3, <2>5
    <3> QED
      BY <2>2, <3>2, <3>3, RuntimeMapAssumption DEF Live
  <2>6. GetRef(k) # Nil => GetRef(k) \in Live /\ text[heap[GetRef(k)].key] = text[k]
    BY <2>3, <2>5 DEF SameKey
  <2>7. ASSUME NEW a \in Live, text[heap[a].key] = text[k] PROVE GetRef(k) = a
    <3>1. a \in Nodes /\ heap[a] # Freed /\ text[heap[a].key] # Freed
      BY <2>7 DEF Live, Readable
    <3>2. heap[a].hash = h
      BY <2>7, <3>1 DEF Keyed, h
    <3>3. PICK b \in 1 .. nbuckets : a \in ToSet(buckets[b])
      BY <1>2
    <3>4. b = BucketIdx(heap[a].hash, nbuckets) + 1
      BY <3>3, TableFacts
    <3>5. a \in ToSet(chain)
      BY <2>1, <3>2, <3>3, <3>4 DEF i
    <3>6. PICK n \in DOMAIN chain : chain[n] = a
      BY <3>5 DEF ToSet
    <3>7. n \in hits
      BY <2>7, <3>2, <3>6 DEF SameKey, h
    <3>8. GetRef(k) \in Live /\ text[heap[GetRef(k)].key] = text[k]
      BY <2>5, <3>7 DEF SameKey
    <3>9. SameText(text, heap[a].key, heap[GetRef(k)].key)
      BY <2>7, <3>1, <3>8 DEF SameText
    <3> QED
      BY <3>1, <3>8, <3>9 DEF Keyed, Live
  <2> QED
    BY <2>6, <2>7
<1> QED
  BY <1>3, <1>4

LEMMA Finite == IsFiniteSet(Live) /\ Cardinality(Live) \in 0 .. Cardinality(Nodes)
<1>1. Live \subseteq Nodes /\ IsFiniteSet(Nodes)
  BY RuntimeMapAssumption DEF Live
<1> QED
  BY <1>1, FS_Subset, FS_CardinalityType

-----------------------------------------------------------------------------
(* Steps outside of a loop.                                                *)

(* The iterator that has not begun has passed nothing.                     *)
LEMMA NothingPassed ==
  ASSUME NEW bs \in Seq(Seq(Nodes)), NEW a
  PROVE  ~Passed(bs, NewIter, a)
<1>1. \A b \in DOMAIN bs : b \in Nat /\ b >= 1
  OBVIOUS
<1>2. NewIter.bucket = -1
  BY DEF NewIter
<1> QED
  BY <1>1, <1>2 DEF Passed

LEMMA IdleLoop ==
  ASSUME phase = "idle", iter = NewIter, visited = << >>, buckets \in Seq(Seq(Nodes))
  PROVE  Loop
<1>1. \A a \in Nodes : ~Passed(buckets, iter, a)
  BY NothingPassed
<1>2. << >> \in Seq(Keys) /\ DOMAIN << >> = {}
  OBVIOUS
<1>3. IsInjective(<< >>) /\ ToSet(<< >>) = {}
  BY <1>2 DEF IsInjective, ToSet
<1> QED
  BY <1>1, <1>2, <1>3 DEF Loop

LEMMA InitIInv == Init => IInv
<1> SUFFICES ASSUME Init PROVE IInv
  OBVIOUS
<1>1. Types
  BY RuntimeMapAssumption DEF Init, Types
<1>2. buckets = << >> /\ << >> \in Seq(Seq(Nodes)) /\ DOMAIN << >> = {} /\ Len(<< >>) = 0
  BY DEF Init
<1>3. \A a \in Nodes : heap[a] = Freed
  BY DEF Init
<1>4. Table(buckets, heap)
  BY <1>2, <1>3 DEF Table
<1>5. Keyed(text, heap)
  BY <1>3 DEF Keyed
<1>6. Live = {}
  BY <1>3 DEF Live
<1>7. Counted
  BY <1>2, <1>6, FS_EmptySet DEF Counted, Init, nbuckets
<1>8. Loop
  BY <1>2, IdleLoop DEF Init
<1> QED
  BY <1>1, <1>4, <1>5, <1>7, <1>8 DEF IInv

(* Any state outside of a loop.                                            *)
LEMMA IdleStep ==
  ASSUME Loop, phase = "idle", UNCHANGED each, (buckets \in Seq(Seq(Nodes)))'
  PROVE  Loop'
<1>1. phase' = "idle" /\ iter' = NewIter /\ visited' = << >>
  BY DEF each, Loop
<1>2. \A a \in Nodes : ~Passed(buckets', NewIter, a)
  BY NothingPassed
<1>3. << >> \in Seq(Keys) /\ DOMAIN << >> = {}
  OBVIOUS
<1>4. IsInjective(<< >>) /\ ToSet(<< >>) = {}
  BY <1>3 DEF IsInjective, ToSet
<1> QED
  BY <1>1, <1>2, <1>3, <1>4 DEF Loop

LEMMA SetExistingStep ==
  ASSUME NEW k \in Keys, NEW v \in Values, IInv, SetExisting(k, v)
  PROVE  IInv'
<1> DEFINE a == GetRef(k)
<1>0. /\ Types /\ Table(buckets, heap) /\ Keyed(text, heap) /\ Counted /\ Loop
      /\ heap' = [heap EXCEPT ![a].value = v]
      /\ UNCHANGED <<text, buckets, nnodes, iter, phase, visited>>
  BY DEF IInv, SetExisting, each
<1>1. a \in Live
  BY GetRefFinds DEF SetExisting, IInv
<1> HIDE DEF a
<1>2. /\ heap' \in [Nodes -> Node \cup {Freed}]
      /\ Table(buckets, heap')
      /\ \A c \in Nodes : heap'[c] = Freed <=> heap[c] = Freed
      /\ \A c \in Live : heap'[c].hash = heap[c].hash /\ heap'[c].key = heap[c].key
  BY <1>0, <1>1, WriteValue
<1>3. Types' /\ Table(buckets, heap)'
  BY <1>0, <1>2 DEF Types
<1>4. Keyed(text, heap)'
  BY <1>0, <1>2 DEF Keyed, Live
<1>5. Live' = Live
  BY <1>2 DEF Live
<1>6. Counted'
  BY <1>0, <1>5 DEF Counted, nbuckets
<1>7. \A c \in Nodes : Passed(buckets, iter, c) => c \in Live
  <2>1. \A b \in DOMAIN buckets : \A n \in DOMAIN buckets[b] : buckets[b][n] \in Live
    BY <1>0 DEF Table, ToSet, Live
  <2> QED
    BY <2>1 DEF Passed
<1>8. \A c \in Nodes : Passed(buckets, iter, c)' <=> Passed(buckets, iter, c)
  BY <1>0 DEF Passed
<1>9. Loop'
  BY <1>0, <1>2, <1>7, <1>8 DEF Loop, At, nbuckets
<1> QED
  BY <1>3, <1>4, <1>6, <1>9 DEF IInv

LEMMA SetNewStep ==
  ASSUME NEW k \in Keys, NEW v \in Values, IInv, SetNew(k, v)
  PROVE  IInv'
<1> DEFINE node == NewNode(k, v)
           bs == IF Full THEN Relinked(Grown, Unlinked) ELSE buckets
<1>0. /\ Types /\ Table(buckets, heap) /\ Keyed(text, heap) /\ Counted /\ Loop
      /\ phase = "idle" /\ Readable(k) /\ GetRef(k) = Nil
      /\ nnodes' = nnodes + 1 /\ text' = text /\ UNCHANGED each
  BY DEF IInv, SetNew, Inserting
<1>1. PICK a \in Nodes \ Live : /\ heap' = [heap EXCEPT ![a] = node]
                                /\ buckets' = AddNode(bs, HashOf[text[k]], a)
  BY DEF SetNew
<1>2. node \in Node /\ node.hash = HashOf[text[k]] /\ node.key = k
  BY <1>0, RuntimeMapAssumption DEF NewNode, Node, Types, Readable
<1>3. a \in Nodes /\ heap[a] = Freed
  BY <1>1 DEF Live
<1>4. nnodes \in Nat /\ nbuckets \in Nat /\ nnodes <= nbuckets
  BY <1>0, Finite, TableFacts DEF Counted, nbuckets
<1>5. Table(bs, heap) /\ Len(bs) # 0 /\ nnodes + 1 <= Len(bs) /\ Len(bs) \in Nat
  <2>1. CASE Full
    <3>1. Grown \in Nat /\ Grown # 0 /\ nnodes + 1 <= Grown
      BY <1>4, <2>1 DEF Full, Grown
    <3>2. Table(Relinked(Grown, Unlinked), heap) /\ Len(Relinked(Grown, Unlinked)) = Grown
      BY <1>0, <3>1, RelinkTable
    <3> QED
      BY <2>1, <3>1, <3>2
  <2>2. CASE ~Full
    BY <1>0, <1>4, <2>2 DEF Full, nbuckets
  <2> QED
    BY <2>1, <2>2
<1> HIDE DEF bs, node
<1>6. heap' \in [Nodes -> Node \cup {Freed}]
  BY <1>0, <1>1, <1>2 DEF Types
<1>7. Types'
  BY <1>0, <1>6 DEF Types
<1>8. Table(buckets, heap)' /\ Len(buckets') = Len(bs)
  <2> DEFINE ms == AddNode(bs, node.hash, a)
             new == [heap EXCEPT ![a] = node]
  <2>1. heap \in [Nodes -> Node \cup {Freed}]
    BY <1>0 DEF Types
  <2>2. Table(ms, new) /\ Len(ms) = Len(bs)
    BY <1>2, <1>3, <1>5, <2>1, AddNodeTable
  <2>3. buckets' = ms /\ heap' = new
    BY <1>1, <1>2
  <2> HIDE DEF ms, new
  <2> QED
    BY <2>2, <2>3
<1>9. \A c \in Nodes : heap'[c] = IF c = a THEN node ELSE heap[c]
  BY <1>0, <1>1 DEF Types
<1>10. \A c \in Live : ~SameText(text, heap[c].key, k)
  <2> SUFFICES ASSUME NEW c \in Live, SameText(text, heap[c].key, k) PROVE FALSE
    OBVIOUS
  <2>1. text[heap[c].key] = text[k]
    BY DEF SameText
  <2> QED
    BY <1>0, <2>1, GetRefFinds, RuntimeMapAssumption DEF Live
<1>11. Keyed(text, heap)'
  <2>1. ASSUME NEW c \in Nodes, heap'[c] # Freed, text[heap'[c].key] # Freed
        PROVE  heap'[c].hash = HashOf[text[heap'[c].key]]
    BY <1>0, <1>2, <1>9, <2>1 DEF Keyed
  <2>2. \A c \in Nodes : heap[c] # Freed => /\ ~SameText(text, heap[c].key, k)
                                            /\ ~SameText(text, k, heap[c].key)
    BY <1>0, <1>10 DEF SameText, Live, Readable
  <2>3. ASSUME NEW c \in Nodes, NEW d \in Nodes, heap'[c] # Freed, heap'[d] # Freed,
               SameText(text, heap'[c].key, heap'[d].key)
        PROVE  c = d
    BY <1>0, <1>2, <1>9, <2>2, <2>3 DEF Keyed
  <2> QED
    BY <1>0, <2>1, <2>3 DEF Keyed
<1>12. Counted'
  <2>1. Live' = Live \cup {a}
    BY <1>2, <1>3, <1>9, RuntimeMapAssumption DEF Live
  <2>2. Cardinality(Live \cup {a}) = Cardinality(Live) + 1
    BY <1>1, Finite, FS_AddElement
  <2> QED
    BY <1>0, <1>5, <1>8, <2>1, <2>2 DEF Counted, nbuckets
<1>13. Loop'
  <2>1. (buckets \in Seq(Seq(Nodes)))'
    BY <1>8 DEF Table
  <2> QED
    BY <1>0, <2>1, IdleStep
<1> QED
  BY <1>7, <1>8, <1>11, <1>12, <1>13 DEF IInv

LEMMA SetFailsStep ==
  ASSUME NEW k \in Keys, IInv, SetFails(k)
  PROVE  IInv'
<1>0. /\ Types /\ Table(buckets, heap) /\ Keyed(text, heap) /\ Counted /\ Loop
      /\ phase = "idle" /\ UNCHANGED <<text, heap, nnodes>> /\ UNCHANGED each
      /\ UNCHANGED buckets \/ buckets' = Relinked(nbuckets, Unlinked)
  BY DEF IInv, SetFails, Inserting
<1>1. nbuckets \in Nat
  BY <1>0, TableFacts DEF nbuckets
<1>2. Table(buckets', heap) /\ Len(buckets') = nbuckets
  <2>1. CASE UNCHANGED buckets
    BY <1>0, <2>1 DEF nbuckets
  <2>2. CASE buckets' = Relinked(nbuckets, Unlinked)
    BY <1>0, <1>1, <2>2, RelinkTable
  <2> QED
    BY <1>0, <2>1, <2>2
<1>3. Types' /\ Table(buckets, heap)' /\ Keyed(text, heap)'
  BY <1>0, <1>2 DEF Types
<1>4. Counted'
  BY <1>0, <1>2 DEF Counted, Live, nbuckets
<1>5. Loop'
  <2>1. (buckets \in Seq(Seq(Nodes)))'
    BY <1>2 DEF Table
  <2> QED
    BY <1>0, <2>1, IdleStep
<1> QED
  BY <1>3, <1>4, <1>5 DEF IInv

LEMMA RemoveKeyStep ==
  ASSUME NEW k \in Keys, IInv, RemoveKey(k)
  PROVE  IInv'
<1> DEFINE a == GetRef(k)
<1>0. /\ Types /\ Table(buckets, heap) /\ Keyed(text, heap) /\ Counted /\ Loop
      /\ phase = "idle" /\ Readable(k) /\ a # Nil
      /\ buckets' = Unlink(a) /\ heap' = [heap EXCEPT ![a] = Freed]
      /\ nnodes' = nnodes - 1 /\ text' = text /\ UNCHANGED each
  BY DEF IInv, RemoveKey
<1>1. a \in Live
  BY <1>0, GetRefFinds
<1> HIDE DEF a
<1>2. Table(buckets, heap)' /\ Len(buckets') = nbuckets
  BY <1>0, <1>1, UnlinkTable
<1>3. Types'
  BY <1>0 DEF Types
<1>4. \A c \in Nodes : heap'[c] = IF c = a THEN Freed ELSE heap[c]
  BY <1>0 DEF Types
<1>5. Keyed(text, heap)'
  BY <1>0, <1>4 DEF Keyed
<1>6. Counted'
  <2>1. Live' = Live \ {a}
    BY <1>4 DEF Live
  <2>2. Cardinality(Live \ {a}) = Cardinality(Live) - 1
    BY <1>1, Finite, FS_RemoveElement
  <2> QED
    BY <1>0, <1>2, <2>1, <2>2, Finite, TableFacts DEF Counted, nbuckets
<1>7. Loop'
  <2>1. (buckets \in Seq(Seq(Nodes)))'
    BY <1>2 DEF Table
  <2> QED
    BY <1>0, <2>1, IdleStep
<1> QED
  BY <1>2, <1>3, <1>5, <1>6, <1>7 DEF IInv

LEMMA ReachedIsLive ==
  ASSUME Table(buckets, heap)
  PROVE  Reached = Live
<1>1. \A a : a \in Reached <=> \E b \in DOMAIN buckets : a \in ToSet(buckets[b])
  BY DEF Reached
<1> QED
  BY <1>1 DEF Table, Live

LEMMA RecreateStep == IInv /\ Recreate => IInv'
<1> SUFFICES ASSUME IInv, Recreate PROVE IInv'
  OBVIOUS
<1>0. /\ Types /\ Table(buckets, heap) /\ Loop /\ phase = "idle"
      /\ heap' = [a \in Nodes |-> IF a \in Reached THEN Freed ELSE heap[a]]
      /\ buckets' = << >> /\ nnodes' = 0 /\ text' = text /\ UNCHANGED each
  BY DEF IInv, Recreate
<1>1. heap' = [a \in Nodes |-> Freed]
  BY <1>0, ReachedIsLive DEF Live
<1>2. << >> \in Seq(Seq(Nodes)) /\ DOMAIN << >> = {} /\ Len(<< >>) = 0
  OBVIOUS
<1>3. Types'
  BY <1>0, <1>1 DEF Types
<1>4. Table(buckets, heap)'
  BY <1>0, <1>1, <1>2 DEF Table
<1>5. Keyed(text, heap)'
  BY <1>1 DEF Keyed
<1>6. Counted'
  <2>1. Live' = {}
    BY <1>1 DEF Live
  <2> QED
    BY <1>0, <1>2, <2>1, FS_EmptySet DEF Counted, nbuckets
<1>7. Loop'
  <2>1. (buckets \in Seq(Seq(Nodes)))'
    BY <1>0, <1>2
  <2> QED
    BY <1>0, <2>1, IdleStep
<1> QED
  BY <1>3, <1>4, <1>5, <1>6, <1>7 DEF IInv

(* A freed text makes fewer nodes comparable, and hashes are kept.         *)
LEMMA FreeKeyStep ==
  ASSUME NEW k \in Keys, IInv, FreeKey(k)
  PROVE  IInv'
<1>0. /\ Types /\ Keyed(text, heap)
      /\ text' = [text EXCEPT ![k] = Freed]
      /\ UNCHANGED <<heap, buckets, nnodes, iter, phase, visited>>
  BY DEF IInv, FreeKey, map, each
<1>1. Types'
  BY <1>0 DEF Types
<1>2. \A l \in Keys : text'[l] # Freed => text'[l] = text[l]
  BY <1>0 DEF Types
<1>3. \A a \in Nodes : heap[a] # Freed => heap[a].key \in Keys
  BY <1>0 DEF Types, Node
<1>4. Keyed(text, heap)'
  <2>1. ASSUME NEW a \in Nodes, heap[a] # Freed, text'[heap[a].key] # Freed
        PROVE  heap[a].hash = HashOf[text'[heap[a].key]]
    BY <1>0, <1>2, <1>3, <2>1 DEF Keyed
  <2>2. ASSUME NEW a \in Nodes, NEW c \in Nodes, heap[a] # Freed, heap[c] # Freed,
               SameText(text', heap[a].key, heap[c].key)
        PROVE  SameText(text, heap[a].key, heap[c].key)
    BY <1>2, <1>3, <2>2 DEF SameText
  <2> QED
    BY <1>0, <2>1, <2>2 DEF Keyed
<1>5. Table(buckets, heap)' /\ Counted' /\ Loop'
  BY <1>0 DEF IInv, Counted, Live, nbuckets, Loop, NewIter
<1> QED
  BY <1>1, <1>4, <1>5 DEF IInv

-----------------------------------------------------------------------------
(* Steps of a loop.                                                        *)

LEMMA StartStep == IInv /\ Start => IInv'
<1> SUFFICES ASSUME IInv, Start PROVE IInv'
  OBVIOUS
<1>1. /\ phase = "idle" /\ iter = NewIter /\ visited = << >> /\ Loop
      /\ iter' = iter /\ phase' = "next"
      /\ UNCHANGED <<text, heap, buckets, nnodes, visited>>
  BY DEF IInv, Start, Loop, map
<1>2. Loop'
  BY <1>1 DEF Loop, NewIter
<1> QED
  BY <1>1, <1>2 DEF IInv, Types, Counted, Live, nbuckets

LEMMA ContinueStep == IInv /\ Continue => IInv'
<1> SUFFICES ASSUME IInv, Continue PROVE IInv'
  OBVIOUS
<1>1. /\ phase = "callback" /\ phase' = "next" /\ Loop
      /\ UNCHANGED <<text, heap, buckets, nnodes, iter, visited>>
  BY DEF IInv, Continue, map
<1>2. Loop'
  BY <1>1 DEF Loop
<1> QED
  BY <1>1, <1>2 DEF IInv, Types, Counted, Live, nbuckets

LEMMA FinishStep == IInv /\ Finish => IInv'
<1> SUFFICES ASSUME IInv, Finish PROVE IInv'
  OBVIOUS
<1>1. /\ phase' = "idle" /\ iter' = NewIter /\ visited' = << >>
      /\ UNCHANGED <<text, heap, buckets, nnodes>>
  BY DEF Finish, map
<1>2. buckets \in Seq(Seq(Nodes))
  BY TableFacts DEF IInv
<1>3. \A a \in Nodes : ~Passed(buckets', iter', a)
  BY <1>1, <1>2, NothingPassed
<1>4. << >> \in Seq(Keys) /\ DOMAIN << >> = {}
  OBVIOUS
<1>5. IsInjective(<< >>) /\ ToSet(<< >>) = {}
  BY <1>4 DEF IsInjective, ToSet
<1>6. Loop'
  BY <1>1, <1>3, <1>4, <1>5 DEF Loop
<1> QED
  BY <1>1, <1>6 DEF IInv, Types, Counted, Live, nbuckets

(* The table as the steps of a loop see it.                                *)
LEMMA BucketFacts ==
  ASSUME Table(buckets, heap)
  PROVE  /\ nbuckets \in Nat /\ DOMAIN buckets = 1 .. nbuckets
         /\ \A b \in 1 .. nbuckets : IsInjective(buckets[b])
         /\ \A b \in 1 .. nbuckets :
              /\ buckets[b] \in Seq(Nodes) /\ Len(buckets[b]) \in Nat
              /\ DOMAIN buckets[b] = 1 .. Len(buckets[b])
         /\ \A b, c \in 1 .. nbuckets : \A a :
              a \in ToSet(buckets[b]) /\ a \in ToSet(buckets[c]) => b = c
<1>1. \A b \in 1 .. nbuckets : buckets[b] \in Seq(Nodes) /\ IsInjective(buckets[b])
  BY TableFacts DEF nbuckets
<1>2. \A b, c \in 1 .. nbuckets : \A a :
        a \in ToSet(buckets[b]) /\ a \in ToSet(buckets[c]) => b = c
  BY TableFacts DEF nbuckets
<1>3. nbuckets \in Nat /\ DOMAIN buckets = 1 .. nbuckets
  BY TableFacts DEF nbuckets
<1> QED
  BY <1>1, <1>2, <1>3

(* The node after the n-th of bucket b.                                    *)
LEMMA SuccessorFacts ==
  ASSUME Table(buckets, heap), NEW b \in 1 .. nbuckets, NEW n \in DOMAIN buckets[b]
  PROVE  Successor(buckets[b][n]) =
           IF n < Len(buckets[b]) THEN buckets[b][n + 1] ELSE Nil
<1> DEFINE a == buckets[b][n]
           B == CHOOSE c \in DOMAIN buckets : a \in ToSet(buckets[c])
           N == CHOOSE m \in DOMAIN buckets[b] : buckets[b][m] = a
<1>1. DOMAIN buckets = 1 .. nbuckets
  BY TableFacts DEF nbuckets
<1>2. a \in ToSet(buckets[b])
  BY DEF ToSet
<1>3. \A c \in DOMAIN buckets : a \in ToSet(buckets[c]) => b = c
  BY <1>1, <1>2, TableFacts DEF nbuckets
<1>4. B = b
  <2> HIDE DEF a
  <2> QED
    BY <1>1, <1>2, <1>3
<1>5. N = n
  <2>1. IsInjective(buckets[b])
    BY TableFacts DEF nbuckets
  <2>2. \A m \in DOMAIN buckets[b] : buckets[b][m] = a => m = n
    BY <2>1 DEF IsInjective
  <2> QED
    BY <2>2
<1> HIDE DEF a
<1>6. Successor(a) = LET m == CHOOSE m \in DOMAIN buckets[B] : buckets[B][m] = a
                     IN IF m < Len(buckets[B]) THEN buckets[B][m + 1] ELSE Nil
  BY DEF Successor
<1> HIDE DEF B
<1>7. Successor(a) = IF N < Len(buckets[b]) THEN buckets[b][N + 1] ELSE Nil
  BY <1>4, <1>6
<1> QED
  BY <1>5, <1>7 DEF a

(* The nodes passed are allocated.                                         *)
LEMMA PassedAreLive ==
  ASSUME Table(buckets, heap), NEW it, NEW a, Passed(buckets, it, a)
  PROVE  a \in Live
<1>1. \A b \in DOMAIN buckets : \A n \in DOMAIN buckets[b] : buckets[b][n] \in ToSet(buckets[b])
  BY DEF ToSet
<1>2. \A b \in DOMAIN buckets : \A c \in ToSet(buckets[b]) : c \in Live
  BY DEF Table, Live
<1> QED
  BY <1>1, <1>2 DEF Passed

(* A step to a node: nothing else is passed, and its key is a new one.     *)
LEMMA ToANode ==
  ASSUME IInv, Advance, At(buckets, Advanced), ~Passed(buckets, iter, Advanced.node),
         \A c : Passed(buckets, Advanced, c) <=>
                  Passed(buckets, iter, c) \/ c = Advanced.node
  PROVE  Loop'
<1> DEFINE it == Advanced
           a == it.node
           k == heap[a].key
<1>0. /\ Types /\ Table(buckets, heap) /\ Keyed(text, heap) /\ Loop
      /\ UNCHANGED <<text, heap, buckets, nnodes>> /\ iter' = it
  BY DEF IInv, Advance, map
<1>1. Passed(buckets, it, a)
  OBVIOUS
<1>2. a \in Live
  BY <1>0, <1>1, PassedAreLive
<1>3. a \in Nodes /\ heap[a] # Freed /\ a # Nil /\ k \in Keys
  <2>1. a \in Nodes /\ heap[a] # Freed
    BY <1>2 DEF Live
  <2> QED
    BY <1>0, <2>1, RuntimeMapAssumption DEF Types, Node
<1>4. phase' = "callback" /\ visited' = Append(visited, k)
  BY <1>3 DEF Advance
<1> HIDE DEF it
<1>5. \A c \in Nodes : Passed(buckets, iter, c) => c = a \/ heap[c].key # k
  <2> SUFFICES ASSUME NEW c \in Nodes, Passed(buckets, iter, c), heap[c].key = k
               PROVE  c = a
    OBVIOUS
  <2>1. c \in Live
    BY <1>0, PassedAreLive
  <2>2. heap[c] # Freed /\ SameText(text, heap[c].key, heap[a].key)
    BY <2>1 DEF Live, SameText
  <2> QED
    BY <1>0, <1>3, <2>2 DEF Keyed
<1>6. visited \in Seq(Keys) /\ IsInjective(visited) /\ k \notin ToSet(visited)
  BY <1>0, <1>5 DEF Loop, it
<1> HIDE DEF k
<1>7. /\ visited' \in Seq(Keys) /\ IsInjective(visited')
      /\ ToSet(visited') = ToSet(visited) \cup {k}
  BY <1>3, <1>4, <1>6, AppendFacts
<1>8. \A l : l \in ToSet(visited') <=> \E c \in Nodes : Passed(buckets, it, c) /\ heap[c].key = l
  <2>1. \A l : l \in ToSet(visited) <=>
                 \E c \in Nodes : Passed(buckets, iter, c) /\ heap[c].key = l
    BY <1>0 DEF Loop
  <2>2. \A c : Passed(buckets, it, c) <=> Passed(buckets, iter, c) \/ c = a
    BY DEF it
  <2> QED
    BY <1>3, <1>7, <2>1, <2>2 DEF k
<1>9. At(buckets, iter)'
  BY <1>0 DEF it
<1> QED
  BY <1>0, <1>4, <1>7, <1>8, <1>9 DEF Loop

(* The iterator at the end of its chain has passed the buckets up to its   *)
(* own.                                                                    *)
AtTheEnd(it) ==
  \/ it = NewIter
  \/ /\ At(buckets, it)
     /\ buckets[it.bucket + 1][Len(buckets[it.bucket + 1])] = it.node

LEMMA EndOfChain ==
  ASSUME Table(buckets, heap), NEW it, AtTheEnd(it), NEW a
  PROVE  /\ it.bucket \in -1 .. nbuckets - 1
         /\ Passed(buckets, it, a) <=>
             \E b \in 1 .. nbuckets : b - 1 <= it.bucket /\ a \in ToSet(buckets[b])
<1> USE DEF nbuckets
<1>1. /\ nbuckets \in Nat /\ DOMAIN buckets = 1 .. nbuckets
      /\ \A b \in 1 .. nbuckets :
           /\ buckets[b] \in Seq(Nodes) /\ Len(buckets[b]) \in Nat
           /\ DOMAIN buckets[b] = 1 .. Len(buckets[b])
  BY TableFacts
<1>2. it.bucket \in -1 .. nbuckets - 1
  BY <1>1 DEF AtTheEnd, At, NewIter
<1>3. ASSUME Passed(buckets, it, a)
      PROVE  \E b \in 1 .. nbuckets : b - 1 <= it.bucket /\ a \in ToSet(buckets[b])
  BY <1>1, <1>2, <1>3 DEF Passed, ToSet
<1>4. ASSUME NEW b \in 1 .. nbuckets, b - 1 <= it.bucket, NEW n \in DOMAIN buckets[b],
             a = buckets[b][n]
      PROVE  Passed(buckets, it, a)
  <2>1. CASE b - 1 < it.bucket
    BY <1>1, <1>4, <2>1 DEF Passed
  <2>2. CASE b - 1 = it.bucket
    <3>1. b = it.bucket + 1 /\ it.bucket # -1
      BY <1>2, <2>2
    <3>2. buckets[b][Len(buckets[b])] = it.node
      BY <3>1 DEF AtTheEnd, NewIter
    <3>3. Len(buckets[b]) \in DOMAIN buckets[b] /\ n <= Len(buckets[b])
      BY <1>1, <1>4
    <3> QED
      BY <1>1, <1>4, <2>2, <3>2, <3>3 DEF Passed
  <2> QED
    BY <1>2, <1>4, <2>1, <2>2
<1> QED
  BY <1>2, <1>3, <1>4 DEF ToSet

(* One node on in the chain.                                               *)
LEMMA NextInChain ==
  ASSUME Table(buckets, heap), NEW it, At(buckets, it), Successor(it.node) # Nil,
         NEW jt, jt = [it EXCEPT !.node = Successor(it.node)]
  PROVE  /\ At(buckets, jt) /\ ~Passed(buckets, it, jt.node)
         /\ \A c : Passed(buckets, jt, c) <=> Passed(buckets, it, c) \/ c = jt.node
<1> USE DEF nbuckets
<1> DEFINE b == it.bucket + 1
           chain == buckets[b]
<1>1. nbuckets \in Nat /\ DOMAIN buckets = 1 .. nbuckets /\ b \in 1 .. nbuckets
  BY TableFacts DEF At
<1>2. /\ chain \in Seq(Nodes) /\ Len(chain) \in Nat /\ DOMAIN chain = 1 .. Len(chain)
      /\ \A m, n \in DOMAIN chain : chain[m] = chain[n] => m = n
      /\ \A a \in ToSet(chain) : \A c \in 1 .. nbuckets : a \in ToSet(buckets[c]) => b = c
  <2>1. chain \in Seq(Nodes) /\ IsInjective(chain)
    BY <1>1, BucketFacts
  <2>2. \A a \in ToSet(chain) : \A c \in 1 .. nbuckets : a \in ToSet(buckets[c]) => b = c
    <3> HIDE DEF b
    <3> QED
      BY <1>1, BucketFacts
  <2> HIDE DEF chain
  <2> QED
    BY <2>1, <2>2 DEF IsInjective
<1>3. PICK n \in DOMAIN chain : chain[n] = it.node
  BY DEF At, ToSet
<1>4. Successor(it.node) = IF n < Len(chain) THEN chain[n + 1] ELSE Nil
  BY <1>1, <1>3, SuccessorFacts
<1>5. n + 1 \in DOMAIN chain /\ n \in Nat /\ Successor(it.node) = chain[n + 1]
  BY <1>2, <1>4
<1>6. jt.node = chain[n + 1] /\ jt.bucket = it.bucket
  BY <1>5 DEF At
<1>7. At(buckets, jt)
  <2>1. chain[n + 1] \in Nodes /\ chain[n + 1] \in ToSet(chain)
    BY <1>2, <1>5 DEF ToSet
  <2> QED
    BY <1>5, <1>6, <2>1 DEF At
<1>8. it.bucket \in Int /\ it.bucket = b - 1
  BY DEF At
<1> HIDE DEF b
<1>9. \A c \in 1 .. nbuckets : c - 1 = it.bucket <=> c = b
  BY <1>1, <1>8
<1>10. ASSUME NEW c PROVE  Passed(buckets, it, c) <=>
         \/ \E d \in 1 .. nbuckets : d - 1 < it.bucket /\ c \in ToSet(buckets[d])
         \/ \E m \in 1 .. n : c = chain[m]
  <2>1. (\E m \in DOMAIN chain : chain[m] = c /\ \E l \in DOMAIN chain : chain[l] = it.node /\ m <= l)
          <=> \E m \in 1 .. n : c = chain[m]
    BY <1>2, <1>3, <1>5
  <2> QED
    BY <1>1, <1>9, <2>1 DEF Passed, ToSet
<1>11. ASSUME NEW c PROVE  Passed(buckets, jt, c) <=>
         \/ \E d \in 1 .. nbuckets : d - 1 < it.bucket /\ c \in ToSet(buckets[d])
         \/ \E m \in 1 .. n + 1 : c = chain[m]
  <2>1. (\E m \in DOMAIN chain : chain[m] = c /\ \E l \in DOMAIN chain : chain[l] = jt.node /\ m <= l)
          <=> \E m \in 1 .. n + 1 : c = chain[m]
    BY <1>2, <1>5, <1>6
  <2> QED
    BY <1>1, <1>6, <1>9, <2>1 DEF Passed, ToSet
<1>12. ~Passed(buckets, it, jt.node)
  <2>1. \A d \in 1 .. nbuckets : chain[n + 1] \in ToSet(buckets[d]) => d = b
    BY <1>2, <1>5 DEF ToSet
  <2>2. \A m \in 1 .. n : chain[m] # chain[n + 1]
    BY <1>2, <1>5
  <2> QED
    BY <1>1, <1>6, <1>8, <1>10, <2>1, <2>2
<1>13. \A c : (\E m \in 1 .. n + 1 : c = chain[m]) <=> (\E m \in 1 .. n : c = chain[m]) \/ c = chain[n + 1]
  BY <1>5
<1> QED
  BY <1>6, <1>7, <1>10, <1>11, <1>12, <1>13

(* On to the head of the next chain that has one, or to the end.           *)
LEMMA ToNextBucket ==
  ASSUME Table(buckets, heap), NEW it, AtTheEnd(it), NEW jt, jt = NextBucket(it.bucket)
  PROVE  \/ /\ At(buckets, jt) /\ ~Passed(buckets, it, jt.node)
            /\ \A c : Passed(buckets, jt, c) <=> Passed(buckets, it, c) \/ c = jt.node
         \/ /\ jt = [bucket |-> nbuckets, node |-> Nil]
            /\ \A c : Passed(buckets, jt, c) <=> Passed(buckets, it, c)
<1> USE DEF nbuckets
<1> DEFINE more == {c \in it.bucket + 1 .. nbuckets - 1 : buckets[c + 1] # << >>}
<1>1. /\ nbuckets \in Nat /\ DOMAIN buckets = 1 .. nbuckets
      /\ \A b \in 1 .. nbuckets :
           /\ buckets[b] \in Seq(Nodes) /\ Len(buckets[b]) \in Nat
           /\ DOMAIN buckets[b] = 1 .. Len(buckets[b])
      /\ \A b, c \in 1 .. nbuckets : \A a :
           a \in ToSet(buckets[b]) /\ a \in ToSet(buckets[c]) => b = c
  BY BucketFacts
<1>2. it.bucket \in -1 .. nbuckets - 1
  BY EndOfChain
<1>3. \A c : Passed(buckets, it, c) <=>
              \E b \in 1 .. nbuckets : b - 1 <= it.bucket /\ c \in ToSet(buckets[b])
  BY EndOfChain
<1>4. jt = IF more = {} THEN [bucket |-> nbuckets, node |-> Nil]
           ELSE [bucket |-> Min(more), node |-> Head(buckets[Min(more) + 1])]
  BY DEF NextBucket
<1>5. \A b \in 1 .. nbuckets : b - 1 > it.bucket /\ b - 1 \notin more => buckets[b] = << >>
  BY <1>1, <1>2
<1>6. ToSet(<< >>) = {}
  <2>1. DOMAIN << >> = {}
    OBVIOUS
  <2> QED
    BY <2>1 DEF ToSet
<1>7. CASE more = {}
  <2>1. jt.bucket = nbuckets
    BY <1>4, <1>7
  <2>2. ASSUME NEW c
        PROVE  Passed(buckets, jt, c) <=> \E b \in 1 .. nbuckets : c \in ToSet(buckets[b])
    <3>1. \A b \in 1 .. nbuckets : b - 1 < jt.bucket
      BY <1>1, <2>1
    <3> HIDE DEF nbuckets
    <3>2. Passed(buckets, jt, c) <=>
            \E b \in 1 .. nbuckets : \E n \in DOMAIN buckets[b] : buckets[b][n] = c
      BY <1>1, <3>1 DEF Passed
    <3> QED
      BY <3>2 DEF ToSet
  <2>3. \A b \in 1 .. nbuckets : b - 1 <= it.bucket \/ ToSet(buckets[b]) = {}
    <3>1. \A b \in 1 .. nbuckets : b - 1 > it.bucket => buckets[b] = << >>
      BY <1>5, <1>7
    <3>2. \A b \in 1 .. nbuckets : b - 1 <= it.bucket \/ b - 1 > it.bucket
      BY <1>2
    <3> HIDE DEF nbuckets
    <3> QED
      BY <1>6, <3>1, <3>2
  <2> QED
    BY <1>3, <1>4, <1>7, <2>2, <2>3
<1>8. CASE more # {}
  <2> DEFINE m == Min(more)
             chain == buckets[m + 1]
  <2>1. m \in more /\ \A c \in more : m <= c
    <3>1. more \in SUBSET Nat
      BY <1>1, <1>2
    <3> HIDE DEF more
    <3> QED
      BY <1>8, <3>1, MinIsLeast
  <2>2. jt = [bucket |-> m, node |-> Head(chain)]
    BY <1>4, <1>8
  <2> HIDE DEF m
  <2>3. m \in 0 .. nbuckets - 1 /\ m > it.bucket /\ chain # << >>
    BY <1>1, <1>2, <2>1
  <2>4. m + 1 \in 1 .. nbuckets
    BY <1>1, <2>3
  <2>5. /\ chain \in Seq(Nodes) /\ 1 \in DOMAIN chain /\ Head(chain) = chain[1]
        /\ DOMAIN chain = 1 .. Len(chain) /\ Len(chain) \in Nat
    BY <1>1, <2>3, <2>4
  <2>6. \A b \in 1 .. nbuckets : b - 1 < m => b - 1 <= it.bucket \/ ToSet(buckets[b]) = {}
    <3>1. \A b \in 1 .. nbuckets : b - 1 < m => b - 1 \notin more
      BY <1>1, <2>1, <2>3
    <3> QED
      BY <1>1, <1>2, <1>5, <1>6, <3>1
  <2> HIDE DEF more
  <2>7. jt.bucket = m /\ jt.node = chain[1] /\ chain[1] \in Nodes /\ chain[1] \in ToSet(chain)
    BY <2>2, <2>5 DEF ToSet
  <2>8. At(buckets, jt)
    BY <2>2, <2>3, <2>5, <2>7 DEF At
  <2>9. \A a : a = jt.node => ~Passed(buckets, it, a)
    <3>1. \A b \in 1 .. nbuckets : chain[1] \in ToSet(buckets[b]) => m + 1 = b
      BY <1>1, <2>4, <2>7
    <3>2. ~\E b \in 1 .. nbuckets : b - 1 <= it.bucket /\ chain[1] \in ToSet(buckets[b])
      BY <1>2, <2>3, <3>1
    <3> QED
      BY <1>3, <2>7, <3>2
  <2>10. ASSUME NEW c PROVE Passed(buckets, jt, c) <=> Passed(buckets, it, c) \/ c = jt.node
    <3>1. \A b \in 1 .. nbuckets : b - 1 = m <=> b = m + 1
      BY <2>3
    <3>2. (\E n \in DOMAIN chain : chain[n] = c /\ \E l \in DOMAIN chain : chain[l] = jt.node /\ n <= l)
            <=> c = chain[1]
      <4>1. \A l \in DOMAIN chain : chain[l] = chain[1] => l = 1
        <5>1. \A b \in 1 .. nbuckets : IsInjective(buckets[b])
          BY TableFacts
        <5>2. IsInjective(chain)
          BY <2>4, <5>1
        <5> QED
          BY <2>5, <5>2 DEF IsInjective
      <4> HIDE DEF chain
      <4> QED
        BY <2>5, <2>7, <4>1
    <3>3. Passed(buckets, jt, c) <=>
            \/ \E b \in 1 .. nbuckets : b - 1 < m /\ c \in ToSet(buckets[b])
            \/ c = chain[1]
      <4> HIDE DEF nbuckets
      <4>1. Passed(buckets, jt, c) <=>
              \E b \in 1 .. nbuckets : \E n \in DOMAIN buckets[b] :
                /\ buckets[b][n] = c
                /\ \/ b - 1 < m
                   \/ b = m + 1 /\ \E l \in DOMAIN buckets[b] : buckets[b][l] = jt.node /\ n <= l
        BY <1>1, <2>7, <3>1 DEF Passed
      <4>2. (\E b \in 1 .. nbuckets : \E n \in DOMAIN buckets[b] : buckets[b][n] = c /\ b - 1 < m)
              <=> \E b \in 1 .. nbuckets : b - 1 < m /\ c \in ToSet(buckets[b])
        BY DEF ToSet
      <4> QED
        BY <2>4, <3>2, <4>1, <4>2
    <3>4. (\E b \in 1 .. nbuckets : b - 1 < m /\ c \in ToSet(buckets[b]))
            <=> \E b \in 1 .. nbuckets : b - 1 <= it.bucket /\ c \in ToSet(buckets[b])
      <4>1. \A b \in 1 .. nbuckets : b - 1 <= it.bucket => b - 1 < m
        BY <1>2, <2>3
      <4> HIDE DEF nbuckets
      <4> QED
        BY <2>6, <4>1
    <3> QED
      BY <1>3, <2>7, <3>3, <3>4
  <2> QED
    BY <2>8, <2>9, <2>10
<1> QED
  BY <1>7, <1>8

LEMMA AdvanceStep == IInv /\ Advance => IInv'
<1> SUFFICES ASSUME IInv, Advance PROVE IInv'
  OBVIOUS
<1> USE DEF nbuckets
<1>0. /\ Types /\ Table(buckets, heap) /\ Keyed(text, heap) /\ Counted /\ Loop
      /\ phase = "next" /\ iter' = Advanced
      /\ UNCHANGED <<text, heap, buckets, nnodes>>
  BY DEF IInv, Advance, map
<1>1. Types' /\ Table(buckets, heap)' /\ Keyed(text, heap)' /\ Counted'
  BY <1>0 DEF Types, Counted, Live
<1>2. CASE At(buckets, iter) /\ Successor(iter.node) # Nil
  <2>1. iter.node # Nil
    BY <1>2, RuntimeMapAssumption DEF At
  <2>2. Advanced = [iter EXCEPT !.node = Successor(iter.node)]
    BY <1>2, <2>1 DEF Advanced
  <2>3. Loop'
    BY <1>0, <1>2, <2>2, NextInChain, ToANode, ZenonT(30)
  <2> QED
    BY <1>1, <2>3 DEF IInv
<1>3. CASE iter = NewIter \/ (At(buckets, iter) /\ Successor(iter.node) = Nil)
  <2>1. AtTheEnd(iter)
    <3>1. CASE At(buckets, iter) /\ Successor(iter.node) = Nil
      <4> DEFINE b == iter.bucket + 1
      <4>1. b \in 1 .. nbuckets /\ nbuckets \in Nat
        BY <1>0, <3>1, TableFacts DEF At
      <4>2. buckets[b] \in Seq(Nodes) /\ Len(buckets[b]) \in Nat /\ DOMAIN buckets[b] = 1 .. Len(buckets[b])
        BY <1>0, <4>1, TableFacts
      <4>3. PICK n \in DOMAIN buckets[b] : buckets[b][n] = iter.node
        BY <3>1 DEF At, ToSet
      <4> HIDE DEF b
      <4>4. Successor(buckets[b][n]) = IF n < Len(buckets[b]) THEN buckets[b][n + 1] ELSE Nil
        BY <1>0, <4>1, SuccessorFacts
      <4>5. n < Len(buckets[b]) => buckets[b][n + 1] \in Nodes
        BY <4>2
      <4>6. ~(n < Len(buckets[b]))
        BY <3>1, <4>3, <4>4, <4>5, RuntimeMapAssumption
      <4>7. n = Len(buckets[b])
        BY <4>2, <4>6
      <4> QED
        BY <3>1, <4>3, <4>7 DEF AtTheEnd, b
    <3> QED
      BY <1>3, <3>1 DEF AtTheEnd
  <2>2. Advanced = NextBucket(iter.bucket)
    BY <1>3, RuntimeMapAssumption DEF Advanced, NewIter
  <2>3. CASE /\ At(buckets, Advanced) /\ ~Passed(buckets, iter, Advanced.node)
             /\ \A c : Passed(buckets, Advanced, c) <=>
                        Passed(buckets, iter, c) \/ c = Advanced.node
    BY <1>1, <2>3, ToANode DEF IInv
  <2>4. CASE /\ Advanced = [bucket |-> nbuckets, node |-> Nil]
             /\ \A c : Passed(buckets, Advanced, c) <=> Passed(buckets, iter, c)
    <3>1. phase' = "exhausted" /\ visited' = visited
      BY <2>4 DEF Advance
    <3>2. Loop'
      BY <1>0, <2>4, <3>1 DEF Loop
    <3> QED
      BY <1>1, <3>2 DEF IInv
  <2> QED
    BY <1>0, <2>1, <2>2, <2>3, <2>4, ToNextBucket
<1>4. iter = NewIter \/ At(buckets, iter)
  BY <1>0 DEF Loop
<1> QED
  BY <1>2, <1>3, <1>4

LEMMA NextIInv == IInv /\ [Next]_vars => IInv'
<1> SUFFICES ASSUME IInv, [Next]_vars PROVE IInv'
  OBVIOUS
<1>1. ASSUME NEW k \in Keys, NEW v \in Values, SetExisting(k, v) \/ SetNew(k, v)
      PROVE  IInv'
  BY <1>1, SetExistingStep, SetNewStep
<1>2. ASSUME NEW k \in Keys, SetFails(k) \/ RemoveKey(k) \/ FreeKey(k)
      PROVE  IInv'
  BY <1>2, SetFailsStep, RemoveKeyStep, FreeKeyStep
<1>3. CASE Recreate
  BY <1>3, RecreateStep
<1>4. CASE Start \/ Advance \/ Continue \/ Finish
  BY <1>4, StartStep, AdvanceStep, ContinueStep, FinishStep
<1>5. CASE UNCHANGED vars
  <2>1. UNCHANGED <<text, heap, buckets, nnodes, iter, phase, visited>>
    BY <1>5 DEF vars
  <2> QED
    BY <2>1 DEF IInv, Types, Counted, Live, nbuckets, Loop, NewIter
<1> QED
  BY <1>1, <1>2, <1>3, <1>4, <1>5 DEF Next

LEMMA InvariantR == Spec => []IInv
<1>1. Init => IInv
  BY InitIInv
<1>2. IInv /\ [Next]_vars => IInv'
  BY NextIInv
<1> QED
  BY <1>1, <1>2, PTL DEF Spec

-----------------------------------------------------------------------------
(* What the map holds for a text.                                          *)
Holds(tx, hp, a, t) == a \in Nodes /\ hp[a] # Freed /\ tx[hp[a].key] = t

ValueIn(hp, held) == IF held = {} THEN Nil ELSE hp[CHOOSE a \in held : TRUE].value

ValueOf(tx, hp, t) == ValueIn(hp, {a \in Nodes : Holds(tx, hp, a, t)})

LEMMA ContentsValues ==
  /\ Contents = [t \in Texts |-> ValueOf(text, heap, t)]
  /\ Contents' = [t \in Texts |-> ValueOf(text', heap', t)]
<1>1. \A t : Holding(t) = {a \in Nodes : Holds(text, heap, a, t)}
  BY DEF Holding, Live, Holds
<1>2. \A t : Holding(t)' = {a \in Nodes : Holds(text', heap', a, t)}
  BY DEF Holding, Live, Holds
<1>3. Contents = [t \in Texts |-> ValueOf(text, heap, t)]
  <2>1. Contents = [t \in Texts |-> ValueIn(heap, Holding(t))]
    BY DEF Contents, ValueIn
  <2> QED
    BY <1>1, <2>1 DEF ValueOf
<1>4. Contents' = [t \in Texts |-> ValueOf(text', heap', t)]
  <2>1. Contents' = [t \in Texts |-> ValueIn(heap', Holding(t)')]
    BY DEF Contents, ValueIn
  <2> QED
    BY <1>2, <2>1 DEF ValueOf
<1> QED
  BY <1>3, <1>4

(* It is the value of the one node with that text.                         *)
LEMMA ValueFacts ==
  ASSUME NEW tx, NEW hp, Keyed(tx, hp), NEW t \in Texts
  PROVE  /\ \A a, c : Holds(tx, hp, a, t) /\ Holds(tx, hp, c, t) => a = c
         /\ \A a : Holds(tx, hp, a, t) => ValueOf(tx, hp, t) = hp[a].value
         /\ (\A a : ~Holds(tx, hp, a, t)) => ValueOf(tx, hp, t) = Nil
<1> DEFINE held == {a \in Nodes : Holds(tx, hp, a, t)}
<1>1. ASSUME NEW a, NEW c, Holds(tx, hp, a, t), Holds(tx, hp, c, t) PROVE a = c
  <2>1. tx[hp[a].key] # Freed /\ SameText(tx, hp[a].key, hp[c].key)
    BY <1>1, RuntimeMapAssumption DEF Holds, SameText
  <2> QED
    BY <1>1, <2>1 DEF Holds, Keyed
<1>2. ASSUME NEW a, Holds(tx, hp, a, t) PROVE ValueOf(tx, hp, t) = hp[a].value
  <2>1. a \in held
    BY <1>2 DEF Holds
  <2>2. held = {a}
    BY <1>1, <2>1
  <2>3. (CHOOSE c \in held : TRUE) = a
    BY <2>2
  <2>4. ValueOf(tx, hp, t) = hp[CHOOSE c \in held : TRUE].value
    BY <2>1 DEF ValueOf, ValueIn
  <2> QED
    BY <2>3, <2>4
<1>3. (\A a : ~Holds(tx, hp, a, t)) => ValueOf(tx, hp, t) = Nil
  BY DEF ValueOf, ValueIn
<1> QED
  BY <1>1, <1>2, <1>3

(* The same nodes with the same values: the same value.                    *)
LEMMA SameValue ==
  ASSUME NEW tx, NEW hp, Keyed(tx, hp), NEW ty, NEW hq, Keyed(ty, hq), NEW t \in Texts,
         \A a : Holds(ty, hq, a, t) <=> Holds(tx, hp, a, t),
         \A a : Holds(tx, hp, a, t) => hq[a].value = hp[a].value
  PROVE  ValueOf(ty, hq, t) = ValueOf(tx, hp, t)
<1>1. CASE \E a : Holds(tx, hp, a, t)
  BY <1>1, ValueFacts
<1>2. CASE \A a : ~Holds(tx, hp, a, t)
  BY <1>2, ValueFacts
<1> QED
  BY <1>1, <1>2

(* One text is edited: the new contents differ there and nowhere else.     *)
LEMMA OneEdit ==
  ASSUME NEW u, NEW v, ValueOf(text', heap', u) = v,
         \A t \in Texts : t # u => ValueOf(text', heap', t) = ValueOf(text, heap, t)
  PROVE  Contents' = [Contents EXCEPT ![u] = v]
BY ContentsValues

LEMMA SetExistingEdit ==
  ASSUME IInv, IInv', NEW k \in Keys, NEW v \in Values, SetExisting(k, v)
  PROVE  Contents' = [Contents EXCEPT ![text[k]] = v]
<1> DEFINE a == GetRef(k)
           u == text[k]
<1>1. /\ Types /\ Table(buckets, heap) /\ Keyed(text, heap) /\ Keyed(text', heap')
      /\ heap' = [heap EXCEPT ![a].value = v] /\ text' = text
  BY DEF IInv, SetExisting
<1>2. a \in Live /\ text[heap[a].key] = u /\ u \in Texts
  BY <1>1, GetRefFinds DEF SetExisting, Readable, Types
<1> HIDE DEF a, u
<1>3. /\ \A c \in Nodes : heap'[c] = Freed <=> heap[c] = Freed
      /\ \A c \in Live :
           /\ heap'[c].hash = heap[c].hash /\ heap'[c].key = heap[c].key
           /\ heap'[c].value = IF c = a THEN v ELSE heap[c].value
  BY <1>1, <1>2, WriteValue
<1>4. \A c, t : Holds(text', heap', c, t) <=> Holds(text, heap, c, t)
  BY <1>1, <1>3 DEF Holds, Live
<1>5. Holds(text, heap, a, u)
  BY <1>2 DEF Holds, Live
<1>6. ValueOf(text', heap', u) = v
  <2>1. Holds(text', heap', a, u) /\ heap'[a].value = v
    BY <1>2, <1>3, <1>4, <1>5
  <2> QED
    BY <1>1, <1>2, <2>1, ValueFacts
<1>7. ASSUME NEW t \in Texts, t # u PROVE ValueOf(text', heap', t) = ValueOf(text, heap, t)
  <2>1. \A c : Holds(text, heap, c, t) => c # a /\ c \in Live
    BY <1>2, <1>7 DEF Holds, Live
  <2>2. \A c : Holds(text, heap, c, t) => heap'[c].value = heap[c].value
    BY <1>3, <2>1
  <2>3. \A c : Holds(text', heap', c, t) <=> Holds(text, heap, c, t)
    BY <1>4
  <2>4. Keyed(text, heap) /\ Keyed(text', heap')
    BY <1>1
  <2> QED
    BY <2>2, <2>3, <2>4, SameValue
<1> QED
  BY <1>6, <1>7, OneEdit DEF u

LEMMA SetNewEdit ==
  ASSUME IInv, IInv', NEW k \in Keys, NEW v \in Values, SetNew(k, v)
  PROVE  Contents' = [Contents EXCEPT ![text[k]] = v]
<1> DEFINE u == text[k]
           node == NewNode(k, v)
<1>1. PICK a \in Nodes \ Live : heap' = [heap EXCEPT ![a] = node]
  BY DEF SetNew
<1>2. /\ Keyed(text, heap) /\ Keyed(text', heap') /\ text' = text
      /\ u \in Texts /\ heap \in [Nodes -> Node \cup {Freed}]
  BY DEF IInv, SetNew, Inserting, Readable, Types
<1>3. a \in Nodes /\ heap[a] = Freed
  BY <1>1 DEF Live
<1>4. node \in Node /\ node.key = k /\ node.value = v
  BY <1>2, RuntimeMapAssumption DEF NewNode, Node
<1> HIDE DEF node
<1>5. node # Freed
  BY <1>4, RuntimeMapAssumption
<1>6. \A c \in Nodes : heap'[c] = IF c = a THEN node ELSE heap[c]
  BY <1>1, <1>2
<1>7. \A c, t : Holds(text', heap', c, t) <=>
                Holds(text, heap, c, t) \/ (c = a /\ t = u)
  BY <1>2, <1>3, <1>4, <1>5, <1>6 DEF Holds
<1> HIDE DEF u
<1>8. ValueOf(text', heap', u) = v
  BY <1>2, <1>3, <1>4, <1>6, <1>7, ValueFacts
<1>9. ASSUME NEW t \in Texts, t # u PROVE ValueOf(text', heap', t) = ValueOf(text, heap, t)
  <2>1. \A c : Holds(text, heap, c, t) => c \in Nodes /\ c # a
    BY <1>3 DEF Holds
  <2>2. \A c : Holds(text, heap, c, t) => heap'[c].value = heap[c].value
    BY <1>6, <2>1
  <2>3. \A c : Holds(text', heap', c, t) <=> Holds(text, heap, c, t)
    BY <1>7, <1>9
  <2> QED
    BY <1>2, <2>2, <2>3, SameValue
<1> QED
  BY <1>8, <1>9, OneEdit DEF u

LEMMA RemoveKeyEdit ==
  ASSUME IInv, IInv', NEW k \in Keys, RemoveKey(k)
  PROVE  Contents' = [Contents EXCEPT ![text[k]] = Nil]
<1> DEFINE a == GetRef(k)
           u == text[k]
<1>1. /\ Types /\ Table(buckets, heap) /\ Keyed(text, heap) /\ Keyed(text', heap')
      /\ heap' = [heap EXCEPT ![a] = Freed] /\ text' = text
  BY DEF IInv, RemoveKey
<1>2. a \in Live /\ text[heap[a].key] = u /\ u \in Texts
  BY <1>1, GetRefFinds DEF RemoveKey, Readable, Types
<1> HIDE DEF a, u
<1>3. \A c \in Nodes : heap'[c] = IF c = a THEN Freed ELSE heap[c]
  BY <1>1 DEF Types
<1>4. \A c, t : Holds(text', heap', c, t) <=> Holds(text, heap, c, t) /\ c # a
  BY <1>1, <1>3 DEF Holds
<1>5. Holds(text, heap, a, u)
  BY <1>2 DEF Holds, Live
<1>6. ValueOf(text', heap', u) = Nil
  <2>1. \A c : Holds(text, heap, c, u) => c = a
    BY <1>1, <1>2, <1>5, ValueFacts
  <2>2. \A c : ~Holds(text', heap', c, u)
    BY <1>4, <2>1
  <2> QED
    BY <1>1, <1>2, <2>2, ValueFacts
<1>7. ASSUME NEW t \in Texts, t # u PROVE ValueOf(text', heap', t) = ValueOf(text, heap, t)
  <2>1. \A c : Holds(text, heap, c, t) => c \in Nodes /\ c # a
    BY <1>2, <1>7 DEF Holds
  <2>2. \A c : Holds(text, heap, c, t) => heap'[c].value = heap[c].value
    BY <1>3, <2>1
  <2>3. \A c : Holds(text', heap', c, t) <=> Holds(text, heap, c, t)
    BY <1>4, <2>1
  <2>4. Keyed(text, heap) /\ Keyed(text', heap')
    BY <1>1
  <2> QED
    BY <2>2, <2>3, <2>4, SameValue
<1> QED
  BY <1>6, <1>7, OneEdit DEF u

LEMMA RecreateEdit ==
  ASSUME IInv, IInv', Recreate
  PROVE  \A t \in Texts : Contents'[t] = Nil
<1>1. /\ Keyed(text', heap') /\ Table(buckets, heap)
      /\ heap' = [a \in Nodes |-> IF a \in Reached THEN Freed ELSE heap[a]]
  BY DEF IInv, Recreate
<1>2. \A a \in Nodes : heap'[a] = Freed
  BY <1>1, ReachedIsLive DEF Live
<1>3. \A t \in Texts : ValueOf(text', heap', t) = Nil
  BY <1>1, <1>2, ValueFacts DEF Holds
<1> QED
  BY <1>3, ContentsValues

(* A step that changes no node, and no text a node is stored under.        *)
LEMMA NoEdit ==
  ASSUME IInv, IInv', heap' = heap, \A a \in Live : text'[heap[a].key] = text[heap[a].key]
  PROVE  Contents' = Contents
<1>1. Keyed(text, heap) /\ Keyed(text', heap')
  BY DEF IInv
<1>2. \A a, t : Holds(text', heap', a, t) <=> Holds(text, heap, a, t)
  BY DEF Holds, Live
<1>3. \A t \in Texts : ValueOf(text', heap', t) = ValueOf(text, heap, t)
  BY <1>1, <1>2, SameValue
<1> QED
  BY <1>3, ContentsValues

(* A text changes only when the program frees it.                          *)
LEMMA TextsStay ==
  ASSUME Types, [Next]_vars
  PROVE  \/ text' = text
         \/ \E k \in Keys :
              /\ KeysChange \/ k \notin Stored
              /\ text' = [text EXCEPT ![k] = Freed]
<1>1. CASE Next
  BY <1>1 DEF Next, SetExisting, SetNew, SetFails, RemoveKey, FreeKey, Recreate,
              Start, Advance, Continue, Finish
<1>2. CASE UNCHANGED vars
  BY <1>2 DEF vars
<1> QED
  BY <1>1, <1>2

LEMMA StepsAreExact ==
  ASSUME ~KeysChange, IInv, IInv', [Next]_vars
  PROVE  EditIsExact
<1>1. ASSUME NEW k \in Keys, NEW v \in Values, SetExisting(k, v) \/ SetNew(k, v)
      PROVE  Contents' = [Contents EXCEPT ![text[k]] = v]
  BY <1>1, SetExistingEdit, SetNewEdit
<1>2. ASSUME NEW k \in Keys, RemoveKey(k)
      PROVE  Contents' = [Contents EXCEPT ![text[k]] = Nil]
  BY <1>2, RemoveKeyEdit
<1>3. ASSUME Recreate PROVE \A t \in Texts : Contents'[t] = Nil
  BY <1>3, RecreateEdit
<1>4. ASSUME NEW k \in Keys, SetFails(k) PROVE Contents' = Contents
  BY <1>4, NoEdit DEF SetFails
<1>5. ASSUME UNCHANGED map PROVE Contents' = Contents
  <2>1. heap' = heap
    BY <1>5 DEF map
  <2>2. \A a \in Live : heap[a].key \in Stored /\ heap[a].key \in Keys
    BY DEF Stored, IInv, Types, Live, Node
  <2>3. \A a \in Live : text'[heap[a].key] = text[heap[a].key]
    <3>1. Types
      BY DEF IInv
    <3> QED
      BY <2>2, <3>1, TextsStay DEF Types
  <2> QED
    BY <2>1, <2>3, NoEdit
<1> QED
  BY <1>1, <1>2, <1>3, <1>4, <1>5 DEF EditIsExact

(* Two nodes never share a text, and a look-up meets the one there is.      *)
LEMMA LookupInTable == IInv => LookupFindsContents
<1> SUFFICES ASSUME IInv PROVE LookupFindsContents
  OBVIOUS
<1>1. Types /\ Table(buckets, heap) /\ Keyed(text, heap)
  BY DEF IInv
<1>2. ASSUME NEW t \in Texts PROVE Cardinality(Holding(t)) <= 1
  <2>1. \A a \in Holding(t) : Holds(text, heap, a, t)
    BY DEF Holding, Live, Holds
  <2>2. \A a, c \in Holding(t) : a = c
    BY <1>1, <2>1, ValueFacts
  <2>3. Holding(t) = {} \/ \E a : Holding(t) = {a}
    BY <2>2
  <2>4. Cardinality(Holding(t)) = 0 \/ Cardinality(Holding(t)) = 1
    BY <2>3, FS_EmptySet, FS_Singleton
  <2> QED
    BY <2>4
<1>3. ASSUME NEW k \in Keys, Readable(k) PROVE Get(k) = Contents[text[k]]
  <2> DEFINE t == text[k]
  <2>1. t \in Texts
    BY <1>1, <1>3 DEF Types, Readable
  <2>2. Contents[t] = ValueOf(text, heap, t)
    BY <2>1, ContentsValues
  <2>3. CASE GetRef(k) = Nil
    <3>1. \A a : ~Holds(text, heap, a, t)
      BY <1>1, <1>3, <2>3, GetRefFinds, RuntimeMapAssumption DEF Holds, Live
    <3> QED
      BY <1>1, <2>1, <2>2, <2>3, <3>1, ValueFacts DEF Get
  <2>4. CASE GetRef(k) # Nil
    <3>1. Holds(text, heap, GetRef(k), t)
      BY <1>1, <1>3, <2>4, GetRefFinds DEF Holds, Live
    <3> QED
      BY <1>1, <2>1, <2>2, <2>4, <3>1, ValueFacts DEF Get
  <2> QED
    BY <2>3, <2>4
<1> QED
  BY <1>2, <1>3 DEF LookupFindsContents

-----------------------------------------------------------------------------
(* TypeOK for every table: nodes and chains of nodes, a counter that fits, *)
(* and an iterator inside of the array or just behind it.                  *)
THEOREM RuntimeMapTyping == Spec => []TypeOK
<1>1. IInv => TypeOK
  <2> SUFFICES ASSUME IInv PROVE TypeOK
    OBVIOUS
  <2>1. buckets \in Seq(Seq(Nodes)) /\ nbuckets \in Nat
    BY BucketFacts, TableFacts DEF IInv
  <2>2. iter.node \in Nodes \cup {Nil} /\ iter.bucket \in -1 .. nbuckets
    <3>1. \/ iter = NewIter \/ At(buckets, iter)
          \/ iter = [bucket |-> nbuckets, node |-> Nil]
      BY DEF IInv, Loop
    <3>2. CASE iter = NewIter
      BY <2>1, <3>2 DEF NewIter
    <3>3. CASE At(buckets, iter)
      BY <2>1, <3>3 DEF At, nbuckets
    <3>4. CASE iter = [bucket |-> nbuckets, node |-> Nil]
      BY <2>1, <3>4
    <3> QED
      BY <3>1, <3>2, <3>3, <3>4
  <2>3. nnodes \in 0 .. Cardinality(Nodes)
    BY Finite DEF IInv, Counted
  <2> QED
    BY <2>1, <2>2, <2>3 DEF IInv, Types, Loop, TypeOK
<1> QED
  BY <1>1, InvariantR, PTL

(* The chains hold the allocated nodes, each once, and the counter counts  *)
(* them: no sequence of sets, removes, resizes and failures of map.c leaks *)
(* a node or keeps a freed one.                                            *)
THEOREM RuntimeMapOwnership == Spec => []ChainsOwnNodes
<1>1. IInv => ChainsOwnNodes
  <2> SUFFICES ASSUME IInv PROVE ChainsOwnNodes
    OBVIOUS
  <2>1. Table(buckets, heap) /\ Counted
    BY DEF IInv
  <2>2. Reached = Live
    BY <2>1, ReachedIsLive
  <2>3. ASSUME NEW b \in DOMAIN buckets, NEW c \in DOMAIN buckets,
               NEW m \in DOMAIN buckets[b], NEW n \in DOMAIN buckets[c],
               buckets[b][m] = buckets[c][n]
        PROVE  b = c /\ m = n
    <3>1. b \in 1 .. nbuckets /\ c \in 1 .. nbuckets
      BY <2>1, BucketFacts
    <3>2. buckets[b][m] \in ToSet(buckets[b]) /\ buckets[b][m] \in ToSet(buckets[c])
      BY <2>3 DEF ToSet
    <3>3. b = c /\ IsInjective(buckets[b])
      BY <2>1, <3>1, <3>2, BucketFacts
    <3> QED
      BY <2>3, <3>3 DEF IsInjective
  <2> QED
    BY <2>1, <2>2, <2>3 DEF ChainsOwnNodes, Counted
<1> QED
  BY <1>1, InvariantR, PTL

(* getref of map.c, whatever the hash function: a key finds the value that *)
(* is held for its text, and no text is held twice.  This does not need    *)
(* the keys in the map to stay readable.                                   *)
THEOREM RuntimeMapLookup == Spec => []LookupFindsContents
  BY LookupInTable, InvariantR, PTL

(* map_next and the emitted loop: the callback gets no key twice, and when *)
(* map_next returns NULL it has got every key of the map.                  *)
THEOREM RuntimeMapEach == Spec => []EachVisitsAll
<1>1. IInv => EachVisitsAll
  <2> SUFFICES ASSUME IInv PROVE EachVisitsAll
    OBVIOUS
  <2>1. Table(buckets, heap) /\ Loop
    BY DEF IInv
  <2>2. ASSUME phase = "exhausted" PROVE ToSet(visited) = Stored
    <3>1. iter.bucket = nbuckets
      BY <2>1, <2>2 DEF Loop
    <3>2. ASSUME NEW a \in Live PROVE Passed(buckets, iter, a)
      <4>1. \E b \in 1 .. nbuckets : a \in ToSet(buckets[b])
        BY <2>1, TableFacts DEF Live, nbuckets
      <4>2. nbuckets \in Nat /\ DOMAIN buckets = 1 .. nbuckets
        BY <2>1, BucketFacts
      <4>3. \A b \in 1 .. nbuckets : b - 1 < iter.bucket
        BY <3>1, <4>2
      <4> HIDE DEF nbuckets
      <4> QED
        BY <4>1, <4>2, <4>3 DEF Passed, ToSet
    <3>3. \A a \in Nodes : Passed(buckets, iter, a) <=> a \in Live
      BY <2>1, <3>2, PassedAreLive DEF Live
    <3>4. \A k : k \in ToSet(visited) <=>
                  \E a \in Nodes : Passed(buckets, iter, a) /\ heap[a].key = k
      BY <2>1 DEF Loop
    <3>5. \A k : k \in Stored <=> \E a \in Nodes : a \in Live /\ heap[a].key = k
      BY DEF Stored, Live
    <3> QED
      BY <3>3, <3>4, <3>5
  <2> QED
    BY <2>1, <2>2 DEF EachVisitsAll, Loop
<1> QED
  BY <1>1, InvariantR, PTL

(* Set, remove and delete of map.c change what the map holds exactly as    *)
(* they should, as long as no key in the map is freed.                     *)
THEOREM RuntimeMapEdits == ~KeysChange => (Spec => EditsAreExact)
<1>1. ASSUME ~KeysChange PROVE IInv /\ IInv' /\ [Next]_vars => EditIsExact
  BY <1>1, StepsAreExact
<1>2. ASSUME ~KeysChange PROVE Spec => EditsAreExact
  BY <1>1, <1>2, InvariantR, PTL DEF Spec, EditsAreExact
<1> QED
  BY <1>2

-----------------------------------------------------------------------------
(* What the statements of a program have asked for is what the map holds,  *)
(* but for what they have asked for in vain.                               *)
Agreed ==
  /\ DOMAIN asked = Texts
  /\ \A t \in Texts : Contents[t] = IF t \in lost THEN Nil ELSE asked[t]

(* A step of a program is a step of its map, or none.                      *)
LEMMA ClientSteps == [ClientNext]_clientVars => [Next]_vars
  BY DEF ClientNext, Assign, AssignInVain, Delete, DeleteAll, clientVars, Next, vars

(* A step that asks for v at t and makes the map hold w there.             *)
LEMMA AskedAgrees ==
  ASSUME Agreed, NEW t \in Texts, NEW v, NEW w, Asks(t, v),
         Contents' = [Contents EXCEPT ![t] = w],
         lost' = lost \cup {t} \/ lost' = lost \ {t} \/ lost' = lost,
         w = IF t \in lost' THEN Nil ELSE v
  PROVE  Agreed'
<1>1. asked' = [asked EXCEPT ![t] = v] /\ DOMAIN asked = Texts
  BY DEF Agreed, Asks
<1>2. DOMAIN Contents = Texts
  BY DEF Contents
<1>3. ASSUME NEW u \in Texts
      PROVE  Contents'[u] = IF u \in lost' THEN Nil ELSE asked'[u]
  <2>1. CASE u = t
    BY <1>1, <1>2, <2>1
  <2>2. CASE u # t
    <3>1. Contents'[u] = Contents[u] /\ asked'[u] = asked[u]
      BY <1>1, <1>2, <2>2
    <3>2. u \in lost' <=> u \in lost
      BY <2>2
    <3> QED
      BY <3>1, <3>2 DEF Agreed
  <2> QED
    BY <2>1, <2>2
<1> QED
  BY <1>1, <1>3 DEF Agreed

LEMMA NothingAsked ==
  ASSUME Agreed, Contents' = Contents, UNCHANGED <<asked, lost>>
  PROVE  Agreed'
  BY DEF Agreed

(* An assignment fails only while the map holds nothing for its key.       *)
LEMMA InVainAgrees ==
  ASSUME IInv, Agreed, EditIsExact, NEW k \in Keys, NEW v, AssignInVain(k, v)
  PROVE  Agreed'
<1>1. SetFails(k) /\ Asks(text[k], v) /\ lost' = lost \cup {text[k]}
  BY DEF AssignInVain
<1>2. Readable(k) /\ Get(k) = Nil
  BY <1>1 DEF SetFails, Inserting, Get
<1>3. text[k] \in Texts
  BY <1>2 DEF IInv, Types, Readable
<1>4. Contents[text[k]] = Nil
  BY <1>2, LookupInTable DEF LookupFindsContents
<1>5. Contents' = Contents
  BY <1>1 DEF EditIsExact
<1>6. Contents' = [Contents EXCEPT ![text[k]] = Nil]
  BY <1>4, <1>5 DEF Contents
<1> QED
  BY <1>1, <1>3, <1>6, AskedAgrees

LEMMA AgreedStep ==
  ASSUME ~KeysChange, IInv, IInv', Agreed, [ClientNext]_clientVars
  PROVE  Agreed'
<1>0. EditIsExact
  BY ClientSteps, StepsAreExact
<1>1. ASSUME NEW k \in Keys, Readable(k) PROVE text[k] \in Texts
  BY <1>1 DEF IInv, Types, Readable
<1>2. ASSUME NEW k \in Keys, NEW v \in Values, Assign(k, v) PROVE Agreed'
  <2>1. Readable(k) /\ Asks(text[k], v) /\ lost' = lost \ {text[k]}
    BY <1>2 DEF Assign, SetExisting, SetNew, Inserting
  <2>2. Contents' = [Contents EXCEPT ![text[k]] = v]
    BY <1>0, <1>2 DEF EditIsExact, Assign
  <2> QED
    BY <1>1, <2>1, <2>2, AskedAgrees
<1>3. ASSUME NEW k \in Keys, NEW v \in Values, AssignInVain(k, v) PROVE Agreed'
  BY <1>0, <1>3, InVainAgrees
<1>4. ASSUME NEW k \in Keys, Delete(k) PROVE Agreed'
  <2>1. Readable(k) /\ Asks(text[k], Nil) /\ lost' = lost
    BY <1>4 DEF Delete, RemoveKey
  <2>2. Contents' = [Contents EXCEPT ![text[k]] = Nil]
    BY <1>0, <1>4 DEF EditIsExact, Delete
  <2> QED
    BY <1>1, <2>1, <2>2, AskedAgrees
<1>5. ASSUME DeleteAll PROVE Agreed'
  <2>1. \A t \in Texts : Contents'[t] = Nil
    BY <1>0, <1>5 DEF EditIsExact, DeleteAll
  <2> QED
    BY <1>5, <2>1 DEF DeleteAll, Agreed
<1>6. ASSUME UNCHANGED map, UNCHANGED <<asked, lost>> PROVE Agreed'
  BY <1>0, <1>6, NothingAsked DEF EditIsExact
<1>7. ASSUME NEW k \in Keys, FreeKey(k), UNCHANGED <<asked, lost>> PROVE Agreed'
  BY <1>6, <1>7 DEF FreeKey
<1>8. ASSUME Start \/ Advance \/ Continue \/ Finish, UNCHANGED <<asked, lost>> PROVE Agreed'
  BY <1>6, <1>8 DEF Start, Advance, Continue, Finish
<1>9. ASSUME UNCHANGED clientVars PROVE Agreed'
  BY <1>6, <1>9 DEF clientVars, vars, map
<1> QED
  BY <1>2, <1>3, <1>4, <1>5, <1>7, <1>8, <1>9 DEF ClientNext

(* A program that goes on after every failed allocation: as long as no key *)
(* in the map is freed, a look-up returns what was assigned last, and null *)
(* if that failed, whatever memory did before.                             *)
THEOREM MapClientLookup == ~KeysChange => (ClientSpec => []LookupIsLastAssigned)
<1>1. ClientInit => IInv /\ Agreed
  <2> SUFFICES ASSUME ClientInit PROVE IInv /\ Agreed
    OBVIOUS
  <2>1. Init /\ asked = [t \in Texts |-> Nil]
    BY DEF ClientInit
  <2>2. \A t \in Texts : Holding(t) = {}
    BY <2>1 DEF Init, Holding, Live
  <2> QED
    BY <2>1, <2>2, InitIInv DEF Agreed, Contents
<1>2. IInv /\ [ClientNext]_clientVars => IInv'
  BY ClientSteps, NextIInv
<1>3. IInv /\ Agreed => LookupIsLastAssigned
  <2> SUFFICES ASSUME IInv, Agreed, NEW k \in Keys, Readable(k)
               PROVE  Get(k) = IF text[k] \in lost THEN Nil ELSE asked[text[k]]
    BY DEF LookupIsLastAssigned
  <2>1. text[k] \in Texts
    BY DEF IInv, Types, Readable
  <2>2. Get(k) = Contents[text[k]]
    BY LookupInTable DEF LookupFindsContents
  <2> QED
    BY <2>1, <2>2 DEF Agreed
<1>4. ASSUME ~KeysChange
      PROVE  IInv /\ IInv' /\ Agreed /\ [ClientNext]_clientVars => Agreed'
  BY <1>4, AgreedStep
<1>5. ASSUME ~KeysChange PROVE ClientSpec => []LookupIsLastAssigned
  BY <1>1, <1>2, <1>3, <1>4, <1>5, PTL DEF ClientSpec
<1> QED
  BY <1>5
=============================================================================
