------------------------------- MODULE Memory -------------------------------
(***************************************************************************)
(* truk::core::memory_c: a stack of contexts, each a map from keys to      *)
(* uniquely owned items and a FIFO queue of keys to hoist.  The contexts   *)
(* live in a fixed array, so the stack is an array and a depth.  An item   *)
(* is "alive" from the moment the memory owns it until its destructor      *)
(* runs: overwriting, dropping and popping run destructors, hoisting moves *)
(* ownership and leaves a null pointer behind.                             *)
(*                                                                         *)
(* The operations are functions of the whole memory, so that Environment   *)
(* can apply them under its mutex.                                         *)
(***************************************************************************)
EXTENDS Integers, Sequences, SequencesExt

CONSTANTS
  Keys,          \* the keys clients use
  Items,         \* the objects clients store
  ContextCount,  \* template parameter: how many contexts fit, root included
  MaxPending,    \* bound on the hoist queue of one context (model bound)
  RepeatHoist,   \* may a client defer the hoist of a key already queued?
  Absent,        \* the key is not in the scope
  Null           \* the key is in the scope, its unique_ptr is empty

ASSUME MemoryAssumption ==
  /\ ContextCount \in Nat \ {0}
  /\ MaxPending \in Nat
  /\ RepeatHoist \in BOOLEAN
  /\ Absent \notin Items
  /\ Null \notin Items
  /\ Absent # Null

VARIABLE mem

Levels == 1 .. ContextCount
Slot == Items \cup {Absent, Null}

Context == [scope : [Keys -> Slot], pending : Seq(Keys)]

Empty == [scope |-> [k \in Keys |-> Absent], pending |-> << >>]

(* depth 0: no memory object exists.                                       *)
Unborn == [ctx |-> [d \in Levels |-> Empty], depth |-> 0, alive |-> {}]
Constructed == [Unborn EXCEPT !.depth = 1]

Top(m) == m.ctx[m.depth]

-----------------------------------------------------------------------------
(* The operations.                                                         *)

(* A push beyond the last context throws and changes nothing.              *)
OverflowsLate(m) == m.depth > ContextCount   \* mutant: off by one
Overflows(m) == m.depth >= ContextCount

Pushed(m) ==
  IF Overflows(m) THEN m
  ELSE [m EXCEPT !.ctx[m.depth + 1] = Empty, !.depth = m.depth + 1]

(* Draining the queue of a context c: a queued key that is in the scope is *)
(* moved to the parent.  A second occurrence of the key finds the emptied  *)
(* pointer still in the scope and moves that, over the first.              *)
Queued(c) == {c.pending[n] : n \in DOMAIN c.pending}

MovedUnseen(c) == Queued(c)   \* mutant: the key is not looked for
Moved(c) == {k \in Queued(c) : c.scope[k] # Absent}

MovedTwice(c) ==
  {k \in Moved(c) : \E m, n \in DOMAIN c.pending :
                       m # n /\ c.pending[m] = k /\ c.pending[n] = k}

Hoisted(c, parent) ==
  [k \in Keys |-> IF k \notin Moved(c) THEN parent.scope[k]
                  ELSE IF k \in MovedTwice(c) THEN Null
                  ELSE c.scope[k]]

(* The loop of pop_ctx as written: one queued key at a time, moving the    *)
(* pointer out of the child into the parent.  Hoisted is its closed form.  *)
MoveOne(pair, k) ==
  IF pair.child[k] = Absent THEN pair
  ELSE [child |-> [pair.child EXCEPT ![k] = Null],
        parent |-> [pair.parent EXCEPT ![k] = pair.child[k]]]

Drain(c, parent) ==
  FoldLeft(MoveOne, [child |-> c.scope, parent |-> parent.scope], c.pending)

(* Destructors run by a pop: what the moves overwrite, and what is still   *)
(* in the popped scope when the context is destroyed.                      *)
DestroyedInChild(c, parent) ==   \* mutant: what a move overwrites is kept
  {c.scope[k] : k \in Keys \ Moved(c)}

DestroyedByPop(c, parent) ==
  {parent.scope[k] : k \in Moved(c)}
    \cup {c.scope[k] : k \in (Keys \ Moved(c)) \cup MovedTwice(c)}

PoppedUndrained(m) ==   \* mutant: the queue is not drained
  IF m.depth <= 1 THEN m
  ELSE [ctx |-> [m.ctx EXCEPT ![m.depth] = Empty],
        depth |-> m.depth - 1,
        alive |-> m.alive \ {Top(m).scope[k] : k \in Keys}]

Popped(m) ==
  IF m.depth <= 1 THEN m
  ELSE LET c == m.ctx[m.depth]
           parent == m.ctx[m.depth - 1]
       IN [ctx |-> [m.ctx EXCEPT ![m.depth - 1].scope = Hoisted(c, parent),
                                 ![m.depth] = Empty],
           depth |-> m.depth - 1,
           alive |-> m.alive \ DestroyedByPop(c, parent)]

WithItem(m, k, i) ==
  [m EXCEPT !.ctx[m.depth].scope[k] = i,
            !.alive = (m.alive \ {Top(m).scope[k]}) \cup {i}]

Without(m, k) ==
  [m EXCEPT !.ctx[m.depth].scope[k] = Absent,
            !.alive = m.alive \ {Top(m).scope[k]}]

WithHoist(m, k) ==
  [m EXCEPT !.ctx[m.depth].pending = Append(@, k)]

IsSet(m, k) == Top(m).scope[k] # Absent

(* get walks up to the first context that has the key, and returns what it *)
(* finds there, a null pointer included.                                   *)
Holders(m, k) == {d \in 1 .. m.depth : m.ctx[d].scope[k] # Absent}

Found(m, k, useParent) ==
  IF useParent
  THEN IF Holders(m, k) = {} THEN Null
       ELSE LET d == CHOOSE d \in Holders(m, k) :
                       \A e \in Holders(m, k) : e <= d
            IN m.ctx[d].scope[k]
  ELSE IF IsSet(m, k) THEN Top(m).scope[k] ELSE Null

-----------------------------------------------------------------------------
Init == mem = Constructed

PushCtx == mem.depth > 0 /\ mem' = Pushed(mem)

PopCtx == mem.depth > 0 /\ mem' = Popped(mem)

SetItem(k, i) ==
  /\ mem.depth > 0
  /\ i \notin mem.alive
  /\ mem' = WithItem(mem, k, i)

Drop(k) == mem.depth > 0 /\ mem' = Without(mem, k)

MayDefer(m, k) ==
  /\ Len(Top(m).pending) < MaxPending
  /\ RepeatHoist \/ k \notin Queued(Top(m))

DeferHoist(k) ==
  /\ mem.depth > 0
  /\ MayDefer(mem, k)
  /\ mem' = WithHoist(mem, k)

(* The destructor pops every context and then the root's scope dies.       *)
HeldItems(m) == {m.ctx[d].scope[k] : d \in 1 .. m.depth, k \in Keys}

Destroyed(m) == [Unborn EXCEPT !.alive = m.alive \ HeldItems(m)]

Destroy == mem.depth > 0 /\ mem' = Destroyed(mem)

Construct ==
  /\ mem.depth = 0
  /\ mem' = [mem EXCEPT !.ctx[1] = Empty, !.depth = 1]

Next ==
  \/ PushCtx
  \/ PopCtx
  \/ \E k \in Keys, i \in Items : SetItem(k, i)
  \/ \E k \in Keys : Drop(k)
  \/ \E k \in Keys : DeferHoist(k)
  \/ Destroy
  \/ Construct

Spec == Init /\ [][Next]_mem

-----------------------------------------------------------------------------
TypeOK ==
  mem \in [ctx : [Levels -> Context], depth : 0 .. ContextCount,
           alive : SUBSET Items]

(* Ownership: the pointers in the live contexts and the objects that have  *)
(* not been destroyed correspond one to one.  No context points to a       *)
(* destroyed item, no two slots own the same item, no item outlives its    *)
(* last owner.                                                             *)
NoDangling ==
  \A d \in 1 .. mem.depth, k \in Keys :
     mem.ctx[d].scope[k] \in Items => mem.ctx[d].scope[k] \in mem.alive

NoSharing ==
  \A d, e \in 1 .. mem.depth, k, l \in Keys :
     /\ mem.ctx[d].scope[k] = mem.ctx[e].scope[l]
     /\ mem.ctx[d].scope[k] \in Items
     => d = e /\ k = l

NoLeak ==
  \A i \in mem.alive :
     \E d \in 1 .. mem.depth, k \in Keys : mem.ctx[d].scope[k] = i

Ownership == NoDangling /\ NoSharing /\ NoLeak

(* memory.hpp: "Hoists any keys scheduled for defer_hoist up to the parent *)
(* context."  A pop leaves every scheduled key of the popped context bound *)
(* in the parent to the item it was bound to.                              *)
HoistReachesParent ==
  [][\A k \in Keys :
       /\ mem.depth > 1 /\ mem'.depth = mem.depth - 1
       /\ k \in Queued(Top(mem)) /\ Top(mem).scope[k] \in Items
       => Top(mem').scope[k] = Top(mem).scope[k]]_mem

(* The closed form Hoisted is what the loop leaves in the parent, whatever *)
(* the queue holds, repetitions and absent keys included, in queues one    *)
(* longer than those the steps build.                                      *)
Queues == UNION {[1 .. n -> Keys] : n \in 0 .. MaxPending + 1}

HoistedIsTheLoop ==
  mem.depth > 1 =>
    LET parent == mem.ctx[mem.depth - 1]
    IN \A q \in Queues :
         LET c == [Top(mem) EXCEPT !.pending = q]
         IN Drain(c, parent).parent = Hoisted(c, parent)

(* The promise of the class: see ScopedStore.  A slot is where its item    *)
(* is, and the queue is the set of keys that leave with their context.     *)
Slots == (1 .. mem.depth) \X Keys

Place ==
  [i \in mem.alive |-> CHOOSE s \in Slots : mem.ctx[s[1]].scope[s[2]] = i]

Promises == {s \in Slots : s[2] \in Queued(mem.ctx[s[1]])}

Store == INSTANCE ScopedStore WITH
  Limit <- ContextCount, depth <- mem.depth, place <- Place, promises <- Promises

(* Clients that schedule a key at most once per context see a store in     *)
(* which every item is in one place, closing a scope promotes exactly the  *)
(* promised items, and nothing else ever moves.                            *)
ImplementsStore == Store!Spec
=============================================================================
