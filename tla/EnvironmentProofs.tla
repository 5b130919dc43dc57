-------------------------- MODULE EnvironmentProofs -------------------------
(***************************************************************************)
(* The mutex of environment_c, for every number of threads, keys, items    *)
(* and contexts: operations exclude each other, and because of that the    *)
(* memory takes the steps of a memory_c that one thread uses, whenever the *)
(* destructor runs.                                                        *)
(***************************************************************************)
EXTENDS Environment, TLAPS

(* Who is between lock and unlock holds the mutex; the destructor tells    *)
(* what has become of it.                                                  *)
Holder ==
  /\ \A t \in Threads : InMemory(t) /\ mutex # Gone => mutex = t
  /\ dtor = "unlocking" => mutex = Destructor
  /\ dtor = "destroyed" <=> mutex = Gone

(* The memory is a record with a depth that is positive until the          *)
(* destructor has destroyed it.                                            *)
Standing(m) ==
  \E c, a : \E d \in Nat : m = [ctx |-> c, depth |-> d, alive |-> a]

Alive == Standing(mem) /\ (mutex # Gone => mem.depth > 0)

(* What a thread has prepared: a call, and with the lock the memory as it  *)
(* still is.                                                               *)
Current ==
  \A t \in Threads :
    /\ pc[t] \in {"checked", "locked"} => op[t] \in Calls
    /\ pc[t] = "locked" /\ mutex # Gone => seen[t] = mem

(* No two calls bring the same item, and none an item that is stored.      *)
Brings(t) == op[t].call = "set"

FreshItems ==
  /\ \A t \in Threads : Brings(t) => op[t].item \notin mem.alive
  /\ \A t, u \in Threads :
       Brings(t) /\ Brings(u) /\ op[t].item = op[u].item => t = u

Functions ==
  /\ pc \in [Threads -> {"idle", "checked", "locked", "done", "wild"}]
  /\ op \in [Threads -> Calls \cup {Nop}]
  /\ seen = [t \in Threads |-> seen[t]]

EInv == Holder /\ Alive /\ Current /\ FreshItems /\ Functions

Kinds ==
  /\ mutex \in Threads \cup {Free, Gone, Destructor}
  /\ valid \in BOOLEAN
  /\ dtor \in {"alive", "locking", "unlocking", "members", "destroyed"}

LEMMA Stands ==
  ASSUME NEW c, NEW a, NEW d \in Nat, NEW m,
         m = [ctx |-> c, depth |-> d, alive |-> a]
  PROVE  Standing(m) /\ m.depth = d /\ m.alive = a
BY DEF Standing

(* One call under the lock is one step of memory_c, or none; it keeps a    *)
(* memory standing and adds at most the item it brings.                    *)
LEMMA EffectIsStep ==
  ASSUME NEW o \in Calls, Standing(mem), mem.depth > 0,
         o.call = "set" => o.item \notin mem.alive,
         mem' = Effect(o, mem)
  PROVE  /\ M!Next \/ mem' = mem
         /\ Standing(mem') /\ mem'.depth > 0
         /\ \A i : i \in mem'.alive => i \in mem.alive \/ (o.call = "set" /\ i = o.item)
<1>0. PICK c, a : \E d \in Nat : mem = [ctx |-> c, depth |-> d, alive |-> a]
  BY DEF Standing
<1>n. PICK n \in Nat : mem = [ctx |-> c, depth |-> n, alive |-> a]
  BY <1>0
<1>1. CASE o.call = "push_ctx"
  <2>1. mem' = M!Pushed(mem)
    BY <1>1 DEF Effect
  <2>2. M!Next
    BY <2>1 DEF M!Next, M!PushCtx
  <2>3. /\ Standing(mem') /\ mem'.depth > 0 /\ mem'.alive = mem.alive
    <3>1. CASE M!Overflows(mem)
      BY <3>1, <2>1 DEF M!Pushed
    <3>2. CASE ~M!Overflows(mem)
      <4>1. mem' = [ctx |-> [c EXCEPT ![n + 1] = M!Empty],
                    depth |-> n + 1, alive |-> a]
        BY <3>2, <2>1, <1>n DEF M!Pushed
      <4> QED
        BY <4>1, <1>n, Stands
    <3> QED
      BY <3>1, <3>2
  <2> QED
    BY <2>2, <2>3
<1>2. CASE o.call = "pop_ctx"
  <2>1. mem' = M!Popped(mem)
    BY <1>2 DEF Effect
  <2>2. M!Next
    BY <2>1 DEF M!Next, M!PopCtx
  <2>3. Standing(mem') /\ mem'.depth > 0 /\ mem'.alive \subseteq mem.alive
    <3>1. CASE mem.depth <= 1
      BY <3>1, <2>1 DEF M!Popped
    <3>2. CASE ~(mem.depth <= 1)
      <4> DEFINE top == c[n]
                 parent == c[n - 1]
                 dead == M!DestroyedByPop(top, parent)
                 below == [c EXCEPT ![n - 1].scope = M!Hoisted(top, parent),
                                    ![n] = M!Empty]
      <4>1. mem' = [ctx |-> below, depth |-> n - 1, alive |-> a \ dead]
        BY <3>2, <2>1, <1>n DEF M!Popped
      <4> HIDE DEF below, dead
      <4> QED
        BY <4>1, <3>2, <1>n, Stands
    <3> QED
      BY <3>1, <3>2
  <2> QED
    BY <2>2, <2>3
<1>3. CASE o.call = "drop"
  <2>0. o.key \in Keys
    BY <1>3 DEF Calls
  <2>1. mem' = M!Without(mem, o.key)
    BY <1>3 DEF Effect
  <2>2. M!Next
    BY <2>0, <2>1 DEF M!Next, M!Drop
  <2>3. Standing(mem') /\ mem'.depth > 0 /\ mem'.alive \subseteq mem.alive
    <3> DEFINE dead == {M!Top(mem).scope[o.key]}
               ctx == [c EXCEPT ![n].scope[o.key] = Absent]
    <3>1. mem' = [ctx |-> ctx, depth |-> n, alive |-> a \ dead]
      BY <2>1, <1>n DEF M!Without
    <3> HIDE DEF dead, ctx
    <3> QED
      BY <3>1, <1>n, Stands
  <2> QED
    BY <2>2, <2>3
<1>4. CASE o.call = "defer_hoist"
  <2>0. o.key \in Keys
    BY <1>4 DEF Calls
  <2>1. mem' = IF M!MayDefer(mem, o.key) THEN M!WithHoist(mem, o.key) ELSE mem
    BY <1>4 DEF Effect
  <2>2. M!Next \/ mem' = mem
    BY <2>0, <2>1 DEF M!Next, M!DeferHoist
  <2>3. Standing(mem') /\ mem'.depth > 0 /\ mem'.alive = mem.alive
    <3>1. CASE M!MayDefer(mem, o.key)
      BY <3>1, <2>1, <1>n DEF M!WithHoist, Standing
    <3>2. CASE ~M!MayDefer(mem, o.key)
      BY <3>2, <2>1, <1>n DEF Standing
    <3> QED
      BY <3>1, <3>2
  <2> QED
    BY <2>2, <2>3
<1>5. CASE o.call = "set"
  <2>0. o.key \in Keys /\ o.item \in Items
    BY <1>5 DEF Calls
  <2>1. mem' = M!WithItem(mem, o.key, o.item)
    BY <1>5 DEF Effect
  <2>2. M!Next
    BY <1>5, <2>0, <2>1 DEF M!Next, M!SetItem
  <2>3. /\ Standing(mem') /\ mem'.depth > 0
        /\ mem'.alive \subseteq mem.alive \cup {o.item}
    <3> DEFINE dead == {M!Top(mem).scope[o.key]}
               ctx == [c EXCEPT ![n].scope[o.key] = o.item]
    <3>1. mem' = [ctx |-> ctx, depth |-> n, alive |-> (a \ dead) \cup {o.item}]
      BY <2>1, <1>n DEF M!WithItem
    <3> HIDE DEF dead, ctx
    <3> QED
      BY <3>1, <1>n, Stands
  <2> QED
    BY <1>5, <2>2, <2>3
<1> QED
  BY <1>1, <1>2, <1>3, <1>4, <1>5 DEF Calls

(* Nothing the destructor leaves behind is standing in the way: destroying *)
(* the memory is memory_c's own destructor.                                *)
LEMMA DestroyIsStep ==
  ASSUME Standing(mem), mem.depth > 0, mem' = M!Destroyed(mem)
  PROVE  M!Next /\ Standing(mem') /\ mem'.alive \subseteq mem.alive
<1>1. M!Next
  BY DEF M!Next, M!Destroy
<1>2. Standing(mem') /\ mem'.alive \subseteq mem.alive
  BY DEF M!Destroyed, M!Unborn, Standing
<1> QED
  BY <1>1, <1>2

LEMMA InitEInv == Init => EInv
<1> SUFFICES ASSUME Init PROVE EInv
  OBVIOUS
<1>1. Standing(mem) /\ mem.depth = 1
  BY DEF Init, M!Init, M!Constructed, M!Unborn, Standing
<1>2. Nop \in Calls \cup {Nop}
  OBVIOUS
<1> QED
  BY <1>1, <1>2 DEF Init, EInv, Holder, Alive, Current, FreshItems, Functions,
     Brings, InMemory, Nop, Free, Gone

LEMMA CheckStep ==
  ASSUME NEW t \in Threads, EInv, Check(t)
  PROVE  EInv'
<1> USE DEF EInv, Check
<1>1. Holder'
  BY DEF Holder, Functions, InMemory
<1>2. Alive'
  BY DEF Alive, Standing
<1>3. Functions'
  BY DEF Functions
<1>4. Current'
  BY DEF Current, Functions
<1>5. FreshItems'
  BY DEF FreshItems, Functions, Brings, Unused
<1> QED
  BY <1>1, <1>2, <1>3, <1>4, <1>5

LEMMA LockStep ==
  ASSUME NEW t \in Threads, EInv, Lock(t)
  PROVE  EInv'
<1> USE DEF EInv, Lock
<1>0. mutex = Free /\ Free # Gone /\ Free \notin Threads /\ t # Gone /\ t # Destructor
  BY EnvironmentAssumption DEF MayLock, Free, Gone
<1>1. Holder'
  BY <1>0 DEF Holder, Functions, InMemory, Free, Destructor
<1>2. Alive'
  BY <1>0 DEF Alive, Standing
<1>3. Functions'
  BY DEF Functions
<1>4. Current'
  BY <1>0 DEF Current, Functions
<1>5. FreshItems'
  BY DEF FreshItems, Brings
<1> QED
  BY <1>1, <1>2, <1>3, <1>4, <1>5

(* The effect of a call applies to the memory as it is, since nothing has  *)
(* changed it after the lock was taken.                                    *)
LEMMA WorkIsEffect ==
  ASSUME NEW t \in Threads, EInv, Work(t)
  PROVE  /\ op[t] \in Calls
         /\ Standing(mem) /\ mem.depth > 0
         /\ op[t].call = "set" => op[t].item \notin mem.alive
         /\ mem' = Effect(op[t], mem)
BY DEF EInv, Work, Current, Alive, FreshItems, Brings

LEMMA WorkStep ==
  ASSUME NEW t \in Threads, EInv, Work(t)
  PROVE  EInv'
<1> DEFINE o == op[t]
<1>1. /\ o \in Calls /\ Standing(mem) /\ mem.depth > 0
      /\ o.call = "set" => o.item \notin mem.alive
      /\ mem' = Effect(o, mem)
  BY WorkIsEffect
<1>2. /\ Standing(mem') /\ mem'.depth > 0
      /\ \A i : i \in mem'.alive => i \in mem.alive \/ (o.call = "set" /\ i = o.item)
  <2> HIDE DEF o
  <2> QED
    BY <1>1, EffectIsStep
<1>3. mutex = t
  BY DEF EInv, Work, Holder, InMemory
<1>4. Holder'
  BY <1>3 DEF EInv, Work, Holder, Functions, InMemory
<1>5. Alive'
  BY <1>2 DEF Alive
<1>6. Functions'
  BY DEF EInv, Work, Functions
<1>7. Current'
  <2> SUFFICES ASSUME NEW u \in Threads
               PROVE  /\ pc'[u] \in {"checked", "locked"} => op'[u] \in Calls
                      /\ pc'[u] = "locked" /\ mutex' # Gone => seen'[u] = mem'
    BY DEF Current
  <2>1. CASE u = t
    BY <2>1 DEF EInv, Work, Functions
  <2>2. CASE u # t
    BY <2>2, <1>3 DEF EInv, Work, Functions, Current, Holder, InMemory
  <2> QED
    BY <2>1, <2>2
<1>8. FreshItems'
  <2>1. op' = [op EXCEPT ![t] = Nop] /\ DOMAIN op = Threads
    BY DEF EInv, Work, Functions
  <2>2. \A u \in Threads : Brings(u)' => u # t /\ Brings(u) /\ op'[u] = op[u]
    BY <2>1 DEF Brings, Nop
  <2>3. o.call = "set" => Brings(t)
    BY DEF Brings
  <2> QED
    BY <1>2, <2>2, <2>3 DEF EInv, FreshItems
<1> QED
  BY <1>4, <1>5, <1>6, <1>7, <1>8 DEF EInv

LEMMA UnlockStep ==
  ASSUME NEW t \in Threads, EInv, Unlock(t)
  PROVE  EInv'
<1> USE DEF EInv, Unlock
<1>0. mutex = t
  BY DEF Holder, InMemory
<1>1. Holder'
  BY <1>0, EnvironmentAssumption DEF Holder, Functions, InMemory, Free, Gone, Destructor
<1>2. Alive'
  BY DEF Alive, Standing
<1>3. Functions'
  BY DEF Functions
<1>4. Current'
  BY DEF Current, Functions
<1>5. FreshItems'
  BY DEF FreshItems, Brings
<1> QED
  BY <1>1, <1>2, <1>3, <1>4, <1>5

LEMMA UseDestroyedStep ==
  ASSUME NEW t \in Threads, EInv, UseDestroyed(t)
  PROVE  EInv'
<1> USE DEF EInv, UseDestroyed
<1>1. Holder'
  BY DEF Holder, Functions, InMemory
<1>2. Alive'
  BY DEF Alive, Standing
<1>3. Functions'
  BY DEF Functions
<1>4. Current'
  BY DEF Current, Functions
<1>5. FreshItems'
  BY DEF FreshItems, Brings
<1> QED
  BY <1>1, <1>2, <1>3, <1>4, <1>5

LEMMA DestructorStep == EInv /\ (Invalidate \/ Demolish) => EInv'
<1> SUFFICES ASSUME EInv, Invalidate \/ Demolish PROVE EInv'
  OBVIOUS
<1> USE DEF EInv
<1>f. /\ Free # Gone /\ Destructor # Gone
      /\ Free \notin Threads /\ Gone \notin Threads /\ Destructor \notin Threads
  BY EnvironmentAssumption DEF Free, Gone, Destructor
<1>1. CASE Invalidate
  BY <1>1 DEF Invalidate, Holder, Alive, Standing, Current, FreshItems, Functions,
     Brings, InMemory
<1>2. CASE LockForDestruction
  BY <1>2, <1>f DEF LockForDestruction, MayLock, Holder, Alive, Standing, Current,
     FreshItems, Functions, Brings, InMemory
<1>3. CASE UnlockForDestruction
  BY <1>3, <1>f DEF UnlockForDestruction, Holder, Alive, Standing, Current,
     FreshItems, Functions, Brings, InMemory
<1>4. CASE DestroyMembers
  <2>1. mutex # Gone /\ Standing(mem) /\ mem.depth > 0
    BY <1>4 DEF DestroyMembers, Holder, Alive
  <2>2. Standing(mem') /\ mem'.alive \subseteq mem.alive
    BY <1>4, <2>1, DestroyIsStep DEF DestroyMembers
  <2> QED
    BY <1>4, <2>1, <2>2, <1>f DEF DestroyMembers, Holder, Alive, Current,
       FreshItems, Functions, Brings, InMemory
<1> QED
  BY <1>1, <1>2, <1>3, <1>4 DEF Demolish

LEMMA NextEInv == EInv /\ [Next]_vars => EInv'
<1> SUFFICES ASSUME EInv, [Next]_vars PROVE EInv'
  OBVIOUS
<1>1. CASE UNCHANGED vars
  BY <1>1 DEF vars, EInv, Holder, Alive, Standing, Current, FreshItems, Functions,
     Brings, InMemory
<1>2. ASSUME NEW t \in Threads, Check(t) \/ Operate(t) \/ UseDestroyed(t)
      PROVE  EInv'
  BY <1>2, CheckStep, LockStep, WorkStep, UnlockStep, UseDestroyedStep DEF Operate
<1>3. CASE Invalidate \/ Demolish
  BY <1>3, DestructorStep
<1> QED
  BY <1>1, <1>2, <1>3 DEF Next

LEMMA InvariantE == Spec => []EInv
<1> QED
  BY InitEInv, NextEInv, PTL DEF Spec

(* At most one of the threads and the destructor works on the memory, for  *)
(* any number of threads.                                                  *)
THEOREM EnvironmentExclusion == Spec => []MutualExclusion
<1>1. EInv => MutualExclusion
  BY EnvironmentAssumption DEF EInv, Holder, MutualExclusion, Destructor
<1> QED
  BY <1>1, InvariantE, PTL

(* environment_c implements memory_c: every step of a thread or of the     *)
(* destructor is a step of the memory as one thread would use it, or       *)
(* leaves the memory alone.                                                *)
THEOREM EnvironmentImplementsMemory == Spec => ImplementsMemory
<1>1. Init => M!Init
  BY DEF Init
<1>2. EInv /\ [Next]_vars => [M!Next]_mem
  <2> SUFFICES ASSUME EInv, [Next]_vars PROVE M!Next \/ mem' = mem
    OBVIOUS
  <2>1. ASSUME NEW t \in Threads, Work(t)
        PROVE  M!Next \/ mem' = mem
    BY <2>1, WorkIsEffect, EffectIsStep
  <2>2. CASE DestroyMembers
    <3>1. mutex # Gone /\ Standing(mem) /\ mem.depth > 0
      BY <2>2 DEF EInv, DestroyMembers, Holder, Alive
    <3> QED
      BY <2>2, <3>1, DestroyIsStep DEF DestroyMembers
  <2>3. ASSUME NEW t \in Threads,
               Check(t) \/ Lock(t) \/ Unlock(t) \/ UseDestroyed(t)
        PROVE  mem' = mem
    BY <2>3 DEF Check, Lock, Unlock, UseDestroyed
  <2>4. CASE Invalidate \/ LockForDestruction \/ UnlockForDestruction
    BY <2>4 DEF Invalidate, LockForDestruction, UnlockForDestruction
  <2>5. CASE UNCHANGED vars
    BY <2>5 DEF vars
  <2> QED
    BY <2>1, <2>2, <2>3, <2>4, <2>5 DEF Next, Operate, Demolish
<1> QED
  BY <1>1, <1>2, InvariantE, PTL DEF Spec, ImplementsMemory, M!Spec

-----------------------------------------------------------------------------
(* What is proved of a memory_c that one thread uses, of clients that      *)
(* schedule a key at most once, holds of the one behind the mutex.  Alone  *)
(* names the same memory in the module of those proofs.                    *)
Alone == INSTANCE MemoryProofs WITH RepeatHoist <- FALSE

LEMMA SameMemory == (M!Init <=> Alone!Init) /\ (M!Next <=> Alone!Next)
<1>0. M!Init <=> Alone!Init
  BY Zenon DEF M!Init, Alone!Init, M!Constructed, Alone!Constructed, M!Unborn,
    Alone!Unborn, M!Empty, Alone!Empty, M!Levels, Alone!Levels
<1>1. M!PushCtx <=> Alone!PushCtx
  BY Zenon DEF M!PushCtx, Alone!PushCtx, M!Pushed, Alone!Pushed, M!Overflows,
    Alone!Overflows, M!Empty, Alone!Empty, M!Levels, Alone!Levels
<1>2. M!PopCtx <=> Alone!PopCtx
  BY Zenon DEF M!PopCtx, Alone!PopCtx, M!Popped, Alone!Popped, M!Queued,
    Alone!Queued, M!Moved, Alone!Moved, M!MovedTwice, Alone!MovedTwice,
    M!Hoisted, Alone!Hoisted, M!DestroyedByPop, Alone!DestroyedByPop, M!Empty,
    Alone!Empty
<1>3. ASSUME NEW k \in Keys, NEW i \in Items
      PROVE  M!SetItem(k, i) <=> Alone!SetItem(k, i)
  BY Zenon DEF M!SetItem, Alone!SetItem, M!WithItem, Alone!WithItem, M!Top,
    Alone!Top
<1>4. ASSUME NEW k \in Keys
      PROVE  M!Drop(k) <=> Alone!Drop(k)
  BY Zenon DEF M!Drop, Alone!Drop, M!Without, Alone!Without, M!Top, Alone!Top
<1>5. ASSUME NEW k \in Keys
      PROVE  M!DeferHoist(k) <=> Alone!DeferHoist(k)
  BY Zenon DEF M!DeferHoist, Alone!DeferHoist, M!MayDefer, Alone!MayDefer,
    M!WithHoist, Alone!WithHoist, M!Queued, Alone!Queued, M!Top, Alone!Top
<1>6. M!Destroy <=> Alone!Destroy
  <2>1. M!HeldItems(mem) = Alone!HeldItems(mem)
    BY SMT DEF M!HeldItems, Alone!HeldItems
  <2> QED
    BY Zenon, <2>1 DEF M!Destroy, Alone!Destroy, M!Destroyed, Alone!Destroyed,
      M!Unborn, Alone!Unborn, M!Empty, Alone!Empty, M!Levels, Alone!Levels
<1>7. M!Construct <=> Alone!Construct
  BY Zenon DEF M!Construct, Alone!Construct, M!Empty, Alone!Empty
<1> QED
  BY <1>0, <1>1, <1>2, <1>3, <1>4, <1>5, <1>6, <1>7 DEF M!Next, Alone!Next

LEMMA SameStore ==
  /\ M!Store!Init <=> Alone!Store!Init
  /\ M!Store!Next <=> Alone!Store!Next
  /\ M!Store!vars = Alone!Store!vars
BY Zenon DEF M!Slots, Alone!Slots, M!Place, Alone!Place, M!Promises,
  Alone!Promises, M!Queued, Alone!Queued, M!Store!Init, Alone!Store!Init,
  M!Store!Next, Alone!Store!Next, M!Store!vars, Alone!Store!vars,
  M!Store!Open, Alone!Store!Open, M!Store!Close, Alone!Store!Close,
  M!Store!Bind, Alone!Store!Bind, M!Store!Unbind, Alone!Store!Unbind,
  M!Store!Promise, Alone!Store!Promise, M!Store!Dispose, Alone!Store!Dispose,
  M!Store!Create, Alone!Store!Create, M!Store!Lifted, Alone!Store!Lifted,
  M!Store!Evicted, Alone!Store!Evicted, M!Store!At, Alone!Store!At,
  M!Store!Stored, Alone!Store!Stored

(* Every value is of its kind in every state, whatever the threads and the *)
(* destructor do, the memory included.                                     *)
THEOREM EnvironmentTyping == Spec => []TypeOK
<1>1. M!Spec => []M!TypeOK
  <2>1. Alone!Spec => []Alone!TypeOK
    BY EnvironmentAssumption, Alone!MemoryTyping
  <2>2. M!TypeOK <=> Alone!TypeOK
    BY Zenon DEF M!TypeOK, Alone!TypeOK, M!Context, Alone!Context, M!Slot,
      Alone!Slot, M!Levels, Alone!Levels
  <2> QED
    BY <2>1, <2>2, SameMemory, PTL DEF M!Spec, Alone!Spec
<1>2. Spec => []Kinds
  <2>1. Init => Kinds
    BY DEF Init, Kinds
  <2>2. Kinds /\ [Next]_vars => Kinds'
    BY DEF Kinds, Next, vars, Check, Operate, Lock, Work, Unlock, UseDestroyed,
       Invalidate, Demolish, LockForDestruction, UnlockForDestruction, DestroyMembers
  <2> QED
    BY <2>1, <2>2, PTL DEF Spec
<1>3. M!TypeOK /\ Kinds /\ EInv => TypeOK
  BY DEF Kinds, EInv, Functions, TypeOK
<1> QED
  BY <1>1, <1>2, <1>3, InvariantE, EnvironmentImplementsMemory, PTL
     DEF ImplementsMemory

(* No interleaving of handle operations, and no moment the destructor      *)
(* chooses, leaks an item or leaves a pointer to a destroyed one.          *)
THEOREM EnvironmentOwnership == Spec => []M!Ownership
<1>1. Alone!Spec => []Alone!Ownership
  BY EnvironmentAssumption, Alone!MemoryOwnership
<1>2. M!Ownership <=> Alone!Ownership
  BY Zenon DEF M!Ownership, Alone!Ownership, M!NoDangling, Alone!NoDangling,
    M!NoSharing, Alone!NoSharing, M!NoLeak, Alone!NoLeak
<1> QED
  BY <1>1, <1>2, SameMemory, EnvironmentImplementsMemory, PTL
     DEF ImplementsMemory, M!Spec, Alone!Spec

(* The environment that threads share is the store of ScopedStore, by two  *)
(* refinements: the locks make it a memory_c, and a memory_c is a store.   *)
THEOREM EnvironmentImplementsStore == Spec => M!ImplementsStore
<1>1. Alone!Spec => Alone!ImplementsStore
  BY EnvironmentAssumption, Alone!MemoryImplementsStore
<1>2. [M!Store!Next]_(M!Store!vars) <=> [Alone!Store!Next]_(Alone!Store!vars)
  <2>1. (M!Store!vars = Alone!Store!vars)'
    BY SameStore, PTL
  <2> QED
    BY <2>1, SameStore
<1> QED
  BY <1>1, <1>2, SameMemory, SameStore, EnvironmentImplementsMemory, PTL
     DEF ImplementsMemory, M!Spec, Alone!Spec, M!ImplementsStore,
         Alone!ImplementsStore, M!Store!Spec, Alone!Store!Spec
=============================================================================
