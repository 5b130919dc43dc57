---------------------------- MODULE MemoryProofs ----------------------------
(***************************************************************************)
(* Ownership of the items of memory_c, for every number of contexts, keys  *)
(* and items and whatever clients schedule for hoisting, repetitions       *)
(* included.  Ownership is inductive together with the typing of the       *)
(* memory: a pop moves pointers between two adjacent contexts, so it is    *)
(* the three parts of Ownership before the step that say which items die.  *)
(*                                                                         *)
(* Two further parts: the closed form of a pop, which all of this rests on,*)
(* is the loop of the code; and the memory implements ScopedStore.         *)
(***************************************************************************)
EXTENDS Memory, SequenceFacts

IInv == TypeOK /\ Ownership

(* The queue of a well-typed context holds keys, and only keys can be      *)
(* moved by the drain.                                                     *)
LEMMA MovedAreKeys ==
  ASSUME NEW c \in Context
  PROVE  /\ Queued(c) \subseteq Keys
         /\ Moved(c) \subseteq Keys
         /\ MovedTwice(c) \subseteq Moved(c)
BY DEF Queued, Moved, MovedTwice, Context

(* Hoisting into a well-typed scope gives a well-typed scope.              *)
LEMMA HoistedType ==
  ASSUME NEW c \in Context, NEW parent \in Context
  PROVE  Hoisted(c, parent) \in [Keys -> Slot]
<1>1. \A k \in Keys : c.scope[k] \in Slot /\ parent.scope[k] \in Slot
  BY DEF Context
<1> QED
  BY <1>1 DEF Hoisted, Slot

(* The fields of a well-typed memory.                                      *)
LEMMA Fields ==
  ASSUME TypeOK
  PROVE  /\ mem.ctx \in [Levels -> Context]
         /\ mem.depth \in 0 .. ContextCount
         /\ mem.alive \in SUBSET Items
BY DEF TypeOK

(* Replacing the scope of one context.                                     *)
LEMMA NewScope ==
  ASSUME NEW c \in [Levels -> Context], NEW d \in Levels,
         NEW s \in [Keys -> Slot]
  PROVE  /\ [c EXCEPT ![d].scope = s] \in [Levels -> Context]
         /\ [c EXCEPT ![d].scope = s][d].scope = s
         /\ \A e \in Levels : e # d => [c EXCEPT ![d].scope = s][e] = c[e]
<1>1. [c[d] EXCEPT !.scope = s] \in Context
  BY DEF Context
<1> QED
  BY <1>1 DEF Context

LEMMA InitIInv == Init => IInv
<1> SUFFICES ASSUME Init PROVE IInv
  OBVIOUS
<1>0. mem = [ctx |-> [d \in Levels |-> Empty], depth |-> 1, alive |-> {}]
  BY DEF Init, Constructed, Unborn
<1>1. Empty \in Context
  BY DEF Empty, Context, Slot
<1>2. 1 \in Levels
  BY MemoryAssumption DEF Levels
<1>3. TypeOK
  BY <1>0, <1>1, <1>2, MemoryAssumption DEF TypeOK, Levels
<1>4. \A k \in Keys : mem.ctx[1].scope[k] = Absent
  BY <1>0, <1>2 DEF Empty
<1>5. Ownership
  BY <1>0, <1>4, MemoryAssumption DEF Ownership, NoDangling, NoSharing, NoLeak
<1> QED
  BY <1>3, <1>5 DEF IInv

LEMMA PushStep == IInv /\ PushCtx => IInv'
<1> SUFFICES ASSUME IInv, PushCtx PROVE IInv'
  OBVIOUS
<1>0. CASE Overflows(mem)
  BY <1>0 DEF PushCtx, Pushed, IInv, TypeOK, Ownership, NoDangling, NoSharing, NoLeak
<1>1. CASE ~Overflows(mem)
  <2> DEFINE d1 == mem.depth + 1
  <2>1. d1 \in Levels /\ mem.depth \in 1 .. ContextCount
    BY <1>1, MemoryAssumption DEF PushCtx, Overflows, Levels, IInv, TypeOK
  <2>2. mem' = [mem EXCEPT !.ctx[d1] = Empty, !.depth = d1]
    BY <1>1 DEF PushCtx, Pushed
  <2>3. Empty \in Context
    BY DEF Empty, Context, Slot
  <2>4. /\ mem'.ctx = [mem.ctx EXCEPT ![d1] = Empty]
        /\ mem'.depth = d1 /\ mem'.alive = mem.alive
    BY <2>2 DEF IInv, TypeOK
  <2>5. TypeOK'
    <3>1. mem' = [ctx |-> [mem.ctx EXCEPT ![d1] = Empty], depth |-> d1,
                  alive |-> mem.alive]
      BY <2>2 DEF IInv, TypeOK
    <3>2. [mem.ctx EXCEPT ![d1] = Empty] \in [Levels -> Context]
      BY <2>3, Fields DEF IInv
    <3>3. mem.alive \in SUBSET Items /\ d1 \in 0 .. ContextCount
      BY <2>1, Fields DEF IInv, Levels
    <3> QED
      BY <3>1, <3>2, <3>3 DEF TypeOK
  <2>6. \A d \in 1 .. mem.depth : mem'.ctx[d] = mem.ctx[d] /\ d # d1
    BY <2>1, <2>4 DEF IInv, TypeOK, Levels
  <2>7. \A k \in Keys : mem'.ctx[d1].scope[k] = Absent
    <3>1. mem'.ctx[d1] = Empty
      BY <2>1, <2>4, Fields DEF IInv
    <3> QED
      BY <3>1 DEF Empty
  <2>8. \A d \in 1 .. mem'.depth : d \in 1 .. mem.depth \/ d = d1
    BY <2>1, <2>4
  <2>9. 1 .. mem.depth \subseteq 1 .. mem'.depth
    BY <2>1, <2>4
  <2>10. NoDangling'
    BY <2>4, <2>6, <2>7, <2>8, MemoryAssumption DEF IInv, Ownership, NoDangling
  <2>11. NoSharing'
    BY <2>4, <2>6, <2>7, <2>8, MemoryAssumption DEF IInv, Ownership, NoSharing
  <2>12. NoLeak'
    BY <2>4, <2>6, <2>9 DEF IInv, Ownership, NoLeak
  <2> QED
    BY <2>5, <2>10, <2>11, <2>12 DEF IInv, Ownership
<1> QED
  BY <1>0, <1>1

LEMMA SetStep ==
  ASSUME NEW k \in Keys, NEW i \in Items, IInv, SetItem(k, i)
  PROVE  IInv'
<1> DEFINE top == mem.depth
           old == mem.ctx[top].scope[k]
<1>1. top \in 1 .. ContextCount /\ top \in Levels
  BY DEF SetItem, IInv, TypeOK, Levels
<1>2. /\ mem'.ctx = [mem.ctx EXCEPT ![top].scope[k] = i]
      /\ mem'.depth = top /\ mem'.alive = (mem.alive \ {old}) \cup {i}
      /\ i \notin mem.alive
  BY DEF SetItem, WithItem, Top, IInv, TypeOK
<1> DEFINE s == [mem.ctx[top].scope EXCEPT ![k] = i]
           c == [mem.ctx EXCEPT ![top].scope = s]
<1>a. mem.ctx[top].scope \in [Keys -> Slot] /\ s \in [Keys -> Slot]
  BY <1>1, Fields DEF IInv, Context, Slot
<1>b. /\ c \in [Levels -> Context]
      /\ c[top].scope = s
      /\ \A e \in Levels : e # top => c[e] = mem.ctx[e]
  BY <1>1, <1>a, Fields, NewScope DEF IInv
<1>c. mem' = [ctx |-> c, depth |-> top, alive |-> (mem.alive \ {old}) \cup {i}]
  BY DEF SetItem, WithItem, Top, IInv, TypeOK
<1>3. TypeOK'
  <2>1. (mem.alive \ {old}) \cup {i} \in SUBSET Items /\ top \in 0 .. ContextCount
    BY Fields DEF IInv
  <2> HIDE DEF c
  <2> QED
    BY <1>b, <1>c, <2>1 DEF TypeOK
<1>4. \A d \in 1 .. top, l \in Keys :
         mem'.ctx[d].scope[l] = IF d = top /\ l = k THEN i ELSE mem.ctx[d].scope[l]
  <2> HIDE DEF c
  <2>1. 1 .. top \subseteq Levels
    BY <1>1, MemoryAssumption DEF Levels
  <2> QED
    BY <1>a, <1>b, <1>c, <2>1
<1>5. NoDangling'
  BY <1>1, <1>2, <1>4 DEF IInv, Ownership, NoDangling, NoSharing
<1>6. NoSharing'
  BY <1>1, <1>2, <1>4, SMTT(20) DEF IInv, Ownership, NoDangling, NoSharing
<1>7. NoLeak'
  BY <1>1, <1>2, <1>4 DEF IInv, Ownership, NoLeak
<1> QED
  BY <1>3, <1>5, <1>6, <1>7 DEF IInv, Ownership

LEMMA DropStep ==
  ASSUME NEW k \in Keys, IInv, Drop(k)
  PROVE  IInv'
<1> DEFINE top == mem.depth
           old == mem.ctx[top].scope[k]
<1>1. top \in 1 .. ContextCount /\ top \in Levels
  BY DEF Drop, IInv, TypeOK, Levels
<1>2. /\ mem'.ctx = [mem.ctx EXCEPT ![top].scope[k] = Absent]
      /\ mem'.depth = top /\ mem'.alive = mem.alive \ {old}
  BY DEF Drop, Without, Top, IInv, TypeOK
<1> DEFINE s == [mem.ctx[top].scope EXCEPT ![k] = Absent]
           c == [mem.ctx EXCEPT ![top].scope = s]
<1>a. mem.ctx[top].scope \in [Keys -> Slot] /\ s \in [Keys -> Slot]
  BY <1>1, Fields DEF IInv, Context, Slot
<1>b. /\ c \in [Levels -> Context]
      /\ c[top].scope = s
      /\ \A e \in Levels : e # top => c[e] = mem.ctx[e]
  BY <1>1, <1>a, Fields, NewScope DEF IInv
<1>c. mem' = [ctx |-> c, depth |-> top, alive |-> mem.alive \ {old}]
  BY DEF Drop, Without, Top, IInv, TypeOK
<1>3. TypeOK'
  <2>1. mem.alive \ {old} \in SUBSET Items /\ top \in 0 .. ContextCount
    BY Fields DEF IInv
  <2> HIDE DEF c
  <2> QED
    BY <1>b, <1>c, <2>1 DEF TypeOK
<1>4. \A d \in 1 .. top, l \in Keys :
         mem'.ctx[d].scope[l] = IF d = top /\ l = k THEN Absent ELSE mem.ctx[d].scope[l]
  <2> HIDE DEF c
  <2>1. 1 .. top \subseteq Levels
    BY <1>1, MemoryAssumption DEF Levels
  <2> QED
    BY <1>a, <1>b, <1>c, <2>1
<1>5. NoDangling'
  BY <1>1, <1>2, <1>4, MemoryAssumption DEF IInv, Ownership, NoDangling, NoSharing
<1>6. NoSharing'
  BY <1>1, <1>2, <1>4, MemoryAssumption DEF IInv, Ownership, NoSharing
<1>7. NoLeak'
  BY <1>1, <1>2, <1>4 DEF IInv, Ownership, NoLeak
<1> QED
  BY <1>3, <1>5, <1>6, <1>7 DEF IInv, Ownership

(* Where every pointer is after a pop, from where it was before.           *)
LEMMA PopShape ==
  ASSUME IInv, PopCtx, mem.depth > 1
  PROVE  LET top == mem.depth
             c == mem.ctx[top]
             parent == mem.ctx[top - 1]
         IN /\ top \in 2 .. ContextCount
            /\ c \in Context /\ parent \in Context
            /\ mem'.depth = top - 1
            /\ mem'.alive = mem.alive \ DestroyedByPop(c, parent)
            /\ mem'.ctx \in [Levels -> Context]
            /\ TypeOK'
            /\ \A d \in 1 .. top - 1, l \in Keys :
                 mem'.ctx[d].scope[l] =
                   IF d = top - 1 THEN Hoisted(c, parent)[l]
                                  ELSE mem.ctx[d].scope[l]
<1> DEFINE top == mem.depth
           c == mem.ctx[top]
           parent == mem.ctx[top - 1]
           H == Hoisted(c, parent)
           middle == [mem.ctx EXCEPT ![top - 1].scope = H]
           ctx == [middle EXCEPT ![top] = Empty]
<1>1. top \in 2 .. ContextCount /\ top \in Levels /\ top - 1 \in Levels
  BY Fields, MemoryAssumption DEF IInv, Levels
<1>2. c \in Context /\ parent \in Context
  BY <1>1, Fields DEF IInv
<1>3. H \in [Keys -> Slot]
  BY <1>2, HoistedType
<1>4. /\ middle \in [Levels -> Context]
      /\ middle[top - 1].scope = H
      /\ \A e \in Levels : e # top - 1 => middle[e] = mem.ctx[e]
  <2> HIDE DEF H, c, parent
  <2> QED
    BY <1>1, <1>3, Fields, NewScope DEF IInv
<1>5. Empty \in Context
  BY DEF Empty, Context, Slot
<1>6. /\ ctx \in [Levels -> Context]
      /\ \A e \in Levels : e # top => ctx[e] = middle[e]
  <2> HIDE DEF middle
  <2> QED
    BY <1>1, <1>4, <1>5
<1>7. mem' = [ctx |-> ctx, depth |-> top - 1,
              alive |-> mem.alive \ DestroyedByPop(c, parent)]
  BY <1>1, Fields DEF PopCtx, Popped, IInv
<1>8. TypeOK'
  <2>1. \A dead : mem.alive \ dead \in SUBSET Items
    BY Fields DEF IInv
  <2>2. top - 1 \in 0 .. ContextCount
    BY <1>1, MemoryAssumption
  <2> HIDE DEF ctx
  <2> QED
    BY <1>6, <1>7, <2>1, <2>2 DEF TypeOK
<1>9. \A d \in 1 .. top - 1 : d \in Levels /\ d # top
  BY <1>1, MemoryAssumption DEF Levels
<1>10. \A d \in 1 .. top - 1, l \in Keys :
         mem'.ctx[d].scope[l] = IF d = top - 1 THEN H[l] ELSE mem.ctx[d].scope[l]
  <2> HIDE DEF ctx, middle, H
  <2> QED
    BY <1>4, <1>6, <1>7, <1>9
<1>11. /\ mem'.ctx \in [Levels -> Context] /\ mem'.depth = top - 1
       /\ mem'.alive = mem.alive \ DestroyedByPop(c, parent)
  <2> HIDE DEF ctx
  <2> QED
    BY <1>6, <1>7
<1> QED
  BY <1>1, <1>2, <1>8, <1>10, <1>11

LEMMA PopStep == IInv /\ PopCtx => IInv'
<1> SUFFICES ASSUME IInv, PopCtx PROVE IInv'
  OBVIOUS
<1>0. CASE ~(mem.depth > 1)
  <2>1. mem' = mem
    BY <1>0, Fields DEF PopCtx, Popped, IInv
  <2> QED
    BY <2>1 DEF IInv, TypeOK, Ownership, NoDangling, NoSharing, NoLeak
<1>1. CASE mem.depth > 1
  <2> DEFINE top == mem.depth
             c == mem.ctx[top]
             parent == mem.ctx[top - 1]
             dead == DestroyedByPop(c, parent)
  <2>1. /\ top \in 2 .. ContextCount
        /\ c \in Context /\ parent \in Context
        /\ mem'.depth = top - 1 /\ mem'.alive = mem.alive \ dead
        /\ TypeOK'
        /\ \A d \in 1 .. top - 1, l \in Keys :
             mem'.ctx[d].scope[l] = IF d = top - 1 THEN Hoisted(c, parent)[l]
                                    ELSE mem.ctx[d].scope[l]
    BY <1>1, PopShape
  <2>2. Moved(c) \subseteq Keys /\ MovedTwice(c) \subseteq Moved(c)
    BY <2>1, MovedAreKeys
  <2>3. \A l \in Keys : Hoisted(c, parent)[l] =
          IF l \notin Moved(c) THEN parent.scope[l]
          ELSE IF l \in MovedTwice(c) THEN Null ELSE c.scope[l]
    BY DEF Hoisted
  <2>4. /\ 1 .. top - 1 \subseteq 1 .. top
        /\ top \in 1 .. top /\ top - 1 \in 1 .. top - 1 /\ top - 1 # top
        /\ \A d \in 1 .. top : d = top \/ d \in 1 .. top - 1
        /\ \A d \in 1 .. top - 1 : d # top
    BY <2>1
  <2> HIDE DEF dead, c, parent
  (* Every item in the memory after the step was at some slot before: the  *)
  (* same one, or the same key one level up.  Origin names that slot.      *)
  <2> DEFINE Origin(d, l) == IF d = top - 1 /\ l \in Moved(c) THEN top ELSE d
  <2>5. \A d \in 1 .. top - 1, l \in Keys :
           mem'.ctx[d].scope[l] \in Items =>
             /\ Origin(d, l) \in 1 .. top
             /\ mem'.ctx[d].scope[l] = mem.ctx[Origin(d, l)].scope[l]
             /\ Origin(d, l) = top => l \in Moved(c) \ MovedTwice(c)
             /\ Origin(d, l) = top - 1 => l \notin Moved(c)
    BY <2>1, <2>3, <2>4, MemoryAssumption DEF c, parent
  <2>6. \A i \in Items :
           i \in dead <=>
             \/ \E k \in Moved(c) : mem.ctx[top - 1].scope[k] = i
             \/ \E k \in (Keys \ Moved(c)) \cup MovedTwice(c) : mem.ctx[top].scope[k] = i
    BY DEF dead, DestroyedByPop, c, parent
  <2>7. \A d \in 1 .. top - 1, l \in Keys :
           mem'.ctx[d].scope[l] \in Items => mem'.ctx[d].scope[l] \notin dead
    <3> SUFFICES ASSUME NEW d \in 1 .. top - 1, NEW l \in Keys,
                        mem'.ctx[d].scope[l] \in Items,
                        mem'.ctx[d].scope[l] \in dead
                 PROVE  FALSE
      OBVIOUS
    <3> DEFINE o == Origin(d, l)
    <3>1. /\ o \in 1 .. top /\ mem.ctx[o].scope[l] \in Items
          /\ mem.ctx[o].scope[l] \in dead
          /\ o = top => l \in Moved(c) \ MovedTwice(c)
          /\ o = top - 1 => l \notin Moved(c)
      BY <2>5
    <3> HIDE DEF o
    <3>2. CASE \E k \in Moved(c) : mem.ctx[top - 1].scope[k] = mem.ctx[o].scope[l]
      BY <2>2, <2>4, <3>1, <3>2 DEF IInv, Ownership, NoSharing
    <3>3. CASE \E k \in (Keys \ Moved(c)) \cup MovedTwice(c) :
                 mem.ctx[top].scope[k] = mem.ctx[o].scope[l]
      BY <2>2, <2>4, <3>1, <3>3 DEF IInv, Ownership, NoSharing
    <3> QED
      BY <2>6, <3>1, <3>2, <3>3
  <2>8. NoDangling'
    BY <2>1, <2>5, <2>7, SMTT(20) DEF IInv, Ownership, NoDangling
  <2>9. NoSharing'
    <3> SUFFICES ASSUME NEW d \in 1 .. top - 1, NEW e \in 1 .. top - 1,
                        NEW k \in Keys, NEW l \in Keys,
                        mem'.ctx[d].scope[k] = mem'.ctx[e].scope[l],
                        mem'.ctx[d].scope[k] \in Items
                 PROVE  d = e /\ k = l
      BY <2>1 DEF NoSharing
    <3> DEFINE o == Origin(d, k)
               q == Origin(e, l)
    <3>1. /\ o \in 1 .. top /\ q \in 1 .. top
          /\ mem.ctx[o].scope[k] = mem.ctx[q].scope[l]
          /\ mem.ctx[o].scope[k] \in Items
      BY <2>5
    <3>2. o = q /\ k = l
      <4> HIDE DEF o, q
      <4> QED
        BY <3>1 DEF IInv, Ownership, NoSharing
    <3> QED
      BY <2>4, <3>2
  <2>10. NoLeak'
    <3> SUFFICES ASSUME NEW i \in mem.alive, i \notin dead
                 PROVE  \E d \in 1 .. top - 1, k \in Keys : mem'.ctx[d].scope[k] = i
      BY <2>1 DEF NoLeak
    <3>1. PICK d \in 1 .. top, k \in Keys : mem.ctx[d].scope[k] = i
      BY DEF IInv, Ownership, NoLeak
    <3>2. i \in Items
      BY Fields DEF IInv
    <3>3. CASE d = top
      <4>1. k \in Moved(c) \ MovedTwice(c)
        BY <2>6, <3>1, <3>2, <3>3
      <4>2. mem'.ctx[top - 1].scope[k] = i
        BY <2>1, <2>3, <2>4, <3>1, <3>3, <4>1 DEF c
      <4> QED
        BY <2>4, <4>2
    <3>4. CASE d = top - 1
      <4>1. k \notin Moved(c)
        BY <2>6, <3>1, <3>2, <3>4
      <4>2. mem'.ctx[top - 1].scope[k] = i
        BY <2>1, <2>3, <2>4, <3>1, <3>4, <4>1 DEF parent
      <4> QED
        BY <2>4, <4>2
    <3>5. CASE d # top /\ d # top - 1
      BY <2>1, <2>4, <3>1, <3>5
    <3> QED
      BY <3>3, <3>4, <3>5
  <2> QED
    BY <2>1, <2>8, <2>9, <2>10 DEF IInv, Ownership
<1> QED
  BY <1>0, <1>1

(* Queueing a key changes no pointer.                                      *)
LEMMA DeferHoistStep ==
  ASSUME NEW k \in Keys, IInv, DeferHoist(k)
  PROVE  IInv'
<1> DEFINE top == mem.depth
           queue == Append(mem.ctx[top].pending, k)
           c == [mem.ctx EXCEPT ![top].pending = queue]
<1>1. top \in 1 .. ContextCount /\ top \in Levels
  BY Fields DEF DeferHoist, IInv, Levels
<1>2. mem.ctx[top] \in Context
  BY <1>1, Fields DEF IInv
<1>3. queue \in Seq(Keys)
  BY <1>2 DEF Context
<1>4. [mem.ctx[top] EXCEPT !.pending = queue] \in Context
  <2> HIDE DEF queue
  <2> QED
    BY <1>2, <1>3 DEF Context
<1>5. /\ c \in [Levels -> Context]
      /\ \A d \in Levels : c[d].scope = mem.ctx[d].scope
  <2> HIDE DEF queue
  <2> QED
    BY <1>1, <1>2, <1>4, Fields DEF IInv, Context
<1>6. mem' = [ctx |-> c, depth |-> top, alive |-> mem.alive]
  BY DEF DeferHoist, WithHoist, IInv, TypeOK
<1> HIDE DEF c
<1>7. TypeOK'
  BY <1>5, <1>6, Fields DEF TypeOK, IInv
<1>8. \A d \in 1 .. top : d \in Levels
  BY <1>1, MemoryAssumption DEF Levels
<1>9. Ownership'
  BY <1>5, <1>6, <1>8 DEF IInv, Ownership, NoDangling, NoSharing, NoLeak
<1> QED
  BY <1>7, <1>9 DEF IInv

(* The destructor ends the life of every item: that is NoLeak before it.   *)
LEMMA DestroyStep == IInv /\ Destroy => IInv'
<1> SUFFICES ASSUME IInv, Destroy PROVE IInv'
  OBVIOUS
<1>1. mem.alive \ HeldItems(mem) = {}
  BY DEF IInv, Ownership, NoLeak, HeldItems
<1>2. mem' = [ctx |-> [d \in Levels |-> Empty], depth |-> 0, alive |-> {}]
  BY <1>1 DEF Destroy, Destroyed, Unborn
<1>3. Empty \in Context
  BY DEF Empty, Context, Slot
<1>4. TypeOK'
  BY <1>2, <1>3, MemoryAssumption DEF TypeOK
<1>5. Ownership'
  BY <1>2 DEF Ownership, NoDangling, NoSharing, NoLeak
<1> QED
  BY <1>4, <1>5 DEF IInv

LEMMA ConstructStep == IInv /\ Construct => IInv'
<1> SUFFICES ASSUME IInv, Construct PROVE IInv'
  OBVIOUS
<1>1. mem.alive = {}
  BY DEF Construct, IInv, Ownership, NoLeak
<1>2. 1 \in Levels /\ 1 \in 0 .. ContextCount
  BY MemoryAssumption DEF Levels
<1>3. mem' = [ctx |-> [mem.ctx EXCEPT ![1] = Empty], depth |-> 1, alive |-> {}]
  BY <1>1 DEF Construct, IInv, TypeOK
<1>4. Empty \in Context
  BY DEF Empty, Context, Slot
<1>5. [mem.ctx EXCEPT ![1] = Empty] \in [Levels -> Context]
  BY <1>4, Fields DEF IInv
<1>6. TypeOK'
  BY <1>2, <1>3, <1>5 DEF TypeOK
<1>7. \A k \in Keys : mem'.ctx[1].scope[k] = Absent
  BY <1>2, <1>3, Fields DEF Empty, IInv
<1>8. Ownership'
  BY <1>3, <1>7, MemoryAssumption DEF Ownership, NoDangling, NoSharing, NoLeak
<1> QED
  BY <1>6, <1>8 DEF IInv

LEMMA NextIInv == IInv /\ [Next]_mem => IInv'
<1> SUFFICES ASSUME IInv, [Next]_mem PROVE IInv'
  OBVIOUS
<1>1. CASE PushCtx
  BY <1>1, PushStep
<1>2. CASE PopCtx
  BY <1>2, PopStep
<1>3. CASE \E k \in Keys, i \in Items : SetItem(k, i)
  BY <1>3, SetStep
<1>4. CASE \E k \in Keys : Drop(k)
  BY <1>4, DropStep
<1>5. CASE \E k \in Keys : DeferHoist(k)
  BY <1>5, DeferHoistStep
<1>6. CASE Destroy
  BY <1>6, DestroyStep
<1>7. CASE Construct
  BY <1>7, ConstructStep
<1>8. CASE UNCHANGED mem
  BY <1>8 DEF IInv, TypeOK, Ownership, NoDangling, NoSharing, NoLeak
<1> QED
  BY <1>1, <1>2, <1>3, <1>4, <1>5, <1>6, <1>7, <1>8 DEF Next

(* The memory is well typed in every state: the depth stays between no     *)
(* memory and ContextCount contexts, and no operation reaches outside the  *)
(* preallocated storage.                                                   *)
THEOREM MemoryTyping == Spec => []TypeOK
<1>1. IInv => TypeOK
  BY DEF IInv
<1> QED
  BY <1>1, InitIInv, NextIInv, PTL DEF Spec

(* In every state the live pointers and the live items correspond one to   *)
(* one: pushing, popping with any hoist queue, overwriting, dropping and   *)
(* destroying neither leak an item nor leave a pointer to a destroyed one. *)
THEOREM MemoryOwnership == Spec => []Ownership
<1>1. IInv => Ownership
  BY DEF IInv
<1> QED
  BY <1>1, InitIInv, NextIInv, PTL DEF Spec

-----------------------------------------------------------------------------
(* The greatest number of a set of positions.                              *)
LEMMA MaxIsIn ==
  ASSUME NEW n \in Nat, NEW s \in SUBSET (1 .. n), s # {}
  PROVE  /\ Max(s) \in s
         /\ \A i \in s : i <= Max(s)
<1> DEFINE X == {n - i : i \in s}
<1>1. X \in SUBSET Nat /\ X # {}
  <2>1. \A i \in s : n - i \in Nat
    OBVIOUS
  <2>2. X \subseteq Nat
    BY <2>1
  <2>3. PICK i \in s : TRUE
    OBVIOUS
  <2>4. n - i \in X
    BY <2>3
  <2> HIDE DEF X
  <2> QED
    BY <2>2, <2>4
<1>2. PICK m \in X : \A x \in X : m <= x
  BY <1>1, LeastExists
<1>3. PICK g \in s : m = n - g
  BY <1>2
<1>4. \A i \in s : i <= g
  <2> SUFFICES ASSUME NEW i \in s PROVE i <= g
    OBVIOUS
  <2>1. n - i \in X
    OBVIOUS
  <2>2. n - g <= n - i
    BY <1>2, <1>3, <2>1
  <2> QED
    BY <2>2
<1>5. \E x \in s : \A y \in s : x >= y
  BY <1>4
<1> QED
  BY <1>5 DEF Max

(* FoldLeft is defined by a recursion over sets of positions, the greatest *)
(* position last.  MovesBy says that g satisfies it.                       *)
MovesBy(start, q, n, g) ==
  g = [s \in SUBSET (1 .. n) |->
         IF s = {} THEN start ELSE MoveOne(g[s \ {Max(s)}], q[Max(s)])]

LEMMA MovesExist ==
  ASSUME NEW start, NEW q
  PROVE  \A n \in Nat : \E g : MovesBy(start, q, n, g)
<1> DEFINE X == {n \in Nat : \E g : MovesBy(start, q, n, g)}
           Value(g, s) == IF s = {} THEN start
                          ELSE MoveOne(g[s \ {Max(s)}], q[Max(s)])
<1>1. 0 \in X
  <2> DEFINE g == [s \in SUBSET (1 .. 0) |-> start]
  <2>1. 1 .. 0 = {}
    OBVIOUS
  <2>2. \A s \in SUBSET (1 .. 0) : s = {}
    BY <2>1
  <2>3. MovesBy(start, q, 0, g)
    BY <2>2 DEF MovesBy
  <2> QED
    BY <2>3
<1>2. ASSUME NEW n \in Nat, n \in X PROVE n + 1 \in X
  <2>1. PICK g : MovesBy(start, q, n, g)
    BY <1>2
  <2> DEFINE Small == SUBSET (1 .. n)
             Large == SUBSET (1 .. n + 1)
             h == [s \in Large |-> IF s \in Small THEN g[s] ELSE Value(g, s)]
  <2>2. \A s \in Small : s \in Large /\ g[s] = Value(g, s)
    <3>1. \A s \in Small : s \in Large
      BY <1>2
    <3>2. \A s \in Small : g[s] = Value(g, s)
      BY <2>1, Zenon DEF MovesBy
    <3> HIDE DEF Value, Small, Large
    <3> QED
      BY <3>1, <3>2
  <2>3. ASSUME NEW s \in Large, s # {}
        PROVE  s \ {Max(s)} \in Small /\ s \ {Max(s)} \in Large
    <3>0. n + 1 \in Nat /\ s \in SUBSET (1 .. n + 1)
      OBVIOUS
    <3>1. PICK m : m = Max(s) /\ m \in s /\ \A i \in s : i <= m
      BY <2>3, <3>0, MaxIsIn
    <3>2. \A i \in s \ {m} : i \in 1 .. n
      BY <3>0, <3>1
    <3>3. s \ {m} \in Small /\ s \ {m} \in Large
      BY <3>0, <3>2
    <3> HIDE DEF Small, Large
    <3> QED
      BY <3>1, <3>3
  <2>4. ASSUME NEW s \in Large PROVE h[s] = Value(h, s)
    <3>1. h[s] = Value(g, s)
      BY <2>2
    <3>2. CASE s = {}
      BY <3>1, <3>2
    <3>3. CASE s # {}
      <4>1. h[s \ {Max(s)}] = g[s \ {Max(s)}]
        BY <2>3, <3>3
      <4> HIDE DEF h
      <4> QED
        BY <3>1, <4>1
    <3> QED
      BY <3>2, <3>3
  <2>5. h = [s \in Large |-> h[s]]
    OBVIOUS
  <2>6. MovesBy(start, q, n + 1, h)
    <3> HIDE DEF h
    <3> QED
      BY <2>4, <2>5 DEF MovesBy
  <2>7. n + 1 \in Nat
    OBVIOUS
  <2> HIDE DEF h
  <2> QED
    BY <2>6, <2>7
<1>3. \A n \in Nat : n \in X
  <2> HIDE DEF X
  <2>1. \A n \in Nat : n \in X => n + 1 \in X
    BY <1>2
  <2> QED
    BY <1>1, <2>1, SetInduction, ZenonT(30)
<1> QED
  BY <1>3

(* The drain, one queued key after the other.                              *)
LEMMA DrainByStep ==
  ASSUME NEW c \in Context, NEW parent \in Context
  PROVE  \E p :
           /\ p[0] = [child |-> c.scope, parent |-> parent.scope]
           /\ \A j \in 0 .. Len(c.pending) - 1 :
                p[j + 1] = MoveOne(p[j], c.pending[j + 1])
           /\ p[Len(c.pending)] = Drain(c, parent)
<1> DEFINE q == c.pending
           start == [child |-> c.scope, parent |-> parent.scope]
           n == Len(q)
           iter == CHOOSE g : g = [s \in SUBSET DOMAIN q |->
                                     IF s = {} THEN start
                                     ELSE MoveOne(g[s \ {Max(s)}], q[Max(s)])]
           p == [j \in 0 .. n |-> iter[1 .. j]]
<1>1. n \in Nat /\ DOMAIN q = 1 .. n
  BY DEF Context
<1>2. MovesBy(start, q, n, iter)
  <2>1. \E g : MovesBy(start, q, n, g)
    BY <1>1, MovesExist
  <2> HIDE DEF n, q, start
  <2> QED
    BY <1>1, <2>1 DEF MovesBy
<1>3. Drain(c, parent) = iter[DOMAIN q]
  BY DEF Drain, FoldLeft, MapThenFoldSet
<1> HIDE DEF iter
<1>4. p[0] = start
  <2>0. 1 .. 0 = {}
    OBVIOUS
  <2>1. 1 .. 0 = {} /\ 0 \in 0 .. n /\ {} \in SUBSET (1 .. n)
    <3> HIDE DEF n
    <3> QED
      BY <1>1, <2>0
  <2>2. iter[{}] = start
    BY <1>2, <2>1 DEF MovesBy
  <2> QED
    BY <2>1, <2>2
<1>5. ASSUME NEW j \in 0 .. n - 1 PROVE p[j + 1] = MoveOne(p[j], q[j + 1])
  <2>1. /\ j \in 0 .. n /\ j + 1 \in 0 .. n /\ j + 1 \in 1 .. j + 1
        /\ 1 .. j + 1 \in SUBSET (1 .. n) /\ 1 .. j + 1 # {}
    <3> HIDE DEF n
    <3>1. /\ j \in 0 .. n /\ j + 1 \in 0 .. n /\ j + 1 \in 1 .. j + 1
          /\ \A i \in 1 .. j + 1 : i \in 1 .. n
      BY <1>1
    <3> QED
      BY <3>1
  <2>2. Max(1 .. j + 1) = j + 1
    <3>1. /\ Max(1 .. j + 1) \in 1 .. j + 1
          /\ \A i \in 1 .. j + 1 : i <= Max(1 .. j + 1)
      BY <1>1, <2>1, MaxIsIn
    <3>2. j + 1 <= Max(1 .. j + 1)
      BY <2>1, <3>1
    <3> QED
      BY <3>1, <3>2
  <2>3. (1 .. j + 1) \ {j + 1} = 1 .. j
    OBVIOUS
  <2>4. iter[1 .. j + 1] = MoveOne(iter[(1 .. j + 1) \ {Max(1 .. j + 1)}],
                                   q[Max(1 .. j + 1)])
    BY <1>2, <2>1 DEF MovesBy
  <2>5. p[j] = iter[1 .. j] /\ p[j + 1] = iter[1 .. j + 1]
    BY <2>1
  <2> HIDE DEF p, q
  <2> QED
    BY <2>2, <2>3, <2>4, <2>5
<1>6. p[n] = Drain(c, parent)
  BY <1>1, <1>3
<1> HIDE DEF p
<1> QED
  BY <1>4, <1>5, <1>6

(* The closed form of the drain, for every queue: after j keys the child   *)
(* has a null pointer under every key moved so far, and the parent what    *)
(* Hoisted says of the first j keys.                                       *)
SeenIn(c, j) ==
  {k \in Keys : c.scope[k] # Absent /\ \E m \in 1 .. j : c.pending[m] = k}

AgainIn(c, j) ==
  {k \in SeenIn(c, j) : \E l, m \in 1 .. j :
                          l # m /\ c.pending[l] = k /\ c.pending[m] = k}

After(c, parent, j) ==
  [child |-> [k \in Keys |-> IF k \in SeenIn(c, j) THEN Null ELSE c.scope[k]],
   parent |-> [k \in Keys |-> IF k \notin SeenIn(c, j) THEN parent.scope[k]
                              ELSE IF k \in AgainIn(c, j) THEN Null
                              ELSE c.scope[k]]]

LEMMA SeenGrows ==
  ASSUME NEW c \in Context, NEW j \in 0 .. Len(c.pending) - 1
  PROVE  LET new == c.pending[j + 1]
         IN  /\ new \in Keys
             /\ \A k \in Keys :
                  /\ k # new => /\ k \in SeenIn(c, j + 1) <=> k \in SeenIn(c, j)
                                /\ k \in AgainIn(c, j + 1) <=> k \in AgainIn(c, j)
                  /\ k = new => /\ k \in SeenIn(c, j + 1) <=> c.scope[k] # Absent
                                /\ k \in AgainIn(c, j + 1) <=> k \in SeenIn(c, j)
<1> DEFINE q == c.pending
           new == q[j + 1]
<1>1. /\ q \in Seq(Keys) /\ j \in Nat /\ j + 1 \in 1 .. Len(q)
      /\ j + 1 \in 1 .. j + 1
  BY DEF Context
<1>2. /\ \A m \in 1 .. j + 1 : m \in 1 .. j \/ m = j + 1
      /\ \A m \in 1 .. j : m \in 1 .. j + 1 /\ m # j + 1
  BY <1>1
<1>3. new \in Keys
  BY <1>1
<1> HIDE DEF q
<1>4. ASSUME NEW k \in Keys, k # new
      PROVE  /\ k \in SeenIn(c, j + 1) <=> k \in SeenIn(c, j)
             /\ k \in AgainIn(c, j + 1) <=> k \in AgainIn(c, j)
  <2>1. \A m \in 1 .. j + 1 : q[m] = k => m \in 1 .. j
    BY <1>2, <1>4
  <2>2. k \in SeenIn(c, j + 1) <=> k \in SeenIn(c, j)
    BY <1>2, <2>1 DEF SeenIn, q
  <2>3. k \in AgainIn(c, j + 1) <=> k \in AgainIn(c, j)
    BY <1>2, <2>1, <2>2 DEF AgainIn, q
  <2> QED
    BY <2>2, <2>3
<1>5. new \in SeenIn(c, j + 1) <=> c.scope[new] # Absent
  BY <1>1, <1>3 DEF SeenIn, q
<1>6. new \in AgainIn(c, j + 1) <=> new \in SeenIn(c, j)
  <2>1. ASSUME new \in AgainIn(c, j + 1) PROVE new \in SeenIn(c, j)
    <3>1. PICK l, m \in 1 .. j + 1 : l # m /\ q[l] = new /\ q[m] = new
      BY <2>1 DEF AgainIn, q
    <3>2. c.scope[new] # Absent
      BY <2>1 DEF AgainIn, SeenIn
    <3>3. \E m1 \in 1 .. j : q[m1] = new
      BY <1>2, <3>1
    <3> QED
      BY <1>3, <3>2, <3>3 DEF SeenIn, q
  <2>2. ASSUME new \in SeenIn(c, j) PROVE new \in AgainIn(c, j + 1)
    <3>1. PICK m \in 1 .. j : q[m] = new /\ c.scope[new] # Absent
      BY <2>2 DEF SeenIn, q
    <3>2. m \in 1 .. j + 1 /\ m # j + 1 /\ q[j + 1] = new
      BY <1>2
    <3> QED
      BY <1>1, <1>5, <3>1, <3>2 DEF AgainIn, q
  <2> QED
    BY <2>1, <2>2
<1> QED
  BY <1>3, <1>4, <1>5, <1>6 DEF q

LEMMA MoveOneAfter ==
  ASSUME NEW c \in Context, NEW parent \in Context,
         NEW j \in 0 .. Len(c.pending) - 1
  PROVE  MoveOne(After(c, parent, j), c.pending[j + 1]) = After(c, parent, j + 1)
<1> DEFINE new == c.pending[j + 1]
           old == After(c, parent, j)
           next == After(c, parent, j + 1)
<1>1. /\ new \in Keys
      /\ \A k \in Keys :
           /\ k # new => /\ k \in SeenIn(c, j + 1) <=> k \in SeenIn(c, j)
                         /\ k \in AgainIn(c, j + 1) <=> k \in AgainIn(c, j)
           /\ k = new => /\ k \in SeenIn(c, j + 1) <=> c.scope[k] # Absent
                         /\ k \in AgainIn(c, j + 1) <=> k \in SeenIn(c, j)
  BY SeenGrows
<1> HIDE DEF new
<1>2. new \in SeenIn(c, j) => c.scope[new] # Absent
  BY DEF SeenIn
<1>3. old.child[new] = Absent <=> c.scope[new] = Absent
  BY <1>1, <1>2, MemoryAssumption DEF After
<1>4. CASE c.scope[new] = Absent
  <2>1. MoveOne(old, new) = old
    BY <1>3, <1>4 DEF MoveOne
  <2>2. new \notin SeenIn(c, j) /\ new \notin SeenIn(c, j + 1)
    BY <1>1, <1>2, <1>4
  <2>3. \A k \in Keys : k \in SeenIn(c, j + 1) <=> k \in SeenIn(c, j)
    BY <1>1, <2>2
  <2>4. \A k \in Keys : k \in SeenIn(c, j) => (k \in AgainIn(c, j + 1) <=> k \in AgainIn(c, j))
    BY <1>1, <2>2
  <2>5. next = old
    BY <2>3, <2>4 DEF After
  <2> QED
    BY <2>1, <2>5 DEF new
<1>5. CASE c.scope[new] # Absent
  <2>1. MoveOne(old, new) = [child |-> [old.child EXCEPT ![new] = Null],
                             parent |-> [old.parent EXCEPT ![new] = old.child[new]]]
    BY <1>3, <1>5 DEF MoveOne
  <2>2. [old.child EXCEPT ![new] = Null] = next.child
    BY <1>1, <1>5 DEF After
  <2>3. old.child[new] = next.parent[new]
    BY <1>1, <1>5 DEF After
  <2>4. [old.parent EXCEPT ![new] = old.child[new]] = next.parent
    <3>1. \A k \in Keys : k # new => old.parent[k] = next.parent[k]
      BY <1>1 DEF After
    <3>2. /\ old.parent = [k \in Keys |-> old.parent[k]]
          /\ next.parent = [k \in Keys |-> next.parent[k]]
      BY DEF After
    <3> HIDE DEF old, next
    <3> QED
      BY <1>1, <2>3, <3>1, <3>2
  <2>5. next = [child |-> next.child, parent |-> next.parent]
    BY DEF After
  <2> HIDE DEF old, next
  <2> QED
    BY <2>1, <2>2, <2>4, <2>5 DEF new, old, next
<1> QED
  BY <1>4, <1>5

(* The loop of pop_ctx leaves in the parent what Hoisted says, whatever    *)
(* the queue holds and however long it is.                                 *)
LEMMA DrainIsHoisted ==
  ASSUME NEW c \in Context, NEW parent \in Context
  PROVE  Drain(c, parent).parent = Hoisted(c, parent)
<1> DEFINE q == c.pending
<1>1. q \in Seq(Keys) /\ Len(q) \in Nat /\ DOMAIN q = 1 .. Len(q)
  BY DEF Context
<1>2. PICK p :
        /\ p[0] = [child |-> c.scope, parent |-> parent.scope]
        /\ \A j \in 0 .. Len(q) - 1 : p[j + 1] = MoveOne(p[j], q[j + 1])
        /\ p[Len(q)] = Drain(c, parent)
  BY DrainByStep
<1> DEFINE X == {j \in Nat : j <= Len(q) => p[j] = After(c, parent, j)}
<1>3. 0 \in X
  <2>1. 1 .. 0 = {} /\ SeenIn(c, 0) = {}
    BY DEF SeenIn
  <2>2. /\ c.scope = [k \in Keys |-> c.scope[k]]
        /\ parent.scope = [k \in Keys |-> parent.scope[k]]
    BY DEF Context
  <2>3. After(c, parent, 0) = [child |-> c.scope, parent |-> parent.scope]
    BY <2>1, <2>2 DEF After
  <2> QED
    BY <1>2, <2>3
<1>4. ASSUME NEW j \in Nat, j \in X PROVE j + 1 \in X
  <2> SUFFICES ASSUME j + 1 <= Len(q) PROVE p[j + 1] = After(c, parent, j + 1)
    OBVIOUS
  <2>1. j \in 0 .. Len(q) - 1 /\ j <= Len(q)
    BY <1>1
  <2>2. p[j] = After(c, parent, j)
    BY <1>4, <2>1
  <2>3. p[j + 1] = MoveOne(p[j], q[j + 1])
    BY <1>2, <2>1
  <2> QED
    BY <2>1, <2>2, <2>3, MoveOneAfter
<1>5. Len(q) \in X
  <2> HIDE DEF X
  <2>1. \A j \in Nat : j \in X => j + 1 \in X
    BY <1>4
  <2> QED
    BY <1>1, <1>3, <2>1, SetInduction, ZenonT(30)
<1>6. Drain(c, parent).parent = After(c, parent, Len(q)).parent
  BY <1>1, <1>2, <1>5
<1>7. \A k \in Keys : k \in SeenIn(c, Len(q)) <=> k \in Moved(c)
  BY <1>1 DEF SeenIn, Moved, Queued
<1>8. \A k \in Keys : k \in AgainIn(c, Len(q)) <=> k \in MovedTwice(c)
  BY <1>1, <1>7 DEF AgainIn, MovedTwice
<1>9. After(c, parent, Len(q)).parent = Hoisted(c, parent)
  BY <1>7, <1>8 DEF After, Hoisted
<1> QED
  BY <1>6, <1>9

(* The pop of the model is the pop of the code: the closed form that       *)
(* Popped uses is the loop of pop_ctx, in every state.                     *)
THEOREM MemoryDrain == Spec => []HoistedIsTheLoop
<1>1. TypeOK => HoistedIsTheLoop
  <2> SUFFICES ASSUME TypeOK, mem.depth > 1, NEW q \in Queues
               PROVE  LET parent == mem.ctx[mem.depth - 1]
                          c == [Top(mem) EXCEPT !.pending = q]
                      IN Drain(c, parent).parent = Hoisted(c, parent)
    BY DEF HoistedIsTheLoop
  <2> DEFINE parent == mem.ctx[mem.depth - 1]
             c == [Top(mem) EXCEPT !.pending = q]
  <2>1. mem.depth \in Levels /\ mem.depth - 1 \in Levels
    BY Fields, MemoryAssumption DEF Levels
  <2>2. parent \in Context /\ Top(mem) \in Context
    BY <2>1, Fields DEF Top
  <2>3. q \in Seq(Keys)
    BY DEF Queues
  <2>4. c \in Context
    BY <2>2, <2>3 DEF Context
  <2> HIDE DEF parent, c
  <2>5. Drain(c, parent).parent = Hoisted(c, parent)
    BY <2>2, <2>4, DrainIsHoisted
  <2> QED
    BY <2>5 DEF parent, c
<1> QED
  BY <1>1, MemoryTyping, PTL

-----------------------------------------------------------------------------
(***************************************************************************)
(* memory_c implements ScopedStore, for every number of contexts, keys and *)
(* items, when its clients schedule a key at most once per context.  The   *)
(* proof adds one invariant to Ownership, Single: no queue repeats a key   *)
(* and no scope holds an emptied pointer.  Ownership says that an item is  *)
(* in one slot, so its place is well defined and every operation can be    *)
(* followed from the slots to the places; Single says that what a pop      *)
(* moves is an item, once.                                                 *)
(***************************************************************************)

(* With a repeated key in a queue, the second hoist would take the pointer *)
(* that the first has emptied, and leave an empty one in the parent.       *)
OnceQueued(c) ==
  \A m, n \in DOMAIN c.pending : c.pending[m] = c.pending[n] => m = n

NoneNull(c) == \A k \in Keys : c.scope[k] # Null

Single == \A d \in Levels : OnceQueued(mem.ctx[d]) /\ NoneNull(mem.ctx[d])

LEMMA EmptyQueue == OnceQueued(Empty) /\ NoneNull(Empty) /\ Queued(Empty) = {}
BY MemoryAssumption DEF Empty, OnceQueued, NoneNull, Queued

(* The context array after each operation, slot by slot.                   *)
LEMMA PushQueues ==
  ASSUME IInv, PushCtx, ~Overflows(mem)
  PROVE  /\ mem.depth + 1 \in Levels
         /\ mem'.ctx = [mem.ctx EXCEPT ![mem.depth + 1] = Empty]
         /\ mem'.depth = mem.depth + 1 /\ mem'.alive = mem.alive
<1>1. mem.depth \in Nat /\ mem.depth > 0 /\ mem.depth < ContextCount
  BY Fields, MemoryAssumption DEF PushCtx, Overflows, IInv
<1>2. mem' = [mem EXCEPT !.ctx[mem.depth + 1] = Empty, !.depth = mem.depth + 1]
  BY DEF PushCtx, Pushed
<1> QED
  BY <1>1, <1>2, MemoryAssumption DEF IInv, TypeOK, Levels

LEMMA SetShape ==
  ASSUME NEW k \in Keys, NEW i \in Items, IInv, SetItem(k, i)
  PROVE  /\ mem'.depth = mem.depth /\ mem.depth \in Levels
         /\ i \notin mem.alive
         /\ mem'.alive = (mem.alive \ {Top(mem).scope[k]}) \cup {i}
         /\ \A e \in Levels : mem'.ctx[e].pending = mem.ctx[e].pending
         /\ \A e \in Levels, l \in Keys : mem'.ctx[e].scope[l] =
              IF e = mem.depth /\ l = k THEN i ELSE mem.ctx[e].scope[l]
<1>1. mem.depth \in Levels
  BY Fields DEF SetItem, IInv, Levels
<1>2. /\ mem'.ctx = [mem.ctx EXCEPT ![mem.depth].scope[k] = i]
      /\ mem'.depth = mem.depth /\ i \notin mem.alive
      /\ mem'.alive = (mem.alive \ {Top(mem).scope[k]}) \cup {i}
  BY DEF SetItem, WithItem, IInv, TypeOK
<1> DEFINE c == [mem.ctx EXCEPT ![mem.depth].scope[k] = i]
<1>3. /\ \A e \in Levels : c[e].pending = mem.ctx[e].pending
      /\ \A e \in Levels, l \in Keys : c[e].scope[l] =
           IF e = mem.depth /\ l = k THEN i ELSE mem.ctx[e].scope[l]
  <2>1. mem.ctx \in [Levels -> Context]
    BY Fields DEF IInv
  <2> QED
    BY <1>1, <2>1 DEF Context
<1>4. mem'.ctx = c
  BY <1>2
<1> HIDE DEF c
<1> QED
  BY <1>1, <1>2, <1>3, <1>4

LEMMA DropShape ==
  ASSUME NEW k \in Keys, IInv, Drop(k)
  PROVE  /\ mem'.depth = mem.depth /\ mem.depth \in Levels
         /\ mem'.alive = mem.alive \ {Top(mem).scope[k]}
         /\ \A e \in Levels : mem'.ctx[e].pending = mem.ctx[e].pending
         /\ \A e \in Levels, l \in Keys : mem'.ctx[e].scope[l] =
              IF e = mem.depth /\ l = k THEN Absent ELSE mem.ctx[e].scope[l]
<1>1. mem.depth \in Levels
  BY Fields DEF Drop, IInv, Levels
<1>2. /\ mem'.ctx = [mem.ctx EXCEPT ![mem.depth].scope[k] = Absent]
      /\ mem'.depth = mem.depth
      /\ mem'.alive = mem.alive \ {Top(mem).scope[k]}
  BY DEF Drop, Without, IInv, TypeOK
<1> DEFINE c == [mem.ctx EXCEPT ![mem.depth].scope[k] = Absent]
<1>3. /\ \A e \in Levels : c[e].pending = mem.ctx[e].pending
      /\ \A e \in Levels, l \in Keys : c[e].scope[l] =
           IF e = mem.depth /\ l = k THEN Absent ELSE mem.ctx[e].scope[l]
  <2>1. mem.ctx \in [Levels -> Context]
    BY Fields DEF IInv
  <2> QED
    BY <1>1, <2>1 DEF Context
<1>4. mem'.ctx = c
  BY <1>2
<1> HIDE DEF c
<1> QED
  BY <1>1, <1>2, <1>3, <1>4

LEMMA DeferShape ==
  ASSUME NEW k \in Keys, IInv, DeferHoist(k)
  PROVE  /\ mem'.depth = mem.depth /\ mem.depth \in Levels
         /\ mem'.alive = mem.alive
         /\ \A e \in Levels : mem'.ctx[e].scope = mem.ctx[e].scope
         /\ \A e \in Levels : e # mem.depth => mem'.ctx[e] = mem.ctx[e]
         /\ mem'.ctx[mem.depth].pending = Append(mem.ctx[mem.depth].pending, k)
<1> DEFINE top == mem.depth
           queue == Append(mem.ctx[top].pending, k)
<1>1. top \in Levels
  BY Fields DEF DeferHoist, IInv, Levels
<1>2. /\ mem'.ctx = [mem.ctx EXCEPT ![top].pending = queue]
      /\ mem'.depth = top /\ mem'.alive = mem.alive
  BY DEF DeferHoist, WithHoist, IInv, TypeOK
<1> HIDE DEF queue
<1>3. /\ \A e \in Levels : mem'.ctx[e].scope = mem.ctx[e].scope
      /\ \A e \in Levels : e # top => mem'.ctx[e] = mem.ctx[e]
      /\ mem'.ctx[top].pending = queue
  BY <1>1, <1>2, Fields DEF IInv, Context
<1> QED
  BY <1>1, <1>2, <1>3 DEF queue

LEMMA PopQueues ==
  ASSUME IInv, PopCtx, mem.depth > 1
  PROVE  /\ mem.depth \in Levels /\ mem.depth - 1 \in Levels
         /\ mem'.ctx[mem.depth] = Empty
         /\ \A e \in Levels : e # mem.depth => mem'.ctx[e].pending = mem.ctx[e].pending
<1> DEFINE top == mem.depth
           parent == mem.ctx[top - 1]
           H == Hoisted(mem.ctx[top], parent)
           middle == [mem.ctx EXCEPT ![top - 1].scope = H]
<1>1. top \in Levels /\ top - 1 \in Levels /\ top - 1 # top
  BY Fields, MemoryAssumption DEF IInv, Levels
<1>2. mem'.ctx = [middle EXCEPT ![top] = Empty]
  BY <1>1, Fields DEF PopCtx, Popped, IInv
<1> HIDE DEF H
<1> DEFINE Scopes == {mem.ctx[e].scope : e \in Levels} \cup {H}
<1>3. /\ middle \in [Levels -> [scope : Scopes, pending : Seq(Keys)]]
      /\ \A e \in Levels : middle[e].pending = mem.ctx[e].pending
  BY <1>1, Fields DEF IInv, Context
<1> QED
  BY <1>1, <1>2, <1>3


LEMMA PopScopes ==
  ASSUME IInv, PopCtx, mem.depth > 1, NEW d \in Levels, d # mem.depth
  PROVE  \/ mem'.ctx[d].scope = Hoisted(mem.ctx[mem.depth], mem.ctx[mem.depth - 1])
         \/ mem'.ctx[d] = mem.ctx[d]
<1> DEFINE top == mem.depth
           H == Hoisted(mem.ctx[top], mem.ctx[top - 1])
           s == [mem.ctx[top - 1] EXCEPT !.scope = H]
<1>1. top \in Levels /\ top - 1 \in Levels /\ top - 1 # top
  BY Fields, MemoryAssumption DEF IInv, Levels
<1>2. mem'.ctx = [[mem.ctx EXCEPT ![top - 1] = s] EXCEPT ![top] = Empty]
  BY <1>1, Fields DEF PopCtx, Popped, IInv
<1>3. s.scope = H
  BY <1>1, Fields DEF IInv, Context
<1> HIDE DEF s, H
<1>4. mem'.ctx[d] = s \/ mem'.ctx[d] = mem.ctx[d]
  BY <1>1, <1>2, Fields DEF IInv
<1> QED
  BY <1>3, <1>4 DEF H

(* Single is inductive: a pop carries a slot of the child, not an emptied  *)
(* one, to the parent, and only a key that is not queued is queued.        *)
LEMMA SingleStep ==
  ASSUME ~RepeatHoist, IInv, Single, [Next]_mem
  PROVE  Single'
<1> DEFINE Good(c) == OnceQueued(c) /\ NoneNull(c)
<1> SUFFICES ASSUME NEW d \in Levels PROVE Good(mem'.ctx[d])
  BY DEF Single
<1>0. Good(mem.ctx[d])
  BY DEF Single
<1>e. Good(Empty)
  BY EmptyQueue
<1>a. ASSUME mem'.ctx[d].pending = mem.ctx[d].pending
      PROVE  OnceQueued(mem'.ctx[d])
  BY <1>0, <1>a DEF OnceQueued
<1>1. CASE PushCtx
  <2>1. CASE Overflows(mem)
    BY <1>0, <1>1, <2>1 DEF PushCtx, Pushed
  <2>2. CASE ~Overflows(mem)
    <3>1. mem'.ctx = [mem.ctx EXCEPT ![mem.depth + 1] = Empty]
      BY <1>1, <2>2, PushQueues
    <3>2. mem'.ctx[d] = Empty \/ mem'.ctx[d] = mem.ctx[d]
      BY <3>1, Fields DEF IInv
    <3> QED
      BY <1>0, <1>e, <3>2
  <2> QED
    BY <2>1, <2>2
<1>2. CASE PopCtx
  <2>1. CASE mem.depth > 1
    <3> DEFINE top == mem.depth
               c == mem.ctx[top]
               parent == mem.ctx[top - 1]
    <3>1. CASE d = top
      BY <1>2, <1>e, <2>1, <3>1, PopQueues
    <3>2. CASE d # top
      <4>1. OnceQueued(mem'.ctx[d])
        BY <1>2, <1>a, <2>1, <3>2, PopQueues
      <4>2. /\ OnceQueued(c) /\ NoneNull(c) /\ NoneNull(parent)
            /\ top \in Levels /\ top - 1 \in Levels
        BY <1>2, <2>1, PopQueues DEF Single
      <4>3. \A k \in Keys : Hoisted(c, parent)[k] # Null
        <5>1. MovedTwice(c) = {}
          BY <4>2 DEF MovedTwice, OnceQueued
        <5> HIDE DEF c, parent
        <5> QED
          BY <4>2, <5>1 DEF Hoisted, NoneNull
      <4>4. NoneNull(mem'.ctx[d])
        <5>1. mem'.ctx[d].scope = Hoisted(c, parent) \/ mem'.ctx[d] = mem.ctx[d]
          BY <1>2, <2>1, <3>2, PopScopes
        <5> QED
          BY <1>0, <4>3, <5>1 DEF NoneNull
      <4> QED
        BY <4>1, <4>4
    <3> QED
      BY <3>1, <3>2
  <2>2. CASE ~(mem.depth > 1)
    <3>1. mem' = mem
      BY <1>2, <2>2, Fields DEF PopCtx, Popped, IInv
    <3> QED
      BY <1>0, <3>1
  <2> QED
    BY <2>1, <2>2
<1>3. ASSUME NEW k \in Keys, NEW i \in Items, SetItem(k, i)
      PROVE  Good(mem'.ctx[d])
  <2>1. NoneNull(mem'.ctx[d])
    BY <1>0, <1>3, SetShape, MemoryAssumption DEF NoneNull
  <2> QED
    BY <1>3, <1>a, <2>1, SetShape
<1>4. ASSUME NEW k \in Keys, Drop(k)
      PROVE  Good(mem'.ctx[d])
  <2>1. NoneNull(mem'.ctx[d])
    BY <1>0, <1>4, DropShape, MemoryAssumption DEF NoneNull
  <2> QED
    BY <1>4, <1>a, <2>1, DropShape
<1>5. ASSUME NEW k \in Keys, DeferHoist(k)
      PROVE  Good(mem'.ctx[d])
  <2>0. NoneNull(mem'.ctx[d])
    BY <1>0, <1>5, DeferShape DEF NoneNull
  <2>1. CASE d # mem.depth
    BY <1>5, <1>0, <2>1, DeferShape
  <2>2. CASE d = mem.depth
    <3> DEFINE q == mem.ctx[d].pending
    <3>1. mem'.ctx[d].pending = Append(q, k)
      BY <1>5, <2>2, DeferShape
    <3>2. q \in Seq(Keys)
      BY Fields DEF IInv, Context
    <3>3. k \notin {q[n] : n \in DOMAIN q}
      BY <1>5, <2>2 DEF DeferHoist, MayDefer, Queued, Top
    <3>4. \A m, n \in DOMAIN q : q[m] = q[n] => m = n
      BY <1>0 DEF OnceQueued
    <3>5. \A m, n \in DOMAIN Append(q, k) : Append(q, k)[m] = Append(q, k)[n] => m = n
      <4> HIDE DEF q
      <4> QED
        BY <3>2, <3>3, <3>4
    <3> QED
      BY <2>0, <3>1, <3>5 DEF OnceQueued
  <2> QED
    BY <2>1, <2>2
<1>6. CASE Destroy
  <2>1. mem'.ctx = [e \in Levels |-> Empty]
    BY <1>6 DEF Destroy, Destroyed, Unborn
  <2> QED
    BY <2>1, <1>e
<1>7. CASE Construct
  <2>1. mem'.ctx = [mem.ctx EXCEPT ![1] = Empty]
    BY <1>7 DEF Construct, IInv, TypeOK
  <2>2. mem'.ctx[d] = Empty \/ mem'.ctx[d] = mem.ctx[d]
    BY <2>1, Fields DEF IInv
  <2> QED
    BY <1>0, <1>e, <2>2
<1>8. CASE UNCHANGED mem
  BY <1>0, <1>8
<1> QED
  BY <1>1, <1>2, <1>3, <1>4, <1>5, <1>6, <1>7, <1>8 DEF Next

LEMMA InitSingle == Init => Single
BY EmptyQueue DEF Init, Constructed, Unborn, Single

(* An item's place is the one slot that holds it.                          *)
PlaceIs ==
  /\ Place = [i \in mem.alive |-> Place[i]]
  /\ \A i \in mem.alive :
       \E d \in 1 .. mem.depth, k \in Keys :
          Place[i] = <<d, k>> /\ mem.ctx[d].scope[k] = i
  /\ \A i \in mem.alive, d \in 1 .. mem.depth, k \in Keys :
       mem.ctx[d].scope[k] = i => Place[i] = <<d, k>>

LEMMA PlaceOf == IInv => PlaceIs
<1> SUFFICES ASSUME IInv PROVE PlaceIs
  OBVIOUS
<1> DEFINE Holds(i, s) == s \in Slots /\ mem.ctx[s[1]].scope[s[2]] = i
<1> DEFINE P(i) == CHOOSE s \in Slots : mem.ctx[s[1]].scope[s[2]] = i
<1>1. ASSUME NEW i \in mem.alive
      PROVE  i \in Items /\ Holds(i, P(i))
  <2>1. PICK d \in 1 .. mem.depth, k \in Keys : mem.ctx[d].scope[k] = i
    BY DEF IInv, Ownership, NoLeak
  <2>2. Holds(i, <<d, k>>)
    BY <2>1 DEF Slots
  <2>3. i \in Items
    BY Fields DEF IInv
  <2> QED
    BY <2>2, <2>3
<1>2. Place = [i \in mem.alive |-> P(i)]
  BY DEF Place
<1> HIDE DEF P
<1>3. \A i \in mem.alive : i \in Items /\ Holds(i, Place[i])
  BY <1>1, <1>2
<1>4. \A s \in Slots : \E d \in 1 .. mem.depth, k \in Keys : s = <<d, k>> /\ s[1] = d /\ s[2] = k
  BY DEF Slots
<1>5. \A i \in mem.alive :
        \E d \in 1 .. mem.depth, k \in Keys :
           Place[i] = <<d, k>> /\ mem.ctx[d].scope[k] = i
  BY <1>3, <1>4
<1>6. \A i \in mem.alive, d \in 1 .. mem.depth, k \in Keys :
        mem.ctx[d].scope[k] = i => Place[i] = <<d, k>>
  BY <1>3, <1>5 DEF IInv, Ownership, NoSharing
<1>7. Place = [i \in mem.alive |-> Place[i]]
  BY <1>2
<1> QED
  BY <1>5, <1>6, <1>7 DEF PlaceIs

(* The slots of the live contexts are all inside the array.                *)
LEMMA LiveLevels ==
  ASSUME IInv
  PROVE  mem.depth \in Nat /\ \A d \in 1 .. mem.depth : d \in Levels
BY Fields, MemoryAssumption DEF IInv, Levels

(* Place read both ways.                                                   *)
LEMMA AtSlot ==
  ASSUME PlaceIs, NEW d \in 1 .. mem.depth, NEW k \in Keys
  PROVE  Store!At(<<d, k>>) = {i \in mem.alive : i = mem.ctx[d].scope[k]}
<1>1. ASSUME NEW i \in mem.alive
      PROVE  Place[i] = <<d, k>> <=> i = mem.ctx[d].scope[k]
  <2>1. PICK e \in 1 .. mem.depth, l \in Keys :
           Place[i] = <<e, l>> /\ mem.ctx[e].scope[l] = i
    BY DEF PlaceIs
  <2>2. <<e, l>> = <<d, k>> <=> e = d /\ l = k
    OBVIOUS
  <2>3. mem.ctx[d].scope[k] = i => Place[i] = <<d, k>>
    BY ZenonT(30) DEF PlaceIs
  <2> QED
    BY <2>1, <2>2, <2>3
<1>2. DOMAIN Place = mem.alive
  BY DEF PlaceIs
<1> QED
  BY <1>1, <1>2 DEF Store!At, Store!Stored

LEMMA ItsPlace ==
  ASSUME PlaceIs, NEW j \in mem.alive, NEW d \in 1 .. mem.depth, NEW l \in Keys,
         mem.ctx[d].scope[l] = j
  PROVE  Place[j] = <<d, l>>
BY DEF PlaceIs

LEMMA SamePlace ==
  ASSUME PlaceIs', NEW j \in mem'.alive, NEW d \in 1 .. mem'.depth, NEW l \in Keys,
         mem'.ctx[d].scope[l] = j
  PROVE  Place'[j] = <<d, l>>
BY DEF PlaceIs

LEMMA AppendQueued ==
  ASSUME NEW c, NEW e, NEW k \in Keys, c.pending \in Seq(Keys),
         e.pending = Append(c.pending, k)
  PROVE  Queued(e) = Queued(c) \cup {k}
<1> DEFINE q == c.pending
           r == e.pending
<1>1. q \in Seq(Keys) /\ r = Append(q, k)
  OBVIOUS
<1>2. /\ DOMAIN r = DOMAIN q \cup {Len(q) + 1} /\ r[Len(q) + 1] = k
      /\ \A n \in DOMAIN q : r[n] = q[n]
  <2> HIDE DEF q, r
  <2> QED
    BY <1>1
<1> HIDE DEF q, r
<1>3. {r[n] : n \in DOMAIN r} = {q[n] : n \in DOMAIN q} \cup {k}
  BY <1>2
<1> QED
  BY <1>3 DEF Queued, q, r

LEMMA SameQueues ==
  ASSUME IInv, mem'.depth = mem.depth,
         \A d \in 1 .. mem.depth : mem'.ctx[d].pending = mem.ctx[d].pending
  PROVE  Promises' = Promises
BY DEF Promises, Slots, Queued

(* Each operation is the step of the store that bears its name, or leaves  *)
(* the memory as it is.                                                    *)
LEMMA SetIsBind ==
  ASSUME NEW k \in Keys, NEW i \in Items, IInv, PlaceIs, PlaceIs', SetItem(k, i)
  PROVE  Store!Bind(k, i)
<1> DEFINE top == mem.depth
           old == mem.ctx[top].scope[k]
           S == (Store!Stored \ Store!At(<<top, k>>)) \cup {i}
<1>1. /\ mem'.depth = top /\ top \in Levels /\ top > 0 /\ i \notin mem.alive
      /\ mem'.alive = (mem.alive \ {old}) \cup {i}
      /\ \A e \in Levels : mem'.ctx[e].pending = mem.ctx[e].pending
      /\ \A e \in Levels, l \in Keys : mem'.ctx[e].scope[l] =
           IF e = top /\ l = k THEN i ELSE mem.ctx[e].scope[l]
  BY SetShape DEF SetItem, Top
<1>2. top \in 1 .. top /\ \A d \in 1 .. top : d \in Levels
  BY <1>1, LiveLevels
<1>3. DOMAIN Place = mem.alive
  BY DEF PlaceIs
<1>4. mem.alive \ Store!At(<<top, k>>) = mem.alive \ {old}
  BY <1>2, <1>3, AtSlot
<1>5. Place'[i] = <<top, k>>
  <2>1. top \in 1 .. mem'.depth /\ i \in mem'.alive /\ mem'.ctx[top].scope[k] = i
    BY <1>1, <1>2
  <2>2. \A j \in mem'.alive, d \in 1 .. mem'.depth, l \in Keys :
           mem'.ctx[d].scope[l] = j => Place'[j] = <<d, l>>
    BY SMT DEF PlaceIs
  <2> QED
    BY <2>1, <2>2
<1>6. ASSUME NEW j \in mem.alive \ {old}
      PROVE  Place'[j] = Place[j] /\ j # i
  <2>1. PICK d \in 1 .. top, l \in Keys : Place[j] = <<d, l>> /\ mem.ctx[d].scope[l] = j
    BY DEF PlaceIs
  <2>2. mem'.ctx[d].scope[l] = j /\ j \in mem'.alive /\ j # i /\ d \in 1 .. mem'.depth
    BY <1>1, <1>2, <2>1, Fields, MemoryAssumption DEF IInv
  <2> QED
    BY <2>1, <2>2, SamePlace
<1>7. Place' = [j \in S |->
                  IF j = i THEN <<top, k>> ELSE Place[j]]
  <2>1. S = mem'.alive
    BY <1>1, <1>3, <1>4 DEF Store!Stored
  <2>2. \A j \in S : Place'[j] = IF j = i THEN <<top, k>> ELSE Place[j]
    BY <1>1, <1>5, <1>6, <2>1
  <2>3. Place' = [j \in S |-> Place'[j]]
    BY <2>1 DEF PlaceIs
  <2> HIDE DEF S
  <2> QED
    BY <2>2, <2>3
<1>8. Promises' = Promises
  BY <1>1, <1>2, SameQueues
<1> QED
  BY <1>1, <1>3, <1>7, <1>8 DEF Store!Bind, Store!Stored

LEMMA DropIsUnbind ==
  ASSUME NEW k \in Keys, IInv, PlaceIs, PlaceIs', Drop(k)
  PROVE  Store!Unbind(k)
<1> DEFINE top == mem.depth
           old == mem.ctx[top].scope[k]
           S == Store!Stored \ Store!At(<<top, k>>)
<1>1. /\ mem'.depth = top /\ top \in Levels /\ top > 0
      /\ mem'.alive = mem.alive \ {old}
      /\ \A e \in Levels : mem'.ctx[e].pending = mem.ctx[e].pending
      /\ \A e \in Levels, l \in Keys : mem'.ctx[e].scope[l] =
           IF e = top /\ l = k THEN Absent ELSE mem.ctx[e].scope[l]
  BY DropShape DEF Drop, Top
<1>2. top \in 1 .. top /\ \A d \in 1 .. top : d \in Levels
  BY <1>1, LiveLevels
<1>3. DOMAIN Place = mem.alive
  BY DEF PlaceIs
<1>4. mem.alive \ Store!At(<<top, k>>) = mem.alive \ {old}
  BY <1>2, <1>3, AtSlot
<1>5. ASSUME NEW j \in mem.alive \ {old}
      PROVE  Place'[j] = Place[j]
  <2>1. PICK d \in 1 .. top, l \in Keys : Place[j] = <<d, l>> /\ mem.ctx[d].scope[l] = j
    BY DEF PlaceIs
  <2>2. mem'.ctx[d].scope[l] = j /\ j \in mem'.alive /\ d \in 1 .. mem'.depth
    BY <1>1, <1>2, <2>1, Fields, MemoryAssumption DEF IInv
  <2> QED
    BY <2>1, <2>2, SamePlace
<1>6. Place' = [j \in S |-> Place[j]]
  <2>1. S = mem'.alive
    BY <1>1, <1>3, <1>4 DEF Store!Stored
  <2>2. \A j \in S : Place'[j] = Place[j]
    BY <1>1, <1>5, <2>1
  <2>3. Place' = [j \in S |-> Place'[j]]
    BY <2>1 DEF PlaceIs
  <2> HIDE DEF S
  <2> QED
    BY <2>2, <2>3
<1>7. Promises' = Promises
  BY <1>1, <1>2, SameQueues
<1> QED
  BY <1>1, <1>6, <1>7 DEF Store!Unbind

(* The pointers of the live contexts are as they were: so are the places.  *)
LEMMA SamePlaces ==
  ASSUME IInv, PlaceIs, PlaceIs', mem'.alive = mem.alive,
         \A d \in 1 .. mem.depth : d \in 1 .. mem'.depth,
         \A d \in 1 .. mem.depth, l \in Keys :
            mem'.ctx[d].scope[l] = mem.ctx[d].scope[l]
  PROVE  Place' = Place
<1>1. ASSUME NEW j \in mem.alive
      PROVE  Place'[j] = Place[j]
  <2>1. PICK d \in 1 .. mem.depth, l \in Keys :
           Place[j] = <<d, l>> /\ mem.ctx[d].scope[l] = j
    BY DEF PlaceIs
  <2>2. mem'.ctx[d].scope[l] = j /\ j \in mem'.alive /\ d \in 1 .. mem'.depth
    BY <2>1
  <2> QED
    BY <2>1, <2>2, SamePlace
<1> QED
  BY <1>1 DEF PlaceIs

LEMMA PushIsOpen ==
  ASSUME IInv, PlaceIs, PlaceIs', PushCtx
  PROVE  Store!Open \/ mem' = mem
<1>1. CASE Overflows(mem)
  BY <1>1 DEF PushCtx, Pushed
<1>2. CASE ~Overflows(mem)
  <2> DEFINE top == mem.depth
  <2>1. /\ top + 1 \in Levels
        /\ mem'.ctx = [mem.ctx EXCEPT ![top + 1] = Empty]
        /\ mem'.depth = top + 1 /\ mem'.alive = mem.alive
    BY <1>2, PushQueues
  <2>2. top \in 1 .. ContextCount - 1
    BY <1>2, Fields, MemoryAssumption DEF PushCtx, Overflows, IInv
  <2>3. /\ \A d \in 1 .. top : mem'.ctx[d] = mem.ctx[d] /\ d \in 1 .. mem'.depth
        /\ mem'.ctx[top + 1] = Empty
    BY <2>1, <2>2, LiveLevels, Fields DEF IInv
  <2>4. Place' = Place
    BY <2>1, <2>3, SamePlaces
  <2>5. Promises' = Promises
    <3>1. \A d : d \in 1 .. mem'.depth <=> d \in 1 .. top \/ d = top + 1
      BY <2>1, <2>2
    <3>2. Queued(mem'.ctx[top + 1]) = {}
      BY <2>3, EmptyQueue
    <3> QED
      BY <2>3, <3>1, <3>2 DEF Promises, Slots
  <2> QED
    BY <2>1, <2>2, <2>4, <2>5 DEF Store!Open
<1> QED
  BY <1>1, <1>2

LEMMA DeferIsPromise ==
  ASSUME NEW k \in Keys, IInv, PlaceIs, PlaceIs', DeferHoist(k)
  PROVE  Store!Promise(k)
<1> DEFINE top == mem.depth
           q == mem.ctx[top].pending
<1>1. /\ mem'.depth = top /\ top \in Levels /\ top > 0 /\ mem'.alive = mem.alive
      /\ \A e \in Levels : mem'.ctx[e].scope = mem.ctx[e].scope
      /\ \A e \in Levels : e # top => mem'.ctx[e] = mem.ctx[e]
      /\ mem'.ctx[top].pending = Append(q, k)
  BY DeferShape DEF DeferHoist
<1>2. top \in 1 .. top /\ \A d \in 1 .. top : d \in Levels
  BY <1>1, LiveLevels
<1>3. Place' = Place
  BY <1>1, <1>2, SamePlaces
<1>4. Queued(mem'.ctx[top]) = Queued(mem.ctx[top]) \cup {k}
  <2>1. q \in Seq(Keys)
    BY <1>1, Fields DEF IInv, Context
  <2> QED
    BY <1>1, <2>1, AppendQueued, ZenonT(30)
<1>5. Promises' = Promises \cup {<<top, k>>}
  <2>1. ASSUME NEW d \in 1 .. top, NEW l \in Keys
        PROVE  l \in Queued(mem'.ctx[d]) <=>
                 l \in Queued(mem.ctx[d]) \/ (d = top /\ l = k)
    BY <1>1, <1>2, <1>4
  <2>2. ASSUME NEW s \in (1 .. top) \X Keys
        PROVE  s[2] \in Queued(mem'.ctx[s[1]]) <=>
                 s[2] \in Queued(mem.ctx[s[1]]) \/ s = <<top, k>>
    BY <2>1
  <2>3. <<top, k>> \in (1 .. top) \X Keys
    BY <1>2
  <2> QED
    BY <1>1, <2>2, <2>3 DEF Promises, Slots
<1> QED
  BY <1>1, <1>3, <1>5 DEF Store!Promise

LEMMA DestroyIsDispose ==
  ASSUME IInv, PlaceIs', Destroy
  PROVE  Store!Dispose
<1>1. mem.alive \ HeldItems(mem) = {}
  BY DEF IInv, Ownership, NoLeak, HeldItems
<1>2. mem'.depth = 0 /\ mem'.alive = {} /\ mem.depth > 0
  BY <1>1 DEF Destroy, Destroyed, Unborn
<1>3. Place' = [i \in {} |-> <<1, 1>>]
  BY <1>2 DEF PlaceIs
<1>4. Promises' = {}
  BY <1>2 DEF Promises, Slots
<1> QED
  BY <1>2, <1>3, <1>4 DEF Store!Dispose

LEMMA ConstructIsCreate ==
  ASSUME IInv, PlaceIs, PlaceIs', Construct
  PROVE  Store!Create
<1>1. mem.alive = {} /\ mem.depth = 0
  BY DEF Construct, IInv, Ownership, NoLeak
<1>2. mem' = [ctx |-> [mem.ctx EXCEPT ![1] = Empty], depth |-> 1, alive |-> {}]
  BY <1>1 DEF Construct, IInv, TypeOK
<1>3. Place' = Place
  BY <1>1, <1>2 DEF PlaceIs
<1>4. Promises = {}
  BY <1>1 DEF Promises, Slots
<1>5. Promises' = {}
  <2>1. mem'.depth = 1 /\ 1 \in Levels /\ mem'.ctx[1] = Empty
    BY <1>2, Fields, MemoryAssumption DEF IInv, Levels
  <2>2. ASSUME NEW s \in (1 .. 1) \X Keys
        PROVE  s[2] \notin Queued(mem'.ctx[s[1]])
    BY <2>1, EmptyQueue
  <2> QED
    BY <2>1, <2>2 DEF Promises, Slots
<1> QED
  BY <1>1, <1>2, <1>3, <1>4, <1>5 DEF Store!Create

(* A pop that moves no empty pointer and no pointer twice: what it         *)
(* destroys is what is evicted and what is not promised.                   *)
LEMMA PopIsClose ==
  ASSUME ~RepeatHoist, IInv, Single, PlaceIs, PlaceIs', PopCtx
  PROVE  Store!Close \/ mem' = mem
<1>0. CASE ~(mem.depth > 1)
  BY <1>0, Fields DEF PopCtx, Popped, IInv
<1>1. CASE mem.depth > 1
  <2> DEFINE top == mem.depth
             c == mem.ctx[top]
             parent == mem.ctx[top - 1]
             dead == DestroyedByPop(c, parent)
             below == {j \in Store!Stored : Place[j][1] < top}
             S == (below \ Store!Evicted) \cup Store!Lifted
  <2>1. /\ top \in 2 .. ContextCount
        /\ c \in Context /\ parent \in Context
        /\ mem'.depth = top - 1 /\ mem'.alive = mem.alive \ dead
        /\ \A d \in 1 .. top - 1, l \in Keys :
             mem'.ctx[d].scope[l] = IF d = top - 1 THEN Hoisted(c, parent)[l]
                                    ELSE mem.ctx[d].scope[l]
    BY <1>1, PopShape
  <2>2. /\ top \in 1 .. top /\ top - 1 \in 1 .. top /\ top - 1 \in 1 .. top - 1
        /\ top - 1 # top /\ top \in Levels
        /\ \A d \in 1 .. top : d < top <=> d # top
        /\ \A d \in 1 .. top : d # top => d \in 1 .. top - 1
    BY <2>1, MemoryAssumption DEF Levels
  <2>3. Moved(c) \subseteq Keys /\ MovedTwice(c) = {} /\ Queued(c) \subseteq Keys
    BY <2>1, <2>2, MovedAreKeys DEF MovedTwice, Single, OnceQueued
  <2>4. \A l \in Keys : Hoisted(c, parent)[l] =
          IF l \in Moved(c) THEN c.scope[l] ELSE parent.scope[l]
    BY <2>3 DEF Hoisted
  <2>5. \A l \in Moved(c) : c.scope[l] \in Items
    BY <2>1, <2>2, <2>3 DEF Moved, Single, NoneNull, Context, Slot
  <2>6. \A i : i \in dead <=>
            \/ \E k \in Moved(c) : parent.scope[k] = i
            \/ \E k \in Keys \ Moved(c) : c.scope[k] = i
    BY <2>3 DEF DestroyedByPop
  <2>7. DOMAIN Place = mem.alive /\ Store!Stored = mem.alive
    BY DEF PlaceIs, Store!Stored
  (* What becomes of an item, by the slot it is in.                        *)
  <2>8. ASSUME NEW j \in mem.alive, NEW d \in 1 .. top, NEW l \in Keys,
               mem.ctx[d].scope[l] = j
        PROVE  /\ Place[j] = <<d, l>> /\ Place[j][1] = d /\ Place[j][2] = l
               /\ j \in Store!Lifted <=> d = top /\ l \in Moved(c)
    <3>1. Place[j] = <<d, l>>
      BY <2>8, ItsPlace
    <3>2. <<d, l>> \in Promises <=> l \in Queued(mem.ctx[d])
      BY DEF Promises, Slots
    <3>3. j # Absent
      BY Fields, MemoryAssumption DEF IInv
    <3>4. j \in Store!Lifted <=> d = top /\ <<d, l>> \in Promises
      BY <2>7, <3>1 DEF Store!Lifted
    <3>5. d = top => (l \in Moved(c) <=> l \in Queued(c))
      BY <2>8, <3>3 DEF Moved
    <3> QED
      BY <3>1, <3>2, <3>4, <3>5
  <2>9. ASSUME NEW j \in mem.alive, NEW d \in 1 .. top, NEW l \in Keys,
               mem.ctx[d].scope[l] = j
        PROVE  j \in Store!Evicted <=> d = top - 1 /\ l \in Moved(c)
    <3>1. j \in Store!Evicted <=>
            \E i \in Store!Lifted : j \in Store!At(<<top - 1, Place[i][2]>>)
      BY DEF Store!Evicted
    <3>2. ASSUME NEW i \in Store!Lifted
          PROVE  Place[i][2] \in Moved(c) /\ Place[i][2] \in Keys
      <4>1. i \in mem.alive
        BY <2>7 DEF Store!Lifted
      <4>2. PICK e \in 1 .. top, k \in Keys : mem.ctx[e].scope[k] = i
        BY <4>1 DEF PlaceIs
      <4> QED
        BY <2>8, <4>1, <4>2
    <3>3. ASSUME NEW k \in Moved(c)
          PROVE  \E i \in Store!Lifted : Place[i][2] = k
      <4>1. c.scope[k] \in mem.alive /\ k \in Keys
        BY <2>2, <2>3, <2>5 DEF IInv, Ownership, NoDangling
      <4> QED
        BY <2>2, <2>8, <4>1
    <3>4. ASSUME NEW k \in Keys
          PROVE  j \in Store!At(<<top - 1, k>>) <=> d = top - 1 /\ l = k
      <4>1. j \in Store!At(<<top - 1, k>>) <=> Place[j] = <<top - 1, k>>
        BY <2>7 DEF Store!At
      <4>2. Place[j] = <<d, l>>
        BY <2>8, <2>9
      <4> QED
        BY <4>1, <4>2
    <3> HIDE DEF top, c
    <3> QED
      BY <3>1, <3>2, <3>3, <3>4
  <2>10. ASSUME NEW j \in mem.alive, NEW d \in 1 .. top, NEW l \in Keys,
                mem.ctx[d].scope[l] = j
         PROVE  j \in dead <=> \/ d = top - 1 /\ l \in Moved(c)
                               \/ d = top /\ l \notin Moved(c)
    <3>1. j \in Items
      BY Fields DEF IInv
    <3>2. ASSUME NEW e \in 1 .. top, NEW k \in Keys, mem.ctx[e].scope[k] = j
          PROVE  e = d /\ k = l
      BY <2>10, <3>1, <3>2 DEF IInv, Ownership, NoSharing
    <3>3. (\E k \in Moved(c) : parent.scope[k] = j) <=> d = top - 1 /\ l \in Moved(c)
      BY <2>2, <2>3, <2>10, <3>2
    <3>4. (\E k \in Keys \ Moved(c) : c.scope[k] = j) <=> d = top /\ l \notin Moved(c)
      BY <2>2, <2>10, <3>2
    <3> QED
      BY <2>6, <3>3, <3>4
  <2>11. \A j \in mem.alive : \E d \in 1 .. top, l \in Keys : mem.ctx[d].scope[l] = j
    BY DEF PlaceIs
  <2>12. S = mem'.alive
    <3>1. S \subseteq mem.alive
      BY <2>7 DEF Store!Lifted
    <3>2. ASSUME NEW j \in mem.alive
          PROVE  j \in S <=> j \notin dead
      <4>1. PICK d \in 1 .. top, l \in Keys : mem.ctx[d].scope[l] = j
        BY <2>11
      <4>2. j \in below <=> d # top
        BY <2>2, <2>7, <2>8, <4>1
      <4> HIDE DEF below, dead
      <4> QED
        BY <2>2, <2>8, <2>9, <2>10, <4>1, <4>2
    <3> HIDE DEF S, dead
    <3> QED
      BY <2>1, <3>1, <3>2
  <2>13. ASSUME NEW j \in S
         PROVE  Place'[j] = IF j \in Store!Lifted THEN <<top - 1, Place[j][2]>>
                                                  ELSE Place[j]
    <3>1. j \in mem'.alive /\ j \in mem.alive /\ j \notin dead
      BY <2>1, <2>12
    <3>2. PICK d \in 1 .. top, l \in Keys : mem.ctx[d].scope[l] = j
      BY <2>11, <3>1
    <3>3. CASE d = top
      <4>1. l \in Moved(c) /\ j \in Store!Lifted /\ Place[j][2] = l
        BY <2>8, <2>10, <3>1, <3>2, <3>3
      <4>2. mem'.ctx[top - 1].scope[l] = j
        BY <2>1, <2>2, <2>4, <3>2, <3>3, <4>1
      <4> QED
        BY <2>1, <2>2, <3>1, <4>1, <4>2, SamePlace
    <3>4. CASE d # top
      <4>1. d \in 1 .. top - 1 /\ j \notin Store!Lifted /\ Place[j] = <<d, l>>
        BY <2>2, <2>8, <3>1, <3>2, <3>4
      <4>2. d = top - 1 => l \notin Moved(c)
        BY <2>10, <3>1, <3>2
      <4>3. mem'.ctx[d].scope[l] = j
        BY <2>1, <2>4, <3>2, <4>1, <4>2
      <4> QED
        BY <2>1, <3>1, <4>1, <4>3, SamePlace
    <3> QED
      BY <3>3, <3>4
  <2>14. Place' = [j \in S |-> IF j \in Store!Lifted THEN <<top - 1, Place[j][2]>>
                                                     ELSE Place[j]]
    <3>1. Place' = [j \in S |-> Place'[j]]
      BY <2>12 DEF PlaceIs
    <3> HIDE DEF S
    <3> QED
      BY <2>13, <3>1
  <2>15. Promises' = {s \in Promises : s[1] < top}
    <3>1. \A d \in 1 .. top - 1 : mem'.ctx[d].pending = mem.ctx[d].pending
      BY <1>1, <2>1, <2>2, PopQueues, LiveLevels
    <3>2. \A d \in 1 .. top - 1 : Queued(mem'.ctx[d]) = Queued(mem.ctx[d])
      BY <3>1 DEF Queued
    <3>3. {s \in (1 .. top) \X Keys : s[1] < top} = (1 .. top - 1) \X Keys
      BY <2>1
    <3> QED
      BY <2>1, <3>2, <3>3 DEF Promises, Slots
  <2> QED
    BY <1>1, <2>1, <2>14, <2>15 DEF Store!Close
<1> QED
  BY <1>0, <1>1

LEMMA NextIsStore ==
  ASSUME ~RepeatHoist, IInv, IInv', Single, [Next]_mem
  PROVE  [Store!Next]_(Store!vars)
<1>0. PlaceIs
  BY PlaceOf
<1>1. PlaceIs'
  BY PlaceOf, PTL
<1>2. Store!Next \/ mem' = mem
  <2> USE <1>0, <1>1 DEF Store!Next
  <2>1. CASE PushCtx
    BY <2>1, PushIsOpen
  <2>2. CASE PopCtx
    BY <2>2, PopIsClose
  <2>3. CASE \E k \in Keys, i \in Items : SetItem(k, i)
    BY <2>3, SetIsBind
  <2>4. CASE \E k \in Keys : Drop(k)
    BY <2>4, DropIsUnbind
  <2>5. CASE \E k \in Keys : DeferHoist(k)
    BY <2>5, DeferIsPromise
  <2>6. CASE Destroy
    BY <2>6, DestroyIsDispose
  <2>7. CASE Construct
    BY <2>7, ConstructIsCreate
  <2> QED
    BY <2>1, <2>2, <2>3, <2>4, <2>5, <2>6, <2>7 DEF Next
<1>3. mem' = mem => Place' = Place /\ Promises' = Promises /\ mem'.depth = mem.depth
  BY DEF Place, Promises, Slots
<1> QED
  BY <1>2, <1>3 DEF Store!vars

LEMMA InitIsStore == Init => Store!Init
<1> SUFFICES ASSUME Init PROVE Store!Init
  OBVIOUS
<1>1. mem = [ctx |-> [d \in Levels |-> Empty], depth |-> 1, alive |-> {}]
  BY DEF Init, Constructed, Unborn
<1>2. Place = [i \in {} |-> <<1, 1>>]
  BY <1>1 DEF Place
<1>3. Promises = {}
  <2>1. 1 \in Levels
    BY MemoryAssumption DEF Levels
  <2>2. ASSUME NEW s \in (1 .. 1) \X Keys
        PROVE  s[2] \notin Queued(mem.ctx[s[1]])
    BY <1>1, <2>1, EmptyQueue
  <2> QED
    BY <1>1, <2>2 DEF Promises, Slots
<1> QED
  BY <1>1, <1>2, <1>3 DEF Store!Init

(* A memory whose clients schedule a key at most once per context          *)
(* implements the store of ScopedStore: every item has one place, a pop    *)
(* promotes exactly the scheduled items and evicts exactly what they       *)
(* displace, and no other operation moves an item.                         *)
THEOREM MemoryImplementsStore == ~RepeatHoist => (Spec => ImplementsStore)
<1>1. ASSUME ~RepeatHoist
      PROVE  Spec => ImplementsStore
  <2>1. IInv /\ Single /\ [Next]_mem => Single'
    BY <1>1, SingleStep
  <2>2. IInv /\ IInv' /\ Single /\ [Next]_mem => [Store!Next]_(Store!vars)
    BY <1>1, NextIsStore
  <2> QED
    BY <2>1, <2>2, InitIInv, NextIInv, InitSingle, InitIsStore, PTL
       DEF Spec, ImplementsStore, Store!Spec
<1> QED
  BY <1>1

(* memory.hpp promises that a pop hoists the keys scheduled for it: with   *)
(* the same clients, each is then bound in the parent to its item.         *)
THEOREM MemoryHoists == ~RepeatHoist => (Spec => HoistReachesParent)
<1>1. ASSUME ~RepeatHoist, IInv, Single, [Next]_mem,
             NEW k \in Keys,
             mem.depth > 1, mem'.depth = mem.depth - 1,
             k \in Queued(Top(mem)), Top(mem).scope[k] \in Items
      PROVE  Top(mem').scope[k] = Top(mem).scope[k]
  <2> DEFINE top == mem.depth
             c == mem.ctx[top]
             parent == mem.ctx[top - 1]
  <2>0. top \in Nat /\ top - 1 \in 1 .. top - 1 /\ top \in Levels
    BY <1>1, Fields, MemoryAssumption DEF IInv, Levels
  <2>1. PopCtx
    <3>1. ~PushCtx
      <4>1. PushCtx /\ Overflows(mem) => mem'.depth = top
        BY DEF PushCtx, Pushed
      <4>2. PushCtx /\ ~Overflows(mem) => mem'.depth = top + 1
        BY <1>1, PushQueues
      <4> QED
        BY <1>1, <2>0, <4>1, <4>2
    <3>2. ASSUME NEW l \in Keys, NEW i \in Items
          PROVE  ~SetItem(l, i)
      BY <1>1, <2>0, SetShape
    <3>3. ASSUME NEW l \in Keys
          PROVE  ~Drop(l) /\ ~DeferHoist(l)
      BY <1>1, <2>0, DropShape, DeferShape
    <3>4. ~Destroy /\ ~Construct
      BY <1>1, <2>0 DEF Destroy, Destroyed, Unborn, Construct
    <3> QED
      BY <1>1, <2>0, <3>1, <3>2, <3>3, <3>4 DEF Next
  <2>2. mem'.ctx[top - 1].scope[k] = Hoisted(c, parent)[k]
    BY <1>1, <2>0, <2>1, PopShape
  <2>3. k \in Moved(c) /\ k \notin MovedTwice(c)
    BY <1>1, <2>0, MemoryAssumption DEF Moved, MovedTwice, Single, OnceQueued, Top
  <2>4. mem'.ctx[top - 1].scope[k] = c.scope[k]
    <3> HIDE DEF c, parent
    <3> QED
      BY <2>2, <2>3 DEF Hoisted
  <2> QED
    BY <1>1, <2>4 DEF Top
<1>2. ASSUME ~RepeatHoist
      PROVE  Spec => HoistReachesParent
  <2> DEFINE Reaches ==
        \A k \in Keys :
          /\ mem.depth > 1 /\ mem'.depth = mem.depth - 1
          /\ k \in Queued(Top(mem)) /\ Top(mem).scope[k] \in Items
          => Top(mem').scope[k] = Top(mem).scope[k]
  <2>1. IInv /\ Single /\ [Next]_mem => Single'
    BY <1>2, SingleStep
  <2>2. IInv /\ Single /\ [Next]_mem => [Reaches]_mem
    BY <1>1, <1>2
  <2> QED
    BY <2>1, <2>2, InitIInv, NextIInv, InitSingle, PTL DEF Spec, HoistReachesParent
<1> QED
  BY <1>2
=============================================================================
