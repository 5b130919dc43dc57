----------------------------- MODULE Environment ----------------------------
(***************************************************************************)
(* truk::core::environment_c: one memory_c behind a mutex, any number of   *)
(* handles used from different threads, and a destructor that may run      *)
(* while handles still exist.                                              *)
(*                                                                         *)
(* A handle operation loads the shared validity flag, then locks the       *)
(* mutex, works on the memory and unlocks.  Working on the memory takes    *)
(* time: the operation reads the memory when it has the lock and has its   *)
(* effect when it is done, so without the lock updates would be lost.      *)
(* The destructor clears the flag, locks, unlocks, and then the members    *)
(* (memory, mutex) are destroyed.                                          *)
(***************************************************************************)
EXTENDS Integers, Sequences

CONSTANTS Threads, Keys, Items, ContextCount, MaxPending, Absent, Null

VARIABLES
  mem,     \* the environment's memory_c
  mutex,   \* holder of _mutex, Free, or Gone once it is destroyed
  valid,   \* the atomic flag shared with every handle
  pc,      \* where each thread is in a handle operation
  op,      \* the operation each thread is performing
  seen,    \* the memory as each thread found it when it got the lock
  dtor     \* where the destructor is

vars == <<mem, mutex, valid, pc, op, seen, dtor>>

Destructor == "destructor"
Free == "free"
Gone == "gone"

ASSUME EnvironmentAssumption ==
  /\ {Destructor, Free, Gone} \cap Threads = {}
  /\ ContextCount \in Nat \ {0}
  /\ MaxPending \in Nat
  /\ Absent \notin Items
  /\ Null \notin Items
  /\ Absent # Null

(* Clients defer a key at most once: see HoistReachesParent in Memory.     *)
M == INSTANCE Memory WITH RepeatHoist <- FALSE

Nop == [call |-> "none"]

Calls ==
  [call : {"push_ctx", "pop_ctx"}]
    \cup [call : {"drop", "defer_hoist"}, key : Keys]
    \cup [call : {"set"}, key : Keys, item : Items]

(* What an operation does to the memory it finds.  push_ctx beyond the     *)
(* last context throws through the lock guard: the mutex is released and   *)
(* the memory is as it was.                                                *)
EffectUnlimited(o, m) ==   \* mutant: push_ctx does not check the limit
  IF o.call = "push_ctx" THEN [m EXCEPT !.depth = @ + 1] ELSE m

Effect(o, m) ==
  CASE o.call = "push_ctx" -> M!Pushed(m)
    [] o.call = "pop_ctx" -> M!Popped(m)
    [] o.call = "drop" -> M!Without(m, o.key)
    [] o.call = "defer_hoist" -> IF M!MayDefer(m, o.key)
                                 THEN M!WithHoist(m, o.key) ELSE m
    [] o.call = "set" -> M!WithItem(m, o.key, o.item)

(* A stored item was just created by its thread and is in no other call.   *)
Unused(i) ==
  /\ i \notin mem.alive
  /\ \A t \in Threads : ~(op[t].call = "set" /\ op[t].item = i)

-----------------------------------------------------------------------------
Init ==
  /\ M!Init
  /\ mutex = Free
  /\ valid = TRUE
  /\ pc = [t \in Threads |-> "idle"]
  /\ op = [t \in Threads |-> Nop]
  /\ seen = [t \in Threads |-> Nop]
  /\ dtor = "alive"

(* _valid->load() at the head of every operation: on an invalid handle the *)
(* operation returns (or throws) at once.                                  *)
PassesUnchecked == TRUE   \* mutant: the flag is not looked at
PassesCheck == valid

Check(t) ==
  /\ pc[t] = "idle"
  /\ \E o \in Calls :
       /\ o.call = "set" => Unused(o.item)
       /\ op' = IF PassesCheck THEN [op EXCEPT ![t] = o] ELSE op
  /\ pc' = [pc EXCEPT ![t] = IF PassesCheck THEN "checked" ELSE "idle"]
  /\ UNCHANGED <<mem, mutex, valid, seen, dtor>>

LockNotTaken == mutex # Gone   \* mutant: no lock_guard
MayLock == mutex = Free

Lock(t) ==
  /\ pc[t] = "checked"
  /\ MayLock
  /\ mutex' = t
  /\ pc' = [pc EXCEPT ![t] = "locked"]
  /\ seen' = [seen EXCEPT ![t] = mem]
  /\ UNCHANGED <<mem, valid, op, dtor>>

Work(t) ==
  /\ pc[t] = "locked"
  /\ mutex # Gone
  /\ mem' = Effect(op[t], seen[t])
  /\ pc' = [pc EXCEPT ![t] = "done"]
  /\ seen' = [seen EXCEPT ![t] = Nop]
  /\ op' = [op EXCEPT ![t] = Nop]
  /\ UNCHANGED <<mutex, valid, dtor>>

Unlock(t) ==
  /\ pc[t] = "done"
  /\ mutex # Gone
  /\ mutex' = Free
  /\ pc' = [pc EXCEPT ![t] = "idle"]
  /\ UNCHANGED <<mem, valid, op, seen, dtor>>

(* The thread is past the check and the mutex it is about to use, or the   *)
(* memory it is working on, has been destroyed: anything may follow.  The  *)
(* thread hangs (it takes no more steps) or goes on, which is "wild".      *)
UseDestroyed(t) ==
  /\ pc[t] \in {"checked", "locked", "done"}
  /\ mutex = Gone
  /\ pc' = [pc EXCEPT ![t] = "wild"]
  /\ UNCHANGED <<mem, mutex, valid, op, seen, dtor>>

Invalidate ==
  /\ dtor = "alive"
  /\ valid' = FALSE
  /\ dtor' = "locking"
  /\ UNCHANGED <<mem, mutex, pc, op, seen>>

LockForDestruction ==
  /\ dtor = "locking"
  /\ MayLock
  /\ mutex' = Destructor
  /\ dtor' = "unlocking"
  /\ UNCHANGED <<mem, valid, pc, op, seen>>

UnlockForDestruction ==
  /\ dtor = "unlocking"
  /\ mutex' = Free
  /\ dtor' = "members"
  /\ UNCHANGED <<mem, valid, pc, op, seen>>

(* The implicit member destruction after the destructor's body.            *)
DestroyMembers ==
  /\ dtor = "members"
  /\ mem' = M!Destroyed(mem)
  /\ mutex' = Gone
  /\ dtor' = "destroyed"
  /\ UNCHANGED <<valid, pc, op, seen>>

Operate(t) == Lock(t) \/ Work(t) \/ Unlock(t)

Demolish ==
  \/ LockForDestruction
  \/ UnlockForDestruction
  \/ DestroyMembers

Next ==
  \/ \E t \in Threads : Check(t) \/ Operate(t) \/ UseDestroyed(t)
  \/ Invalidate
  \/ Demolish

Spec == Init /\ [][Next]_vars

(* A thread inside an operation keeps running, and so does the destructor  *)
(* once it has begun; the mutex need not be fair.                          *)
FairSpec ==
  /\ Spec
  /\ \A t \in Threads : WF_vars(Operate(t))
  /\ WF_vars(Demolish)

-----------------------------------------------------------------------------
TypeOK ==
  /\ M!TypeOK
  /\ mutex \in Threads \cup {Free, Gone, Destructor}
  /\ valid \in BOOLEAN
  /\ pc \in [Threads -> {"idle", "checked", "locked", "done", "wild"}]
  /\ \A t \in Threads : op[t] \in Calls \cup {Nop}
  /\ dtor \in {"alive", "locking", "unlocking", "members", "destroyed"}

InMemory(t) == pc[t] \in {"locked", "done"}

(* At most one of the threads and the destructor is between lock and       *)
(* unlock, as long as there is a mutex.                                    *)
MutualExclusion ==
  mutex # Gone =>
    /\ \A t, u \in Threads : InMemory(t) /\ InMemory(u) => t = u
    /\ dtor = "unlocking" => \A t \in Threads : ~InMemory(t)

(* However handle operations and the destructor interleave, the memory     *)
(* goes through the steps of a memory_c used by one thread: no update is   *)
(* lost and none is applied to a memory that has changed meanwhile.        *)
ImplementsMemory == M!Spec

(* Once the destructor has begun it completes: an invalid handle starts no *)
(* new operation, so even an unfair mutex comes free for it.               *)
DestructionCompletes == (dtor = "locking") ~> (dtor = "destroyed")

(* environment.hpp: on a demolished environment "the handles begin to NOP  *)
(* rather than potentially segfault".  No operation gets to use what the   *)
(* destructor has destroyed.                                               *)
NoUseAfterDestroy == \A t \in Threads : pc[t] # "wild"
=============================================================================
