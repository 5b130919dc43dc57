----------------------------- MODULE MapClient ------------------------------
(***************************************************************************)
(* RuntimeMap as the emitted programs use it: they do not look at what     *)
(* __truk_map_set_ returns.  Next to what the map holds, this module keeps *)
(* what the statements of the program have asked it to hold, and what was  *)
(* lost because an allocation failed.                                      *)
(***************************************************************************)
EXTENDS RuntimeMap

VARIABLES
  asked,   \* the value last assigned to each text and not deleted, or Nil
  lost     \* the texts whose last assignment failed

clientVars == <<vars, asked, lost>>

ClientInit == Init /\ asked = [t \in Texts |-> Nil] /\ lost = {}

Asks(t, v) == asked' = [asked EXCEPT ![t] = v]

(* m[k] = v.                                                               *)
Assign(k, v) ==
  /\ SetExisting(k, v) \/ SetNew(k, v)
  /\ Asks(text[k], v) /\ lost' = lost \ {text[k]}

(* m[k] = v when memory runs out: the -1 is dropped and the program goes   *)
(* on, although builtins.md has a failed allocation end it.                *)
AssignInVain(k, v) ==
  /\ SetFails(k)
  /\ Asks(text[k], v) /\ lost' = lost \cup {text[k]}

(* delete(m[k]).                                                           *)
Delete(k) == RemoveKey(k) /\ Asks(text[k], Nil) /\ UNCHANGED lost

(* delete(m) and the make of the next map.                                 *)
DeleteAll == Recreate /\ asked' = [t \in Texts |-> Nil] /\ lost' = {}

ClientNext ==
  \/ \E k \in Keys, v \in Values : Assign(k, v) \/ AssignInVain(k, v)
  \/ \E k \in Keys : Delete(k) \/ (FreeKey(k) /\ UNCHANGED <<asked, lost>>)
  \/ DeleteAll
  \/ (Start \/ Advance \/ Continue \/ Finish) /\ UNCHANGED <<asked, lost>>

ClientSpec == ClientInit /\ [][ClientNext]_clientVars

-----------------------------------------------------------------------------
(* A look-up returns what was last assigned to the text of its key; or     *)
(* null, if nothing was, if it was deleted, or if the last assignment has  *)
(* failed.  It never returns the value of an earlier assignment, since an  *)
(* assignment can only fail while the map has no entry to change.          *)
LookupIsLastAssigned ==
  \A k \in Keys :
    Readable(k) => Get(k) = IF text[k] \in lost THEN Nil ELSE asked[text[k]]
=============================================================================
