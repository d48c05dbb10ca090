--------------------------- MODULE FlattenObjectsMap ---------------------------
(***************************************************************************)
(* What FlattenObjects<T, CAP> promises in its documentation: a partial   *)
(* map from ids 0..CAP-1 to objects.  add takes the smallest free id,     *)
(* add_at a given free id, add_or_replace_at replaces and returns the old *)
(* object, remove frees the id and returns its object.  ret is the Result  *)
(* or Option the last call returned.                                       *)
(***************************************************************************)
EXTENDS Naturals, TLC

CONSTANTS
  CAP,       \* the const generic CAP
  Ids,       \* ids callers pass, some of them >= CAP
  Values,    \* objects
  NoValue    \* None

VARIABLES objs, ret

Slots == 0..CAP-1

Init ==
  /\ objs = <<>>          \* the empty function
  /\ ret = <<"None", NoValue>>

Insert(id, v) == objs' = [i \in DOMAIN objs \cup {id} |-> IF i = id THEN v ELSE objs[i]]

(* add(value): Ok(smallest free id), or Err(value) when all are taken.     *)
Add(v) ==
  LET free == Slots \ DOMAIN objs IN
    IF free = {} THEN ret' = <<"Err", v>> /\ UNCHANGED objs
    ELSE LET id == CHOOSE i \in free : \A j \in free : i <= j IN
           Insert(id, v) /\ ret' = <<"Ok", id>>

(* add_at(id, value): Ok(id) if id is in range and free, else Err(value).  *)
AddAt(id, v) ==
  IF id \in Slots \ DOMAIN objs THEN Insert(id, v) /\ ret' = <<"Ok", id>>
  ELSE ret' = <<"Err", v>> /\ UNCHANGED objs

(* add_or_replace_at(id, value): Err(None) out of range, Err(Some(old))    *)
(* after replacing, Ok(id) after inserting.                                *)
AddOrReplaceAt(id, v) ==
  CASE id \notin Slots -> ret' = <<"Err", NoValue>> /\ UNCHANGED objs
    [] id \in DOMAIN objs -> ret' = <<"Err", objs[id]>> /\ Insert(id, v)
    [] OTHER -> ret' = <<"Ok", id>> /\ Insert(id, v)

(* remove(id): Some(object) and the id is free again, or None.             *)
Remove(id) ==
  IF id \in DOMAIN objs
    THEN /\ ret' = <<"Some", objs[id]>>
         /\ objs' = [i \in DOMAIN objs \ {id} |-> objs[i]]
    ELSE ret' = <<"None", NoValue>> /\ UNCHANGED objs

Next ==
  \/ \E v \in Values : Add(v)
  \/ \E id \in Ids, v \in Values : AddAt(id, v) \/ AddOrReplaceAt(id, v)
  \/ \E id \in Ids : Remove(id)

Spec == Init /\ [][Next]_<<objs, ret>>

=============================================================================
