---------------------------- MODULE FlattenObjects ----------------------------
(***************************************************************************)
(* flatten_objects::FlattenObjects<T, CAP> (vendor/flatten_objects): an    *)
(* array of CAP MaybeUninit slots, a Bitmap<1024> of assigned ids and a    *)
(* count, shown to implement the partial map of FlattenObjectsMap.  A slot *)
(* holds Uninit until written; remove moves the object out with           *)
(* assume_init_read and leaves its bits in the slot.                        *)
(***************************************************************************)
EXTENDS Naturals, FiniteSets

CONSTANTS
  CAP, Ids, Values, NoValue,   \* as in FlattenObjectsMap
  BitmapSize,                  \* the bitmap's 1024 bits
  Uninit                       \* the contents of a never-written slot

ASSUME CAP <= BitmapSize

VARIABLES
  objects,     \* objects[id]: the slot's contents
  idBitmap,    \* the ids whose bit is set
  count,
  ret          \* what the last call returned

vars == <<objects, idBitmap, count, ret>>

Slots == 0..CAP-1

(* new(): assert!(CAP <= 1024); uninit slots, a zeroed bitmap, count 0.    *)
Init ==
  /\ objects = [i \in Slots |-> Uninit]
  /\ idBitmap = {}
  /\ count = 0
  /\ ret = <<"None", NoValue>>

(* is_assigned(id): id < CAP && id_bitmap.get(id).                         *)
IsAssigned(id) == id < CAP /\ id \in idBitmap

(* Bitmap::first_false_index over all 1024 bits.                           *)
FirstFalseIndex ==
  LET free == (0..BitmapSize-1) \ idBitmap IN
    IF free = {} THEN NoValue ELSE CHOOSE i \in free : \A j \in free : i <= j

(* count += 1; id_bitmap.set(id, true); objects[id].write(value).          *)
Assign(id, v) ==
  /\ count' = count + 1
  /\ idBitmap' = idBitmap \cup {id}
  /\ objects' = [objects EXCEPT ![id] = v]

(* add(value): the first false bit of the bitmap, if it is below CAP.     *)
Add(v) ==
  LET id == FirstFalseIndex IN
    IF id # NoValue /\ id < CAP
      THEN Assign(id, v) /\ ret' = <<"Ok", id>>
      ELSE ret' = <<"Err", v>> /\ UNCHANGED <<objects, idBitmap, count>>

(* Mutation: add_at checks the range but not whether the id is taken.    *)
AddAtNoAssignedCheck(id, v) ==
  IF id >= CAP
    THEN ret' = <<"Err", v>> /\ UNCHANGED <<objects, idBitmap, count>>
    ELSE Assign(id, v) /\ ret' = <<"Ok", id>>

(* add_at(id, value).                                                      *)
AddAt(id, v) ==
  IF id >= CAP \/ IsAssigned(id)
    THEN ret' = <<"Err", v>> /\ UNCHANGED <<objects, idBitmap, count>>
    ELSE Assign(id, v) /\ ret' = <<"Ok", id>>

(* Mutation: the count is bumped on a replacement as well.                *)
AddOrReplaceAtRecount(id, v) ==
  CASE id >= CAP -> ret' = <<"Err", NoValue>> /\ UNCHANGED <<objects, idBitmap, count>>
    [] IsAssigned(id) ->
         /\ ret' = <<"Err", objects[id]>>
         /\ objects' = [objects EXCEPT ![id] = v]
         /\ count' = count + 1
         /\ UNCHANGED idBitmap
    [] OTHER -> Assign(id, v) /\ ret' = <<"Ok", id>>

(* add_or_replace_at(id, value): read the old object out, write the new.  *)
AddOrReplaceAt(id, v) ==
  CASE id >= CAP -> ret' = <<"Err", NoValue>> /\ UNCHANGED <<objects, idBitmap, count>>
    [] IsAssigned(id) ->
         /\ ret' = <<"Err", objects[id]>>
         /\ objects' = [objects EXCEPT ![id] = v]
         /\ UNCHANGED <<idBitmap, count>>
    [] OTHER -> Assign(id, v) /\ ret' = <<"Ok", id>>

(* remove(id): clear the bit, count -= 1, move the object out.             *)
Remove(id) ==
  IF IsAssigned(id)
    THEN /\ idBitmap' = idBitmap \ {id}
         /\ count' = count - 1
         /\ ret' = <<"Some", objects[id]>>
         /\ UNCHANGED objects
    ELSE ret' = <<"None", NoValue>> /\ UNCHANGED <<objects, idBitmap, count>>

Next ==
  \/ \E v \in Values : Add(v)
  \/ \E id \in Ids, v \in Values : AddAt(id, v)
  \/ \E id \in Ids, v \in Values : AddOrReplaceAt(id, v)
  \/ \E id \in Ids : Remove(id)

Spec == Init /\ [][Next]_vars

-----------------------------------------------------------------------------
(* count() is the number of assigned ids, whatever sequence of adds,      *)
(* replacements and removals led here; and every assigned slot has been   *)
(* written, so get's assume_init_ref reads an initialised object.         *)
CountMatches ==
  /\ count = Cardinality(idBitmap)
  /\ \A id \in idBitmap : id \in Slots /\ objects[id] # Uninit

(* The refinement mapping: the abstract map holds the assigned slots.     *)
Map == [id \in idBitmap |-> objects[id]]

Abs == INSTANCE FlattenObjectsMap WITH objs <- Map

(* Every sequence of calls behaves as the documented partial map: the     *)
(* same ids are handed out, the same objects returned, the same errors.   *)
ImplementsMap == Abs!Spec

=============================================================================
