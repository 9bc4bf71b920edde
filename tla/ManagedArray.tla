---------------------------- MODULE ManagedArray ----------------------------
(***************************************************************************)
(* ManagedArray of memory.c: an array that doubles its capacity until what *)
(* is appended fits.  Sizes are size_t, SizeBits wide.                     *)
(***************************************************************************)
EXTENDS PowersOfTwo, Sequences

CONSTANTS
  NULL,
  SizeBits  \* the width of a size_t

MANAGED_ARRAY_MIN_CAPACITY == 8

ASSUME SizeAssumption ==
  SizeBits \in Nat /\ TwoTo[SizeBits] > MANAGED_ARRAY_MIN_CAPACITY

Wrapped(n) == n % TwoTo[SizeBits]

(* A byte is named by its array and by its position in the source, so that a *)
(* byte that is lost or moved is noticed; or nothing was written to it yet.  *)
Byte  == {"data", "code", "unset"} \X Nat
Unset == <<"unset", 0>>

(* The NULL pointer is not a block. *)
ASSUME NullAssumption ==
  \A capacity \in 0 .. TwoTo[SizeBits] - 1 : NULL \notin [0 .. capacity - 1 -> Byte]

newManagedArray ==
  [size |-> 0, capacity |-> MANAGED_ARRAY_MIN_CAPACITY,
   data |-> [i \in 0 .. MANAGED_ARRAY_MIN_CAPACITY - 1 |-> Unset]]

Freed == [size |-> 0, capacity |-> 0, data |-> NULL]

-----------------------------------------------------------------------------

Leftover(array, capacity) == Wrapped(capacity - array.size)

(* A capacity that does not wrap. *)
GrownCapacityUnbounded(array, n) ==
  LET Fits(k) == n <= array.capacity * TwoTo[k] - array.size
  IN  array.capacity *
        TwoTo[CHOOSE k \in 1 .. SizeBits : Fits(k) /\ \A j \in 1 .. k - 1 : ~ Fits(j)]

(* A growth of one doubling, whether the data fits then or not. *)
GrownCapacityOnce(array, n) == Wrapped(array.capacity * 2)

(* The capacity is doubled at least once, and until n bytes fit.  It may wrap *)
(* to 0; what is left of 0 is then taken for a large number.                  *)
GrownCapacity(array, n) ==
  LET Doubled(k) == Wrapped(array.capacity * TwoTo[k])
      Fits(k)    == n <= Leftover(array, Doubled(k))
  IN  Doubled(CHOOSE k \in 1 .. SizeBits : Fits(k) /\ \A j \in 1 .. k - 1 : ~ Fits(j))

(* realloc keeps the bytes of the old block; it returns NULL when it fails,  *)
(* and when it is asked for no bytes.  The old block is lost either way.     *)
Grown(array, n, fails) ==
  LET capacity == GrownCapacity(array, n)
  IN  [array EXCEPT
         !.capacity = capacity,
         !.data = IF fails \/ capacity = 0 THEN NULL
                  ELSE [i \in 0 .. capacity - 1 |->
                          IF i \in DOMAIN array.data THEN array.data[i] ELSE Unset]]

Grows(array, n) == n > Leftover(array, array.capacity)

WithRoom(array, n, fails) == IF Grows(array, n) THEN Grown(array, n, fails) ELSE array

AppendError(array, n, fails) ==
  IF array.size > array.capacity THEN "ERR_MEMORY_INVALID_STATE"
  ELSE IF WithRoom(array, n, fails).data = NULL THEN "ERR_OUT_OF_MEMEORY"
  ELSE "SUCCESS"

(* memcpy writes where it is told to, inside the block or behind it. *)
append(array, bytes, fails) ==
  LET n    == Len(bytes)
      room == WithRoom(array, n, fails)
      dst  == array.size .. array.size + n - 1
  IN  CASE AppendError(array, n, fails) = "ERR_MEMORY_INVALID_STATE" -> array
        [] AppendError(array, n, fails) = "ERR_OUT_OF_MEMEORY" -> room
        [] OTHER ->
             [room EXCEPT
                !.size = Wrapped(@ + n),
                !.data = [i \in DOMAIN room.data \cup dst |->
                            IF i \in dst THEN bytes[i - array.size + 1] ELSE room.data[i]]]
=============================================================================
