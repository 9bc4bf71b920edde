---------------------------- MODULE DriverProofs ----------------------------
(***************************************************************************)
(* Proofs about Driver: whatever the inputs are, their number, the sizes   *)
(* of their images and the files and allocations that fail, the memory     *)
(* image holds what was written, everything is released, the files are     *)
(* those that were reported, and the promise of Batch is kept.  First come *)
(* the parts it is built from: what append does to a ManagedArray,         *)
(* whatever the width of a size and however often the capacity has to be   *)
(* doubled, and what rows an object file has.                              *)
(***************************************************************************)
EXTENDS Driver, NaturalSets

-----------------------------------------------------------------------------
(***************************************************************************)
(* Sizes that wrap.                                                        *)
(***************************************************************************)

(* A multiple. *)
LEMMA NoRemainder ==
  ASSUME NEW a \in Nat, a >= 1, NEW b \in Nat
  PROVE  (a * b) % a = 0
<1> DEFINE q == (a * b) \div a
           r == (a * b) % a
<1>1. a * b \in Nat /\ q \in Int /\ r \in 0 .. a - 1 /\ a * b = a * q + r
  OBVIOUS
<1> HIDE DEF q, r
<1>2. a * (b - q) = r
  BY <1>1
<1>3. \A d \in Int : (d >= 1 => a * d >= a) /\ (d <= 0 => a * d <= 0)
  OBVIOUS
<1>4. b - q \in Int
  BY <1>1
<1>5. r = 0
  BY <1>1, <1>2, <1>3, <1>4
<1> QED BY <1>5 DEF r

(* A size_t holds a power of two, or it wraps to 0. *)
LEMMA WrappedPower ==
  \A m \in Nat : Wrapped(TwoTo[m]) = IF m < SizeBits THEN TwoTo[m] ELSE 0
<1> TAKE m \in Nat
<1>1. CASE m < SizeBits
  <2>1. TwoTo[m] < TwoTo[SizeBits]
    BY <1>1, SizeAssumption, TwoToGrows, TwoToPositive
  <2>2. \A x, y \in Nat : x < y => x % y = x
    OBVIOUS
  <2> QED BY <1>1, <2>1, <2>2, SizeAssumption, TwoToPositive DEF Wrapped
<1>2. CASE m >= SizeBits
  <2>1. m - SizeBits \in Nat /\ SizeBits + (m - SizeBits) = m
    BY <1>2, SizeAssumption
  <2>2. TwoTo[m] = TwoTo[SizeBits] * TwoTo[m - SizeBits]
    BY <2>1, SizeAssumption, TwoToSum
  <2> QED BY <1>2, <2>1, <2>2, SizeAssumption, TwoToPositive, NoRemainder DEF Wrapped
<1> QED BY <1>1, <1>2, SizeAssumption
-----------------------------------------------------------------------------
(***************************************************************************)
(* An array whose block is there, with the first size bytes of the array   *)
(* of that name in it; and one whose block was lost.                       *)
(***************************************************************************)
Capacities == {TwoTo[j] : j \in 3 .. SizeBits - 1}

Blocks == UNION {[0 .. capacity - 1 -> Byte] : capacity \in 0 .. TwoTo[SizeBits] - 1}

ManagedArrays ==
  [size : Nat, capacity : 0 .. TwoTo[SizeBits] - 1, data : Blocks \cup {NULL}]

Holds(array, name) ==
  /\ array.capacity \in Capacities
  /\ array.size \in 0 .. array.capacity
  /\ array.data \in [0 .. array.capacity - 1 -> Byte]
  /\ \A i \in 0 .. array.size - 1 : array.data[i] = <<name, i + 1>>

LEMMA CapacityType ==
  ASSUME NEW capacity \in Capacities
  PROVE  /\ capacity \in 8 .. TwoTo[SizeBits] - 1
         /\ 2 * capacity <= TwoTo[SizeBits]
<1>1. PICK j \in 3 .. SizeBits - 1 : capacity = TwoTo[j]
  BY DEF Capacities
<1>2. j \in Nat /\ j < SizeBits /\ SizeBits \in Nat
  BY SizeAssumption
<1>3. 2 * TwoTo[j] <= TwoTo[SizeBits] /\ TwoTo[j] \in Nat /\ TwoTo[SizeBits] \in Nat /\ TwoTo[j] >= 1
  BY <1>2, TwoToGrows, TwoToPositive
<1>4. TwoTo[3] = 8
  BY TwoToThree
<1>5. TwoTo[j] >= 8
  <2>1. CASE j = 3
    BY <1>4, <2>1
  <2>2. CASE j > 3
    BY <1>2, <1>3, <1>4, <2>2, TwoToGrows
  <2> QED BY <2>1, <2>2
<1> QED BY <1>1, <1>3, <1>5

LEMMA FirstCapacity == MANAGED_ARRAY_MIN_CAPACITY \in Capacities
<1>1. TwoTo[3] = 8
  BY TwoToThree
<1>2. SizeBits > 3
  <2>1. CASE SizeBits < 3
    BY <1>1, <2>1, SizeAssumption, TwoToGrows, TwoToPositive DEF MANAGED_ARRAY_MIN_CAPACITY
  <2>2. CASE SizeBits = 3
    BY <1>1, <2>2, SizeAssumption DEF MANAGED_ARRAY_MIN_CAPACITY
  <2> QED BY <2>1, <2>2, SizeAssumption
<1> QED BY <1>1, <1>2, SizeAssumption DEF MANAGED_ARRAY_MIN_CAPACITY, Capacities

(* A capacity that is doubled until n bytes fit is a larger capacity with    *)
(* room for them, or it has wrapped to 0.                                    *)
LEMMA GrownCapacityType ==
  ASSUME NEW array, array.capacity \in Capacities, array.size \in 0 .. array.capacity,
         NEW n \in Nat, 2 * n <= TwoTo[SizeBits], Grows(array, n)
  PROVE  LET capacity == GrownCapacity(array, n)
         IN  \/ capacity = 0
             \/ capacity \in Capacities /\ array.capacity < capacity /\ array.size + n <= capacity
<1> DEFINE Doubled(k) == Wrapped(array.capacity * TwoTo[k])
           Fits(k) == n <= Leftover(array, Doubled(k))
           chosen == CHOOSE k \in 1 .. SizeBits : Fits(k) /\ \A i \in 1 .. k - 1 : ~ Fits(i)
<1>1. PICK j \in 3 .. SizeBits - 1 : array.capacity = TwoTo[j]
  BY DEF Capacities
<1>2. /\ SizeBits \in Nat /\ TwoTo[SizeBits] \in Nat /\ TwoTo[j] \in Nat
      /\ TwoTo[j] >= 1 /\ 2 * TwoTo[j] <= TwoTo[SizeBits]
  BY <1>1, SizeAssumption, TwoToPositive, TwoToGrows
<1>3. ASSUME NEW k \in Nat
      PROVE  Doubled(k) = IF j + k < SizeBits THEN TwoTo[j + k] ELSE 0
  <2>1. array.capacity * TwoTo[k] = TwoTo[j + k] /\ j + k \in Nat
    BY <1>1, TwoToSum
  <2> QED BY <2>1, WrappedPower
<1>4. ASSUME NEW x \in Nat, array.size <= x, x < TwoTo[SizeBits]
      PROVE  Leftover(array, x) = x - array.size
  <2>1. \A d, m \in Nat : d < m => d % m = d
    OBVIOUS
  <2>2. x - array.size \in Nat /\ x - array.size < TwoTo[SizeBits]
    BY <1>1, <1>2, <1>4
  <2>3. (x - array.size) % TwoTo[SizeBits] = x - array.size
    BY <1>2, <2>1, <2>2
  <2> QED BY <2>3 DEF Leftover, Wrapped
<1>5. \E k \in 1 .. SizeBits : Fits(k)
  <2>1. CASE array.size = 0
    <3>1. n > TwoTo[j]
      BY <1>1, <1>2, <1>4, <2>1 DEF Grows
    <3>2. SizeBits - 1 \in Nat /\ 2 * TwoTo[SizeBits - 1] = TwoTo[SizeBits]
      <4>1. SizeBits - 1 \in Nat /\ (SizeBits - 1) + 1 = SizeBits
        BY <1>1, <1>2
      <4> QED BY <4>1, TwoToDefined
    <3>3. j # SizeBits - 1
      BY <1>2, <3>1, <3>2
    <3> DEFINE k == (SizeBits - 1) - j
    <3>4. k \in 1 .. SizeBits /\ j + k = SizeBits - 1 /\ k \in Nat
      BY <1>2, <3>3
    <3>5. Doubled(k) = TwoTo[SizeBits - 1]
      <4> HIDE DEF k, Doubled
      <4> QED BY <1>2, <1>3, <3>4
    <3>6. TwoTo[SizeBits - 1] \in Nat /\ TwoTo[SizeBits - 1] >= 1
      BY <3>2, TwoToPositive
    <3>7. Leftover(array, TwoTo[SizeBits - 1]) = TwoTo[SizeBits - 1]
      BY <1>2, <1>4, <2>1, <3>2, <3>6
    <3>8. Fits(k)
      <4> HIDE DEF k, Doubled
      <4> QED BY <1>2, <3>2, <3>5, <3>6, <3>7
    <3> HIDE DEF k, Fits
    <3> QED BY <3>4, <3>8
  <2>2. CASE array.size > 0
    <3> DEFINE k == SizeBits - j
    <3>1. k \in 1 .. SizeBits /\ j + k = SizeBits /\ k \in Nat
      BY <1>2
    <3>2. Doubled(k) = 0
      <4> HIDE DEF k, Doubled
      <4> QED BY <1>2, <1>3, <3>1
    <3>3. Leftover(array, 0) = TwoTo[SizeBits] - array.size
      <4>1. \A d, m \in Nat : 0 < d /\ d < m => (0 - d) % m = m - d
        OBVIOUS
      <4>2. array.size \in Nat /\ 0 < array.size /\ array.size < TwoTo[SizeBits]
        BY <1>1, <1>2, <2>2
      <4>3. (0 - array.size) % TwoTo[SizeBits] = TwoTo[SizeBits] - array.size
        BY <1>2, <4>1, <4>2
      <4> QED BY <4>3 DEF Leftover, Wrapped
    <3>4. Fits(k)
      <4> HIDE DEF k, Doubled
      <4> QED BY <1>1, <1>2, <3>2, <3>3
    <3> HIDE DEF k, Fits
    <3> QED BY <3>1, <3>4
  <2> QED BY <2>1, <2>2
<1>6. chosen \in 1 .. SizeBits /\ Fits(chosen)
  <2> DEFINE T == {k \in 1 .. SizeBits : Fits(k)}
  <2>1. T # {} /\ T \in SUBSET Nat
    <3> HIDE DEF Fits
    <3> QED BY <1>5
  <2>2. PICK k \in T : \A i \in T : k <= i
    <3> HIDE DEF T
    <3> QED BY <2>1, LeastNatural
  <2>3. k \in 1 .. SizeBits /\ Fits(k) /\ \A i \in 1 .. k - 1 : ~ Fits(i)
    <3> HIDE DEF Fits
    <3> QED BY <1>2, <2>2
  <2> HIDE DEF Fits, T
  <2> QED BY <2>3
<1>7. GrownCapacity(array, n) = Doubled(chosen)
  BY DEF GrownCapacity
<1>8. CASE j + chosen < SizeBits
  <2>1. chosen \in Nat /\ chosen >= 1 /\ j + chosen \in 3 .. SizeBits - 1
    <3> HIDE DEF chosen
    <3> QED BY <1>2, <1>6, <1>8
  <2> HIDE DEF chosen
  <2>2. Doubled(chosen) = TwoTo[j + chosen]
    <3> HIDE DEF Doubled
    <3> QED BY <1>3, <1>8, <2>1
  <2>3. TwoTo[j + chosen] \in Capacities
    BY <2>1 DEF Capacities
  <2>4. array.capacity < TwoTo[j + chosen] /\ TwoTo[j + chosen] < TwoTo[SizeBits] /\ TwoTo[j + chosen] \in Nat
    <3>1. j < j + chosen /\ j \in Nat /\ j + chosen \in Nat
      BY <2>1
    <3> QED BY <1>1, <1>2, <1>8, <3>1, TwoToGrows, TwoToPositive
  <2>5. Leftover(array, TwoTo[j + chosen]) = TwoTo[j + chosen] - array.size
    BY <1>1, <1>2, <1>4, <2>4
  <2>6. n <= Leftover(array, TwoTo[j + chosen])
    <3> HIDE DEF Doubled
    <3> QED BY <1>6, <2>2
  <2>7. array.size + n <= TwoTo[j + chosen]
    BY <1>1, <1>2, <2>4, <2>5, <2>6
  <2> HIDE DEF Doubled
  <2> QED BY <1>7, <2>2, <2>3, <2>4, <2>7
<1>9. CASE ~ (j + chosen < SizeBits)
  <2>1. chosen \in Nat
    <3> HIDE DEF chosen
    <3> QED BY <1>2, <1>6
  <2> HIDE DEF chosen, Doubled
  <2> QED BY <1>3, <1>7, <1>9, <2>1
<1> QED BY <1>8, <1>9
(* append to an array whose block is there puts the bytes behind the others, *)
(* inside the block; or the block is lost, and that is reported.             *)
LEMMA AppendType ==
  ASSUME NEW name \in {"data", "code"}, NEW array \in ManagedArrays, Holds(array, name),
         NEW n \in Nat, 2 * n <= TwoTo[SizeBits], NEW fails \in BOOLEAN,
         NEW bytes, bytes = [i \in 1 .. n |-> <<name, array.size + i>>]
  PROVE  LET next == append(array, bytes, fails)
         IN  /\ next \in ManagedArrays
             /\ \/ /\ AppendError(array, n, fails) = "SUCCESS"
                   /\ Holds(next, name) /\ next.size = array.size + n
                \/ /\ AppendError(array, n, fails) = "ERR_OUT_OF_MEMEORY"
                   /\ next.data = NULL /\ next.size = array.size
<1> DEFINE room == WithRoom(array, n, fails)
           next == append(array, bytes, fails)
           dst == array.size .. array.size + n - 1
           data == [i \in DOMAIN room.data \cup dst |->
                      IF i \in dst THEN bytes[i - array.size + 1] ELSE room.data[i]]
<1>1. /\ array.size \in Nat /\ array.capacity \in Nat /\ array.size <= array.capacity
      /\ array.capacity < TwoTo[SizeBits] /\ TwoTo[SizeBits] \in Nat
  BY CapacityType, SizeAssumption, TwoToPositive DEF Holds
<1>2. Len(bytes) = n
  OBVIOUS
<1>3. /\ room \in ManagedArrays /\ room.size = array.size
      /\ \/ room.data = NULL
         \/ /\ Holds(room, name) /\ room.size + n <= room.capacity
  <2>1. CASE ~ Grows(array, n)
    <3>1. Leftover(array, array.capacity) = array.capacity - array.size
      <4>1. \A d, m \in Nat : d < m => d % m = d
        OBVIOUS
      <4>2. array.capacity - array.size \in Nat /\ array.capacity - array.size < TwoTo[SizeBits]
        BY <1>1
      <4> QED BY <1>1, <4>1, <4>2 DEF Leftover, Wrapped
    <3>2. array.size + n <= array.capacity
      BY <1>1, <2>1, <3>1 DEF Grows
    <3>3. room = array
      BY <2>1 DEF WithRoom
    <3> QED BY <3>2, <3>3
  <2>2. CASE Grows(array, n)
    <3> DEFINE capacity == GrownCapacity(array, n)
               block == [i \in 0 .. capacity - 1 |->
                           IF i \in DOMAIN array.data THEN array.data[i] ELSE Unset]
    <3>1. room = [array EXCEPT !.capacity = capacity,
                               !.data = IF fails \/ capacity = 0 THEN NULL ELSE block]
      BY <2>2 DEF WithRoom, Grown
    <3>2. \/ capacity = 0
          \/ capacity \in Capacities /\ array.capacity < capacity /\ array.size + n <= capacity
      <4>1. array.capacity \in Capacities /\ array.size \in 0 .. array.capacity
        BY DEF Holds
      <4> QED BY <2>2, <4>1, GrownCapacityType
    <3>3. capacity \in 0 .. TwoTo[SizeBits] - 1
      <4> HIDE DEF capacity
      <4> QED BY <1>1, <3>2, CapacityType
    <3> HIDE DEF capacity
    <3>4. block \in [0 .. capacity - 1 -> Byte]
      BY DEF Holds, Byte, Unset
    <3>5. block \in Blocks
      <4> HIDE DEF block
      <4> QED BY <3>3, <3>4 DEF Blocks
    <3>6. ASSUME capacity # 0, NEW i \in 0 .. array.size - 1
          PROVE  block[i] = <<name, i + 1>>
      <4>1. i \in 0 .. capacity - 1 /\ i \in DOMAIN array.data
        BY <1>1, <3>2, <3>3, <3>6 DEF Holds
      <4> QED BY <4>1 DEF Holds
    <3> HIDE DEF block
    <3>7. room \in ManagedArrays /\ room.size = array.size /\ room.capacity = capacity
      BY <3>1, <3>3, <3>5 DEF ManagedArrays
    <3>8. CASE fails \/ capacity = 0
      <4>1. room.data = NULL
        BY <3>1, <3>8 DEF ManagedArrays
      <4> QED BY <3>7, <4>1
    <3>9. CASE ~ fails /\ capacity # 0
      <4>1. room.data = block
        BY <3>1, <3>9 DEF ManagedArrays
      <4>2. capacity \in Capacities /\ array.size \in 0 .. capacity /\ array.size + n <= capacity
        BY <1>1, <3>2, <3>3, <3>9
      <4>3. Holds(room, name)
        BY <3>4, <3>6, <3>7, <3>9, <4>1, <4>2 DEF Holds
      <4> QED BY <3>7, <4>2, <4>3
    <3> QED BY <3>8, <3>9
  <2> QED BY <2>1, <2>2
<1> HIDE DEF room
<1>4. AppendError(array, n, fails) = IF room.data = NULL THEN "ERR_OUT_OF_MEMEORY" ELSE "SUCCESS"
  BY <1>1 DEF AppendError, room
<1>5. CASE room.data = NULL
  <2>1. next = room
    BY <1>2, <1>4, <1>5 DEF append, room
  <2> QED BY <1>3, <1>4, <1>5, <2>1
<1>6. CASE room.data # NULL
  <2>1. next = [room EXCEPT !.size = Wrapped(room.size + n), !.data = data]
    BY <1>2, <1>4, <1>6 DEF append, room
  <2>2. room.capacity \in Capacities /\ room.capacity \in 0 .. TwoTo[SizeBits] - 1
    BY <1>3, <1>6, CapacityType DEF Holds
  <2>3. Wrapped(room.size + n) = array.size + n
    <3>1. \A d, m \in Nat : d < m => d % m = d
      OBVIOUS
    <3>2. array.size + n \in Nat /\ array.size + n < TwoTo[SizeBits]
      BY <1>1, <1>3, <1>6, <2>2
    <3> QED BY <1>1, <1>3, <3>1, <3>2 DEF Wrapped
  <2>4. DOMAIN room.data = 0 .. room.capacity - 1 /\ dst \subseteq 0 .. room.capacity - 1
    BY <1>1, <1>3, <1>6, <2>2 DEF Holds
  <2>5. \A i \in dst : data[i] = <<name, i + 1>>
    <3>1. ASSUME NEW i \in dst PROVE data[i] = <<name, i + 1>>
      <4>1. i - array.size + 1 \in 1 .. n /\ array.size + (i - array.size + 1) = i + 1
        BY <1>1
      <4> QED BY <4>1
    <3> QED BY <3>1
  <2>6. \A i \in 0 .. room.capacity - 1 : i \notin dst => data[i] = room.data[i]
    BY <2>4
  <2>7. DOMAIN data = 0 .. room.capacity - 1
    BY <2>4
  <2>8. data \in [0 .. room.capacity - 1 -> Byte]
    <3>1. ASSUME NEW i \in 0 .. room.capacity - 1 PROVE data[i] \in Byte
      <4>1. CASE i \in dst
        <5>1. i \in Nat
          BY <1>1, <4>1
        <5>2. <<name, i + 1>> \in Byte
          BY <5>1 DEF Byte
        <5> HIDE DEF data, dst
        <5> QED BY <2>5, <4>1, <5>2
      <4>2. CASE i \notin dst
        <5> HIDE DEF data, dst
        <5> QED BY <1>3, <1>6, <2>6, <4>2 DEF Holds
      <4> QED BY <4>1, <4>2
    <3>2. data = [i \in DOMAIN data |-> data[i]]
      OBVIOUS
    <3> HIDE DEF data
    <3> QED BY <2>7, <3>1, <3>2
  <2>9. ASSUME NEW i \in 0 .. array.size + n - 1 PROVE data[i] = <<name, i + 1>>
    <3>1. CASE i \in dst
      <4> HIDE DEF data, dst
      <4> QED BY <2>5, <3>1
    <3>2. CASE i \notin dst
      <4>1. i \in 0 .. array.size - 1 /\ i \in 0 .. room.capacity - 1
        BY <1>1, <1>3, <1>6, <2>2, <3>2
      <4> HIDE DEF data, dst
      <4> QED BY <1>3, <1>6, <2>6, <3>2, <4>1 DEF Holds
    <3> QED BY <3>1, <3>2
  <2> HIDE DEF data, dst, next
  <2>10. data \in Blocks
    BY <2>2, <2>8 DEF Blocks
  <2>11. array.size + n \in Nat /\ array.size + n \in 0 .. room.capacity
    BY <1>1, <1>3, <1>6, <2>2
  <2>12. next \in ManagedArrays /\ next.size = array.size + n
         /\ next.capacity = room.capacity /\ next.data = data
    BY <1>3, <2>1, <2>3, <2>10, <2>11 DEF ManagedArrays
  <2>13. Holds(next, name)
    BY <2>2, <2>8, <2>9, <2>11, <2>12 DEF Holds
  <2> QED BY <1>4, <1>6, <2>12, <2>13 DEF next
<1> QED BY <1>5, <1>6

-----------------------------------------------------------------------------
(***************************************************************************)
(* The rows of an object file.                                             *)
(***************************************************************************)
Row == [address : Nat, bytes : Seq(Byte)]

(* The first n bytes of an image, in rows of four, each behind its address. *)
IsRows(rows, image, n) ==
  /\ rows \in Seq(Row)
  /\ Len(rows) = (n + 3) \div 4
  /\ \A r \in 1 .. Len(rows) :
       /\ rows[r].address = 100 + 4 * (r - 1)
       /\ Len(rows[r].bytes) = IF 4 * r <= n THEN 4 ELSE n - 4 * (r - 1)
       /\ \A j \in 1 .. Len(rows[r].bytes) : rows[r].bytes[j] = image[4 * (r - 1) + j]

(* A byte starts a row. *)
LEMMA ByteStartsRow ==
  ASSUME NEW image \in Seq(Byte), NEW n \in 0 .. Len(image) - 1, n % 4 = 0,
         NEW rows, IsRows(rows, image, n)
  PROVE  IsRows(writeByte(rows, n, image[n + 1]), image, n + 1)
<1> DEFINE byte == image[n + 1]
           row  == [address |-> 100 + n, bytes |-> <<byte>>]
           next == Append(rows, row)
           q    == n \div 4
<1>1. n \in Nat /\ q \in Nat /\ n = 4 * q /\ (n + 3) \div 4 = q /\ (n + 1 + 3) \div 4 = q + 1
  OBVIOUS
<1>2. byte \in Byte
  OBVIOUS
<1>3. writeByte(rows, n, image[n + 1]) = next
  BY DEF writeByte, INSTRUCTION_COUNTER_INITIAL_VALUE, BYTES_PER_LINE
<1>4. row \in Row /\ row.address = 100 + n /\ Len(row.bytes) = 1 /\ row.bytes[1] = byte
  BY <1>1, <1>2 DEF Row
<1> HIDE DEF row, byte, q
<1>5. rows \in Seq(Row) /\ Len(rows) = q
  BY <1>1 DEF IsRows
<1>6. next \in Seq(Row) /\ Len(next) = q + 1 /\ next[q + 1] = row /\ \A r \in 1 .. q : next[r] = rows[r]
  BY <1>1, <1>4, <1>5
<1> HIDE DEF next
<1>7. ASSUME NEW r \in 1 .. q + 1
      PROVE  /\ next[r].address = 100 + 4 * (r - 1)
             /\ Len(next[r].bytes) = IF 4 * r <= n + 1 THEN 4 ELSE (n + 1) - 4 * (r - 1)
             /\ \A j \in 1 .. Len(next[r].bytes) : next[r].bytes[j] = image[4 * (r - 1) + j]
  <2>1. CASE r = q + 1
    <3>1. next[r] = row
      BY <1>6, <2>1
    <3>2. 4 * (r - 1) = n /\ ~ (4 * r <= n + 1)
      BY <1>1, <2>1
    <3>3. Len(next[r].bytes) = 1 /\ (n + 1) - 4 * (r - 1) = 1 /\ 4 * (r - 1) + 1 = n + 1
      BY <1>1, <1>4, <3>1, <3>2
    <3>4. \A j \in 1 .. 1 : next[r].bytes[j] = image[4 * (r - 1) + j]
      <4>1. next[r].bytes[1] = image[n + 1]
        BY <1>4, <3>1 DEF byte
      <4> QED BY <3>3, <4>1
    <3>5. next[r].address = 100 + 4 * (r - 1)
      BY <1>4, <3>1, <3>2
    <3> HIDE DEF q
    <3> QED BY <3>3, <3>4, <3>5, <3>2
  <2>2. CASE r \in 1 .. q
    <3>1. next[r] = rows[r] /\ 4 * r <= n /\ 4 * r <= n + 1
      BY <1>1, <1>6, <2>2
    <3> QED BY <1>5, <2>2, <3>1 DEF IsRows
  <2> QED BY <1>1, <2>1, <2>2
<1> QED BY <1>1, <1>3, <1>6, <1>7 DEF IsRows

(* A byte ends the last row. *)
LEMMA ByteEndsRow ==
  ASSUME NEW image \in Seq(Byte), NEW n \in 0 .. Len(image) - 1, n % 4 # 0,
         NEW rows, IsRows(rows, image, n)
  PROVE  IsRows(writeByte(rows, n, image[n + 1]), image, n + 1)
<1> DEFINE byte == image[n + 1]
           k    == n \div 4 + 1
           m    == n % 4
           row  == [rows[k] EXCEPT !.bytes = Append(rows[k].bytes, byte)]
           next == [rows EXCEPT ![k] = row]
<1>1. /\ n \in Nat /\ k \in Nat /\ k >= 1 /\ m \in 1 .. 3 /\ n = 4 * (k - 1) + m
      /\ (n + 3) \div 4 = k /\ (n + 1 + 3) \div 4 = k
  OBVIOUS
<1>2. byte \in Byte
  OBVIOUS
<1>3. writeByte(rows, n, image[n + 1]) = next
  BY DEF writeByte, BYTES_PER_LINE
<1> HIDE DEF byte, k, m
<1>4. rows \in Seq(Row) /\ Len(rows) = k /\ rows[k] \in Row
  BY <1>1 DEF IsRows
<1>5. /\ rows[k].address = 100 + 4 * (k - 1) /\ Len(rows[k].bytes) = m
      /\ \A j \in 1 .. m : rows[k].bytes[j] = image[4 * (k - 1) + j]
  BY <1>1, <1>4 DEF IsRows
<1>6. /\ row \in Row /\ row.address = rows[k].address
      /\ row.bytes = Append(rows[k].bytes, byte) /\ rows[k].bytes \in Seq(Byte)
  <2> DEFINE bytes == Append(rows[k].bytes, byte)
  <2>1. rows[k].bytes \in Seq(Byte)
    BY <1>4 DEF Row
  <2>2. bytes \in Seq(Byte)
    BY <1>2, <2>1
  <2> HIDE DEF bytes
  <2>3. row = [rows[k] EXCEPT !.bytes = bytes]
    BY DEF bytes
  <2>4. row \in Row /\ row.address = rows[k].address /\ row.bytes = bytes
    BY <1>4, <2>2, <2>3 DEF Row
  <2> QED BY <2>1, <2>4 DEF bytes
<1> HIDE DEF row
<1>7. /\ Len(row.bytes) = m + 1 /\ row.bytes[m + 1] = byte
      /\ \A j \in 1 .. m : row.bytes[j] = rows[k].bytes[j]
  <2> DEFINE bytes == rows[k].bytes
  <2>1. bytes \in Seq(Byte) /\ Len(bytes) = m /\ row.bytes = Append(bytes, byte)
    BY <1>5, <1>6
  <2> HIDE DEF bytes
  <2>2. Len(row.bytes) = m + 1 /\ row.bytes[m + 1] = byte /\ \A j \in 1 .. m : row.bytes[j] = bytes[j]
    BY <1>2, <2>1
  <2> QED BY <2>2 DEF bytes
<1>8. /\ next \in Seq(Row) /\ Len(next) = k /\ next[k] = row
      /\ \A r \in 1 .. k - 1 : next[r] = rows[r]
  BY <1>1, <1>4, <1>6
<1> HIDE DEF next
<1>9. ASSUME NEW r \in 1 .. k
      PROVE  /\ next[r].address = 100 + 4 * (r - 1)
             /\ Len(next[r].bytes) = IF 4 * r <= n + 1 THEN 4 ELSE (n + 1) - 4 * (r - 1)
             /\ \A j \in 1 .. Len(next[r].bytes) : next[r].bytes[j] = image[4 * (r - 1) + j]
  <2>1. CASE r = k
    <3>1. next[r].address = 100 + 4 * (r - 1) /\ Len(next[r].bytes) = m + 1
      BY <1>5, <1>6, <1>7, <1>8, <2>1
    <3>2. m + 1 = IF 4 * r <= n + 1 THEN 4 ELSE (n + 1) - 4 * (r - 1)
      BY <1>1, <2>1
    <3>3. ASSUME NEW j \in 1 .. m + 1 PROVE next[r].bytes[j] = image[4 * (r - 1) + j]
      <4>1. CASE j = m + 1
        <5>1. 4 * (r - 1) + j = n + 1
          BY <1>1, <2>1, <4>1
        <5> QED BY <1>7, <1>8, <2>1, <4>1, <5>1 DEF byte
      <4>2. CASE j \in 1 .. m
        BY <1>5, <1>7, <1>8, <2>1, <4>2
      <4> QED BY <1>1, <4>1, <4>2
    <3> QED BY <3>1, <3>2, <3>3
  <2>2. CASE r \in 1 .. k - 1
    <3>1. next[r] = rows[r]
      BY <1>8, <2>2
    <3>2. 4 * r <= n /\ 4 * r <= n + 1
      BY <1>1, <2>2
    <3>3. r \in 1 .. Len(rows)
      BY <1>1, <1>4, <2>2
    <3> QED BY <1>4, <3>1, <3>2, <3>3 DEF IsRows
  <2> QED BY <1>1, <2>1, <2>2
<1> QED BY <1>1, <1>3, <1>8, <1>9 DEF IsRows

(* The rows that toFile has when it is through with an image. *)
FileRows(image) ==
  LET Rows[n \in 0 .. Len(image)] ==
        IF n = 0 THEN <<>> ELSE writeByte(Rows[n - 1], n - 1, image[n])
  IN  Rows[Len(image)]

LEMMA FileRowsType ==
  ASSUME NEW image \in Seq(Byte)
  PROVE  IsRows(FileRows(image), image, Len(image))
<1> DEFINE L           == Len(image)
           Equation(f) == f = [n \in 0 .. Len(image) |->
                                 IF n = 0 THEN <<>> ELSE writeByte(f[n - 1], n - 1, image[n])]
           S           == {rows \in Seq(Row) : \E n \in 0 .. L : IsRows(rows, image, n)}
           RowStep(n)  == [rows \in S |->
                             IF n < L /\ IsRows(rows, image, n)
                             THEN writeByte(rows, n, image[n + 1]) ELSE rows]
           next        == [n \in Nat |-> RowStep(n)]
           base        == <<>>
<1>1. IsRows(<<>>, image, 0)
  BY DEF IsRows
<1>2. ASSUME NEW n \in 0 .. L - 1, NEW rows, IsRows(rows, image, n)
      PROVE  IsRows(writeByte(rows, n, image[n + 1]), image, n + 1)
  BY <1>2, ByteStartsRow, ByteEndsRow
<1>3. base \in S
  BY <1>1
<1>4. next \in Steps(S)
  <2>1. ASSUME NEW n \in Nat, NEW rows \in S
        PROVE  (IF n < L /\ IsRows(rows, image, n)
                THEN writeByte(rows, n, image[n + 1]) ELSE rows) \in S
    <3> HIDE DEF S
    <3>1. CASE n < L /\ IsRows(rows, image, n)
      <4>1. n \in 0 .. L - 1 /\ n + 1 \in 0 .. L
        BY <3>1
      <4>2. IsRows(writeByte(rows, n, image[n + 1]), image, n + 1)
        BY <1>2, <3>1, <4>1
      <4>3. writeByte(rows, n, image[n + 1]) \in S
        BY <4>1, <4>2 DEF S, IsRows
      <4> QED BY <3>1, <4>3
    <3>2. CASE ~ (n < L /\ IsRows(rows, image, n))
      BY <3>2
    <3> QED BY <3>1, <3>2
  <2> HIDE DEF S
  <2> QED BY <2>1 DEF Steps
<1> HIDE DEF S
<1>5. PICK f \in [Nat -> S] : Follows(f, base, next)
  <2> HIDE DEF base, next
  <2> QED BY <1>3, <1>4, RecursiveFunction
<1>6. f[0] = <<>> /\ \A n \in Nat : f[n + 1] = next[n][f[n]]
  BY <1>5 DEF Follows
<1>7. \A n \in Nat : n <= L => IsRows(f[n], image, n)
  <2> DEFINE T == {n \in Nat : n <= L => IsRows(f[n], image, n)}
  <2>1. 0 \in T
    BY <1>1, <1>6
  <2>2. ASSUME NEW n \in Nat, n \in T PROVE n + 1 \in T
    <3>1. SUFFICES ASSUME n + 1 <= L PROVE IsRows(f[n + 1], image, n + 1)
      OBVIOUS
    <3>2. n \in 0 .. L - 1 /\ n < L /\ IsRows(f[n], image, n) /\ f[n] \in S
      BY <2>2, <3>1
    <3>3. f[n + 1] = writeByte(f[n], n, image[n + 1])
      BY <1>6, <3>2
    <3> QED BY <1>2, <3>2, <3>3
  <2> HIDE DEF T
  <2>3. \A n \in Nat : n \in T
    BY <2>1, <2>2, EveryNatural
  <2> QED BY <2>3 DEF T
<1> DEFINE g == [n \in 0 .. Len(image) |-> f[n]]
<1>8. Equation(g)
  <2>1. ASSUME NEW n \in 0 .. Len(image)
        PROVE  g[n] = IF n = 0 THEN <<>> ELSE writeByte(g[n - 1], n - 1, image[n])
    <3>1. CASE n = 0
      BY <1>6, <3>1
    <3>2. CASE n # 0
      <4>1. n - 1 \in Nat /\ n - 1 \in 0 .. Len(image) /\ (n - 1) + 1 = n /\ n - 1 < L /\ n - 1 <= L
        BY <3>2
      <4>2. IsRows(f[n - 1], image, n - 1) /\ f[n - 1] \in S
        BY <1>7, <4>1
      <4>3. f[n] = next[n - 1][f[n - 1]]
        BY <1>6, <4>1
      <4>4. next[n - 1][f[n - 1]] = writeByte(f[n - 1], n - 1, image[(n - 1) + 1])
        BY <4>1, <4>2
      <4>5. g[n] = f[n] /\ g[n - 1] = f[n - 1]
        BY <4>1
      <4> HIDE DEF g, next
      <4> QED BY <3>2, <4>1, <4>3, <4>4, <4>5
    <3> QED BY <3>1, <3>2
  <2> DEFINE h == [n \in 0 .. Len(image) |->
                     IF n = 0 THEN <<>> ELSE writeByte(g[n - 1], n - 1, image[n])]
  <2>2. \A n \in 0 .. Len(image) : g[n] = h[n]
    BY <2>1
  <2>3. g = [n \in 0 .. Len(image) |-> g[n]] /\ h = [n \in 0 .. Len(image) |-> h[n]]
    OBVIOUS
  <2> HIDE DEF g, h
  <2>4. g = h
    BY <2>2, <2>3
  <2> QED BY <2>4 DEF h
<1> DEFINE Rows == CHOOSE r : Equation(r)
<1>9. Equation(Rows) /\ FileRows(image) = Rows[Len(image)]
  <2>1. FileRows(image) = Rows[Len(image)]
    BY DEF FileRows
  <2> HIDE DEF Equation, g
  <2>2. Equation(Rows)
    BY <1>8
  <2> QED BY <2>1, <2>2
<1>10. \A n \in Nat : n <= L => IsRows(Rows[n], image, n)
  <2> DEFINE T == {n \in Nat : n <= L => IsRows(Rows[n], image, n)}
  <2>1. \A n \in 0 .. Len(image) :
          Rows[n] = IF n = 0 THEN <<>> ELSE writeByte(Rows[n - 1], n - 1, image[n])
    <3> HIDE DEF Rows
    <3> QED BY <1>9
  <2> HIDE DEF Rows
  <2>2. 0 \in T
    BY <1>1, <2>1
  <2>3. ASSUME NEW n \in Nat, n \in T PROVE n + 1 \in T
    <3>1. SUFFICES ASSUME n + 1 <= L PROVE IsRows(Rows[n + 1], image, n + 1)
      OBVIOUS
    <3>2. n \in 0 .. L - 1 /\ IsRows(Rows[n], image, n) /\ n + 1 \in 0 .. L /\ (n + 1) - 1 = n
      BY <2>3, <3>1
    <3>3. Rows[n + 1] = writeByte(Rows[n], n, image[n + 1])
      BY <2>1, <3>2
    <3> QED BY <1>2, <3>2, <3>3
  <2> HIDE DEF T
  <2>4. \A n \in Nat : n \in T
    BY <2>2, <2>3, EveryNatural
  <2> QED BY <2>4 DEF T
<1> HIDE DEF Rows
<1>11. Len(image) \in Nat /\ Len(image) <= L
  OBVIOUS
<1>12. IsRows(Rows[Len(image)], image, Len(image))
  BY <1>10, <1>11
<1> QED BY <1>9, <1>12

-----------------------------------------------------------------------------
(***************************************************************************)
(* The inductive invariant.                                                *)
(***************************************************************************)
Active == {"new", "open", "first", "second", "ob", "ext", "ent", "saved"}

Errors == {"SUCCESS", "FILE_OPEN_ERROR", "ERR_EOF", "ERR_OUT_OF_MEMEORY",
           "ERR_FILENAME_TOO_LONG", "ERR_CREATING_OUTPUT_FILE"}

Results == [success : BOOLEAN, err : Errors, outputs : SUBSET {"ob", "ext", "ent"}]

(* Where the program is, and how many inputs are done with. *)
ControlOK ==
  /\ argv \in Inputs /\ turn \in 0 .. Len(argv)
  /\ pc \in Active \cup {"main", "returned", "exited"}
  /\ err \in Errors /\ success \in BOOLEAN
  /\ has_external \in BOOLEAN /\ has_entry \in BOOLEAN
  /\ faults \in 0 .. MaxFaults
  /\ exit \in {"running", "0", "1", "crashed"} /\ (exit = "running" <=> pc # "exited")
  /\ results \in Seq(Results)
  /\ Len(results) = IF pc \in Active \/ exit = "crashed" THEN turn - 1 ELSE turn
  /\ pc \in {"returned", "main"} /\ turn > 0 =>
       results[turn].success = success /\ results[turn].err = err
  /\ pc = "main" \/ exit = "0" => ~ OutOfMemory
  /\ exit = "1" => OutOfMemory
  /\ pc \in {"open", "ob", "ext", "ent", "saved"} => err = "SUCCESS"
  /\ pc \in {"first", "second"} => err \in {"SUCCESS", "ERR_OUT_OF_MEMEORY"}
  /\ pc = "ext" => has_external
  /\ pc = "ent" => has_entry

(* What is allocated and open in each part of handleAssemblyFile. *)
HeldOK ==
  /\ held \subseteq Objects \cup {"file"}
  /\ pc \in {"main", "new"} \/ exit = "0" => held = {}
  /\ pc \in {"open", "second", "ob", "ext", "ent", "saved"} => held = Objects
  /\ pc = "first" => held = Objects \cup {"file"}
  /\ pc = "returned" \/ exit = "1" => held = {} \/ (OutOfMemory /\ "file" \notin held)

Released == memory.data.data = NULL /\ memory.code.data = NULL

Memories == [data_counter : Nat, data : ManagedArrays, code : ManagedArrays]

(* The image: each of its arrays holds the bytes written to it, or was lost. *)
MemoryOK ==
  /\ memory \in Memories
  /\ \A name \in {"data", "code"} :
       Holds(memory[name], name) \/ memory[name].data = NULL
  /\ pc \in Active \ {"new"} /\ err = "SUCCESS" =>
       /\ Holds(memory.data, "data") /\ Holds(memory.code, "code")
       /\ memory.data.size = memory.data_counter
  /\ pc \in {"main", "new"} \/ exit = "0" => Released
  /\ pc = "returned" \/ exit = "1" => Released \/ OutOfMemory

(* The outputs of this input that are written when the program is at pc. *)
Written ==
  CASE pc = "ext"   -> {"ob"}
    [] pc = "ent"   -> Outputs(has_external, FALSE)
    [] pc = "saved" -> Outputs(has_external, has_entry)
    [] OTHER        -> {}

(* A file on disk: nothing, or of an earlier run, or of an input of this one. *)
DiskOK ==
  /\ disk = [output \in Output |-> disk[output]]
  /\ \A output \in Output :
       /\ disk[output] = [turn |-> disk[output].turn, whole |-> disk[output].whole,
                          text |-> disk[output].text]
       /\ disk[output].turn \in -1 .. turn /\ disk[output].whole \in BOOLEAN

(* The files of the inputs that are done with, and of the one at hand. *)
FilesOK ==
  exit # "crashed" =>
    /\ \A t \in DOMAIN results : results[t].success =>
         \A suffix \in results[t].outputs : disk[<<OutputName(argv[t]), suffix>>].turn >= t
    /\ \A output \in Output :
         LET t == disk[output].turn
         IN  /\ t \in DOMAIN results =>
                  /\ OutputName(argv[t]) = output[1] /\ output[2] \in results[t].outputs
                  /\ results[t].success \/ results[t].err = "ERR_CREATING_OUTPUT_FILE"
             /\ t > Len(results) => output[1] = Name /\ output[2] \in Written
             /\ t > 0 => disk[<<output[1], "ob">>].turn >= t
    /\ pc \in Active => \A suffix \in Written : disk[<<Name, suffix>>].turn = turn
-----------------------------------------------------------------------------
(***************************************************************************)
(* Control.                                                                *)
(***************************************************************************)
LEMMA InputType ==
  ASSUME NEW paths \in Inputs
  PROVE  paths \in Seq(Range(paths)) /\ Len(paths) \in Nat /\ DOMAIN paths = 1 .. Len(paths)
BY DriverAssumption

LEMMA ControlInit == Init => ControlOK
<1> SUFFICES ASSUME Init PROVE ControlOK
  OBVIOUS
<1>1. argv \in Inputs /\ Len(argv) \in Nat /\ MaxFaults \in Nat
  BY InputType, DriverAssumption DEF Init
<1>2. /\ turn = 0 /\ pc = "main" /\ err = "SUCCESS" /\ success = TRUE /\ exit = "running"
      /\ has_external = FALSE /\ has_entry = FALSE /\ faults = 0 /\ results = <<>>
  BY DEF Init
<1>3. results \in Seq(Results) /\ Len(results) = 0
  BY <1>2
<1>4. ~ OutOfMemory
  BY <1>2 DEF OutOfMemory
<1>5. success \in BOOLEAN /\ has_external \in BOOLEAN /\ has_entry \in BOOLEAN
  BY <1>2
<1> QED BY <1>1, <1>2, <1>3, <1>4, <1>5 DEF ControlOK, Active, Errors

LEMMA FaultType ==
  ASSUME faults \in 0 .. MaxFaults, NEW fails, Fault(fails)
  PROVE  faults' \in 0 .. MaxFaults
BY DriverAssumption DEF Fault

(* What handleAssemblyFile leaves when it returns. *)
LEMMA ReturnControl ==
  ASSUME ControlOK, pc \in Active, NEW ok \in BOOLEAN, NEW error \in Errors, Return(ok, error),
         has_external' \in BOOLEAN, has_entry' \in BOOLEAN, faults' \in 0 .. MaxFaults
  PROVE  ControlOK'
<1> DEFINE result == [success |-> ok, err |-> error, outputs |-> Outputs(has_external, has_entry)]
<1>1. result \in Results
  BY DEF Results, Outputs, ControlOK
<1>2. results \in Seq(Results) /\ Len(results) = turn - 1 /\ turn \in Int
  BY InputType DEF ControlOK
<1>3. results' = Append(results, result)
  BY DEF Return
<1> HIDE DEF result
<1>4. results' \in Seq(Results) /\ Len(results') = turn /\ results'[turn] = result
  BY <1>1, <1>2, <1>3
<1>5. result.success = ok /\ result.err = error
  BY DEF result
<1>6. exit # "crashed" /\ exit = "running"
  BY DEF ControlOK, Active
<1> QED BY <1>4, <1>5, <1>6 DEF ControlOK, Return, inputVars, Active, OutOfMemory

LEMMA NextInputControl == ControlOK /\ NextInput => ControlOK'
<1> SUFFICES ASSUME ControlOK, NextInput PROVE ControlOK'
  OBVIOUS
<1>1. turn \in Int /\ Len(argv) \in Nat /\ turn + 1 \in 0 .. Len(argv)
  BY InputType DEF ControlOK, NextInput
<1>2. exit = "running" /\ Len(results) = turn
  BY DEF ControlOK, NextInput, Active
<1>3. turn' = turn + 1 /\ (turn + 1) - 1 = turn
  BY <1>1 DEF NextInput
<1> QED BY <1>1, <1>2, <1>3 DEF ControlOK, NextInput, outcomeVars, Active, OutOfMemory

LEMMA MainControl == ControlOK /\ (GoOn \/ ExitOutOfMemory \/ Exit) => ControlOK'
BY DEF ControlOK, GoOn, ExitOutOfMemory, Exit, inputVars, sourceVars, outcomeVars, Active, OutOfMemory

LEMMA NewObjectsControl == ControlOK /\ NewObjects => ControlOK'
<1> SUFFICES ASSUME ControlOK, NewObjects PROVE ControlOK'
  OBVIOUS
<1>1. PICK failed \in {{}} \cup {{object} : object \in Objects} :
        /\ Fault(failed # {})
        /\ IF failed = {}
           THEN pc' = "open" /\ err' = "SUCCESS" /\ UNCHANGED <<inputVars, success, results, exit>>
           ELSE Return(FALSE, "ERR_OUT_OF_MEMEORY")
  BY DEF NewObjects
<1>2. faults' \in 0 .. MaxFaults
  BY <1>1, FaultType DEF ControlOK
<1>3. pc = "new" /\ UNCHANGED <<has_external, has_entry>>
  BY DEF NewObjects
<1>4. CASE failed = {}
  BY <1>1, <1>2, <1>3, <1>4 DEF ControlOK, Active, inputVars, OutOfMemory, Errors
<1>5. CASE failed # {}
  BY <1>1, <1>2, <1>3, <1>5, ReturnControl DEF ControlOK, Active, Errors
<1> QED BY <1>4, <1>5

LEMMA ReleasingControl ==
  ASSUME ControlOK, pc \in Active, NEW ok \in BOOLEAN, NEW error \in Errors, NEW closed,
         ReturnReleasing(ok, error, closed), faults' \in 0 .. MaxFaults
  PROVE  ControlOK'
BY ReturnControl DEF ReturnReleasing, ControlOK

LEMMA OpenSourceControl == ControlOK /\ OpenSource => ControlOK'
<1> SUFFICES ASSUME ControlOK, OpenSource PROVE ControlOK'
  OBVIOUS
<1>1. pc = "open" /\ pc \in Active /\ faults' \in 0 .. MaxFaults /\ "FILE_OPEN_ERROR" \in Errors
  BY DEF OpenSource, Active, Errors, ControlOK
<1>2. CASE ReturnReleasing(FALSE, "FILE_OPEN_ERROR", {})
  BY <1>1, <1>2, ReleasingControl
<1>3. CASE ~ ReturnReleasing(FALSE, "FILE_OPEN_ERROR", {})
  BY <1>1, <1>3 DEF OpenSource, ControlOK, inputVars, Active, OutOfMemory
<1> QED BY <1>2, <1>3

LEMMA AppendErrorControl ==
  ASSUME ControlOK, pc \in {"first", "second"}, err' \in {"SUCCESS", "ERR_OUT_OF_MEMEORY"},
         faults' \in 0 .. MaxFaults,
         UNCHANGED <<inputVars, pc, success, has_external, has_entry, outcomeVars>>
  PROVE  ControlOK'
BY DEF ControlOK, inputVars, outcomeVars, Active, Errors, OutOfMemory
-----------------------------------------------------------------------------
(***************************************************************************)
(* What the passes append.                                                 *)
(***************************************************************************)
LEMMA NewArrayType ==
  ASSUME NEW name \in {"data", "code"}
  PROVE  newManagedArray \in ManagedArrays /\ Holds(newManagedArray, name) /\ newManagedArray.size = 0
<1> DEFINE block == [i \in 0 .. MANAGED_ARRAY_MIN_CAPACITY - 1 |-> Unset]
<1>1. MANAGED_ARRAY_MIN_CAPACITY \in Capacities /\ MANAGED_ARRAY_MIN_CAPACITY \in 0 .. TwoTo[SizeBits] - 1
  BY FirstCapacity, CapacityType
<1>2. block \in [0 .. MANAGED_ARRAY_MIN_CAPACITY - 1 -> Byte]
  BY DEF Byte, Unset
<1> HIDE DEF block
<1>3. block \in Blocks
  BY <1>1, <1>2 DEF Blocks
<1>4. newManagedArray = [size |-> 0, capacity |-> MANAGED_ARRAY_MIN_CAPACITY, data |-> block]
  BY DEF newManagedArray, block
<1>5. newManagedArray \in ManagedArrays
  BY <1>1, <1>3, <1>4 DEF ManagedArrays
<1>6. Holds(newManagedArray, name)
  BY <1>1, <1>2, <1>4 DEF Holds
<1> QED BY <1>4, <1>5, <1>6

LEMMA FreedType == freedMemory \in Memories /\ freedMemory.data.data = NULL /\ freedMemory.code.data = NULL
<1>1. 0 \in 0 .. TwoTo[SizeBits] - 1
  BY SizeAssumption, TwoToPositive
<1>2. Freed \in ManagedArrays /\ Freed.data = NULL
  BY <1>1 DEF Freed, ManagedArrays
<1> QED BY <1>2 DEF freedMemory, Memories

(* An array that holds its bytes has a block. *)
LEMMA HoldsBlock ==
  ASSUME NEW array, NEW name, Holds(array, name)
  PROVE  array.data # NULL
<1>1. array.capacity \in 0 .. TwoTo[SizeBits] - 1
  BY CapacityType DEF Holds
<1> QED BY <1>1, NullAssumption DEF Holds

(* Memory_writeData puts a chunk behind the other data, or runs out of memory. *)
LEMMA WriteDataType ==
  ASSUME memory \in Memories, Holds(memory.data, "data"), memory.data.size = memory.data_counter,
         NEW n \in ChunkSizes, NEW fails \in BOOLEAN, writeData(n, fails)
  PROVE  /\ memory' \in Memories /\ memory'.code = memory.code
         /\ \/ /\ err' = "SUCCESS" /\ Holds(memory'.data, "data")
               /\ memory'.data.size = memory'.data_counter
            \/ err' = "ERR_OUT_OF_MEMEORY" /\ memory'.data.data = NULL
<1> DEFINE bytes == Bytes("data", memory.data_counter, n)
           next == append(memory.data, bytes, fails)
<1>1. n \in Nat /\ 2 * n <= TwoTo[SizeBits]
  BY DriverAssumption
<1>2. memory.data \in ManagedArrays /\ memory.data_counter \in Nat
  BY DEF Memories
<1>3. bytes = [i \in 1 .. n |-> <<"data", memory.data.size + i>>]
  BY DEF Bytes
<1> HIDE DEF bytes
<1>4. /\ next \in ManagedArrays
      /\ \/ /\ AppendError(memory.data, n, fails) = "SUCCESS"
            /\ Holds(next, "data") /\ next.size = memory.data.size + n
         \/ /\ AppendError(memory.data, n, fails) = "ERR_OUT_OF_MEMEORY"
            /\ next.data = NULL
  BY <1>1, <1>2, <1>3, AppendType
<1>5. /\ memory' = [memory EXCEPT !.data_counter = memory.data_counter + n, !.data = next]
      /\ err' = AppendError(memory.data, n, fails)
  BY DEF writeData, bytes
<1> HIDE DEF next
<1>6. memory.data_counter + n \in Nat
  BY <1>1, <1>2
<1>7. /\ memory' \in Memories /\ memory'.code = memory.code /\ memory'.data = next
      /\ memory'.data_counter = memory.data_counter + n
  BY <1>4, <1>5, <1>6 DEF Memories
<1> QED BY <1>4, <1>5, <1>7

(* So does Memory_writeCode with an instruction. *)
LEMMA WriteCodeType ==
  ASSUME memory \in Memories, Holds(memory.code, "code"), NEW fails \in BOOLEAN, writeCode(fails)
  PROVE  /\ memory' \in Memories /\ memory'.data = memory.data
         /\ memory'.data_counter = memory.data_counter
         /\ \/ err' = "SUCCESS" /\ Holds(memory'.code, "code")
            \/ err' = "ERR_OUT_OF_MEMEORY" /\ memory'.code.data = NULL
<1> DEFINE bytes == Bytes("code", memory.code.size, WORD_SIZE)
           next == append(memory.code, bytes, fails)
<1>1. WORD_SIZE \in Nat /\ 2 * WORD_SIZE <= TwoTo[SizeBits]
  BY SizeAssumption, TwoToPositive DEF WORD_SIZE, MANAGED_ARRAY_MIN_CAPACITY
<1>2. memory.code \in ManagedArrays
  BY DEF Memories
<1>3. bytes = [i \in 1 .. WORD_SIZE |-> <<"code", memory.code.size + i>>]
  BY DEF Bytes
<1> HIDE DEF bytes
<1>4. /\ next \in ManagedArrays
      /\ \/ /\ AppendError(memory.code, WORD_SIZE, fails) = "SUCCESS" /\ Holds(next, "code")
         \/ /\ AppendError(memory.code, WORD_SIZE, fails) = "ERR_OUT_OF_MEMEORY"
            /\ next.data = NULL
  BY <1>1, <1>2, <1>3, AppendType
<1>5. /\ memory' = [memory EXCEPT !.code = next]
      /\ err' = AppendError(memory.code, WORD_SIZE, fails)
  BY DEF writeCode, bytes
<1> HIDE DEF next
<1>6. /\ memory' \in Memories /\ memory'.data = memory.data /\ memory'.code = next
      /\ memory'.data_counter = memory.data_counter
  BY <1>4, <1>5 DEF Memories
<1> QED BY <1>4, <1>5, <1>6
-----------------------------------------------------------------------------
(***************************************************************************)
(* Control and memory, step by step.                                       *)
(***************************************************************************)
LEMMA FirstPassWritesControl == ControlOK /\ MemoryOK /\ FirstPassWrites => ControlOK'
<1> SUFFICES ASSUME ControlOK, MemoryOK, FirstPassWrites PROVE ControlOK'
  OBVIOUS
<1>1. PICK n \in ChunkSizes, fails \in BOOLEAN : Fault(fails) /\ writeData(n, fails)
  BY DEF FirstPassWrites
<1>2. memory \in Memories /\ Holds(memory.data, "data") /\ memory.data.size = memory.data_counter
  BY DEF FirstPassWrites, MemoryOK, Active
<1>3. err' \in {"SUCCESS", "ERR_OUT_OF_MEMEORY"}
  BY <1>1, <1>2, WriteDataType
<1>4. faults' \in 0 .. MaxFaults
  BY <1>1, FaultType DEF ControlOK
<1> QED BY <1>3, <1>4, AppendErrorControl DEF FirstPassWrites

LEMMA SecondPassWritesControl == ControlOK /\ MemoryOK /\ SecondPassWrites => ControlOK'
<1> SUFFICES ASSUME ControlOK, MemoryOK, SecondPassWrites PROVE ControlOK'
  OBVIOUS
<1>1. PICK fails \in BOOLEAN : Fault(fails) /\ writeCode(fails)
  BY DEF SecondPassWrites
<1>2. memory \in Memories /\ Holds(memory.code, "code")
  BY DEF SecondPassWrites, MemoryOK, Active
<1>3. err' \in {"SUCCESS", "ERR_OUT_OF_MEMEORY"}
  BY <1>1, <1>2, WriteCodeType
<1>4. faults' \in 0 .. MaxFaults
  BY <1>1, FaultType DEF ControlOK
<1> QED BY <1>3, <1>4, AppendErrorControl DEF SecondPassWrites

LEMMA AcceptsControl == ControlOK /\ (FirstPassAccepts \/ SecondPassAccepts) => ControlOK'
BY DEF ControlOK, FirstPassAccepts, SecondPassAccepts, inputVars, outcomeVars, Active, OutOfMemory

LEMMA RejectsControl == ControlOK /\ (FirstPassRejects \/ SecondPassRejects) => ControlOK'
<1> SUFFICES ASSUME ControlOK, FirstPassRejects \/ SecondPassRejects PROVE ControlOK'
  OBVIOUS
<1>1. CASE FirstPassRejects
  <2>1. PICK error \in {"ERR_EOF", "ERR_OUT_OF_MEMEORY"} :
          /\ Fault(err = "SUCCESS" /\ error = "ERR_OUT_OF_MEMEORY")
          /\ ReturnReleasing(FALSE, error, {"file"})
    BY <1>1 DEF FirstPassRejects
  <2>2. pc \in Active /\ error \in Errors
    BY <1>1 DEF FirstPassRejects, Active, Errors
  <2>3. faults' \in 0 .. MaxFaults
    BY <2>1, FaultType DEF ControlOK
  <2> QED BY <2>1, <2>2, <2>3, ReleasingControl
<1>2. CASE SecondPassRejects
  <2>1. PICK error \in {"SUCCESS", "ERR_OUT_OF_MEMEORY"} :
          /\ Fault(err = "SUCCESS" /\ error = "ERR_OUT_OF_MEMEORY")
          /\ ReturnReleasing(FALSE, error, {})
    BY <1>2 DEF SecondPassRejects
  <2>2. pc \in Active /\ error \in Errors
    BY <1>2 DEF SecondPassRejects, Active, Errors
  <2>3. faults' \in 0 .. MaxFaults
    BY <2>1, FaultType DEF ControlOK
  <2> QED BY <2>1, <2>2, <2>3, ReleasingControl
<1> QED BY <1>1, <1>2

LEMMA CannotCreateControl ==
  ASSUME ControlOK, pc \in Active, NEW suffix, CannotCreate(suffix)
  PROVE  ControlOK'
<1>1. faults' \in 0 .. MaxFaults
  BY FaultType DEF ControlOK, CannotCreate
<1> QED BY <1>1, ReleasingControl DEF CannotCreate, Errors

LEMMA NextOutputType ==
  ASSUME ControlOK, NEW suffix \in {"ob", "ext", "ent"}
  PROVE  /\ NextOutput(suffix) \in {"ext", "ent", "saved"}
         /\ NextOutput(suffix) = "ext" => has_external
         /\ NextOutput(suffix) = "ent" => has_entry
BY DEF NextOutput, ControlOK

LEMMA WriteControl ==
  ASSUME ControlOK, NEW suffix \in {"ob", "ext", "ent"}, pc = suffix,
         NEW text, Write(suffix, text, NextOutput(suffix))
  PROVE  ControlOK'
<1>1. /\ faults' \in 0 .. MaxFaults
      /\ pc' = NextOutput(suffix)
      /\ UNCHANGED <<inputVars, err, success, sourceVars, results, exit>>
  BY FaultType DEF ControlOK, Write
<1>2. /\ pc' \in {"ext", "ent", "saved"}
      /\ pc' = "ext" => has_external
      /\ pc' = "ent" => has_entry
  BY <1>1, NextOutputType
<1>3. /\ argv' = argv /\ turn' = turn /\ err' = err /\ success' = success
      /\ has_external' = has_external /\ has_entry' = has_entry /\ results' = results /\ exit' = exit
  BY <1>1 DEF inputVars, sourceVars
<1>4. exit = "running" /\ err = "SUCCESS" /\ Len(results) = turn - 1
  BY DEF ControlOK, Active
<1> QED BY <1>1, <1>2, <1>3, <1>4 DEF ControlOK, Active, OutOfMemory

LEMMA SaveControl ==
  ControlOK /\ (SaveObject \/ SaveListing("ext") \/ SaveListing("ent") \/ ReturnSuccess) => ControlOK'
<1> SUFFICES ASSUME ControlOK, SaveObject \/ SaveListing("ext") \/ SaveListing("ent") \/ ReturnSuccess
             PROVE  ControlOK'
  OBVIOUS
<1>1. pc \in Active
  BY DEF SaveObject, SaveListing, ReturnSuccess, Active
<1>2. CASE \E suffix : CannotCreate(suffix)
  BY <1>1, <1>2, CannotCreateControl
<1>3. CASE \E suffix \in {"ob", "ext", "ent"} : \E text :
             pc = suffix /\ Write(suffix, text, NextOutput(suffix))
  BY <1>3, WriteControl
<1>4. CASE \E ok \in BOOLEAN, error \in Errors :
             ReturnReleasing(ok, error, {}) /\ UNCHANGED <<disk, faults>>
  <2>1. faults' \in 0 .. MaxFaults
    BY <1>4 DEF ControlOK
  <2> QED BY <1>1, <1>4, <2>1, ReleasingControl
<1>5. \A suffix \in {"ext", "ent"} : SaveListing(suffix) =>
        \/ CannotCreate(suffix)
        \/ pc = suffix /\ Write(suffix, NoText, NextOutput(suffix))
  BY DEF SaveListing
<1>6. "ERR_FILENAME_TOO_LONG" \in Errors /\ "SUCCESS" \in Errors
  BY DEF Errors
<1>7. SaveObject =>
        \/ CannotCreate("ob")
        \/ pc = "ob" /\ Write("ob", toFile(memory.code, memory.data), NextOutput("ob"))
        \/ ReturnReleasing(FALSE, "ERR_FILENAME_TOO_LONG", {}) /\ UNCHANGED <<disk, faults>>
  BY DEF SaveObject
<1>8. ReturnSuccess => ReturnReleasing(TRUE, "SUCCESS", {}) /\ UNCHANGED <<disk, faults>>
  BY DEF ReturnSuccess
<1> QED BY <1>2, <1>3, <1>4, <1>5, <1>6, <1>7, <1>8

LEMMA CrashControl ==
  ControlOK /\ (ListingCrashes("ext") \/ ListingCrashes("ent") \/ Crash) => ControlOK'
<1> SUFFICES ASSUME ControlOK, ListingCrashes("ext") \/ ListingCrashes("ent") \/ Crash
             PROVE  ControlOK'
  OBVIOUS
<1>1. /\ pc \in Active /\ pc' = "exited" /\ exit' = "crashed"
      /\ UNCHANGED <<inputVars, err, success, sourceVars, results>>
      /\ \E fails : Fault(fails)
  BY DEF ListingCrashes, Crash, Unchecked, Overrun, Active
<1>2. faults' \in 0 .. MaxFaults
  BY <1>1, FaultType DEF ControlOK
<1> QED BY <1>1, <1>2 DEF ControlOK, inputVars, sourceVars, Active, OutOfMemory

LEMMA ControlStep == ControlOK /\ MemoryOK /\ [Next]_vars => ControlOK'
<1> SUFFICES ASSUME ControlOK, MemoryOK, [Next]_vars PROVE ControlOK'
  OBVIOUS
<1>1. CASE UNCHANGED vars \/ Terminated
  <2>1. UNCHANGED <<argv, turn, pc, err, success, has_external, has_entry, results, exit, faults>>
    BY <1>1 DEF Terminated, vars, inputVars, sourceVars, outcomeVars
  <2> QED BY <2>1 DEF ControlOK, OutOfMemory
<1>2. CASE Step
  BY <1>2, NextInputControl, MainControl, NewObjectsControl, OpenSourceControl, FirstPassWritesControl,
     SecondPassWritesControl, AcceptsControl, RejectsControl, SaveControl DEF Step
<1>3. CASE ListingCrashes("ext") \/ ListingCrashes("ent") \/ Crash
  BY <1>3, CrashControl
<1> QED BY <1>1, <1>2, <1>3 DEF Next

LEMMA MemoryInit == Init => MemoryOK
<1> SUFFICES ASSUME Init PROVE MemoryOK
  OBVIOUS
<1>1. memory = freedMemory /\ pc = "main" /\ exit = "running"
  BY DEF Init
<1> QED BY <1>1, FreedType DEF MemoryOK, Released, Active, freedMemory

LEMMA NewMemoryType ==
  /\ newMemory \in Memories
  /\ Holds(newMemory.data, "data") /\ Holds(newMemory.code, "code")
  /\ newMemory.data.size = newMemory.data_counter
<1>1. /\ newManagedArray \in ManagedArrays /\ newManagedArray.size = 0
      /\ Holds(newManagedArray, "data") /\ Holds(newManagedArray, "code")
  BY NewArrayType
<1> HIDE DEF newManagedArray
<1> QED BY <1>1 DEF newMemory, Memories

(* The image that cleanup leaves. *)
LEMMA ReleasedMemory ==
  ASSUME memory' = freedMemory, pc' = "returned"
  PROVE  MemoryOK'
<1>1. memory' \in Memories /\ memory'.data.data = NULL /\ memory'.code.data = NULL
  BY FreedType
<1> QED BY <1>1 DEF MemoryOK, Released, Active

LEMMA ReleasingMemory ==
  ASSUME NEW ok, NEW error, NEW closed, ReturnReleasing(ok, error, closed)
  PROVE  MemoryOK'
BY ReleasedMemory DEF ReturnReleasing, Return

LEMMA NewObjectsMemory == ControlOK /\ MemoryOK /\ NewObjects => MemoryOK'
<1> SUFFICES ASSUME ControlOK, MemoryOK, NewObjects PROVE MemoryOK'
  OBVIOUS
<1>1. PICK failed \in {{}} \cup {{object} : object \in Objects} :
        /\ memory' = IF "memory" \in failed THEN freedMemory ELSE newMemory
        /\ IF failed = {}
           THEN pc' = "open" /\ err' = "SUCCESS" /\ UNCHANGED <<inputVars, success, results, exit>>
           ELSE Return(FALSE, "ERR_OUT_OF_MEMEORY")
  BY DEF NewObjects
<1>2. memory' \in Memories
  BY <1>1, NewMemoryType, FreedType
<1>3. exit = "running"
  BY DEF NewObjects, ControlOK
<1>4. CASE failed = {}
  <2>1. memory' = newMemory /\ pc' = "open" /\ exit' = exit
    BY <1>1, <1>4
  <2>2. \A name \in {"data", "code"} : Holds(newMemory[name], name)
    BY NewMemoryType
  <2> QED BY <1>3, <2>1, <2>2, NewMemoryType DEF MemoryOK
<1>5. CASE failed # {}
  <2>1. pc' = "returned" /\ exit' = exit /\ success' = FALSE /\ err' = "ERR_OUT_OF_MEMEORY"
    BY <1>1, <1>5 DEF Return
  <2>2. OutOfMemory'
    BY <2>1 DEF OutOfMemory
  <2>3. \A name \in {"data", "code"} : Holds(memory'[name], name) \/ memory'[name].data = NULL
    BY <1>1, NewMemoryType, FreedType
  <2> QED BY <1>2, <1>3, <2>1, <2>2, <2>3 DEF MemoryOK, Active
<1> QED BY <1>4, <1>5

LEMMA FirstPassWritesMemory == ControlOK /\ MemoryOK /\ FirstPassWrites => MemoryOK'
<1> SUFFICES ASSUME ControlOK, MemoryOK, FirstPassWrites PROVE MemoryOK'
  OBVIOUS
<1>1. PICK n \in ChunkSizes, fails \in BOOLEAN : writeData(n, fails)
  BY DEF FirstPassWrites
<1>2. /\ memory \in Memories /\ Holds(memory.data, "data") /\ memory.data.size = memory.data_counter
      /\ Holds(memory.code, "code") /\ pc = "first" /\ pc' = "first" /\ exit' = "running"
  BY DEF FirstPassWrites, MemoryOK, Active, ControlOK, outcomeVars
<1>3. /\ memory' \in Memories /\ memory'.code = memory.code
      /\ \/ /\ err' = "SUCCESS" /\ Holds(memory'.data, "data")
            /\ memory'.data.size = memory'.data_counter
         \/ err' = "ERR_OUT_OF_MEMEORY" /\ memory'.data.data = NULL
  BY <1>1, <1>2, WriteDataType
<1> QED BY <1>2, <1>3 DEF MemoryOK

LEMMA SecondPassWritesMemory == ControlOK /\ MemoryOK /\ SecondPassWrites => MemoryOK'
<1> SUFFICES ASSUME ControlOK, MemoryOK, SecondPassWrites PROVE MemoryOK'
  OBVIOUS
<1>1. PICK fails \in BOOLEAN : writeCode(fails)
  BY DEF SecondPassWrites
<1>2. /\ memory \in Memories /\ Holds(memory.data, "data") /\ memory.data.size = memory.data_counter
      /\ Holds(memory.code, "code") /\ pc = "second" /\ pc' = "second" /\ exit' = "running"
  BY DEF SecondPassWrites, MemoryOK, Active, ControlOK, outcomeVars
<1>3. /\ memory' \in Memories /\ memory'.data = memory.data /\ memory'.data_counter = memory.data_counter
      /\ \/ err' = "SUCCESS" /\ Holds(memory'.code, "code")
         \/ err' = "ERR_OUT_OF_MEMEORY" /\ memory'.code.data = NULL
  BY <1>1, <1>2, WriteCodeType
<1> QED BY <1>2, <1>3 DEF MemoryOK

LEMMA MainMemory == ControlOK /\ MemoryOK /\ (NextInput \/ GoOn \/ ExitOutOfMemory \/ Exit) => MemoryOK'
<1> SUFFICES ASSUME ControlOK, MemoryOK, NextInput \/ GoOn \/ ExitOutOfMemory \/ Exit PROVE MemoryOK'
  OBVIOUS
<1>1. memory' = memory /\ err' = err /\ success' = success
  BY DEF NextInput, GoOn, ExitOutOfMemory, Exit, sourceVars
<1>2. CASE NextInput \/ Exit
  BY <1>1, <1>2 DEF NextInput, Exit, ControlOK, MemoryOK, Active, Released, outcomeVars
<1>3. CASE GoOn
  BY <1>1, <1>3 DEF GoOn, ControlOK, MemoryOK, Active, Released, OutOfMemory, outcomeVars
<1>4. CASE ExitOutOfMemory
  BY <1>1, <1>4 DEF ExitOutOfMemory, ControlOK, MemoryOK, Active, Released, OutOfMemory
<1> QED BY <1>2, <1>3, <1>4

LEMMA AcceptsMemory == ControlOK /\ MemoryOK /\ (FirstPassAccepts \/ SecondPassAccepts) => MemoryOK'
<1> SUFFICES ASSUME ControlOK, MemoryOK, FirstPassAccepts \/ SecondPassAccepts PROVE MemoryOK'
  OBVIOUS
<1>1. /\ memory' = memory /\ err' = err /\ exit' = exit /\ pc \in {"first", "second"}
      /\ pc' \in {"second", "ob"}
  BY DEF FirstPassAccepts, SecondPassAccepts, outcomeVars
<1> QED BY <1>1 DEF ControlOK, MemoryOK, Active, Released

LEMMA SaveMemory ==
  ControlOK /\ MemoryOK /\ (SaveObject \/ SaveListing("ext") \/ SaveListing("ent")) => MemoryOK'
<1> SUFFICES ASSUME ControlOK, MemoryOK, NEW suffix \in {"ob", "ext", "ent"}, pc = suffix,
                    \/ CannotCreate(suffix)
                    \/ \E text : Write(suffix, text, NextOutput(suffix))
                    \/ ReturnReleasing(FALSE, "ERR_FILENAME_TOO_LONG", {})
             PROVE  MemoryOK'
  BY DEF SaveObject, SaveListing
<1>1. CASE CannotCreate(suffix)
  BY <1>1, ReleasingMemory DEF CannotCreate
<1>2. CASE ReturnReleasing(FALSE, "ERR_FILENAME_TOO_LONG", {})
  BY <1>2, ReleasingMemory
<1>3. CASE \E text : Write(suffix, text, NextOutput(suffix))
  <2>1. memory' = memory /\ err' = err /\ exit' = exit /\ pc' = NextOutput(suffix)
    BY <1>3 DEF Write, sourceVars
  <2>2. pc' \in {"ext", "ent", "saved"}
    BY <2>1, NextOutputType
  <2> QED BY <2>1, <2>2 DEF ControlOK, MemoryOK, Active, Released
<1> QED BY <1>1, <1>2, <1>3

LEMMA MemoryStep == ControlOK /\ MemoryOK /\ [Next]_vars => MemoryOK'
<1> SUFFICES ASSUME ControlOK, MemoryOK, [Next]_vars PROVE MemoryOK'
  OBVIOUS
<1>1. CASE UNCHANGED vars \/ Terminated
  <2>1. UNCHANGED <<pc, err, success, memory, exit>>
    BY <1>1 DEF Terminated, vars, sourceVars, outcomeVars
  <2> QED BY <2>1 DEF MemoryOK, OutOfMemory, Released
<1>2. CASE OpenSource
  <2>1. CASE ReturnReleasing(FALSE, "FILE_OPEN_ERROR", {})
    BY <2>1, ReleasingMemory
  <2>2. CASE ~ ReturnReleasing(FALSE, "FILE_OPEN_ERROR", {})
    BY <1>2, <2>2 DEF OpenSource, ControlOK, MemoryOK, Active, Released, outcomeVars
  <2> QED BY <2>1, <2>2
<1>3. CASE FirstPassRejects \/ SecondPassRejects \/ ReturnSuccess
  BY <1>3, ReleasingMemory DEF FirstPassRejects, SecondPassRejects, ReturnSuccess
<1>4. CASE ListingCrashes("ext") \/ ListingCrashes("ent") \/ Crash
  <2>1. memory' = memory /\ pc' = "exited" /\ exit' = "crashed"
    BY <1>4 DEF ListingCrashes, Crash, sourceVars
  <2> QED BY <2>1 DEF MemoryOK, Active
<1> QED
  BY <1>1, <1>2, <1>3, <1>4, NewObjectsMemory, FirstPassWritesMemory, SecondPassWritesMemory,
     MainMemory, AcceptsMemory, SaveMemory DEF Next, Step

-----------------------------------------------------------------------------
(***************************************************************************)
(* What is allocated and open.                                             *)
(***************************************************************************)
LEMMA HeldInit == Init => HeldOK
BY DEF Init, HeldOK

(* A return that releases all that is held. *)
LEMMA ReleasingHeld ==
  ASSUME HeldOK, exit = "running", NEW ok, NEW error, NEW closed, held \subseteq Objects \cup closed,
         ReturnReleasing(ok, error, closed)
  PROVE  HeldOK'
<1>1. held' = {} /\ pc' = "returned" /\ exit' = "running"
  BY DEF ReturnReleasing, Return, cleanup
<1> QED BY <1>1 DEF HeldOK

LEMMA HeldStep == ControlOK /\ HeldOK /\ [Next]_vars => HeldOK'
<1> SUFFICES ASSUME ControlOK, HeldOK, [Next]_vars PROVE HeldOK'
  OBVIOUS
<1>1. CASE UNCHANGED vars \/ Terminated
  <2>1. UNCHANGED <<pc, err, success, held, exit>>
    BY <1>1 DEF Terminated, vars, sourceVars, outcomeVars
  <2> QED BY <2>1 DEF HeldOK, OutOfMemory
<1>2. CASE NextInput \/ Exit
  BY <1>2 DEF NextInput, Exit, HeldOK, ControlOK, sourceVars, outcomeVars
<1>3. CASE GoOn \/ ExitOutOfMemory
  BY <1>3 DEF GoOn, ExitOutOfMemory, HeldOK, ControlOK, OutOfMemory, sourceVars, outcomeVars
<1>4. CASE NewObjects
  <2>1. PICK failed \in {{}} \cup {{object} : object \in Objects} :
          /\ held' = Objects \ failed
          /\ IF failed = {}
             THEN pc' = "open" /\ err' = "SUCCESS" /\ UNCHANGED <<inputVars, success, results, exit>>
             ELSE Return(FALSE, "ERR_OUT_OF_MEMEORY")
    BY <1>4 DEF NewObjects
  <2>2. exit = "running" /\ exit' = exit
    BY <1>4, <2>1 DEF NewObjects, ControlOK, Return
  <2>3. CASE failed = {}
    BY <2>1, <2>2, <2>3 DEF HeldOK
  <2>4. CASE failed # {}
    <3>1. OutOfMemory' /\ pc' = "returned"
      BY <2>1, <2>4 DEF Return, OutOfMemory
    <3>2. "file" \notin held' /\ held' \subseteq Objects
      BY <2>1 DEF Objects
    <3> QED BY <2>2, <3>1, <3>2 DEF HeldOK
  <2> QED BY <2>3, <2>4
<1>5. CASE OpenSource
  <2>1. CASE ReturnReleasing(FALSE, "FILE_OPEN_ERROR", {})
    BY <1>5, <2>1, ReleasingHeld DEF OpenSource, HeldOK, ControlOK
  <2>2. CASE ~ ReturnReleasing(FALSE, "FILE_OPEN_ERROR", {})
    BY <1>5, <2>2 DEF OpenSource, HeldOK, ControlOK
  <2> QED BY <2>1, <2>2
<1>6. CASE FirstPassWrites \/ SecondPassWrites
  BY <1>6 DEF FirstPassWrites, SecondPassWrites, HeldOK, ControlOK, outcomeVars
<1>7. CASE FirstPassAccepts \/ SecondPassAccepts
  BY <1>7 DEF FirstPassAccepts, SecondPassAccepts, HeldOK, ControlOK, outcomeVars, Objects
<1>8. CASE FirstPassRejects
  <2>1. PICK error : ReturnReleasing(FALSE, error, {"file"})
    BY <1>8 DEF FirstPassRejects
  <2>2. held \subseteq Objects \cup {"file"} /\ exit = "running"
    BY <1>8 DEF FirstPassRejects, HeldOK, ControlOK
  <2> QED BY <2>1, <2>2, ReleasingHeld
<1>9. CASE SecondPassRejects
  <2>1. PICK error : ReturnReleasing(FALSE, error, {})
    BY <1>9 DEF SecondPassRejects
  <2>2. held \subseteq Objects \cup {} /\ exit = "running"
    BY <1>9 DEF SecondPassRejects, HeldOK, ControlOK
  <2> QED BY <2>1, <2>2, ReleasingHeld
<1>10. CASE SaveObject \/ SaveListing("ext") \/ SaveListing("ent") \/ ReturnSuccess
  <2>1. held \subseteq Objects \cup {} /\ held = Objects /\ exit = "running"
    BY <1>10 DEF SaveObject, SaveListing, ReturnSuccess, HeldOK, ControlOK
  <2>2. CASE \E ok, error : ReturnReleasing(ok, error, {})
    BY <2>1, <2>2, ReleasingHeld
  <2>3. CASE \E suffix \in {"ob", "ext", "ent"} : \E text : Write(suffix, text, NextOutput(suffix))
    <3>1. PICK suffix \in {"ob", "ext", "ent"} : \E text : Write(suffix, text, NextOutput(suffix))
      BY <2>3
    <3>2. held' = held /\ exit' = exit /\ pc' \in {"ext", "ent", "saved"}
      BY <3>1, NextOutputType DEF Write, sourceVars
    <3> QED BY <2>1, <3>2 DEF HeldOK
  <2>4. SaveObject => \/ \E ok, error : ReturnReleasing(ok, error, {})
                      \/ \E text : Write("ob", text, NextOutput("ob"))
    BY DEF SaveObject, CannotCreate
  <2>5. \A suffix \in {"ext", "ent"} :
          SaveListing(suffix) => \/ \E ok, error : ReturnReleasing(ok, error, {})
                                 \/ \E text : Write(suffix, text, NextOutput(suffix))
    BY DEF SaveListing, CannotCreate
  <2>6. ReturnSuccess => \E ok, error : ReturnReleasing(ok, error, {})
    BY DEF ReturnSuccess
  <2> QED BY <1>10, <2>2, <2>3, <2>4, <2>5, <2>6
<1>11. CASE ListingCrashes("ext") \/ ListingCrashes("ent") \/ Crash
  <2>1. held' = held /\ pc' = "exited" /\ exit' = "crashed"
    BY <1>11 DEF ListingCrashes, Crash, sourceVars
  <2> QED BY <2>1 DEF HeldOK
<1> QED
  BY <1>1, <1>2, <1>3, <1>4, <1>5, <1>6, <1>7, <1>8, <1>9, <1>10, <1>11 DEF Next, Step

-----------------------------------------------------------------------------
(***************************************************************************)
(* The files on disk.                                                      *)
(***************************************************************************)
Extensions == {"ob", "ext", "ent"}

LEMMA OutputType ==
  ASSUME argv \in Inputs, NEW t \in 1 .. Len(argv), NEW suffix \in Extensions
  PROVE  <<OutputName(argv[t]), suffix>> \in Output
<1>1. argv[t] \in Range(argv)
  BY InputType DEF Range
<1>2. argv[t] \in UNION {Range(paths) : paths \in Inputs}
  BY <1>1
<1> QED BY <1>2, SMTT(30) DEF Output, Extensions

LEMMA OutputPair ==
  ASSUME NEW output \in Output
  PROVE  /\ output = <<output[1], output[2]>> /\ output[2] \in Extensions
         /\ <<output[1], "ob">> \in Output
<1>1. PICK path \in UNION {Range(paths) : paths \in Inputs}, suffix \in Extensions :
        output = <<OutputName(path), suffix>>
  BY DEF Output, Extensions
<1>2. output[1] = OutputName(path)
  BY <1>1
<1>3. <<OutputName(path), "ob">> \in Output
  BY DEF Output
<1> QED BY <1>1, <1>2, <1>3

LEMMA ActiveTurn == ControlOK /\ pc \in Active => turn \in 1 .. Len(argv) /\ Len(results) = turn - 1
<1> SUFFICES ASSUME ControlOK, pc \in Active PROVE turn \in 1 .. Len(argv) /\ Len(results) = turn - 1
  OBVIOUS
<1>1. results \in Seq(Results) /\ Len(results) = turn - 1 /\ turn \in 0 .. Len(argv)
  BY DEF ControlOK
<1> QED BY <1>1

(* A file of the input at hand is written. *)
LEMMA FileWritten ==
  ASSUME ControlOK, DiskOK, pc \in Active, NEW suffix \in Extensions, NEW whole \in BOOLEAN, NEW text,
         disk' = [disk EXCEPT ![<<Name, suffix>>] = File(whole, text)]
  PROVE  /\ <<Name, suffix>> \in Output
         /\ DOMAIN disk' = Output
         /\ \A output \in Output :
              disk'[output] = IF output = <<Name, suffix>> THEN File(whole, text) ELSE disk[output]
<1>1. <<Name, suffix>> \in Output
  BY ActiveTurn, OutputType DEF ControlOK, Name, Path
<1> QED BY <1>1 DEF DiskOK

LEMMA WrittenDisk ==
  ASSUME ControlOK, DiskOK, pc \in Active, turn' = turn, NEW suffix \in Extensions, NEW whole \in BOOLEAN,
         NEW text, disk' = [disk EXCEPT ![<<Name, suffix>>] = File(whole, text)]
  PROVE  DiskOK'
<1>1. turn \in -1 .. turn
  BY ActiveTurn
<1> DEFINE file == File(whole, text)
<1>2. file.turn = turn /\ file.whole = whole /\ file = [turn |-> file.turn, whole |-> file.whole, text |-> file.text]
  BY DEF File
<1> HIDE DEF file
<1>3. /\ DOMAIN disk' = Output
      /\ \A output \in Output : disk'[output] = IF output = <<Name, suffix>> THEN file ELSE disk[output]
  BY FileWritten DEF file
<1> QED BY <1>1, <1>2, <1>3, SMTT(30) DEF DiskOK

LEMMA DiskInit == Init => DiskOK
<1> SUFFICES ASSUME Init PROVE DiskOK
  OBVIOUS
<1>1. PICK before \in {-1, 0} : disk = [output \in Output |-> [NoFile EXCEPT !.turn = before]]
  BY DEF Init
<1> DEFINE file == [NoFile EXCEPT !.turn = before]
<1>2. file \in [turn : {-1, 0}, whole : BOOLEAN, text : {NoText}]
  BY DEF NoFile
<1>3. turn = 0
  BY DEF Init
<1> HIDE DEF file
<1>4. \A output \in Output : disk[output] = file
  BY <1>1 DEF file
<1>5. disk = [output \in Output |-> disk[output]]
  BY <1>1
<1>6. file.turn \in -1 .. 0 /\ file.whole \in BOOLEAN
      /\ file = [turn |-> file.turn, whole |-> file.whole, text |-> file.text]
  BY <1>2
<1> QED BY <1>3, <1>4, <1>5, <1>6 DEF DiskOK

(* Of each step, what it does with the disk. *)
LEMMA DiskSteps ==
  ASSUME ControlOK, [Next]_vars
  PROVE  /\ argv' = argv
         /\ \/ disk' = disk /\ (turn' = turn \/ turn' = turn + 1)
            \/ /\ pc \in Active /\ turn' = turn
               /\ \E suffix \in Extensions, whole \in BOOLEAN : \E text :
                    disk' = [disk EXCEPT ![<<Name, suffix>>] = File(whole, text)]
<1>1. CASE SaveObject \/ SaveListing("ext") \/ SaveListing("ent")
  BY <1>1 DEF SaveObject, SaveListing, CannotCreate, Write, ReturnReleasing, Return, inputVars, Active, Extensions
<1>2. CASE ListingCrashes("ext") \/ ListingCrashes("ent")
  BY <1>2 DEF ListingCrashes, inputVars, Active, Extensions
<1>3. CASE Crash
  BY <1>3 DEF Crash, inputVars
<1>4. CASE UNCHANGED vars \/ Terminated
  BY <1>4 DEF Terminated, vars, inputVars, outcomeVars
<1>5. CASE NextInput \/ GoOn \/ ExitOutOfMemory \/ Exit
  BY <1>5 DEF NextInput, GoOn, ExitOutOfMemory, Exit, inputVars, outcomeVars
<1>6. CASE NewObjects
  BY <1>6 DEF NewObjects, Return, inputVars
<1>7. CASE OpenSource \/ FirstPassWrites \/ FirstPassAccepts \/ SecondPassWrites \/ SecondPassAccepts
  BY <1>7 DEF OpenSource, FirstPassWrites, FirstPassAccepts, SecondPassWrites, SecondPassAccepts,
              ReturnReleasing, Return, inputVars, outcomeVars
<1>8. CASE FirstPassRejects \/ SecondPassRejects \/ ReturnSuccess
  BY <1>8 DEF FirstPassRejects, SecondPassRejects, ReturnSuccess, ReturnReleasing, Return, inputVars
<1> QED BY <1>1, <1>2, <1>3, <1>4, <1>5, <1>6, <1>7, <1>8 DEF Next, Step

LEMMA DiskStep == ControlOK /\ DiskOK /\ [Next]_vars => DiskOK'
<1> SUFFICES ASSUME ControlOK, DiskOK, [Next]_vars PROVE DiskOK'
  OBVIOUS
<1>1. CASE disk' = disk /\ (turn' = turn \/ turn' = turn + 1)
  <2>1. turn \in Nat /\ \A t \in -1 .. turn : t \in -1 .. turn'
    BY <1>1 DEF ControlOK
  <2> QED BY <1>1, <2>1 DEF DiskOK
<1> QED BY <1>1, DiskSteps, WrittenDisk

-----------------------------------------------------------------------------
(***************************************************************************)
(* The files and the results that were reported.                           *)
(***************************************************************************)
LEMMA FilesInit == Init => FilesOK
<1> SUFFICES ASSUME Init PROVE FilesOK
  OBVIOUS
<1>1. results = <<>> /\ turn = 0 /\ pc = "main" /\ Len(results) = 0 /\ DOMAIN results = {}
  BY DEF Init
<1>2. DiskOK
  BY DiskInit
<1>3. \A output \in Output : ~ (disk[output].turn > 0) /\ disk[output].turn \notin DOMAIN results
  BY <1>1, <1>2 DEF DiskOK
<1> QED BY <1>1, <1>3 DEF FilesOK, Active

(* A step that writes no file and reports no result. *)
LEMMA SameFiles ==
  ASSUME ControlOK, DiskOK, FilesOK, exit # "crashed", UNCHANGED <<argv, disk, results>>,
         \/ exit' = "crashed"
         \/ turn' = turn /\ Written' = Written /\ (pc' \in Active => pc \in Active)
         \/ turn = Len(results) /\ turn' = turn + 1 /\ Written' = {}
  PROVE  FilesOK'
<1>1. CASE exit' = "crashed"
  BY <1>1 DEF FilesOK
<1>2. CASE turn' = turn /\ Written' = Written /\ (pc' \in Active => pc \in Active)
  <2>1. Name' = Name
    BY <1>2 DEF Name, Path
  <2> QED BY <1>2, <2>1 DEF FilesOK
<1>3. CASE turn = Len(results) /\ turn' = turn + 1 /\ Written' = {}
  <2>1. \A output \in Output : ~ (disk[output].turn > Len(results))
    BY <1>3 DEF DiskOK, ControlOK
  <2> QED BY <1>3, <2>1 DEF FilesOK
<1> QED BY <1>1, <1>2, <1>3

(* A return, with all of the outputs written, or none, or some but not the   *)
(* one that could not be created.                                            *)
LEMMA ReturnFiles ==
  ASSUME ControlOK, DiskOK, FilesOK, pc \in Active, NEW ok \in BOOLEAN, NEW error,
         Return(ok, error), disk' = disk,
         ok => Written = Outputs(has_external, has_entry),
         ~ ok /\ error # "ERR_CREATING_OUTPUT_FILE" => Written = {},
         Written \subseteq Outputs(has_external, has_entry)
  PROVE  FilesOK'
<1> DEFINE result == [success |-> ok, err |-> error, outputs |-> Outputs(has_external, has_entry)]
<1>1. /\ results' = Append(results, result)
      /\ argv' = argv /\ turn' = turn /\ pc' = "returned" /\ exit' = exit
  BY DEF Return, inputVars
<1>2. result.success = ok /\ result.err = error /\ result.outputs = Outputs(has_external, has_entry)
  OBVIOUS
<1> HIDE DEF result
<1>3. turn \in 1 .. Len(argv) /\ Len(results) = turn - 1 /\ results \in Seq(Results) /\ exit # "crashed"
  BY ActiveTurn DEF ControlOK, Active
<1>4. /\ DOMAIN results = 1 .. turn - 1 /\ DOMAIN results' = 1 .. turn /\ Len(results') = turn
      /\ results'[turn] = result /\ \A t \in 1 .. turn - 1 : results'[t] = results[t]
  BY <1>1, <1>3
<1>5. ASSUME NEW t \in DOMAIN results', results'[t].success, NEW suffix \in results'[t].outputs
      PROVE  disk'[<<OutputName(argv'[t]), suffix>>].turn >= t
  <2>1. CASE t = turn
    <3>1. suffix \in Written
      BY <1>2, <1>4, <1>5, <2>1
    <3>2. disk[<<Name, suffix>>].turn = turn
      BY <1>3, <3>1 DEF FilesOK
    <3> QED BY <1>1, <1>3, <2>1, <3>2 DEF Name, Path
  <2>2. CASE t # turn
    <3>1. t \in DOMAIN results /\ results'[t] = results[t]
      BY <1>3, <1>4, <1>5, <2>2
    <3> QED BY <1>1, <1>3, <1>5, <3>1 DEF FilesOK
  <2> QED BY <2>1, <2>2
<1>6. ASSUME NEW output \in Output
      PROVE  LET t == disk'[output].turn
             IN  /\ t \in DOMAIN results' =>
                      /\ OutputName(argv'[t]) = output[1] /\ output[2] \in results'[t].outputs
                      /\ results'[t].success \/ results'[t].err = "ERR_CREATING_OUTPUT_FILE"
                 /\ ~ (t > Len(results'))
                 /\ t > 0 => disk'[<<output[1], "ob">>].turn >= t
  <2> DEFINE t == disk[output].turn
  <2>1. t \in -1 .. turn
    BY DEF DiskOK
  <2>2. CASE t = turn
    <3>1. output[1] = Name /\ output[2] \in Written
      <4>1. t > Len(results)
        BY <1>3, <2>2
      <4> QED BY <1>3, <4>1 DEF FilesOK
    <3>2. OutputName(argv[t]) = output[1] /\ output[2] \in Outputs(has_external, has_entry)
      BY <2>2, <3>1 DEF Name, Path
    <3>3. ok \/ error = "ERR_CREATING_OUTPUT_FILE"
      BY <3>1
    <3>4. disk[<<output[1], "ob">>].turn >= t
      BY <1>3, <2>2 DEF FilesOK
    <3> QED BY <1>1, <1>2, <1>3, <1>4, <2>2, <3>2, <3>3, <3>4
  <2>3. CASE t # turn
    <3>1. t \in DOMAIN results' => t \in DOMAIN results /\ results'[t] = results[t]
      BY <1>3, <1>4, <2>1, <2>3
    <3>2. ~ (t > turn)
      BY <1>3, <2>1
    <3> QED BY <1>1, <1>3, <1>4, <3>1, <3>2 DEF FilesOK
  <2> QED BY <2>2, <2>3
<1> QED BY <1>1, <1>5, <1>6 DEF FilesOK, Active

(* A file that is written joins those that are written. *)
LEMMA WriteFiles ==
  ASSUME ControlOK, DiskOK, FilesOK, NEW suffix \in Extensions, pc = suffix, NEW text,
         Write(suffix, text, NextOutput(suffix))
  PROVE  FilesOK'
<1>1. PICK whole \in BOOLEAN : disk' = [disk EXCEPT ![<<Name, suffix>>] = File(whole, text)]
  BY DEF Write
<1>2. /\ argv' = argv /\ turn' = turn /\ results' = results /\ exit' = exit
      /\ has_external' = has_external /\ has_entry' = has_entry /\ pc' = NextOutput(suffix)
      /\ Name' = Name
  BY DEF Write, inputVars, sourceVars, Name, Path
<1>3. pc \in Active /\ pc' \in {"ext", "ent", "saved"} /\ suffix \in {"ob", "ext", "ent"}
  BY <1>2, NextOutputType DEF Active, Extensions
<1>4. turn \in 1 .. Len(argv) /\ Len(results) = turn - 1 /\ results \in Seq(Results) /\ exit # "crashed"
  BY <1>3, ActiveTurn DEF ControlOK, Active
<1>5. /\ <<Name, suffix>> \in Output
      /\ \A output \in Output :
           disk'[output].turn = IF output = <<Name, suffix>> THEN turn ELSE disk[output].turn
  BY <1>1, <1>3, FileWritten DEF File
<1>6. Written' = Written \cup {suffix}
  <2>1. CASE pc = "ob"
    <3>1. Written = {}
      BY <2>1 DEF Written
    <3>2. Written' = {"ob"}
      <4>1. CASE has_external
        <5>1. pc' = "ext"
          BY <1>2, <2>1, <4>1 DEF NextOutput
        <5> QED BY <5>1 DEF Written
      <4>2. CASE ~ has_external /\ has_entry
        <5>1. Written' = Outputs(has_external, FALSE)
          BY <1>2, <2>1, <4>2 DEF Written, NextOutput
        <5> QED BY <4>2, <5>1 DEF Outputs
      <4>3. CASE ~ has_external /\ ~ has_entry
        <5>1. Written' = Outputs(has_external, has_entry)
          BY <1>2, <2>1, <4>3 DEF Written, NextOutput
        <5> QED BY <4>3, <5>1 DEF Outputs
      <4> QED BY <4>1, <4>2, <4>3
    <3> QED BY <2>1, <3>1, <3>2
  <2>2. CASE pc = "ext"
    <3>1. Written = {"ob"} /\ has_external
      BY <2>2 DEF Written, ControlOK
    <3>2. Written' = {"ob"} \cup {"ext"}
      BY <1>2, <2>2, <3>1 DEF Written, NextOutput, Outputs
    <3> QED BY <2>2, <3>1, <3>2
  <2>3. CASE pc = "ent"
    <3>1. Written = Outputs(has_external, FALSE) /\ has_entry
      BY <2>3 DEF Written, ControlOK
    <3>2. Written' = Outputs(has_external, has_entry)
      BY <1>2, <2>3 DEF Written, NextOutput
    <3>3. Outputs(has_external, TRUE) = Outputs(has_external, FALSE) \cup {"ent"}
      BY DEF Outputs
    <3> QED BY <2>3, <3>1, <3>2, <3>3 DEF Outputs
  <2> QED BY <1>3, <2>1, <2>2, <2>3
<1>7. "ob" \in Written \cup {suffix}
  BY <1>3 DEF Written, Outputs
<1>8. \A output \in Output : /\ disk[output].turn \in -1 .. turn /\ disk'[output].turn \in -1 .. turn
                              /\ disk'[output].turn >= disk[output].turn
  BY <1>4, <1>5 DEF DiskOK
<1>9. ASSUME NEW t \in DOMAIN results, results[t].success, NEW x \in results[t].outputs
      PROVE  disk'[<<OutputName(argv[t]), x>>].turn >= t
  <2>1. t \in 1 .. Len(argv) /\ x \in Extensions
    <3>1. results[t] \in Results /\ t \in 1 .. turn - 1
      BY <1>4
    <3> QED BY <1>4, <1>9, <3>1 DEF Results, Extensions
  <2>2. <<OutputName(argv[t]), x>> \in Output
    BY <2>1, OutputType DEF ControlOK
  <2>3. disk[<<OutputName(argv[t]), x>>].turn >= t
    BY <1>4, <1>9 DEF FilesOK
  <2> QED BY <1>8, <2>1, <2>2, <2>3
<1>10. \A x \in Written \cup {suffix} : disk'[<<Name, x>>].turn = turn
  <2>1. Written \subseteq Extensions
    BY DEF Written, Outputs, Extensions
  <2>2. ASSUME NEW x \in Written \cup {suffix} PROVE disk'[<<Name, x>>].turn = turn
    <3>1. x \in Extensions
      BY <2>1
    <3>2. <<Name, x>> \in Output
      BY <1>4, <3>1, OutputType DEF ControlOK, Name, Path
    <3>3. x \in Written => disk[<<Name, x>>].turn = turn
      BY <1>3, <1>4 DEF FilesOK
    <3>4. <<Name, x>> = <<Name, suffix>> <=> x = suffix
      OBVIOUS
    <3> QED BY <1>5, <3>2, <3>3, <3>4
  <2> QED BY <2>2
<1>11. ASSUME NEW output \in Output
       PROVE  LET t == disk'[output].turn
              IN  /\ t \in DOMAIN results =>
                       /\ OutputName(argv[t]) = output[1] /\ output[2] \in results[t].outputs
                       /\ results[t].success \/ results[t].err = "ERR_CREATING_OUTPUT_FILE"
                  /\ t > Len(results) => output[1] = Name /\ output[2] \in Written \cup {suffix}
                  /\ t > 0 => disk'[<<output[1], "ob">>].turn >= t
  <2>1. CASE output = <<Name, suffix>>
    <3>1. output[1] = Name /\ output[2] = suffix /\ disk'[output].turn = turn /\ turn \notin DOMAIN results
      BY <1>4, <1>5, <2>1
    <3>2. disk'[<<output[1], "ob">>].turn = turn
      BY <1>7, <1>10, <3>1
    <3> QED BY <1>4, <3>1, <3>2
  <2>2. CASE output # <<Name, suffix>>
    <3>1. disk'[output].turn = disk[output].turn
      BY <1>5, <2>2
    <3>2. <<output[1], "ob">> \in Output
      BY OutputPair
    <3>3. disk'[<<output[1], "ob">>].turn >= disk[<<output[1], "ob">>].turn
          /\ disk[<<output[1], "ob">>].turn \in Int /\ disk'[<<output[1], "ob">>].turn \in Int
      BY <1>4, <1>5, <1>8, <3>2
    <3>4. disk[output].turn \in Int
      BY <1>8
    <3> QED BY <1>4, <3>1, <3>3, <3>4 DEF FilesOK
  <2> QED BY <2>1, <2>2
<1> QED BY <1>2, <1>4, <1>6, <1>9, <1>10, <1>11 DEF FilesOK

LEMMA FilesStep == ControlOK /\ DiskOK /\ FilesOK /\ [Next]_vars => FilesOK'
<1> SUFFICES ASSUME ControlOK, DiskOK, FilesOK, [Next]_vars PROVE FilesOK'
  OBVIOUS
<1>1. CASE UNCHANGED vars \/ Terminated
  <2>1. /\ UNCHANGED <<argv, turn, pc, disk, results, exit>>
        /\ Written' = Written /\ Name' = Name
    BY <1>1 DEF Terminated, vars, inputVars, sourceVars, outcomeVars, Written, Outputs, Name, Path
  <2> QED BY <2>1 DEF FilesOK
<1>2. CASE NextInput
  <2>1. /\ UNCHANGED <<argv, disk, results, exit>> /\ turn' = turn + 1 /\ pc' = "new"
        /\ turn = Len(results) /\ exit # "crashed"
    BY <1>2 DEF NextInput, outcomeVars, ControlOK, Active
  <2>2. Written' = {}
    BY <2>1 DEF Written
  <2> QED BY <2>1, <2>2, SameFiles
<1>3. CASE GoOn \/ ExitOutOfMemory \/ Exit
  <2>1. /\ UNCHANGED <<argv, turn, disk, results>> /\ exit # "crashed"
        /\ pc \in {"main", "returned"} /\ pc' \in {"main", "exited"}
    BY <1>3 DEF GoOn, ExitOutOfMemory, Exit, inputVars, outcomeVars, ControlOK
  <2>2. Written' = Written /\ (pc' \in Active => pc \in Active)
    BY <2>1 DEF Written, Active
  <2> QED BY <2>1, <2>2, SameFiles
<1>4. CASE NewObjects
  <2>1. /\ pc = "new" /\ disk' = disk /\ exit # "crashed" /\ UNCHANGED <<has_external, has_entry>>
        /\ \/ pc' = "open" /\ UNCHANGED <<inputVars, success, results, exit>>
           \/ Return(FALSE, "ERR_OUT_OF_MEMEORY")
    BY <1>4 DEF NewObjects, ControlOK
  <2>2. CASE Return(FALSE, "ERR_OUT_OF_MEMEORY")
    BY <2>1, <2>2, ReturnFiles DEF Written, Active
  <2>3. CASE pc' = "open" /\ UNCHANGED <<inputVars, success, results, exit>>
    <3>1. UNCHANGED <<argv, turn, results>> /\ Written' = Written /\ pc \in Active
      BY <2>1, <2>3 DEF Written, Active, inputVars
    <3> QED BY <2>1, <3>1, SameFiles
  <2> QED BY <2>1, <2>2, <2>3
<1>5. CASE OpenSource
  <2>1. pc = "open" /\ disk' = disk /\ exit # "crashed"
    BY <1>5 DEF OpenSource, ControlOK
  <2>2. CASE ReturnReleasing(FALSE, "FILE_OPEN_ERROR", {})
    BY <2>1, <2>2, ReturnFiles DEF ReturnReleasing, Written, Active
  <2>3. CASE ~ ReturnReleasing(FALSE, "FILE_OPEN_ERROR", {})
    <3>1. UNCHANGED <<argv, turn, results>> /\ pc' = "first"
      BY <1>5, <2>3 DEF OpenSource, inputVars
    <3>2. Written' = Written /\ pc \in Active
      BY <2>1, <3>1 DEF Written, Active
    <3> QED BY <2>1, <3>1, <3>2, SameFiles
  <2> QED BY <2>2, <2>3
<1>6. CASE FirstPassWrites \/ SecondPassWrites \/ FirstPassAccepts \/ SecondPassAccepts
  <2>1. /\ UNCHANGED <<argv, turn, disk, results>> /\ exit # "crashed"
        /\ pc \in {"first", "second"} /\ pc' \in {"first", "second", "ob"}
    BY <1>6 DEF FirstPassWrites, SecondPassWrites, FirstPassAccepts, SecondPassAccepts,
                inputVars, outcomeVars, ControlOK
  <2>2. Written' = Written /\ pc \in Active
    BY <2>1 DEF Written, Active
  <2> QED BY <2>1, <2>2, SameFiles
<1>7. CASE FirstPassRejects \/ SecondPassRejects
  <2>1. /\ pc \in {"first", "second"} /\ disk' = disk
        /\ \E error : Return(FALSE, error)
    BY <1>7 DEF FirstPassRejects, SecondPassRejects, ReturnReleasing
  <2>2. Written = {} /\ pc \in Active
    BY <2>1 DEF Written, Active
  <2> QED BY <2>1, <2>2, ReturnFiles
<1>8. CASE SaveObject \/ SaveListing("ext") \/ SaveListing("ent")
  <2>1. PICK suffix \in Extensions :
          /\ pc = suffix
          /\ \/ CannotCreate(suffix)
             \/ \E text : Write(suffix, text, NextOutput(suffix))
             \/ pc = "ob" /\ ReturnReleasing(FALSE, "ERR_FILENAME_TOO_LONG", {}) /\ disk' = disk
    BY <1>8 DEF SaveObject, SaveListing, Extensions
  <2>2. pc \in Active /\ Written \subseteq Outputs(has_external, has_entry)
    BY <2>1 DEF Active, Extensions, Written, Outputs
  <2>3. CASE CannotCreate(suffix)
    BY <2>2, <2>3, ReturnFiles DEF CannotCreate, ReturnReleasing
  <2>4. CASE pc = "ob" /\ ReturnReleasing(FALSE, "ERR_FILENAME_TOO_LONG", {}) /\ disk' = disk
    <3>1. Written = {}
      BY <2>4 DEF Written
    <3> QED BY <2>2, <2>4, <3>1, ReturnFiles DEF ReturnReleasing
  <2> QED BY <2>1, <2>3, <2>4, WriteFiles
<1>9. CASE ReturnSuccess
  <2>1. pc \in Active /\ Written = Outputs(has_external, has_entry) /\ disk' = disk /\ Return(TRUE, "SUCCESS")
    BY <1>9 DEF ReturnSuccess, ReturnReleasing, Written, Active
  <2> QED BY <2>1, ReturnFiles
<1>10. CASE ListingCrashes("ext") \/ ListingCrashes("ent") \/ Crash
  BY <1>10 DEF ListingCrashes, Crash, FilesOK
<1> QED
  BY <1>1, <1>2, <1>3, <1>4, <1>5, <1>6, <1>7, <1>8, <1>9, <1>10 DEF Next, Step

-----------------------------------------------------------------------------
(***************************************************************************)
(* The promise of Batch.                                                   *)
(***************************************************************************)
LEMMA ListingsInOrder ==
  /\ <<"ext">> \o <<"ent">> = <<"ext", "ent">>
  /\ <<"ob">> \o <<"ext", "ent">> = <<"ob", "ext", "ent">>
<1> DEFINE s == <<"ext">> \o <<"ent">>
           t == <<"ob">> \o <<"ext", "ent">>
<1>1. s \in Seq({"ext", "ent"}) /\ Len(s) = 2 /\ s[1] = "ext" /\ s[2] = "ent"
  OBVIOUS
<1>2. <<"ob">> \in Seq(Extensions) /\ <<"ext", "ent">> \in Seq(Extensions)
  BY DEF Extensions
<1>3. t \in Seq(Extensions) /\ Len(t) = 3 /\ t[1] = "ob" /\ t[2] = "ext" /\ t[3] = "ent"
  BY <1>2
<1> HIDE DEF s, t
<1>4. s = [i \in 1 .. 2 |-> s[i]] /\ t = [i \in 1 .. 3 |-> t[i]]
  BY <1>1, <1>3
<1>5. s = <<"ext", "ent">>
  BY <1>1, <1>4
<1>6. t = <<"ob", "ext", "ent">>
  BY <1>3, <1>4
<1> QED BY <1>5, <1>6 DEF s, t

(* What is still to be written is what belongs to pc. *)
PendingByPc ==
  has_external \in BOOLEAN /\ has_entry \in BOOLEAN =>
    /\ pc = "ob" => Pending = IF has_external
                              THEN IF has_entry THEN <<"ob", "ext", "ent">> ELSE <<"ob", "ext">>
                              ELSE IF has_entry THEN <<"ob", "ent">> ELSE <<"ob">>
    /\ pc = "ext" /\ has_external => Pending = IF has_entry THEN <<"ext", "ent">> ELSE <<"ext">>
    /\ pc = "ent" /\ has_entry => Pending = <<"ent">>
    /\ pc \notin {"ob", "ext", "ent"} => Pending = <<>>

LEMMA PendingIs == PendingByPc
<1> SUFFICES ASSUME has_external \in BOOLEAN, has_entry \in BOOLEAN
             PROVE  PendingByPc
  BY DEF PendingByPc
<1>1. /\ <<"ob">> \o <<>> = <<"ob">> /\ <<"ext">> \o <<>> = <<"ext">>
  OBVIOUS
<1>2. \A x \in {"ext", "ent"} : <<"ob">> \o <<x>> = <<"ob", x>>
  <2> TAKE x \in {"ext", "ent"}
  <2> DEFINE s == <<"ob">> \o <<x>>
  <2>1. s \in Seq(Extensions) /\ Len(s) = 2 /\ s[1] = "ob" /\ s[2] = x
    BY DEF Extensions
  <2> HIDE DEF s
  <2>2. s = [i \in 1 .. 2 |-> s[i]]
    BY <2>1
  <2>3. s = <<"ob", x>>
    BY <2>1, <2>2
  <2> QED BY <2>3 DEF s
<1>3. pc = "ob" => Pending = IF has_external
                             THEN IF has_entry THEN <<"ob", "ext", "ent">> ELSE <<"ob", "ext">>
                             ELSE IF has_entry THEN <<"ob", "ent">> ELSE <<"ob">>
  <2>1. CASE has_external /\ has_entry
    BY <2>1, ListingsInOrder DEF Pending
  <2>2. CASE has_external /\ ~ has_entry
    BY <1>1, <1>2, <2>2 DEF Pending
  <2>3. CASE ~ has_external /\ has_entry
    BY <1>2, <2>3 DEF Pending
  <2>4. CASE ~ has_external /\ ~ has_entry
    BY <1>1, <2>4 DEF Pending
  <2> QED BY <2>1, <2>2, <2>3, <2>4
<1>4. pc = "ext" /\ has_external => Pending = IF has_entry THEN <<"ext", "ent">> ELSE <<"ext">>
  BY <1>1, ListingsInOrder DEF Pending
<1> QED BY <1>3, <1>4 DEF Pending, PendingByPc

LEMMA PendingNext == PendingByPc'
BY PendingIs, PTL

StageByPc ==
  pc \in Active \cup {"main", "returned", "exited"} =>
    /\ Stage = "reading" <=> pc \in {"new", "open", "first", "second"}
    /\ Stage = "writing" <=> pc \in {"ob", "ext", "ent", "saved"}
    /\ Stage = "lost" <=> pc = "returned" /\ OutOfMemory
    /\ Stage = "between" <=> pc = "main" \/ (pc = "returned" /\ ~ OutOfMemory)
    /\ Stage = "exited" <=> pc = "exited"

LEMMA StageIs == StageByPc
BY DEF Stage, Active, StageByPc

LEMMA StageNext == StageByPc'
BY StageIs, PTL

Done   == [t \in DOMAIN results |-> results[t].success]
Writer == [output \in Output |-> disk[output].turn]

LEMMA BatchInit == Init => Promise!Init
<1> SUFFICES ASSUME Init PROVE Promise!Init
  OBVIOUS
<1>1. ControlOK /\ DiskOK
  BY ControlInit, DiskInit
<1>2. turn = 0 /\ pc = "main" /\ results = <<>> /\ exit = "running"
  BY DEF Init
<1>3. Stage = "between" /\ Pending = <<>>
  BY <1>1, <1>2, StageIs, PendingIs DEF ControlOK, StageByPc, PendingByPc
<1>4. Done = <<>>
  BY <1>2 DEF Done
<1>5. \A output \in DOMAIN Writer : Writer[output] \in {-1, 0}
  BY <1>1, <1>2 DEF Writer, DiskOK
<1> QED BY <1>2, <1>3, <1>4, <1>5 DEF Promise!Init, Promise!Never, Promise!Earlier, Done, Writer

LEMMA SameDone == results' = results => Done' = Done
BY DEF Done

LEMMA SameWriter == disk' = disk => Writer' = Writer
BY DEF Writer

LEMMA AppendElements ==
  ASSUME NEW S, NEW s \in Seq(S), NEW e \in S
  PROVE  /\ Append(s, e) = [i \in 1 .. Len(s) + 1 |-> Append(s, e)[i]]
         /\ Append(s, e)[Len(s) + 1] = e /\ \A i \in 1 .. Len(s) : Append(s, e)[i] = s[i]
<1> DEFINE t == Append(s, e)
           n == Len(s)
<1>1. t \in Seq(S) /\ Len(t) = n + 1 /\ t[n + 1] = e /\ \A i \in 1 .. n : t[i] = s[i]
  OBVIOUS
<1> HIDE DEF t
<1>2. t = [i \in 1 .. n + 1 |-> t[i]]
  BY <1>1
<1> QED BY <1>1, <1>2 DEF t, n

LEMMA ReturnDone ==
  ASSUME ControlOK, NEW ok \in BOOLEAN, NEW error, Return(ok, error)
  PROVE  Done' = Append(Done, ok)
<1> DEFINE result == [success |-> ok, err |-> error, outputs |-> Outputs(has_external, has_entry)]
           n == Len(results)
<1>1. results' = Append(results, result) /\ results \in Seq(Results) /\ result.success = ok
  BY DEF Return, ControlOK
<1> HIDE DEF result
<1>2. /\ n \in Nat /\ DOMAIN results = 1 .. n /\ DOMAIN results' = 1 .. n + 1
      /\ results'[n + 1] = result /\ \A t \in 1 .. n : results'[t] = results[t]
  BY <1>1
<1>3. Done \in Seq(BOOLEAN) /\ Len(Done) = n
  <2>1. \A t \in 1 .. n : results[t] \in Results
    BY <1>1
  <2>2. \A t \in 1 .. n : results[t].success \in BOOLEAN
    BY <2>1 DEF Results
  <2> QED BY <1>2, <2>2 DEF Done
<1>4. /\ Append(Done, ok) = [t \in 1 .. n + 1 |-> Append(Done, ok)[t]]
      /\ Append(Done, ok)[n + 1] = ok /\ \A t \in 1 .. n : Append(Done, ok)[t] = Done[t]
  <2> DEFINE S == BOOLEAN
             s == Done
             e == ok
  <2>1. s \in Seq(S) /\ e \in S /\ n = Len(s)
    BY <1>3
  <2> HIDE DEF n, Done, S, s, e
  <2>2. /\ Append(s, e) = [t \in 1 .. Len(s) + 1 |-> Append(s, e)[t]]
        /\ Append(s, e)[Len(s) + 1] = e /\ \A t \in 1 .. Len(s) : Append(s, e)[t] = s[t]
    BY <2>1, AppendElements
  <2> QED BY <2>1, <2>2 DEF s, e
<1>5. \A t \in 1 .. n + 1 : results'[t].success = Append(Done, ok)[t]
  <2>1. \A t \in 1 .. n : Done[t] = results[t].success
    BY <1>2 DEF Done
  <2> QED BY <1>1, <1>2, <1>4, <2>1
<1>6. Done' = [t \in 1 .. n + 1 |-> results'[t].success]
  BY <1>2 DEF Done
<1> HIDE DEF n
<1> QED BY <1>4, <1>5, <1>6

LEMMA WrittenWriter ==
  ASSUME ControlOK, DiskOK, pc \in Active, NEW suffix \in Extensions, NEW whole \in BOOLEAN, NEW text,
         disk' = [disk EXCEPT ![<<Name, suffix>>] = File(whole, text)]
  PROVE  Writer' = [Writer EXCEPT ![<<OutputName(argv[turn]), suffix>>] = turn]
<1>1. \A output \in Output :
        disk'[output].turn = IF output = <<Name, suffix>> THEN turn ELSE disk[output].turn
  BY FileWritten DEF File
<1>2. <<Name, suffix>> = <<OutputName(argv[turn]), suffix>>
  BY DEF Name, Path
<1> QED BY <1>1, <1>2 DEF Writer

LEMMA BatchMain ==
  ASSUME ControlOK, ControlOK', NextInput \/ GoOn \/ ExitOutOfMemory \/ Exit
  PROVE  [Promise!Next]_(Promise!vars)
<1>1. Done' = Done /\ Writer' = Writer
  BY SameDone, SameWriter DEF NextInput, GoOn, ExitOutOfMemory, Exit, outcomeVars
<1>2. Pending = <<>> /\ Pending' = <<>>
  BY PendingIs, PendingNext DEF NextInput, GoOn, ExitOutOfMemory, Exit, ControlOK, PendingByPc
<1>3. CASE NextInput
  <2>1. Stage = "between" /\ Stage' = "reading"
    BY <1>3, StageIs, StageNext DEF ControlOK, NextInput, StageByPc
  <2>2. Promise!Begin
    BY <1>1, <1>2, <1>3, <2>1 DEF Promise!Begin, NextInput, outcomeVars, Done, Writer
  <2> QED BY <2>2 DEF Promise!Next
<1>4. CASE GoOn
  <2>1. Stage = "between" /\ Stage' = "between"
    BY <1>4, StageIs, StageNext DEF ControlOK, GoOn, OutOfMemory, StageByPc
  <2> QED BY <1>1, <1>2, <1>4, <2>1 DEF Promise!vars, GoOn, inputVars, outcomeVars, Done, Writer
<1>5. CASE Exit
  <2>1. Stage = "between" /\ Stage' = "exited"
    BY <1>5, StageIs, StageNext DEF ControlOK, Exit, StageByPc
  <2>2. Promise!Exit
    BY <1>1, <1>2, <1>5, <2>1 DEF Promise!Exit, Exit, inputVars, Done, Writer
  <2> QED BY <2>2 DEF Promise!Next
<1>6. CASE ExitOutOfMemory
  <2>1. Stage = "lost" /\ Stage' = "exited"
    BY <1>6, StageIs, StageNext DEF ControlOK, ExitOutOfMemory, OutOfMemory, StageByPc
  <2>2. Promise!Exit
    BY <1>1, <1>2, <1>6, <2>1 DEF Promise!Exit, ExitOutOfMemory, inputVars, Done, Writer
  <2> QED BY <2>2 DEF Promise!Next
<1> QED BY <1>3, <1>4, <1>5, <1>6
(* handleAssemblyFile returns: the input is done with. *)
LEMMA ReturnBatch ==
  ASSUME ControlOK, ControlOK', NEW ok \in BOOLEAN, NEW error, Return(ok, error), disk' = disk
  PROVE  /\ Done' = Append(Done, ok) /\ Writer' = Writer /\ Pending' = <<>>
         /\ UNCHANGED <<argv, turn, exit>>
         /\ Stage' = IF ~ ok /\ error = "ERR_OUT_OF_MEMEORY" THEN "lost" ELSE "between"
<1>1. pc' = "returned" /\ success' = ok /\ err' = error
  BY DEF Return
<1>2. Pending' = <<>>
  BY <1>1, PendingNext DEF ControlOK, PendingByPc
<1>3. Stage' = IF ~ ok /\ error = "ERR_OUT_OF_MEMEORY" THEN "lost" ELSE "between"
  BY <1>1, StageNext DEF ControlOK, StageByPc, OutOfMemory
<1> QED BY <1>2, <1>3, ReturnDone, SameWriter DEF Return, inputVars

LEMMA BatchReads ==
  ASSUME ControlOK, ControlOK',
         \/ NewObjects \/ OpenSource \/ FirstPassWrites \/ FirstPassAccepts \/ FirstPassRejects
         \/ SecondPassWrites \/ SecondPassAccepts \/ SecondPassRejects
  PROVE  [Promise!Next]_(Promise!vars)
<1>1. pc \in {"new", "open", "first", "second"} /\ disk' = disk
  BY DEF NewObjects, OpenSource, FirstPassWrites, FirstPassAccepts, FirstPassRejects,
         SecondPassWrites, SecondPassAccepts, SecondPassRejects, outcomeVars
<1>2. Stage = "reading" /\ Pending = <<>> /\ Writer' = Writer
  BY <1>1, StageIs, PendingIs, SameWriter DEF StageByPc, PendingByPc, ControlOK
<1>3. CASE \E error : Return(FALSE, error)
  <2>1. PICK error : Return(FALSE, error)
    BY <1>3
  <2>2. /\ Done' = Append(Done, FALSE) /\ Pending' = <<>> /\ UNCHANGED <<argv, turn, exit>>
        /\ Stage' = IF error = "ERR_OUT_OF_MEMEORY" THEN "lost" ELSE "between"
    BY <1>1, <2>1, ReturnBatch
  <2>3. CASE error = "ERR_OUT_OF_MEMEORY"
    BY <1>2, <2>2, <2>3 DEF Promise!Next, Promise!RunOutOfMemory, Done, Writer
  <2>4. CASE error # "ERR_OUT_OF_MEMEORY"
    BY <1>2, <2>2, <2>4 DEF Promise!Next, Promise!GiveUp, Done, Writer
  <2> QED BY <2>3, <2>4
<1>4. CASE SecondPassAccepts
  <2>1. pc' = "ob" /\ UNCHANGED <<argv, turn, results, exit>>
    BY <1>4 DEF SecondPassAccepts, inputVars, outcomeVars
  <2>2. Stage' = "writing" /\ Done' = Done
    BY <2>1, StageNext, SameDone DEF StageByPc, ControlOK
  <2>3. Pending' \in Promise!Needs
    BY <2>1, PendingNext DEF PendingByPc, ControlOK, Promise!Needs
  <2> QED BY <1>2, <2>1, <2>2, <2>3 DEF Promise!Next, Promise!Accept, Done, Writer
<1>5. CASE pc' \in {"open", "first", "second"} /\ UNCHANGED <<argv, turn, results, exit>>
  <2>1. Stage' = "reading" /\ Pending' = <<>> /\ Done' = Done
    BY <1>5, StageNext, PendingNext, SameDone DEF StageByPc, PendingByPc, ControlOK
  <2> QED BY <1>2, <1>5, <2>1 DEF Promise!vars, Done, Writer
<1>6. \/ \E error : Return(FALSE, error)
      \/ SecondPassAccepts
      \/ pc' \in {"open", "first", "second"} /\ UNCHANGED <<argv, turn, results, exit>>
  BY DEF NewObjects, OpenSource, FirstPassWrites, FirstPassAccepts, FirstPassRejects,
         SecondPassWrites, SecondPassRejects, ReturnReleasing, inputVars, outcomeVars
<1> QED BY <1>3, <1>4, <1>5, <1>6

(* The file at hand is the first of the list. *)
LEMMA PendingHead == ControlOK /\ pc \in Extensions => Pending # <<>> /\ Head(Pending) = pc
<1> SUFFICES ASSUME ControlOK, pc \in Extensions PROVE Pending # <<>> /\ Head(Pending) = pc
  OBVIOUS
<1>1. /\ has_external \in BOOLEAN /\ has_entry \in BOOLEAN
      /\ pc = "ext" => has_external
      /\ pc = "ent" => has_entry
  BY DEF ControlOK
<1>2. CASE pc = "ob"
  <2>1. Pending \in {<<"ob", "ext", "ent">>, <<"ob", "ext">>, <<"ob", "ent">>, <<"ob">>}
    BY <1>1, <1>2, PendingIs DEF PendingByPc
  <2> QED BY <1>2, <2>1
<1>3. CASE pc = "ext"
  <2>1. Pending \in {<<"ext", "ent">>, <<"ext">>}
    BY <1>1, <1>3, PendingIs DEF PendingByPc
  <2> QED BY <1>3, <2>1
<1>4. CASE pc = "ent"
  BY <1>1, <1>4, PendingIs DEF PendingByPc
<1> QED BY <1>2, <1>3, <1>4 DEF Extensions

(* A file that is written is the next one of the list. *)
LEMMA WriteBatch ==
  ASSUME ControlOK, ControlOK', DiskOK, NEW suffix \in Extensions, pc = suffix,
         NEW text, Write(suffix, text, NextOutput(suffix))
  PROVE  Promise!Publish
<1>1. /\ pc' = NextOutput(suffix)
      /\ UNCHANGED <<argv, turn, has_external, has_entry, results, exit>>
      /\ \E whole \in BOOLEAN : disk' = [disk EXCEPT ![<<Name, suffix>>] = File(whole, text)]
  BY DEF Write, inputVars, sourceVars
<1>2. Writer' = [Writer EXCEPT ![<<OutputName(argv[turn]), suffix>>] = turn]
  BY <1>1, WrittenWriter DEF Active, Extensions
<1>3. /\ suffix \in {"ob", "ext", "ent"} /\ pc' \in {"ext", "ent", "saved"}
      /\ pc = "ext" => has_external
      /\ pc = "ent" => has_entry
      /\ has_external \in BOOLEAN /\ has_entry \in BOOLEAN
  BY <1>1, NextOutputType DEF Extensions, ControlOK
<1>4. Stage = "writing" /\ Stage' = "writing" /\ Done' = Done
  BY <1>1, <1>3, StageIs, StageNext, SameDone DEF StageByPc, ControlOK
<1>5. Pending # <<>> /\ Head(Pending) = suffix /\ Pending' = Tail(Pending)
  <2>1. /\ Pending = CASE pc = "ob" /\ has_external /\ has_entry -> <<"ob", "ext", "ent">>
                       [] pc = "ob" /\ has_external /\ ~ has_entry -> <<"ob", "ext">>
                       [] pc = "ob" /\ ~ has_external /\ has_entry -> <<"ob", "ent">>
                       [] pc = "ob" /\ ~ has_external /\ ~ has_entry -> <<"ob">>
                       [] pc = "ext" /\ has_entry -> <<"ext", "ent">>
                       [] pc = "ext" /\ ~ has_entry -> <<"ext">>
                       [] pc = "ent" -> <<"ent">>
    BY <1>3, PendingIs DEF PendingByPc
  <2>2. /\ pc' = "ext" => Pending' = IF has_entry THEN <<"ext", "ent">> ELSE <<"ext">>
        /\ pc' = "ent" => Pending' = <<"ent">>
        /\ pc' = "saved" => Pending' = <<>>
    BY <1>1, <1>3, PendingNext DEF PendingByPc, ControlOK
  <2>3. /\ pc = "ob" => pc' = IF has_external THEN "ext" ELSE IF has_entry THEN "ent" ELSE "saved"
        /\ pc = "ext" => pc' = IF has_entry THEN "ent" ELSE "saved"
        /\ pc = "ent" => pc' = "saved"
    BY <1>1 DEF NextOutput
  <2>4. CASE pc = "ob" /\ has_external /\ has_entry
    BY <2>1, <2>2, <2>3, <2>4
  <2>5. CASE pc = "ob" /\ ~ (has_external /\ has_entry)
    BY <2>1, <2>2, <2>3, <2>5
  <2>6. CASE pc = "ext"
    BY <1>3, <2>1, <2>2, <2>3, <2>6
  <2>7. CASE pc = "ent"
    BY <2>1, <2>2, <2>3, <2>7
  <2> QED BY <1>3, <2>4, <2>5, <2>6, <2>7
<1> QED BY <1>1, <1>2, <1>4, <1>5 DEF Promise!Publish, Done, Writer

LEMMA BatchWrites ==
  ASSUME ControlOK, ControlOK', DiskOK,
         SaveObject \/ SaveListing("ext") \/ SaveListing("ent") \/ ReturnSuccess
  PROVE  [Promise!Next]_(Promise!vars)
<1>1. CASE \E suffix \in Extensions : \E text : pc = suffix /\ Write(suffix, text, NextOutput(suffix))
  BY <1>1, WriteBatch DEF Promise!Next
<1>2. CASE pc \in Extensions /\ disk' = disk
           /\ \E error \in {"ERR_CREATING_OUTPUT_FILE", "ERR_FILENAME_TOO_LONG"} : Return(FALSE, error)
  <2>1. PICK error \in {"ERR_CREATING_OUTPUT_FILE", "ERR_FILENAME_TOO_LONG"} : Return(FALSE, error)
    BY <1>2
  <2>2. Pending # <<>>
    BY <1>2, PendingHead
  <2>3. /\ Done' = Append(Done, FALSE) /\ Pending' = <<>> /\ UNCHANGED <<argv, turn, exit>>
        /\ Stage' = "between" /\ Writer' = Writer
    BY <1>2, <2>1, ReturnBatch
  <2> QED BY <2>2, <2>3 DEF Promise!Next, Promise!GiveUp, Done, Writer
<1>3. CASE ReturnSuccess
  <2>1. pc = "saved" /\ Return(TRUE, "SUCCESS") /\ disk' = disk
    BY <1>3 DEF ReturnSuccess, ReturnReleasing
  <2>2. Stage = "writing" /\ Pending = <<>>
    BY <2>1, StageIs, PendingIs DEF StageByPc, PendingByPc, ControlOK
  <2>3. /\ Done' = Append(Done, TRUE) /\ Pending' = <<>> /\ UNCHANGED <<argv, turn, exit>>
        /\ Stage' = "between" /\ Writer' = Writer
    BY <2>1, ReturnBatch
  <2> QED BY <2>2, <2>3 DEF Promise!Next, Promise!Complete, Done, Writer
<1> QED BY <1>1, <1>2, <1>3 DEF SaveObject, SaveListing, CannotCreate, ReturnReleasing, Extensions

LEMMA BatchCrashes ==
  ASSUME ControlOK, ControlOK', DiskOK, ListingCrashes("ext") \/ ListingCrashes("ent") \/ Crash
  PROVE  Promise!Crash
<1>1. /\ pc \in Active /\ pc' = "exited" /\ exit' = "crashed"
      /\ UNCHANGED <<argv, turn, has_external, has_entry, results>>
  BY DEF ListingCrashes, Crash, Unchecked, Overrun, Active, inputVars, sourceVars
<1>2. /\ Stage \in {"reading", "writing"} /\ Stage' = "exited" /\ Pending' = <<>> /\ Done' = Done
  BY <1>1, StageIs, StageNext, PendingNext, SameDone DEF StageByPc, PendingByPc, ControlOK, Active
<1>3. \/ Writer' = Writer
      \/ Pending # <<>> /\ Writer' = [Writer EXCEPT ![<<OutputName(argv[turn]), Head(Pending)>>] = turn]
  <2>1. CASE Crash
    BY <2>1, SameWriter DEF Crash
  <2>2. CASE \E suffix \in {"ext", "ent"} : ListingCrashes(suffix)
    <3>1. PICK suffix \in {"ext", "ent"} : ListingCrashes(suffix)
      BY <2>2
    <3>2. pc = suffix /\ disk' = [disk EXCEPT ![<<Name, suffix>>] = File(FALSE, NoText)]
      BY <3>1 DEF ListingCrashes
    <3>3. Writer' = [Writer EXCEPT ![<<OutputName(argv[turn]), suffix>>] = turn]
      BY <1>1, <3>2, WrittenWriter DEF Extensions
    <3>4. Pending # <<>> /\ Head(Pending) = suffix
      BY <3>2, PendingHead DEF Extensions
    <3> QED BY <3>3, <3>4
  <2> QED BY <2>1, <2>2
<1> QED BY <1>1, <1>2, <1>3 DEF Promise!Crash, Done, Writer

LEMMA BatchStep ==
  ControlOK /\ ControlOK' /\ DiskOK /\ [Next]_vars => [Promise!Next]_(Promise!vars)
<1> SUFFICES ASSUME ControlOK, ControlOK', DiskOK, [Next]_vars
             PROVE  [Promise!Next]_(Promise!vars)
  OBVIOUS
<1>1. CASE UNCHANGED vars \/ Terminated
  BY <1>1 DEF Terminated, vars, inputVars, sourceVars, outcomeVars, Promise!vars,
              Stage, Pending, OutOfMemory, Done, Writer
<1>2. CASE ListingCrashes("ext") \/ ListingCrashes("ent") \/ Crash
  BY <1>2, BatchCrashes DEF Promise!Next
<1> QED BY <1>1, <1>2, BatchMain, BatchReads, BatchWrites DEF Next, Step
-----------------------------------------------------------------------------
(***************************************************************************)
(* The text of a whole object file.                                        *)
(***************************************************************************)
IsImage(text) ==
  LET code == text.header[1]
      size == text.header[1] + text.header[2]
  IN  /\ \A i \in 0 .. size - 1 :
           ByteAt(text, INSTRUCTION_COUNTER_INITIAL_VALUE + i) =
             {IF i < code THEN <<"code", i + 1>> ELSE <<"data", i - code + 1>>}
      /\ \A row \in Range(text.rows) :
           /\ row.address % BYTES_PER_LINE = 0 /\ Len(row.bytes) <= BYTES_PER_LINE
           /\ row.address + Len(row.bytes) <= INSTRUCTION_COUNTER_INITIAL_VALUE + size

(* Of rows of four, the one that holds the byte behind i others.             *)
LEMMA RowOfByte ==
  ASSUME NEW image \in Seq(Byte), NEW rows, IsRows(rows, image, Len(image)),
         NEW i \in 0 .. Len(image) - 1, NEW r \in 1 .. Len(rows)
  PROVE  /\ 100 + i \in rows[r].address .. rows[r].address + Len(rows[r].bytes) - 1
              <=> r = i \div 4 + 1
         /\ r = i \div 4 + 1 => rows[r].bytes[(100 + i) - rows[r].address + 1] = image[i + 1]
<1> DEFINE n == Len(image)
           k == i \div 4 + 1
           m == i % 4
<1>1. n \in Nat /\ i \in Nat /\ i < n /\ k \in Nat /\ m \in 0 .. 3 /\ i = 4 * (k - 1) + m
  OBVIOUS
<1>2. /\ rows[r].address = 100 + 4 * (r - 1)
      /\ Len(rows[r].bytes) = IF 4 * r <= n THEN 4 ELSE n - 4 * (r - 1)
      /\ \A j \in 1 .. Len(rows[r].bytes) : rows[r].bytes[j] = image[4 * (r - 1) + j]
  BY DEF IsRows
<1>3. r \in Nat /\ r >= 1
  <2>1. Len(rows) \in Nat
    BY DEF IsRows
  <2> QED BY <2>1
<1> HIDE DEF n, k, m
<1>4. 100 + i \in rows[r].address .. rows[r].address + Len(rows[r].bytes) - 1 <=> r = k
  <2> DEFINE len == Len(rows[r].bytes)
  <2>1. len \in Int /\ len <= 4 /\ len <= n - 4 * (r - 1)
    BY <1>1, <1>2, <1>3
  <2>2. len = 4 \/ len = n - 4 * (r - 1)
    BY <1>2
  <2> HIDE DEF len
  <2>3. CASE r = k
    BY <1>1, <1>2, <1>3, <2>1, <2>2, <2>3 DEF len
  <2>4. CASE r < k
    <3>1. r <= k - 1 /\ 4 * r <= n
      BY <1>1, <1>3, <2>4
    <3>2. len = 4
      BY <1>2, <3>1 DEF len
    <3>3. rows[r].address + len - 1 < 100 + i
      <4>1. rows[r].address = 100 + 4 * (r - 1)
        BY <1>2
      <4> QED BY <1>1, <1>3, <3>1, <3>2, <4>1
    <3>4. 100 + i > rows[r].address + Len(rows[r].bytes) - 1
      BY <1>1, <1>2, <1>3, <3>3 DEF len
    <3>5. rows[r].address \in Int /\ Len(rows[r].bytes) \in Int
      BY <1>2, <1>3, <2>1 DEF len
    <3>6. 100 + i \notin rows[r].address .. rows[r].address + Len(rows[r].bytes) - 1
      BY <1>1, <3>4, <3>5
    <3> QED BY <1>1, <1>3, <2>4, <3>6
  <2>5. CASE r > k
    <3>1. rows[r].address > 100 + i
      BY <1>1, <1>2, <1>3, <2>5
    <3>2. rows[r].address \in Int /\ Len(rows[r].bytes) \in Int
      BY <1>2, <1>3, <2>1 DEF len
    <3>3. 100 + i \notin rows[r].address .. rows[r].address + Len(rows[r].bytes) - 1
      BY <1>1, <3>1, <3>2
    <3> QED BY <1>1, <1>3, <2>5, <3>3
  <2> QED BY <1>1, <1>3, <2>3, <2>4, <2>5
<1>5. r = k => rows[r].bytes[(100 + i) - rows[r].address + 1] = image[i + 1]
  <2> SUFFICES ASSUME r = k
               PROVE  rows[r].bytes[(100 + i) - rows[r].address + 1] = image[i + 1]
    OBVIOUS
  <2>1. (100 + i) - rows[r].address + 1 = m + 1 /\ 4 * (r - 1) + (m + 1) = i + 1
    <3>1. rows[r].address = 100 + 4 * (r - 1)
      BY <1>2
    <3> QED BY <1>1, <1>3, <3>1
  <2>2. m + 1 \in 1 .. Len(rows[r].bytes)
    BY <1>1, <1>2, <1>3
  <2> QED BY <1>2, <2>1, <2>2
<1> QED BY <1>4, <1>5 DEF k

(* What Memory_toFile makes of arrays that hold their bytes. *)
LEMMA ToFileType ==
  ASSUME NEW code, Holds(code, "code"), NEW data, Holds(data, "data")
  PROVE  toFile(code, data).header = <<code.size, data.size>> /\ IsImage(toFile(code, data))
<1> DEFINE Part(array) == [i \in 1 .. array.size |-> array.data[i - 1]]
           image       == Part(code) \o Part(data)
           c           == code.size
           d           == data.size
           text        == toFile(code, data)
<1>1. c \in Nat /\ d \in Nat
  <2>1. \A array, name : Holds(array, name) => array.size \in Nat
    BY CapacityType DEF Holds
  <2> QED BY <2>1
<1>2. ASSUME NEW name \in {"code", "data"}, NEW array, Holds(array, name), array.size \in Nat
      PROVE  /\ Part(array) \in Seq(Byte) /\ Len(Part(array)) = array.size
             /\ \A i \in 1 .. array.size : Part(array)[i] = <<name, i>>
  <2>1. ASSUME NEW i \in 1 .. array.size PROVE array.data[i - 1] = <<name, i>>
    <3>1. i - 1 \in 0 .. array.size - 1 /\ (i - 1) + 1 = i
      BY <1>2
    <3> QED BY <1>2, <3>1 DEF Holds
  <2>2. \A i \in 1 .. array.size : <<name, i>> \in Byte
    BY <1>2 DEF Byte
  <2>3. \A i \in 1 .. array.size : Part(array)[i] = <<name, i>>
    BY <2>1
  <2>4. Part(array) \in [1 .. array.size -> Byte]
    BY <2>1, <2>2
  <2> HIDE DEF Part
  <2>5. Part(array) \in Seq(Byte) /\ Len(Part(array)) = array.size
    BY <1>2, <2>4
  <2> QED BY <2>3, <2>5
<1>3. /\ Part(code) \in Seq(Byte) /\ Len(Part(code)) = c /\ \A i \in 1 .. c : Part(code)[i] = <<"code", i>>
      /\ Part(data) \in Seq(Byte) /\ Len(Part(data)) = d /\ \A i \in 1 .. d : Part(data)[i] = <<"data", i>>
  BY <1>1, <1>2
<1>4. text.header = <<c, d>> /\ text.rows = FileRows(image)
  BY DEF toFile, FileRows
<1> HIDE DEF Part, text
<1>5. image \in Seq(Byte) /\ Len(image) = c + d
  <2>1. \A s, t \in Seq(Byte) : s \o t \in Seq(Byte) /\ Len(s \o t) = Len(s) + Len(t)
    OBVIOUS
  <2> QED BY <1>3, <2>1
<1>6. ASSUME NEW i \in 0 .. c + d - 1
      PROVE  image[i + 1] = IF i < c THEN <<"code", i + 1>> ELSE <<"data", i - c + 1>>
  <2>1. CASE i < c
    <3>1. i + 1 \in 1 .. c
      BY <1>1, <2>1
    <3>2. image[i + 1] = Part(code)[i + 1]
      BY <1>1, <1>3, <3>1
    <3> QED BY <1>3, <2>1, <3>1, <3>2
  <2>2. CASE ~ (i < c)
    <3>1. i - c + 1 \in 1 .. d /\ i + 1 - c = i - c + 1 /\ i + 1 \in 1 .. c + d /\ i + 1 > c
      BY <1>1, <2>2
    <3>2. image[i + 1] = Part(data)[i + 1 - c]
      <4>1. \A s, t \in Seq(Byte) : \A j \in Len(s) + 1 .. Len(s) + Len(t) : (s \o t)[j] = t[j - Len(s)]
        OBVIOUS
      <4>2. i + 1 \in c + 1 .. c + d
        BY <1>1, <3>1
      <4>3. Part(code) \in Seq(Byte) /\ Part(data) \in Seq(Byte) /\ Len(Part(code)) = c /\ Len(Part(data)) = d
        BY <1>3
      <4>4. image[i + 1] = Part(data)[(i + 1) - Len(Part(code))]
        BY <4>1, <4>2, <4>3
      <4> QED BY <4>3, <4>4
    <3> QED BY <1>3, <2>2, <3>1, <3>2
  <2> QED BY <2>1, <2>2
<1> DEFINE rows == text.rows
<1>7. IsRows(rows, image, c + d)
  <2>1. IsRows(FileRows(image), image, Len(image))
    BY <1>5, FileRowsType
  <2> QED BY <1>4, <1>5, <2>1
<1>8. Len(rows) = (c + d + 3) \div 4 /\ rows \in Seq(Row)
  BY <1>7 DEF IsRows
<1>9. Range(rows) = {rows[r] : r \in 1 .. Len(rows)}
  BY <1>8 DEF Range
<1> HIDE DEF image, c, d, rows
<1>10. ASSUME NEW i \in 0 .. c + d - 1
       PROVE  ByteAt(text, INSTRUCTION_COUNTER_INITIAL_VALUE + i) =
                {IF i < c THEN <<"code", i + 1>> ELSE <<"data", i - c + 1>>}
  <2> DEFINE k == i \div 4 + 1
             Here(row) == 100 + i \in row.address .. row.address + Len(row.bytes) - 1
             B(row) == row.bytes[(100 + i) - row.address + 1]
  <2>1. k \in 1 .. Len(rows)
    BY <1>1, <1>8
  <2>2. i \in 0 .. Len(image) - 1 /\ IsRows(rows, image, Len(image))
    BY <1>1, <1>5, <1>7
  <2>3. /\ \A r \in 1 .. Len(rows) : Here(rows[r]) <=> r = k
        /\ B(rows[k]) = image[i + 1]
    <3>1. ASSUME NEW r \in 1 .. Len(rows)
          PROVE  (Here(rows[r]) <=> r = k) /\ (r = k => B(rows[r]) = image[i + 1])
      <4> HIDE DEF k
      <4>1. /\ 100 + i \in rows[r].address .. rows[r].address + Len(rows[r].bytes) - 1
                 <=> r = i \div 4 + 1
            /\ r = i \div 4 + 1 => rows[r].bytes[(100 + i) - rows[r].address + 1] = image[i + 1]
        BY <1>5, <2>2, RowOfByte
      <4> QED BY <4>1 DEF k
    <3> HIDE DEF k, Here, B
    <3> QED BY <2>1, <3>1
  <2> HIDE DEF k, Here, B
  <2>4. ByteAt(text, INSTRUCTION_COUNTER_INITIAL_VALUE + i) = {B(row) : row \in {q \in Range(rows) : Here(q)}}
    BY DEF ByteAt, INSTRUCTION_COUNTER_INITIAL_VALUE, B, Here, rows
  <2>5. {q \in Range(rows) : Here(q)} = {rows[k]}
    BY <1>9, <2>1, <2>3
  <2>6. {B(row) : row \in {q \in Range(rows) : Here(q)}} = {image[i + 1]}
    BY <2>3, <2>5
  <2> QED BY <1>6, <2>4, <2>6
<1>11. ASSUME NEW row \in Range(rows)
       PROVE  /\ row.address % BYTES_PER_LINE = 0 /\ Len(row.bytes) <= BYTES_PER_LINE
              /\ row.address + Len(row.bytes) <= INSTRUCTION_COUNTER_INITIAL_VALUE + (c + d)
  <2>1. PICK r \in 1 .. Len(rows) : row = rows[r]
    BY <1>9
  <2>2. /\ row.address = 100 + 4 * (r - 1)
        /\ Len(row.bytes) = IF 4 * r <= c + d THEN 4 ELSE c + d - 4 * (r - 1)
    <3> DEFINE n == c + d
    <3>1. IsRows(rows, image, n)
      BY <1>7
    <3> HIDE DEF n
    <3>2. /\ rows[r].address = 100 + 4 * (r - 1)
          /\ Len(rows[r].bytes) = IF 4 * r <= n THEN 4 ELSE n - 4 * (r - 1)
      BY <3>1 DEF IsRows
    <3> QED BY <1>1, <2>1, <3>2 DEF n
  <2>3. r \in Nat /\ r >= 1
    BY <1>1, <1>8
  <2>4. row.address = 4 * (24 + r) /\ 24 + r \in Nat
    BY <2>2, <2>3
  <2>5. row.address % 4 = 0
    BY <2>4
  <2> QED BY <1>1, <2>2, <2>3, <2>5 DEF INSTRUCTION_COUNTER_INITIAL_VALUE, BYTES_PER_LINE
<1>12. text.header[1] = c /\ text.header[2] = d
  BY <1>4
<1>13. IsImage(text)
  <2> DEFINE code1 == text.header[1]
             size  == text.header[1] + text.header[2]
  <2>1. code1 = c /\ size = c + d
    BY <1>12
  <2> HIDE DEF code1, size
  <2>2. \A i \in 0 .. size - 1 :
          ByteAt(text, INSTRUCTION_COUNTER_INITIAL_VALUE + i) =
            {IF i < code1 THEN <<"code", i + 1>> ELSE <<"data", i - code1 + 1>>}
    <3> TAKE i \in 0 .. size - 1
    <3>1. i \in 0 .. c + d - 1
      BY <1>1, <2>1
    <3>2. ByteAt(text, INSTRUCTION_COUNTER_INITIAL_VALUE + i) =
            {IF i < c THEN <<"code", i + 1>> ELSE <<"data", i - c + 1>>}
      BY <1>10, <3>1
    <3> QED BY <2>1, <3>2
  <2>3. \A row \in Range(text.rows) :
          /\ row.address % BYTES_PER_LINE = 0 /\ Len(row.bytes) <= BYTES_PER_LINE
          /\ row.address + Len(row.bytes) <= INSTRUCTION_COUNTER_INITIAL_VALUE + size
    BY <1>11, <2>1 DEF rows
  <2> QED BY <2>2, <2>3 DEF IsImage, code1, size
<1> QED BY <1>4, <1>13 DEF text, c, d

(* Every whole object file has such a text, and its header the sizes of the  *)
(* image while its input is being written.                                   *)
ObjectsOK ==
  \A output \in Output :
    output[2] = "ob" /\ disk[output].whole =>
      /\ IsImage(disk[output].text)
      /\ disk[output].turn = turn /\ pc \in {"ext", "ent", "saved"} =>
           disk[output].text.header = <<memory.code.size, memory.data_counter>>

LEMMA ObjectsInit == Init => ObjectsOK
<1> SUFFICES ASSUME Init PROVE ObjectsOK
  OBVIOUS
<1>1. PICK before \in {-1, 0} : disk = [output \in Output |-> [NoFile EXCEPT !.turn = before]]
  BY DEF Init
<1>2. \A output \in Output : disk[output].whole = FALSE
  BY <1>1 DEF NoFile
<1> QED BY <1>2 DEF ObjectsOK

(* What a step that writes no file does about the image. *)
LEMMA SameObjects ==
  ASSUME ObjectsOK, disk' = disk,
         \/ pc' \notin {"ext", "ent", "saved"}
         \/ pc \in {"ext", "ent", "saved"} /\ turn' = turn /\ memory' = memory
  PROVE  ObjectsOK'
BY DEF ObjectsOK

LEMMA WriteObjects ==
  ASSUME ControlOK, MemoryOK, DiskOK, FilesOK, ObjectsOK,
         NEW suffix \in Extensions, pc = suffix, NEW whole \in BOOLEAN, NEW text,
         suffix = "ob" => text = toFile(memory.code, memory.data),
         disk' = [disk EXCEPT ![<<Name, suffix>>] = File(whole, text)],
         UNCHANGED <<turn, memory>>
  PROVE  ObjectsOK'
<1>1. pc \in Active
  BY DEF Extensions, Active
<1>2. /\ <<Name, suffix>> \in Output
      /\ \A output \in Output :
           disk'[output] = IF output = <<Name, suffix>> THEN File(whole, text) ELSE disk[output]
  BY <1>1, FileWritten
<1> SUFFICES ASSUME NEW output \in Output, output[2] = "ob", disk'[output].whole
             PROVE  /\ IsImage(disk'[output].text)
                    /\ disk'[output].turn = turn /\ pc' \in {"ext", "ent", "saved"} =>
                         disk'[output].text.header = <<memory.code.size, memory.data_counter>>
  BY DEF ObjectsOK
<1>3. CASE output = <<Name, suffix>>
  <2>1. suffix = "ob" /\ text = toFile(memory.code, memory.data)
    BY <1>3
  <2>2. disk'[output] = File(whole, text) /\ whole = TRUE
    BY <1>2, <1>3 DEF File
  <2>3. disk'[output].text = text
    BY <2>2 DEF File
  <2>4. Holds(memory.code, "code") /\ Holds(memory.data, "data") /\ memory.data.size = memory.data_counter
    BY <2>1 DEF MemoryOK, ControlOK, Active
  <2> QED BY <2>1, <2>3, <2>4, ToFileType
<1>4. CASE output # <<Name, suffix>>
  <2>1. disk'[output] = disk[output]
    BY <1>2, <1>4
  <2>2. suffix = "ob" => disk[output].turn # turn
    <3> SUFFICES ASSUME suffix = "ob", disk[output].turn = turn PROVE FALSE
      OBVIOUS
    <3>1. turn > Len(results) /\ exit # "crashed"
      BY <1>1, ActiveTurn DEF ControlOK, Active
    <3>2. Written = {}
      BY DEF Written
    <3> QED BY <3>1, <3>2 DEF FilesOK
  <2> QED BY <2>1, <2>2 DEF ObjectsOK, Extensions
<1> QED BY <1>3, <1>4

LEMMA ObjectsStep ==
  ControlOK /\ MemoryOK /\ DiskOK /\ FilesOK /\ ObjectsOK /\ [Next]_vars => ObjectsOK'
<1> SUFFICES ASSUME ControlOK, MemoryOK, DiskOK, FilesOK, ObjectsOK, [Next]_vars PROVE ObjectsOK'
  OBVIOUS
<1>1. CASE UNCHANGED vars \/ Terminated
  BY <1>1 DEF Terminated, vars, inputVars, sourceVars, outcomeVars, ObjectsOK
<1>2. CASE NextInput \/ GoOn \/ ExitOutOfMemory \/ Exit
  BY <1>2, SameObjects DEF NextInput, GoOn, ExitOutOfMemory, Exit, outcomeVars
<1>3. CASE NewObjects \/ OpenSource \/ FirstPassWrites \/ FirstPassAccepts \/ FirstPassRejects
  BY <1>3, SameObjects DEF NewObjects, OpenSource, FirstPassWrites, FirstPassAccepts, FirstPassRejects,
                           ReturnReleasing, Return, outcomeVars
<1>4. CASE SecondPassWrites \/ SecondPassAccepts \/ SecondPassRejects
  BY <1>4, SameObjects DEF SecondPassWrites, SecondPassAccepts, SecondPassRejects,
                           ReturnReleasing, Return, outcomeVars
<1>5. CASE ReturnSuccess
  BY <1>5, SameObjects DEF ReturnSuccess, ReturnReleasing, Return
<1>6. CASE SaveObject
  <2>1. CASE disk' = disk /\ pc' = "returned"
    BY <2>1, SameObjects
  <2>2. CASE Write("ob", toFile(memory.code, memory.data), NextOutput("ob"))
    <3>1. pc = "ob" /\ UNCHANGED <<turn, memory>>
      BY <1>6, <2>2 DEF SaveObject, Write, inputVars, sourceVars
    <3>2. PICK whole \in BOOLEAN :
            disk' = [disk EXCEPT ![<<Name, "ob">>] = File(whole, toFile(memory.code, memory.data))]
      BY <2>2 DEF Write
    <3> QED BY <3>1, <3>2, WriteObjects DEF Extensions
  <2> QED BY <1>6, <2>1, <2>2 DEF SaveObject, CannotCreate, ReturnReleasing, Return
<1>7. ASSUME NEW suffix \in {"ext", "ent"}, SaveListing(suffix) \/ ListingCrashes(suffix) PROVE ObjectsOK'
  <2>1. CASE disk' = disk /\ pc' = "returned"
    BY <2>1, SameObjects
  <2>2. CASE Write(suffix, NoText, NextOutput(suffix)) \/ ListingCrashes(suffix)
    <3>1. pc = suffix /\ UNCHANGED <<turn, memory>>
      BY <1>7, <2>2 DEF SaveListing, ListingCrashes, Write, inputVars, sourceVars
    <3>2. PICK whole \in BOOLEAN : disk' = [disk EXCEPT ![<<Name, suffix>>] = File(whole, NoText)]
      BY <2>2 DEF Write, ListingCrashes
    <3> QED BY <1>7, <3>1, <3>2, WriteObjects DEF Extensions
  <2> QED BY <1>7, <2>1, <2>2 DEF SaveListing, CannotCreate, ReturnReleasing, Return
<1>8. CASE Crash
  BY <1>8, SameObjects DEF Crash
<1> QED BY <1>1, <1>2, <1>3, <1>4, <1>5, <1>6, <1>7, <1>8 DEF Next, Step

-----------------------------------------------------------------------------
(***************************************************************************)
(* The theorems.                                                           *)
(***************************************************************************)
DriverInvariant == ControlOK /\ MemoryOK /\ HeldOK /\ DiskOK /\ FilesOK /\ ObjectsOK

(* The invariant that every step of main, of handleAssemblyFile and of       *)
(* saveOutput preserves.                                                     *)
THEOREM DriverInductive == Spec => []DriverInvariant
<1>1. Init => DriverInvariant
  BY ControlInit, MemoryInit, HeldInit, DiskInit, FilesInit, ObjectsInit DEF DriverInvariant
<1>2. DriverInvariant /\ [Next]_vars => DriverInvariant'
  BY ControlStep, MemoryStep, HeldStep, DiskStep, FilesStep, ObjectsStep DEF DriverInvariant
<1> QED BY <1>1, <1>2, PTL DEF Spec

(* The variables of the driver keep their types, for every list of inputs.   *)
THEOREM DriverTypeCorrect == Spec => []TypeOK
<1>1. DriverInvariant => TypeOK
  <2> SUFFICES ASSUME DriverInvariant PROVE TypeOK
    OBVIOUS
  <2>1. ControlOK /\ MemoryOK /\ HeldOK /\ DiskOK
    BY DEF DriverInvariant
  <2>2. memory.data_counter \in Nat /\ memory.data \in ManagedArrays /\ memory.code \in ManagedArrays
    BY <2>1 DEF MemoryOK, Memories
  <2>3. \A array \in {memory.data, memory.code} :
          array.size \in Nat /\ array.capacity \in 0 .. TwoTo[SizeBits] - 1
    BY <2>2 DEF ManagedArrays
  <2>4. disk \in [Output -> [turn : -1 .. Len(argv), whole : BOOLEAN, text : {f.text : f \in Range(disk)}]]
    <3> DEFINE texts == {f.text : f \in Range(disk)}
               files == [turn : -1 .. Len(argv), whole : BOOLEAN, text : texts]
    <3>1. turn \in 0 .. Len(argv) /\ Len(argv) \in Nat
      BY <2>1, InputType DEF ControlOK
    <3>2. -1 .. turn \subseteq -1 .. Len(argv)
      BY <3>1
    <3>3. ASSUME NEW output \in Output PROVE disk[output] \in files
      <4>1. disk[output] \in Range(disk)
        BY <2>1 DEF DiskOK, Range
      <4>2. disk[output].text \in texts
        BY <4>1
      <4> HIDE DEF texts
      <4>3. /\ disk[output] = [turn |-> disk[output].turn, whole |-> disk[output].whole,
                               text |-> disk[output].text]
            /\ disk[output].turn \in -1 .. Len(argv) /\ disk[output].whole \in BOOLEAN
        BY <2>1, <3>2 DEF DiskOK
      <4> QED BY <4>2, <4>3
    <3> HIDE DEF files
    <3>4. disk = [output \in Output |-> disk[output]]
      BY <2>1 DEF DiskOK
    <3>5. disk \in [Output -> files]
      BY <3>3, <3>4
    <3> QED BY <3>5 DEF files
  <2>5. Len(results) <= turn
    BY <2>1, InputType DEF ControlOK
  <2> QED BY <2>1, <2>2, <2>3, <2>4, <2>5 DEF TypeOK, ControlOK, HeldOK, Active, Errors
<1> QED BY <1>1, DriverInductive, PTL

(* Whichever way handleAssemblyFile returns, all it allocated is released    *)
(* and its source is closed; only beside an allocation that failed something *)
(* is left, and then main exits.                                             *)
THEOREM ReturnsRelease == Spec => []NothingIsLeftBehind
<1>1. DriverInvariant => NothingIsLeftBehind
  BY DEF DriverInvariant, ControlOK, HeldOK, MemoryOK, Released, NothingIsLeftBehind, OutOfMemory
<1> QED BY <1>1, DriverInductive, PTL

(* ManagedArray_append never loses, moves or repeats a byte and never writes *)
(* behind its block, whatever the width of size_t, the sizes of the chunks   *)
(* and the allocations that fail.                                            *)
THEOREM ImagesHoldTheirBytes == Spec => []ArraysHoldWhatWasWritten
<1>1. DriverInvariant => ArraysHoldWhatWasWritten
  <2> SUFFICES ASSUME DriverInvariant, NEW name \in {"data", "code"}
               PROVE  LET array == memory[name]
                      IN  /\ array.data # NULL =>
                               /\ DOMAIN array.data = 0 .. array.capacity - 1
                               /\ \A i \in 0 .. array.size - 1 : array.data[i] = <<name, i + 1>>
                          /\ pc \in {"first", "second", "ob"} /\ err = "SUCCESS" =>
                               /\ array.data # NULL
                               /\ name = "data" => array.size = memory.data_counter
    BY DEF ArraysHoldWhatWasWritten
  <2>1. Holds(memory[name], name) \/ memory[name].data = NULL
    BY DEF DriverInvariant, MemoryOK
  <2>2. Holds(memory[name], name) =>
          /\ DOMAIN memory[name].data = 0 .. memory[name].capacity - 1
          /\ \A i \in 0 .. memory[name].size - 1 : memory[name].data[i] = <<name, i + 1>>
    BY DEF Holds
  <2>3. pc \in {"first", "second", "ob"} /\ err = "SUCCESS" =>
          Holds(memory[name], name) /\ (name = "data" => memory[name].size = memory.data_counter)
    BY DEF DriverInvariant, MemoryOK, Active
  <2>4. Holds(memory[name], name) => memory[name].data # NULL
    BY HoldsBlock
  <2> QED BY <2>1, <2>2, <2>3, <2>4
<1> QED BY <1>1, DriverInductive, PTL

(* The files on disk are those of the inputs that were reported to have      *)
(* written them, for every number of inputs and whatever names they share.   *)
THEOREM FilesMatchReports == Spec => []OutputsMatchResults
<1>1. DriverInvariant => OutputsMatchResults
  <2> SUFFICES ASSUME DriverInvariant, pc = "main" \/ exit \in {"0", "1"}
               PROVE  OutputsMatchResults
    BY DEF OutputsMatchResults
  <2>1. exit # "crashed" /\ Len(results) = turn /\ results \in Seq(Results) /\ turn \in Nat
    BY InputType DEF DriverInvariant, ControlOK, Active
  <2>2. \A output \in Output : disk[output].turn \in -1 .. turn
    BY DEF DriverInvariant, DiskOK
  <2>3. \A output \in Output : disk[output].turn > 0 => disk[output].turn \in DOMAIN results
    BY <2>1, <2>2
  <2> QED BY <2>1, <2>3 DEF DriverInvariant, FilesOK, OutputsMatchResults
<1> QED BY <1>1, DriverInductive, PTL

(* Every behaviour of the program keeps the promise of Batch: its files      *)
(* appear in order and under the name of the input at hand, an input that is *)
(* rejected writes none and keeps no other from being assembled.             *)
THEOREM DriverImplementsBatch == Spec => ImplementsBatch
<1>1. Init => Promise!Init
  BY BatchInit
<1>2. DriverInvariant /\ DriverInvariant' /\ [Next]_vars => [Promise!Next]_(Promise!vars)
  BY BatchStep DEF DriverInvariant
<1> QED BY <1>1, <1>2, DriverInductive, PTL DEF Spec, ImplementsBatch, Promise!Spec

(* A whole .ob file has every byte of the code and then of the data at one   *)
(* address, in rows of four from 100 on, whatever the sizes of the image,    *)
(* also when it is of an input that is done with.                            *)
THEOREM ObjectFilesAreImages == Spec => []ObjectFileIsTheImage
<1>1. DriverInvariant => ObjectFileIsTheImage
  BY DEF DriverInvariant, ObjectsOK, IsImage, ObjectFileIsTheImage
<1> QED BY <1>1, DriverInductive, PTL
=============================================================================
