---------------------------- MODULE QueueProofs -----------------------------
(***************************************************************************)
(* The device's byte queues: the rings between the two cores, and the path *)
(* of a channel over a UART.                                               *)
(*                                                                         *)
(* push and pop, cut at every byte and every access to an index, implement *)
(* one bounded queue, for rings, batches and indexes of every size.        *)
(*                                                                         *)
(* Each side works from an old copy of the other side's index.  The proof  *)
(* says how old it can be: what is filled, what push has written beyond it *)
(* and what pop has freed since push looked still fit the array together   *)
(* (Producer), and pop never goes beyond what was published when it looked *)
(* (Consumer).  So the two never touch the same byte, although the array   *)
(* is found through two different remainders of the same index.            *)
(*                                                                         *)
(* For the UART, what is queued, what will be answered and what write has  *)
(* decided to accept fit together (Fits), and nothing is latched when the  *)
(* driver is reset (Calm).                                                 *)
(***************************************************************************)
EXTENDS SpscByteRing, UartBackend, SequenceTheorems, TLAPS

(* The indexes wrap at a multiple of the capacity: in the code, both are    *)
(* powers of two, and "capacity" is far below 2^32.                        *)
RingSize ==
    /\ Capacity \in Nat \ {0} /\ MaxBatch \in Nat
    /\ \E k \in Nat : k >= 2 /\ Wrap = k * Capacity

Index == 0 .. Wrap - 1
Slot(i) == i % Capacity

(* i advanced by n.                                                        *)
Plus(i, n) == IF i + n < Wrap THEN i + n ELSE i + n - Wrap

-----------------------------------------------------------------------------
(* Arithmetic of indexes.                                                  *)

\* Division has one remainder.
LEMMA Remainder ==
    ASSUME NEW m \in Nat \ {0}, NEW q \in Int, NEW r \in 0 .. m - 1, NEW x \in Int,
           x = m * q + r
    PROVE  x % m = r
  OBVIOUS

\* Every number has one.
LEMMA Divided ==
    ASSUME NEW m \in Nat \ {0}, NEW x \in Int
    PROVE  \E q \in Int, r \in 0 .. m - 1 : x = m * q + r /\ x % m = r
  OBVIOUS

\* A multiple of the capacity is more than one step away.
LEMMA Multiple ==
    ASSUME NEW m \in Nat \ {0}, NEW z \in Int, 0 < m * z
    PROVE  m <= m * z
<1>1. z > 0
  OBVIOUS
<1> QED BY <1>1

\* Adding multiples leaves the remainder alone.
LEMMA Shifted ==
    ASSUME NEW m \in Nat \ {0}, NEW x \in Int, NEW k \in Int, NEW y \in Int, y = x + m * k
    PROVE  y % m = x % m
<1>1. PICK q \in Int, r \in 0 .. m - 1 : x = m * q + r /\ x % m = r
  BY Divided
<1>2. PICK p : p = q + k
  OBVIOUS
<1>3. p \in Int /\ y = m * p + r
  BY <1>1, <1>2
<1>4. m \in Nat \ {0} /\ r \in 0 .. m - 1 /\ y \in Int
  BY <1>1
<1>5. y % m = r
  BY ONLY <1>3, <1>4, SMTT(30)
<1> QED BY <1>1, <1>5

\* Two places less than a capacity apart are different.
LEMMA Apart ==
    ASSUME NEW m \in Nat \ {0}, NEW x \in Int, NEW y \in Int, x < y, y < x + m
    PROVE  x % m # y % m
<1>1. PICK q \in Int, r \in 0 .. m - 1 : x = m * q + r /\ x % m = r
  BY Divided, Zenon
<1>2. PICK p \in Int, s \in 0 .. m - 1 : y = m * p + s /\ y % m = s
  BY Divided, Zenon
<1>3. SUFFICES ASSUME r = s PROVE FALSE
  BY <1>1, <1>2
<1>4. PICK z : z = p - q
  OBVIOUS
<1>5. z \in Int /\ y - x = m * z
  BY <1>1, <1>2, <1>3, <1>4
<1>6. 0 < m * z /\ m * z < m
  BY <1>5
<1> QED BY <1>5, <1>6, Multiple

\* What the assumption says of the two sizes.
LEMMA Sizes ==
    ASSUME RingSize
    PROVE  Capacity \in Nat \ {0} /\ Wrap \in Nat /\ Wrap >= 2 * Capacity
<1>1. PICK k \in Nat : k >= 2 /\ Wrap = k * Capacity
  BY DEF RingSize
<1>2. Capacity \in Nat \ {0}
  BY DEF RingSize
<1>3. PICK j : j = k - 2
  OBVIOUS
<1>4. j \in Nat /\ k = j + 2
  BY <1>1, <1>3
<1>5. Wrap = j * Capacity + 2 * Capacity /\ j * Capacity \in Nat
  BY <1>1, <1>2, <1>4
<1> QED BY <1>2, <1>5

\* The wrapping difference and successor, without remainders.
LEMMA Wrapping ==
    ASSUME RingSize
    PROVE  /\ \A t, h \in Index : Distance(t, h) = IF t >= h THEN t - h ELSE t + Wrap - h
           /\ \A i \in Index : Successor(i) = Plus(i, 1)
<1>1. Wrap \in Nat \ {0}
  BY Sizes
<1>2. ASSUME NEW x \in Nat, x < Wrap PROVE x % Wrap = x
  <2>1. x = Wrap * 0 + x /\ x \in 0 .. Wrap - 1
    BY <1>1, <1>2
  <2> QED BY <1>1, <2>1, Remainder
<1>3. ASSUME NEW x \in Nat, Wrap <= x, x < 2 * Wrap PROVE x % Wrap = x - Wrap
  <2>1. PICK r : r = x - Wrap
    OBVIOUS
  <2>2. x = Wrap * 1 + r /\ r \in 0 .. Wrap - 1
    BY <1>1, <1>3, <2>1
  <2> QED BY <1>1, <2>1, <2>2, Remainder
<1>4. ASSUME NEW t \in Index, NEW h \in Index
      PROVE  Distance(t, h) = IF t >= h THEN t - h ELSE t + Wrap - h
  <2>1. PICK x : x = t + Wrap - h
    OBVIOUS
  <2>2. x \in Nat /\ x < 2 * Wrap /\ (t >= h <=> Wrap <= x)
    BY <1>1, <2>1 DEF Index
  <2>3. x % Wrap = IF t >= h THEN x - Wrap ELSE x
    BY <1>1, <1>2, <1>3, <2>2
  <2> QED BY <1>1, <2>1, <2>3 DEF Distance, Index
<1>5. ASSUME NEW i \in Index PROVE Successor(i) = Plus(i, 1)
  <2>1. PICK x : x = i + 1
    OBVIOUS
  <2>2. x \in Nat /\ x < 2 * Wrap
    BY <1>1, <2>1 DEF Index
  <2>3. x % Wrap = IF x < Wrap THEN x ELSE x - Wrap
    BY <1>1, <1>2, <1>3, <2>2
  <2> QED BY <1>1, <2>1, <2>3 DEF Successor, Plus, Index
<1> QED BY <1>4, <1>5

\* A byte's place does not depend on where the index has wrapped.
LEMMA SamePlace ==
    ASSUME RingSize, NEW i \in Index, NEW n \in Nat, NEW j \in Nat
    PROVE  Slot(Plus(i, n) + j) = Slot(i + n + j)
<1>1. PICK k \in Nat : Wrap = k * Capacity
  BY DEF RingSize
<1>2. Capacity \in Nat \ {0} /\ i \in Nat /\ Wrap \in Nat
  BY Sizes DEF Index
<1>3. CASE i + n < Wrap
  BY <1>3 DEF Plus
<1>4. CASE ~(i + n < Wrap)
  <2>1. PICK x : x = i + n - Wrap + j
    OBVIOUS
  <2>2. PICK y : y = i + n + j
    OBVIOUS
  <2>3. x \in Int /\ y \in Int /\ k \in Int /\ y = x + Capacity * k
    BY <1>1, <1>2, <2>1, <2>2
  <2>4. y % Capacity = x % Capacity
    BY <1>2, <2>3, Shifted, Zenon
  <2> QED BY <1>4, <2>1, <2>2, <2>4 DEF Plus, Slot
<1> QED BY <1>3, <1>4

\* A place is one of the array's.
LEMMA PlaceType ==
    ASSUME RingSize, NEW i \in Nat
    PROVE  Slot(i) \in 0 .. Capacity - 1
<1>1. Capacity \in Nat \ {0}
  BY Sizes
<1> QED BY <1>1, Divided DEF Slot

-----------------------------------------------------------------------------
(* The invariant.                                                          *)

Types ==
    /\ bytes \in [0 .. Capacity - 1 -> Values]
    /\ head \in Index /\ tail \in Index
    /\ ptail \in Index /\ phead \in Index /\ chead \in Index /\ ctail \in Index
    /\ data \in Seq(Values) /\ Len(data) <= MaxBatch /\ written \in Nat /\ written <= Len(data)
    /\ out \in Seq(Values) /\ count \in Nat /\ count <= MaxBatch /\ Len(out) <= count

Filled == Distance(tail, head)

(* What push has written beyond the tail, and what pop has freed since     *)
(* push loaded the head, still fit.                                        *)
Producer ==
    /\ Filled <= Capacity
    /\ pcp = "loadHead" => ptail = tail /\ written = 0
    /\ pcp = "copy" => /\ ptail = Plus(tail, written)
                       /\ Filled + written + Distance(head, phead) <= Capacity

(* What pop has taken, and what it may still take, has been published.     *)
Consumer ==
    /\ pcc = "loadTail" => chead = head /\ out = <<>>
    /\ pcc = "copy" => /\ chead = Plus(head, Len(out))
                       /\ Len(out) + Distance(ctail, chead) <= Filled

(* Behind the tail are the bytes offered, behind the head the bytes taken. *)
Offered(b, t) == \A i \in 1 .. written : b[Slot(t + i - 1)] = data[i]
Taken(b, h) == \A i \in 1 .. Len(out) : out[i] = b[Slot(h + i - 1)]
Bytes ==
    /\ pcp = "copy" => Offered(bytes, tail)
    /\ pcc = "copy" => Taken(bytes, head)

Inv == Types /\ Producer /\ Consumer /\ Bytes

\* An index counts up from another by their distance.
LEMMA Ahead ==
    ASSUME RingSize, NEW t \in Index, NEW h \in Index
    PROVE  Distance(t, h) \in Nat /\ Distance(t, h) < Wrap /\ t = Plus(h, Distance(t, h))
<1>1. Wrap \in Nat
  BY Sizes
<1>2. Distance(t, h) = IF t >= h THEN t - h ELSE t + Wrap - h
  BY Wrapping
<1> QED BY <1>1, <1>2 DEF Plus, Index

\* Advancing an index by n takes it n further from what is behind it, and n
\* nearer to what is ahead.
LEMMA Advanced ==
    ASSUME RingSize, NEW i \in Index, NEW j \in Index, NEW n \in Nat
    PROVE  /\ n <= Capacity => Plus(i, n) \in Index
           /\ Distance(i, j) + n < Wrap => Distance(Plus(i, n), j) = Distance(i, j) + n
           /\ n <= Distance(j, i) => Distance(j, Plus(i, n)) = Distance(j, i) - n
           /\ Plus(i, 0) = i
<1>1. Wrap \in Nat /\ Capacity \in Nat \ {0} /\ Wrap >= 2 * Capacity
  BY Sizes
<1>2. \A t, h \in Index : Distance(t, h) = IF t >= h THEN t - h ELSE t + Wrap - h
  BY Wrapping
<1>3. n < Wrap => Plus(i, n) \in Index
  BY <1>1 DEF Plus, Index
<1>4. Plus(i, 0) = i
  BY <1>1 DEF Plus, Index
<1>5. ASSUME Distance(i, j) + n < Wrap PROVE Distance(Plus(i, n), j) = Distance(i, j) + n
  <2>1. n < Wrap
    BY <1>1, <1>5, Ahead
  <2> QED BY <1>1, <1>2, <1>3, <1>5, <2>1 DEF Plus, Index
<1>6. ASSUME n <= Distance(j, i) PROVE Distance(j, Plus(i, n)) = Distance(j, i) - n
  <2>1. n < Wrap
    BY <1>1, <1>6, Ahead
  <2> QED BY <1>1, <1>2, <1>3, <1>6, <2>1 DEF Plus, Index
<1>7. n <= Capacity => Plus(i, n) \in Index
  BY <1>1, <1>3
<1> QED BY <1>4, <1>5, <1>6, <1>7

\* One further.
LEMMA Advance1 ==
    ASSUME RingSize, NEW i \in Index, NEW n \in Nat, n < Capacity
    PROVE  Successor(Plus(i, n)) = Plus(i, n + 1)
<1>1. Wrap \in Nat /\ Capacity \in Nat \ {0} /\ Wrap >= 2 * Capacity
  BY Sizes
<1>2. Plus(i, n) \in Index
  BY <1>1, Advanced
<1>3. Successor(Plus(i, n)) = Plus(Plus(i, n), 1)
  BY <1>2, Wrapping
<1> QED BY <1>1, <1>3 DEF Plus, Index

-----------------------------------------------------------------------------
(* Every step keeps the invariant.                                         *)

\* Init empties the ring and starts both sides.
LEMMA InitInv == ASSUME RingSize, Init PROVE Inv
<1>1. Wrap \in Nat /\ Capacity \in Nat \ {0} /\ MaxBatch \in Nat /\ Wrap >= 2 * Capacity
  BY Sizes DEF RingSize
<1>2. 0 \in Index
  BY <1>1 DEF Index
<1>3. Distance(0, 0) = 0
  BY <1>1, <1>2, Wrapping
<1>4. bytes \in [0 .. Capacity - 1 -> Values]
  BY DEF Init
<1>5. <<>> \in Seq(Values) /\ Len(<<>>) = 0
  OBVIOUS
<1>6. Types
  BY <1>1, <1>2, <1>4, <1>5 DEF Init, Types
<1>7. Producer /\ Consumer /\ Bytes
  BY <1>1, <1>3 DEF Init, Producer, Consumer, Bytes, Filled
<1> QED BY <1>6, <1>7 DEF Inv

\* A batch is a sequence that a call may be given.
LEMMA BatchIs ==
    ASSUME RingSize, NEW d \in Batches
    PROVE  d \in Seq(Values) /\ Len(d) \in Nat /\ Len(d) <= MaxBatch
<1>1. MaxBatch \in Nat
  BY DEF RingSize
<1>2. PICK n \in 0 .. MaxBatch : d \in [1 .. n -> Values]
  BY DEF Batches
<1>3. n \in Nat /\ n <= MaxBatch
  BY <1>1, <1>2
<1> QED BY <1>2, <1>3

\* push begins: nothing is written yet.
LEMMA PushInv == ASSUME RingSize, Inv, Push PROVE Inv'
<1>1. Len(data') <= MaxBatch /\ data' \in Seq(Values) /\ Len(data') \in Nat
  BY BatchIs DEF Push
<1>2. Types'
  BY <1>1 DEF Inv, Types, Push, consumer
<1>3. Producer' /\ Consumer' /\ Bytes'
  BY DEF Inv, Producer, Consumer, Bytes, Taken, Filled, Push, consumer
<1> QED BY <1>2, <1>3 DEF Inv

\* The head loaded is the present one.
LEMMA LoadHeadInv == ASSUME RingSize, Inv, LoadHead PROVE Inv'
<1>1. Types'
  BY DEF Inv, Types, LoadHead, consumer
<1>2. head \in Index /\ tail \in Index /\ Capacity \in Nat /\ Filled \in Nat /\ Filled <= Capacity
  BY Sizes, Ahead DEF Inv, Types, Producer, Filled
<1>3. Distance(head, head) = 0 /\ Plus(tail, 0) = tail
  BY <1>2, Sizes, Wrapping, Advanced DEF Index
<1>4. Producer'
  BY <1>2, <1>3 DEF Inv, Producer, Filled, LoadHead, consumer
<1>5. Bytes'
  BY DEF Inv, Producer, Bytes, Offered, Taken, LoadHead, consumer
<1>6. Consumer'
  BY DEF Inv, Consumer, Filled, LoadHead, consumer
<1> QED BY <1>1, <1>4, <1>5, <1>6 DEF Inv

\* The byte written is neither one that is published nor one of this batch: all of
\* them, with the one written, lie within one capacity behind the head.
LEMMA CopyInBytes ==
    ASSUME RingSize, Inv, CopyIn
    PROVE  /\ Distance(ptail, phead) = Filled + written + Distance(head, phead)
           /\ Filled + written < Capacity
           /\ \A i \in 1 .. Filled + written :
                 bytes'[Slot(head + i - 1)] = bytes[Slot(head + i - 1)]
           /\ bytes'[Slot(tail + written)] = data[written + 1]
           /\ \A i \in 1 .. written : bytes'[Slot(tail + i - 1)] = bytes[Slot(tail + i - 1)]
           /\ bytes' \in [0 .. Capacity - 1 -> Values]
<1>1. Capacity \in Nat \ {0} /\ Wrap \in Nat /\ Wrap >= 2 * Capacity
  BY Sizes
<1>2. /\ head \in Index /\ tail \in Index /\ ptail \in Index /\ phead \in Index
      /\ bytes \in [0 .. Capacity - 1 -> Values]
      /\ data \in Seq(Values) /\ written \in Nat /\ written < Len(data)
  BY DEF Inv, Types, CopyIn
<1>3. /\ ptail = Plus(tail, written) /\ Filled + written + Distance(head, phead) <= Capacity
      /\ Distance(ptail, phead) < Capacity
  BY DEF Inv, Producer, CopyIn, HasRoom
<1>4. PICK f, e : f = Filled /\ e = Distance(head, phead)
  OBVIOUS
<1>5. f \in Nat /\ e \in Nat /\ tail = Plus(head, f) /\ f + written + e <= Capacity
  BY <1>2, <1>3, <1>4, Ahead DEF Filled
<1>6. Distance(ptail, phead) = f + written + e
  <2>1. e + f < Wrap /\ e + f + written < Wrap
    BY <1>1, <1>2, <1>5
  <2>2. Distance(tail, phead) = e + f
    BY <1>2, <1>4, <1>5, <2>1, Advanced
  <2>3. Distance(ptail, phead) = e + f + written
    BY <1>2, <1>3, <2>1, <2>2, Advanced
  <2> QED BY <1>2, <1>5, <2>3
<1>7. f + written < Capacity
  BY <1>1, <1>2, <1>3, <1>5, <1>6
<1>8. PICK s : s = Slot(tail + written)
  OBVIOUS
<1>9. s = Slot(ptail)
  <2>1. Slot(Plus(tail, written) + 0) = Slot(tail + written + 0)
    BY <1>2, SamePlace
  <2>2. ptail + 0 = ptail /\ tail + written + 0 = tail + written
    BY <1>2 DEF Index
  <2> QED BY <1>3, <1>8, <2>1, <2>2
<1>10. s = Slot(head + f + written)
  BY <1>2, <1>5, <1>8, SamePlace
<1>11. s \in 0 .. Capacity - 1
  <2>1. tail + written \in Nat
    BY <1>2 DEF Index
  <2> QED BY <1>8, <2>1, PlaceType
<1>12. data[written + 1] \in Values
  BY <1>2, ElementOfSeq
<1>13. bytes' = [bytes EXCEPT ![s] = data[written + 1]]
  BY <1>9 DEF CopyIn, Slot
<1>14. ASSUME NEW i \in 1 .. f + written PROVE Slot(head + i - 1) # s
  <2>1. PICK x, y : x = head + i - 1 /\ y = head + f + written
    OBVIOUS
  <2>2. x \in Int /\ y \in Int /\ x < y /\ y < x + Capacity
    <3>1. head \in Nat
      BY <1>2 DEF Index
    <3> QED BY <1>1, <1>2, <1>5, <1>7, <1>14, <2>1, <3>1
  <2>3. x % Capacity # y % Capacity
    BY <1>1, <2>2, Apart, Zenon
  <2> QED BY <1>10, <2>1, <2>3 DEF Slot
<1>15. ASSUME NEW i \in 1 .. written PROVE Slot(tail + i - 1) # s
  <2>1. PICK x, y : x = tail + i - 1 /\ y = tail + written
    OBVIOUS
  <2>2. x \in Int /\ y \in Int /\ x < y /\ y < x + Capacity
    <3>1. tail \in Nat /\ written < Capacity
      BY <1>1, <1>2, <1>5, <1>7 DEF Index
    <3> QED BY <1>1, <1>2, <1>15, <2>1, <3>1
  <2>3. x % Capacity # y % Capacity
    BY <1>1, <2>2, Apart, Zenon
  <2> QED BY <1>8, <2>1, <2>3 DEF Slot
<1>16. /\ bytes' \in [0 .. Capacity - 1 -> Values] /\ bytes'[s] = data[written + 1]
       /\ \A j \in 0 .. Capacity - 1 : j # s => bytes'[j] = bytes[j]
  BY <1>2, <1>11, <1>12, <1>13
<1>17. ASSUME NEW i \in 1 .. f + written
       PROVE  bytes'[Slot(head + i - 1)] = bytes[Slot(head + i - 1)]
  <2>1. head + i - 1 \in Nat
    BY <1>2, <1>5 DEF Index
  <2> QED BY <1>14, <1>16, <2>1, PlaceType, Zenon
<1>18. ASSUME NEW i \in 1 .. written
       PROVE  bytes'[Slot(tail + i - 1)] = bytes[Slot(tail + i - 1)]
  <2>1. tail + i - 1 \in Nat
    BY <1>2 DEF Index
  <2> QED BY <1>15, <1>16, <2>1, PlaceType, Zenon
<1> QED BY <1>4, <1>6, <1>7, <1>8, <1>16, <1>17, <1>18

\* push copies a byte.
LEMMA CopyInInv == ASSUME RingSize, Inv, CopyIn PROVE Inv'
<1>1. Capacity \in Nat \ {0} /\ Wrap \in Nat /\ Wrap >= 2 * Capacity
  BY Sizes
<1>2. /\ head \in Index /\ tail \in Index /\ phead \in Index
      /\ written \in Nat /\ written < Len(data) /\ data \in Seq(Values)
      /\ out \in Seq(Values) /\ Len(out) \in Nat
  BY DEF Inv, Types, CopyIn
<1>3. Filled \in Nat /\ Filled + written < Capacity
  BY <1>2, Ahead, CopyInBytes DEF Filled
<1>4. ptail = Plus(tail, written) /\ ptail' = Successor(ptail) /\ written' = written + 1
  BY DEF Inv, Producer, CopyIn
<1>5. ptail' = Plus(tail, written')
  BY <1>1, <1>2, <1>3, <1>4, Advance1
<1>6. ptail' \in Index /\ written' \in Nat /\ written' <= Len(data)
  BY <1>1, <1>2, <1>3, <1>4, <1>5, Advanced
<1>7. Types'
  BY <1>6, CopyInBytes DEF Inv, Types, CopyIn, consumer
<1>8. Distance(ptail, phead) = Filled + written + Distance(head, phead)
  BY CopyInBytes
<1>9. Distance(ptail, phead) < Capacity /\ Distance(head, phead) \in Nat
  BY <1>2, Ahead DEF CopyIn, HasRoom
<1>10. Filled + written' + Distance(head, phead) <= Capacity
  BY <1>1, <1>2, <1>3, <1>4, <1>8, <1>9
<1>11. Producer'
  BY <1>5, <1>10 DEF Inv, Producer, Filled, CopyIn, consumer
<1>12. Consumer'
  BY DEF Inv, Consumer, Filled, CopyIn, consumer
<1>13. pcc = "copy" => Len(out) <= Filled
  <2>1. chead \in Index /\ ctail \in Index
    BY DEF Inv, Types
  <2>2. Distance(ctail, chead) \in Nat
    BY <2>1, Ahead
  <2> QED BY <1>2, <1>3, <2>2 DEF Inv, Consumer
<1>14. pcc = "copy" => Taken(bytes', head)
  <2> SUFFICES ASSUME pcc = "copy", NEW i \in 1 .. Len(out)
               PROVE  out[i] = bytes'[Slot(head + i - 1)]
    BY DEF Taken
  <2>1. i \in 1 .. Filled + written
    BY <1>2, <1>3, <1>13
  <2>2. out[i] = bytes[Slot(head + i - 1)]
    BY DEF Inv, Bytes, Taken
  <2> QED BY <2>1, <2>2, CopyInBytes
<1>15. \A i \in 1 .. written' : bytes'[Slot(tail + i - 1)] = data[i]
  <2> SUFFICES ASSUME NEW i \in 1 .. written + 1 PROVE bytes'[Slot(tail + i - 1)] = data[i]
    BY <1>4
  <2>1. CASE i = written + 1
    <3>1. tail + i - 1 = tail + written
      BY <1>2, <2>1 DEF Index
    <3> QED BY <2>1, <3>1, CopyInBytes
  <2>2. CASE i # written + 1
    <3>1. i \in 1 .. written
      BY <1>2, <2>2
    <3>2. bytes[Slot(tail + i - 1)] = data[i]
      BY <3>1 DEF Inv, Bytes, Offered, CopyIn
    <3> QED BY <3>1, <3>2, CopyInBytes
  <2> QED BY <2>1, <2>2
<1>16. Bytes'
  BY <1>14, <1>15 DEF Bytes, Offered, Taken, CopyIn, consumer
<1> QED BY <1>7, <1>11, <1>12, <1>16 DEF Inv

\* What is published is what was filled and what was written.
LEMMA PublishFills ==
    ASSUME RingSize, Inv, Publish
    PROVE  Filled \in Nat /\ Filled' = Filled + written /\ Filled' <= Capacity /\ tail' \in Index
<1>1. Capacity \in Nat \ {0} /\ Wrap \in Nat /\ Wrap >= 2 * Capacity
  BY Sizes
<1>2. /\ head \in Index /\ tail \in Index /\ phead \in Index /\ written \in Nat
      /\ ptail \in Index
  BY DEF Inv, Types
<1>3. /\ tail' = Plus(tail, written) /\ head' = head /\ tail' = ptail
      /\ Filled + written + Distance(head, phead) <= Capacity
  BY DEF Inv, Producer, Publish, consumer
<1>4. Filled \in Nat /\ Distance(head, phead) \in Nat
  BY <1>2, Ahead DEF Filled
<1>5. Filled + written <= Capacity /\ Filled + written < Wrap
  BY <1>1, <1>2, <1>3, <1>4
<1>6. Distance(Plus(tail, written), head) = Filled + written
  BY <1>2, <1>5, Advanced DEF Filled
<1> QED BY <1>2, <1>3, <1>4, <1>5, <1>6 DEF Filled

\* push publishes.
LEMMA PublishInv == ASSUME RingSize, Inv, Publish PROVE Inv'
<1>1. Types'
  BY PublishFills DEF Inv, Types, Publish, consumer
<1>2. Producer'
  BY PublishFills DEF Producer, Publish
<1>3. Capacity \in Nat /\ written \in Nat /\ chead \in Index /\ ctail \in Index /\ Len(out) \in Nat
  BY Sizes DEF Inv, Types
<1>4. Filled \in Nat /\ Filled <= Filled' /\ Filled' \in Nat /\ Distance(ctail, chead) \in Nat
  BY <1>3, PublishFills, Ahead
<1>5. Consumer'
  <2>1. UNCHANGED <<pcc, chead, ctail, out, head>>
    BY DEF Publish, consumer
  <2>2. Distance(ctail, chead)' = Distance(ctail, chead)
    BY <2>1 DEF Distance
  <2> QED BY <1>3, <1>4, <2>1, <2>2 DEF Inv, Consumer
<1>6. Bytes'
  BY DEF Inv, Bytes, Taken, Publish, consumer
<1> QED BY <1>1, <1>2, <1>5, <1>6 DEF Inv

\* pop begins.
LEMMA PopInv == ASSUME RingSize, Inv, Pop PROVE Inv'
<1>1. MaxBatch \in Nat /\ <<>> \in Seq(Values) /\ Len(<<>>) = 0
  BY DEF RingSize
<1>2. Types'
  BY <1>1 DEF Inv, Types, Pop, producer
<1>3. Producer'
  BY DEF Inv, Producer, Filled, Pop, producer
<1>4. Consumer' /\ Bytes'
  BY DEF Inv, Consumer, Bytes, Offered, Pop, producer
<1> QED BY <1>2, <1>3, <1>4 DEF Inv

\* The tail loaded is the present one.
LEMMA LoadTailInv == ASSUME RingSize, Inv, LoadTail PROVE Inv'
<1>1. Types'
  BY DEF Inv, Types, LoadTail, producer
<1>2. Producer'
  BY DEF Inv, Producer, Filled, LoadTail, producer
<1>3. head \in Index /\ tail \in Index /\ chead = head /\ out = <<>>
  BY DEF Inv, Types, Consumer, LoadTail
<1>4. Filled \in Nat /\ Plus(head, 0) = head /\ Len(<<>>) = 0
  BY <1>3, Ahead, Advanced DEF Filled
<1>5. Consumer'
  BY <1>3, <1>4, SMTT(30) DEF Consumer, Filled, LoadTail, producer
<1>6. Bytes'
  BY <1>3, <1>4 DEF Inv, Bytes, Taken, Offered, LoadTail, producer
<1> QED BY <1>1, <1>2, <1>5, <1>6 DEF Inv

\* pop copies a byte, one that is published.
LEMMA CopyOutInv == ASSUME RingSize, Inv, CopyOut PROVE Inv'
<1>1. Capacity \in Nat \ {0} /\ Wrap \in Nat /\ Wrap >= 2 * Capacity
  BY Sizes
<1>2. /\ head \in Index /\ tail \in Index /\ chead \in Index /\ ctail \in Index
      /\ bytes \in [0 .. Capacity - 1 -> Values] /\ out \in Seq(Values) /\ Len(out) \in Nat
      /\ count \in Nat /\ Len(out) < count /\ chead # ctail
  BY DEF Inv, Types, CopyOut
<1>3. /\ chead = Plus(head, Len(out)) /\ Len(out) + Distance(ctail, chead) <= Filled
      /\ Filled <= Capacity
  BY DEF Inv, Consumer, Producer, CopyOut
<1>4. PICK v : v = bytes[Slot(chead)]
  OBVIOUS
<1>5. v \in Values
  <2>1. chead \in Nat
    BY <1>2 DEF Index
  <2> QED BY <1>2, <1>4, <2>1, PlaceType
<1>6. v = bytes[Slot(head + Len(out))]
  <2>1. Slot(Plus(head, Len(out)) + 0) = Slot(head + Len(out) + 0)
    BY <1>2, SamePlace
  <2>2. chead + 0 = chead /\ head + Len(out) + 0 = head + Len(out)
    BY <1>2 DEF Index
  <2> QED BY <1>3, <1>4, <2>1, <2>2
<1>7. out' = Append(out, v) /\ chead' = Successor(chead)
  BY <1>4 DEF CopyOut, Slot
<1>8. /\ out' \in Seq(Values) /\ Len(out') = Len(out) + 1 /\ out'[Len(out) + 1] = v
      /\ \A i \in 1 .. Len(out) : out'[i] = out[i]
  BY <1>2, <1>5, <1>7, AppendProperties
<1>9. Distance(ctail, chead) \in Nat /\ Distance(ctail, chead) > 0 /\ Filled \in Nat
  <2>1. Distance(ctail, chead) # 0
    BY <1>1, <1>2, Wrapping DEF Index
  <2> QED BY <1>2, <2>1, Ahead, SMTT(30) DEF Filled
<1>10. Len(out) < Capacity
  BY <1>1, <1>2, <1>3, <1>9
<1>11. chead' = Plus(head, Len(out'))
  BY <1>2, <1>3, <1>7, <1>8, <1>10, Advance1
<1>12. chead' = Plus(chead, 1) /\ chead' \in Index
  BY <1>1, <1>2, <1>7, Wrapping, Advanced
<1>13. Distance(ctail, chead') = Distance(ctail, chead) - 1
  BY <1>2, <1>9, <1>12, Advanced
<1>14. Len(out') <= count
  BY <1>2, <1>8
<1>15. Types'
  BY <1>8, <1>12, <1>14 DEF Inv, Types, CopyOut, producer
<1>16. Producer'
  BY DEF Inv, Producer, Filled, CopyOut, producer
<1>17. Consumer'
  <2>1. Len(out') + Distance(ctail, chead') <= Filled
    BY <1>2, <1>3, <1>8, <1>9, <1>13
  <2> QED BY <1>11, <2>1 DEF Consumer, Filled, CopyOut, producer
<1>18. \A i \in 1 .. Len(out') : out'[i] = bytes[Slot(head + i - 1)]
  <2> SUFFICES ASSUME NEW i \in 1 .. Len(out) + 1 PROVE out'[i] = bytes[Slot(head + i - 1)]
    BY <1>8
  <2>1. CASE i = Len(out) + 1
    <3>1. head + i - 1 = head + Len(out)
      BY <1>2, <2>1 DEF Index
    <3> QED BY <1>6, <1>8, <2>1, <3>1
  <2>2. CASE i # Len(out) + 1
    <3>1. i \in 1 .. Len(out)
      BY <1>2, <2>2
    <3> QED BY <1>8, <3>1 DEF Inv, Bytes, Taken, CopyOut
  <2> QED BY <2>1, <2>2
<1>19. Bytes'
  BY <1>18 DEF Inv, Bytes, Offered, Taken, CopyOut, producer
<1> QED BY <1>15, <1>16, <1>17, <1>19 DEF Inv

\* What pop has taken is free once it is released.
LEMMA ReleaseFrees ==
    ASSUME RingSize, Inv, Release
    PROVE  /\ Filled \in Nat /\ Len(out) \in Nat /\ Len(out) <= Filled
           /\ head' = Plus(head, Len(out)) /\ head' \in Index
           /\ Filled' = Filled - Len(out)
<1>1. /\ head \in Index /\ tail \in Index /\ chead \in Index /\ ctail \in Index
      /\ Len(out) \in Nat
  BY DEF Inv, Types
<1>2. /\ chead = Plus(head, Len(out)) /\ Len(out) + Distance(ctail, chead) <= Filled
      /\ head' = chead /\ tail' = tail
  BY DEF Inv, Consumer, Release
<1>3. Filled \in Nat /\ Distance(ctail, chead) \in Nat
  BY <1>1, Ahead DEF Filled
<1>4. Len(out) <= Filled
  BY <1>1, <1>2, <1>3
<1>5. Distance(tail, Plus(head, Len(out))) = Filled - Len(out)
  BY <1>1, <1>4, Advanced DEF Filled
<1> QED BY <1>1, <1>2, <1>3, <1>4, <1>5 DEF Filled

\* pop releases.
LEMMA ReleaseInv == ASSUME RingSize, Inv, Release PROVE Inv'
<1>1. Types'
  BY ReleaseFrees DEF Inv, Types, Release, producer
<1>2. /\ Capacity \in Nat \ {0} /\ Wrap \in Nat /\ Wrap >= 2 * Capacity
      /\ head \in Index /\ phead \in Index /\ written \in Nat
  BY Sizes DEF Inv, Types
<1>3. Distance(head, phead) \in Nat
  BY <1>2, Ahead
<1>4. ASSUME pcp = "copy"
      PROVE  Filled' + written + Distance(head', phead) <= Capacity
  <2>1. Filled + written + Distance(head, phead) <= Capacity
    BY <1>4 DEF Inv, Producer
  <2>2. Distance(head, phead) + Len(out) < Wrap
    BY <1>2, <1>3, <2>1, ReleaseFrees
  <2>3. Distance(head', phead) = Distance(head, phead) + Len(out)
    BY <1>2, <2>2, ReleaseFrees, Advanced
  <2> QED BY <1>2, <1>3, <2>1, <2>3, ReleaseFrees
<1>5. Filled' <= Capacity
  BY <1>2, ReleaseFrees DEF Inv, Producer
<1>6. Producer'
  <2>1. UNCHANGED <<pcp, ptail, phead, written, tail>>
    BY DEF Release, producer
  <2>2. Distance(head, phead)' = Distance(head', phead)
    BY <2>1, ZenonT(30) DEF Distance
  <2> QED BY <1>4, <1>5, <2>1, <2>2 DEF Inv, Producer
<1>7. Consumer' /\ Bytes'
  BY DEF Inv, Consumer, Bytes, Offered, Release, producer
<1> QED BY <1>1, <1>6, <1>7 DEF Inv

\* The invariant is inductive.
LEMMA NextInv == ASSUME RingSize, Inv, [Next]_vars PROVE Inv'
<1>1. CASE UNCHANGED vars
  BY <1>1 DEF vars, producer, consumer, Inv, Types, Producer, Consumer, Bytes, Offered, Taken,
              Filled, Distance
<1>2. CASE Produce
  BY <1>2, PushInv, LoadHeadInv, CopyInInv, PublishInv DEF Produce
<1>3. CASE Consume
  BY <1>3, PopInv, LoadTailInv, CopyOutInv, ReleaseInv DEF Consume
<1> QED BY <1>1, <1>2, <1>3, ZenonT(30) DEF Next

-----------------------------------------------------------------------------
(* The refinement.                                                         *)

(* The n bytes from index h on.                                            *)
Segment(b, h, n) == [i \in 1 .. n |-> b[Slot(h + i - 1)]]

\* It is a sequence of bytes.
LEMMA SegmentIs ==
    ASSUME RingSize, NEW b \in [0 .. Capacity - 1 -> Values], NEW h \in Index, NEW n \in Nat
    PROVE  /\ Segment(b, h, n) \in Seq(Values) /\ Len(Segment(b, h, n)) = n
           /\ \A i \in 1 .. n : Segment(b, h, n)[i] = b[Slot(h + i - 1)]
<1>1. ASSUME NEW i \in 1 .. n PROVE b[Slot(h + i - 1)] \in Values
  <2>1. PICK x : x = h + i - 1
    OBVIOUS
  <2>2. x \in Nat
    BY <2>1 DEF Index
  <2> QED BY <2>1, <2>2, PlaceType
<1>2. PICK w : w = Segment(b, h, n)
  OBVIOUS
<1>3. w \in [1 .. n -> Values] /\ \A i \in 1 .. n : w[i] = b[Slot(h + i - 1)]
  BY <1>1, <1>2 DEF Segment
<1>4. w \in Seq(Values) /\ Len(w) = n
  BY <1>3
<1> QED BY <1>2, <1>3, <1>4

\* The queue, before and after a step.
LEMMA ContentsIs ==
    /\ Contents = Segment(bytes, head, Filled)
    /\ Contents' = Segment(bytes', head', Filled')
  BY DEF Contents, Segment, Filled, Slot

\* Until an index is stored the queue is as it was, whatever is copied.
LEMMA Stutters ==
    ASSUME RingSize, Inv, Push \/ LoadHead \/ CopyIn \/ Pop \/ LoadTail \/ CopyOut
    PROVE  UNCHANGED <<Contents, received>>
<1>1. received' = received /\ head' = head /\ tail' = tail
  BY DEF Push, LoadHead, CopyIn, Pop, LoadTail, CopyOut, consumer
<1>2. Filled' = Filled
  BY <1>1 DEF Filled
<1>3. CASE CopyIn
  <2>1. head \in Index /\ tail \in Index /\ written \in Nat
    BY DEF Inv, Types
  <2>2. Filled \in Nat
    BY <2>1, Ahead DEF Filled
  <2>3. \A i \in 1 .. Filled : i \in 1 .. Filled + written
    BY <2>1, <2>2
  <2>4. \A i \in 1 .. Filled : bytes'[Slot(head + i - 1)] = bytes[Slot(head + i - 1)]
    BY <1>3, <2>3, CopyInBytes
  <2>5. Segment(bytes', head, Filled) = Segment(bytes, head, Filled)
    BY <2>4 DEF Segment
  <2> QED BY <1>1, <1>2, <2>5, ContentsIs
<1>4. CASE ~CopyIn
  <2>1. bytes' = bytes
    BY <1>4 DEF Push, LoadHead, Pop, LoadTail, CopyOut, consumer, producer
  <2> QED BY <1>1, <1>2, <2>1, ContentsIs
<1> QED BY <1>3, <1>4

\* The store of the tail appends what push has written.
LEMMA PublishRefines == ASSUME RingSize, Inv, Publish PROVE Fifo!Push
<1>1. /\ bytes \in [0 .. Capacity - 1 -> Values] /\ head \in Index /\ tail \in Index
      /\ data \in Seq(Values) /\ Len(data) <= MaxBatch /\ written \in Nat /\ written <= Len(data)
      /\ Len(data) \in Nat /\ MaxBatch \in Nat
  BY DEF Inv, Types, RingSize
<1>2. bytes' = bytes /\ head' = head /\ received' = received
  BY DEF Publish, consumer
<1>3. PICK f, q, r, a : /\ f = Filled /\ q = Contents /\ r = Contents'
                        /\ a = [i \in 1 .. written |-> data[i]]
  BY Zenon
<1>4. /\ f \in Nat /\ Filled' = f + written /\ f + written <= Capacity /\ f + written \in Nat
  BY <1>1, <1>3, PublishFills
<1>5. /\ q \in Seq(Values) /\ Len(q) = f
      /\ \A i \in 1 .. f : q[i] = bytes[Slot(head + i - 1)]
  <2>1. q = Segment(bytes, head, f)
    BY <1>3, ContentsIs
  <2> QED BY <1>1, <1>4, <2>1, SegmentIs, ZenonT(30)
<1>6. /\ r \in Seq(Values) /\ Len(r) = f + written
      /\ \A i \in 1 .. f + written : r[i] = bytes[Slot(head + i - 1)]
  <2>1. PICK g : g = f + written
    OBVIOUS
  <2>2. r = Segment(bytes, head, g)
    BY <1>2, <1>3, <1>4, <2>1, ContentsIs
  <2> QED BY <1>1, <1>4, <2>1, <2>2, SegmentIs, ZenonT(30)
<1>7. a \in [1 .. written -> Values] /\ \A i \in 1 .. written : a[i] = data[i]
  <2>1. \A i \in 1 .. written : i \in 1 .. Len(data)
    BY <1>1
  <2>2. \A i \in 1 .. written : data[i] \in Values
    BY <1>1, <2>1, ElementOfSeq
  <2> QED BY <1>3, <2>2
<1>8. a \in Seq(Values) /\ Len(a) = written
  BY <1>1, <1>7
<1>9. PICK s : s = q \o a
  BY Zenon
<1>10. /\ s \in Seq(Values) /\ Len(s) = f + written
       /\ \A i \in 1 .. f + written : s[i] = IF i <= f THEN q[i] ELSE a[i - f]
  BY <1>5, <1>8, <1>9, ConcatProperties, ZenonT(30)
<1>11. ASSUME NEW i \in 1 .. f + written PROVE r[i] = s[i]
  <2>1. CASE i <= f
    <3>1. i \in 1 .. f
      BY <1>4, <2>1
    <3> QED BY <1>5, <1>6, <1>10, <2>1, <3>1
  <2>2. CASE ~(i <= f)
    <3>1. PICK j : j = i - f
      OBVIOUS
    <3>2. j \in 1 .. written /\ j - 1 \in Nat
      BY <1>1, <1>4, <2>2, <3>1
    <3>3. s[i] = data[j]
      BY <1>7, <1>10, <2>2, <3>1, <3>2, ZenonT(30)
    <3>4. data[j] = bytes[Slot(tail + j - 1)]
      BY <3>2 DEF Inv, Bytes, Offered, Publish
    <3>5. tail = Plus(head, f)
      BY <1>1, <1>3, Ahead DEF Filled
    <3>6. Slot(Plus(head, f) + (j - 1)) = Slot(head + f + (j - 1))
      BY <1>1, <1>4, <3>2, SamePlace
    <3>7. tail + (j - 1) = tail + j - 1 /\ head + f + (j - 1) = head + i - 1
      BY <1>1, <1>4, <3>1, <3>2 DEF Index
    <3>8. Slot(tail + j - 1) = Slot(head + i - 1)
      BY <3>5, <3>6, <3>7
    <3> QED BY <1>6, <3>3, <3>4, <3>8
  <2> QED BY <2>1, <2>2
<1>12. r = s
  BY <1>6, <1>10, <1>11, SeqEqual
<1>13. written \in 0 .. MaxBatch
  BY <1>1
<1>14. Len(q) + written <= Capacity /\ r = q \o a
  BY <1>4, <1>5, <1>9, <1>12
<1> QED BY <1>2, <1>3, <1>7, <1>13, <1>14, Zenon DEF Fifo!Push

\* The store of the head removes what pop has copied, and that is what it returns.
LEMMA ReleaseRefines == ASSUME RingSize, Inv, Release PROVE Fifo!Pop
<1>1. /\ bytes \in [0 .. Capacity - 1 -> Values] /\ head \in Index /\ tail \in Index
      /\ out \in Seq(Values) /\ MaxBatch \in Nat
      /\ Len(out) <= count /\ count \in Nat /\ count <= MaxBatch
  BY DEF Inv, Types, RingSize
<1>2. bytes' = bytes /\ received' = out
  BY DEF Release, producer
<1>3. PICK f, n, q, r : f = Filled /\ n = Len(out) /\ q = Contents /\ r = Contents'
  BY Zenon
<1>4. /\ f \in Nat /\ n \in Nat /\ n <= f /\ Filled' = f - n /\ f - n \in Nat
      /\ head' = Plus(head, n) /\ head' \in Index
  BY <1>3, ReleaseFrees
<1>5. /\ q \in Seq(Values) /\ Len(q) = f
      /\ \A i \in 1 .. f : q[i] = bytes[Slot(head + i - 1)]
  <2>1. q = Segment(bytes, head, f)
    BY <1>3, ContentsIs
  <2> QED BY <1>1, <1>4, <2>1, SegmentIs, ZenonT(30)
<1>6. /\ r \in Seq(Values) /\ Len(r) = f - n
      /\ \A i \in 1 .. f - n : r[i] = bytes[Slot(head' + i - 1)]
  <2>1. PICK g, h : g = f - n /\ h = head'
    OBVIOUS
  <2>2. r = Segment(bytes, h, g) /\ g \in Nat /\ h \in Index
    BY <1>2, <1>3, <1>4, <2>1, ContentsIs
  <2> QED BY <1>1, <2>1, <2>2, SegmentIs, ZenonT(30)
<1>7. PICK s, t : s = SubSeq(q, 1, n) /\ t = SubSeq(q, n + 1, f)
  BY Zenon
<1>8. /\ s \in Seq(Values) /\ Len(s) = n /\ \A i \in 1 .. n : s[i] = q[i]
      /\ t \in Seq(Values) /\ Len(t) = f - n /\ \A i \in 1 .. f - n : t[i] = q[n + i]
  <2>1. /\ \A i \in 1 .. n : i \in 1 .. f /\ 1 + i - 1 = i
        /\ \A i \in n + 1 .. f : i \in 1 .. f
        /\ \A i \in 1 .. f - n : (n + 1) + i - 1 = n + i
        /\ n - 1 + 1 = n /\ f - (n + 1) + 1 = f - n
    BY <1>4
  <2>2. \A i \in 1 .. f : q[i] \in Values
    BY <1>5, ElementOfSeq, Zenon
  <2>3. /\ s \in Seq(Values) /\ Len(s) = IF 1 <= n THEN n - 1 + 1 ELSE 0
        /\ \A i \in 1 .. n - 1 + 1 : s[i] = q[1 + i - 1]
    BY <1>4, <1>7, <2>1, <2>2, SubSeqProperties, SMTT(30)
  <2>4. /\ t \in Seq(Values) /\ Len(t) = IF n + 1 <= f THEN f - (n + 1) + 1 ELSE 0
        /\ \A i \in 1 .. f - (n + 1) + 1 : t[i] = q[(n + 1) + i - 1]
    BY <1>4, <1>7, <2>1, <2>2, SubSeqProperties, SMTT(30)
  <2> QED BY <1>4, <2>1, <2>3, <2>4
<1>9. out = s
  <2>1. \A i \in 1 .. n : i \in 1 .. f
    BY <1>4, SMTT(30)
  <2>2. \A i \in 1 .. n : out[i] = bytes[Slot(head + i - 1)]
    BY <1>3 DEF Inv, Bytes, Taken, Release
  <2>3. \A i \in 1 .. n : out[i] = s[i]
    BY <1>5, <1>8, <2>1, <2>2, ZenonT(30)
  <2> QED BY <1>1, <1>3, <1>8, <2>3, SeqEqual
<1>10. ASSUME NEW i \in 1 .. f - n PROVE r[i] = t[i]
  <2>1. i - 1 \in Nat /\ n + i \in 1 .. f
    BY <1>4
  <2>2. Slot(Plus(head, n) + (i - 1)) = Slot(head + n + (i - 1))
    BY <1>1, <1>4, <2>1, SamePlace
  <2>3. head' + (i - 1) = head' + i - 1 /\ head + n + (i - 1) = head + (n + i) - 1
    BY <1>1, <1>4 DEF Index
  <2>4. Slot(head' + i - 1) = Slot(head + (n + i) - 1)
    BY <1>4, <2>2, <2>3
  <2> QED BY <1>5, <1>6, <1>8, <2>1, <2>4, ZenonT(30)
<1>11. r = t
  BY <1>6, <1>8, <1>10, SeqEqual, Zenon
<1>12. n \in 0 .. MaxBatch /\ n <= Len(q)
  BY <1>1, <1>3, <1>4, <1>5
<1>13. received' = SubSeq(q, 1, n) /\ r = SubSeq(q, n + 1, Len(q))
  BY <1>2, <1>5, <1>7, <1>9, <1>11
<1> QED BY <1>3, <1>12, <1>13 DEF Fifo!Pop

(* For every capacity, every width of the indexes that is a multiple of it *)
(* and batches of every size, push and pop on two cores are single steps   *)
(* of one bounded first-in first-out queue.                                *)
THEOREM RingIsFifo == ASSUME RingSize PROVE Spec => Fifo!Spec
<1>1. Init => Inv
  BY InitInv
<1>2. Inv /\ [Next]_vars => Inv'
  BY NextInv
<1>3. Init => Fifo!Init
  <2> SUFFICES ASSUME Init PROVE Fifo!Init
    OBVIOUS
  <2>1. 0 \in Index
    BY Sizes DEF Index
  <2>2. Filled = 0
    BY <2>1, Sizes, Wrapping DEF Init, Filled
  <2>3. Contents = <<>>
    BY <2>2, ContentsIs DEF Segment
  <2> QED BY <2>3 DEF Init, Fifo!Init
<1>4. Inv /\ [Next]_vars => [Fifo!Next]_(<<Contents, received>>)
  <2> SUFFICES ASSUME Inv, [Next]_vars
               PROVE  Fifo!Next \/ UNCHANGED <<Contents, received>>
    OBVIOUS
  <2>1. CASE UNCHANGED vars
    BY <2>1 DEF vars, consumer, Contents, Distance
  <2>2. CASE Publish
    BY <2>2, PublishRefines DEF Fifo!Next
  <2>3. CASE Release
    BY <2>3, ReleaseRefines DEF Fifo!Next
  <2> QED BY <2>1, <2>2, <2>3, Stutters DEF Next, Produce, Consume
<1> QED BY <1>1, <1>2, <1>3, <1>4, PTL DEF Spec, Fifo!Spec

-----------------------------------------------------------------------------
(* The UART.                                                               *)

\* While the peer has only answered, everything on its way fits: what is queued, what
\* will be answered, and what write() has already decided to accept.
Fits ==
  noise = 0 =>
    /\ lost = 0
    /\ pending + tx + peer <= RxCapacity
    /\ pc = "write" => pending + tx + peer + room <= RxCapacity

\* Nothing is latched when the driver is reset: discard() has emptied the queue, and
\* too little arrives before the reset to fill it.
Calm ==
  /\ ~active => ~latch /\ pending = 0
  /\ pc = "reset" => ~latch /\ pending <= window

\* Every flag is a truth value.
LEMMA FlagsInv == Flags /\ [UartNext]_uartVars => Flags'
<1> SUFFICES ASSUME Flags, [UartNext]_uartVars PROVE Flags'
  OBVIOUS
<1>1. CASE UNCHANGED uartVars
  BY <1>1, Zenon DEF uartVars, driver, Flags
<1>2. CASE Line
  BY <1>2, Zenon DEF Line, Transmit, Swallow, PeerAnswers, Noise, Arrive, driver, Flags
<1>3. CASE Poll
  BY <1>3, Zenon DEF Poll, PollIn, Write, PollOut, Take, Observe, driver, Flags
<1>4. CASE Network \/ Reset \/ Configure \/ ReleaseUart
  BY <1>4, Zenon DEF Network, Reset, Configure, ReleaseUart, StartReset, Discard, Observe, driver, Flags
<1>5. CASE \E o \in Owners : Acquire(o) \/ AcquireConfigured(o)
  BY <1>5, Zenon DEF Acquire, AcquireConfigured, StartReset, Discard, Observe, Flags
<1> QED BY <1>1, <1>2, <1>3, <1>4, <1>5 DEF UartNext

UartInv == Queues /\ Fits /\ Calm /\ CountIsMinimum /\ LossIsSeen

\* Initially nothing is queued, latched or lost.
LEMMA UartInitInv == UartInit => UartInv
<1> USE BoundsAssumption DEF BoundsAssumption, UartInit
<1> SUFFICES ASSUME UartInit PROVE UartInv
  BY Zenon
<1>1. Queues
  BY DEF Queues
<1>2. Fits
  BY DEF Fits
<1>3. Calm
  BY DEF Calm
<1>4. CountIsMinimum
  BY DEF CountIsMinimum
<1>5. LossIsSeen
  BY DEF LossIsSeen, CountIsMinimum
<1> QED BY <1>1, <1>2, <1>3, <1>4, <1>5 DEF UartInv

\* The line: a byte that arrives is queued, dropped and latched, or not heard.
LEMMA LineInv == UartInv /\ Line => UartInv'
<1> SUFFICES ASSUME UartInv, Line PROVE UartInv'
  BY Zenon
<1> USE BoundsAssumption DEF BoundsAssumption
<1>1. CASE Transmit
  BY <1>1, SMTT(30) DEF Transmit, UartInv, Queues, Fits, Calm, CountIsMinimum, LossIsSeen, stream, driver, counters
<1>2. CASE Swallow
  BY <1>2, SMTT(30) DEF Swallow, UartInv, Queues, Fits, Calm, CountIsMinimum, LossIsSeen, stream, driver, counters
<1>3. CASE PeerAnswers
  BY <1>3, SMTT(30) DEF PeerAnswers, Arrive, InWindow, UartInv, Queues, Fits, Calm, CountIsMinimum, LossIsSeen, stream, counters
<1>4. CASE Noise
  BY <1>4 DEF Noise, Arrive, InWindow, UartInv, Queues, Fits, Calm, CountIsMinimum, LossIsSeen, stream, line, counters
<1> QED BY <1>1, <1>2, <1>3, <1>4 DEF Line

\* observe() trades the flag for a count of one, in both counters up to their limit.
LEMMA ObserveCounts ==
  ASSUME UartInv, Observe, lost' = lost
  PROVE  /\ latch' = FALSE
         /\ events' \in 0..EventMax /\ lostMinimum' \in 0..EventMax
         /\ CountIsMinimum' /\ LossIsSeen'
  BY BoundsAssumption DEF BoundsAssumption, Observe, UartInv, Queues, CountIsMinimum, LossIsSeen

\* discard() leaves nothing queued and nothing latched.
LEMMA DiscardEmpties ==
  ASSUME UartInv, Discard
  PROVE  pending' = 0 /\ latch' = FALSE
  BY DEF Discard, Drained, Observe, UartInv, Queues

\* The calls that open, configure and close a channel.
LEMMA ChannelInv ==
  ASSUME UartInv,
         \/ Reset \/ Configure \/ ReleaseUart \/ Network
         \/ \E o \in Owners : Acquire(o) \/ AcquireConfigured(o)
  PROVE  UartInv'
<1> USE BoundsAssumption DEF BoundsAssumption
<1>1. CASE Reset
  BY <1>1, SMTT(30) DEF Reset, UartInv, Queues, Fits, Calm, CountIsMinimum, LossIsSeen, line, counters
<1>2. CASE Network
  BY <1>2, ZenonT(30) DEF Network, UartInv, Queues, Fits, Calm, CountIsMinimum, LossIsSeen, stream, driver, line, counters
<1>3. CASE ReleaseUart
  <2>1. Discard /\ Observe /\ lost' = lost
    BY <1>3 DEF ReleaseUart, Discard
  <2>2. /\ events' \in 0..EventMax /\ lostMinimum' \in 0..EventMax
        /\ CountIsMinimum' /\ LossIsSeen'
    BY <2>1, ObserveCounts
  <2>3. pending' = 0 /\ latch' = FALSE
    BY <2>1, DiscardEmpties, Zenon
  <2> QED
    BY <1>3, <2>2, <2>3 DEF ReleaseUart, UartInv, Queues, Fits, Calm, line
<1>4. ASSUME NEW o \in Owners, Acquire(o) PROVE UartInv'
  <2>1. Discard /\ Observe /\ lost' = lost
    BY <1>4 DEF Acquire, Discard
  <2>2. /\ events' \in 0..EventMax /\ lostMinimum' \in 0..EventMax
        /\ CountIsMinimum' /\ LossIsSeen'
    BY <2>1, ObserveCounts
  <2>3. pending' = 0 /\ latch' = FALSE
    BY <2>1, DiscardEmpties, Zenon
  <2> QED
    BY <1>4, <2>2, <2>3 DEF Acquire, UartInv, Queues, Fits, Calm, line
<1>5. ASSUME NEW o \in Owners \cup {0}, StartReset(o), lost' = lost, pc = "run",
             owner' \in Owners \cup {0},
             UNCHANGED <<toBackend, toPeer, active, room, line, stalled, sent, noise>>
      PROVE  UartInv'
  <2>1. CASE active
    <3>1. Discard /\ Observe
      BY <1>5, <2>1 DEF StartReset, Discard
    <3>2. /\ events' \in 0..EventMax /\ lostMinimum' \in 0..EventMax
          /\ CountIsMinimum' /\ LossIsSeen'
      BY <1>5, <3>1, ObserveCounts
    <3>3. pending' = 0 /\ latch' = FALSE
      BY <3>1, DiscardEmpties, Zenon
    <3> QED
      BY <1>5, <2>1, <3>2, <3>3 DEF StartReset, UartInv, Queues, Fits, Calm, line
  <2>2. CASE ~active
    BY <1>5, <2>2, SMTT(30) DEF StartReset, UartInv, Queues, Fits, Calm, CountIsMinimum, LossIsSeen, line, counters
  <2> QED BY <2>1, <2>2, ZenonT(30) DEF UartInv, Queues
<1>6. ASSUME NEW o \in Owners, AcquireConfigured(o) PROVE UartInv'
  BY <1>5, <1>6, Zenon DEF AcquireConfigured, UartInv, Queues
<1>7. CASE Configure
  BY <1>5, <1>7 DEF Configure, UartInv, Queues
<1> QED BY <1>1, <1>2, <1>3, <1>4, <1>6, <1>7, Zenon

\* One poll: the sample, the write it allows, and the read.
LEMMA PollInv == UartInv /\ Poll => UartInv'
<1> SUFFICES ASSUME UartInv, Poll PROVE UartInv'
  OBVIOUS
<1> USE BoundsAssumption DEF BoundsAssumption
<1>1. CASE PollIn
  <2>1. toBackend' \in 0..RxCapacity /\ sent' \in Nat
    BY <1>1, SMTT(30) DEF PollIn, Least, UartInv, Queues
  <2>2. CASE toBackend' > 0
    <3>1. Observe /\ lost' = lost
      BY <1>1, <2>2 DEF PollIn
    <3>2. /\ events' \in 0..EventMax /\ lostMinimum' \in 0..EventMax
          /\ latch' = FALSE /\ CountIsMinimum' /\ LossIsSeen'
      BY <3>1, ObserveCounts, Zenon
    <3> QED
      BY <1>1, <2>1, <2>2, <3>2 DEF PollIn, UartInv, Queues, Fits, Calm, line
  <2>3. CASE ~(toBackend' > 0)
    BY <1>1, <2>1, <2>3, Zenon DEF PollIn, UartInv, Queues, Fits, Calm, CountIsMinimum, LossIsSeen, line, counters
  <2> QED BY <2>2, <2>3
<1>2. CASE Write
  <2>1. /\ Accepted(toBackend) \in Nat /\ Accepted(toBackend) <= room
        /\ Accepted(toBackend) <= toBackend /\ tx + Accepted(toBackend) <= TxFifo
    BY DEF Accepted, Least, UartInv, Queues
  <2> QED
    BY <1>2, <2>1, SMTT(30) DEF Write, UartInv, Queues, Fits, Calm, CountIsMinimum, LossIsSeen, driver, counters
<1>3. CASE PollOut
  <2>1. CASE toPeer = 0
    <3>1. Observe /\ lost' = lost
      BY <1>3, <2>1, Zenon DEF PollOut, Take
    <3>2. /\ events' \in 0..EventMax /\ lostMinimum' \in 0..EventMax
          /\ latch' = FALSE /\ CountIsMinimum' /\ LossIsSeen'
      BY <3>1, ObserveCounts, Zenon
    <3> QED
      BY <1>3, <2>1, <3>2 DEF PollOut, Take, UartInv, Queues, Fits, Calm, line
  <2>2. CASE toPeer # 0
    BY <1>3, <2>2 DEF PollOut, Take, UartInv, Queues, Fits, Calm, CountIsMinimum, LossIsSeen, line, counters
  <2> QED BY <2>1, <2>2, Zenon
<1> QED BY <1>1, <1>2, <1>3 DEF Poll

\* Every step of the channel, the driver and the line preserves the invariant.
LEMMA UartNextInv == UartInv /\ [UartNext]_uartVars => UartInv'
<1> SUFFICES ASSUME UartInv, [UartNext]_uartVars PROVE UartInv'
  OBVIOUS
<1>1. CASE UNCHANGED uartVars
  BY <1>1 DEF uartVars, stream, driver, line, counters, UartInv, Queues, Fits, Calm, CountIsMinimum, LossIsSeen
<1>2. CASE UartNext
  BY <1>2, LineInv, ChannelInv, PollInv DEF UartNext
<1> QED BY <1>1, <1>2, ZenonT(30)

\* The invariant holds in every state of the channel.
THEOREM UartInvariance == UartSpec => []UartInv
  BY UartInitInv, UartNextInv, PTL DEF UartSpec

\* Each queue stays within its size (Stream::pump, the driver's queue and FIFO).
THEOREM TypeCorrect == UartSpec => []UartTypeOK
<1>1. UartInit => Flags
  BY Zenon DEF UartInit, Flags
<1>2. UartInv /\ Flags => UartTypeOK
  BY DEF UartInv, UartTypeOK
<1> QED BY <1>1, <1>2, FlagsInv, UartInvariance, PTL DEF UartSpec

\* For every capacity and reserve, if the bytes in flight fit into the reserve, a peer
\* that only answers never overruns the receiver (UartBackend::write).
THEOREM ReserveSuffices == UartSpec => []EchoNeverOverruns
<1>1. UartInv => EchoNeverOverruns
  BY DEF UartInv, Fits, EchoNeverOverruns
<1> QED BY <1>1, UartInvariance, PTL

\* uart_rx_lost_bytes_minimum never exceeds the loss (UartBackend::observe).
THEOREM MinimumIsSound == UartSpec => []CountIsMinimum
<1>1. UartInv => CountIsMinimum
  BY DEF UartInv
<1> QED BY <1>1, UartInvariance, PTL

\* No overrun is forgotten, not even by a reset of the driver (UartBackend::configure).
THEOREM LossIsNoticed == UartSpec => []LossIsSeen
<1>1. UartInv => LossIsSeen
  BY DEF UartInv
<1> QED BY <1>1, UartInvariance, PTL
=============================================================================
