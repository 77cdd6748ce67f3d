---------------------------- MODULE BufferProofs ----------------------------
(***************************************************************************)
(* Proofs about the two components that reuse memory.  The strings that the *)
(* scanner cuts out of shared arrays never change (ScannerArena), for every *)
(* set of values and every number and size of arrays; the ring buffer      *)
(* implements the deque (RingBuffer), for every element set and every bound, *)
(* when Reserve is called as the repository's clients call it.             *)
(***************************************************************************)
EXTENDS ScannerArena, RingBuffer, TLAPS

-----------------------------------------------------------------------------
(* ScannerArena *)

\* What makes StringsIntact inductive: in an array that is still written to,
\* every string ends where the scanner's slice, or its buffer, begins; only one of
\* the two has any capacity; the buffer holds what was appended to it; and nothing
\* lies in arrays that are not allocated, except empty slices at index 0.
Holds(arr, off, t) == \A i \in 1..Len(t) : mem[arr][off + i - 1] = t[i]
Below(s, slice) == slice.cap > 0 /\ s.arr = slice.arr => s.off + Len(s.text) <= slice.off
Disjoint == \A s \in strings : Below(s, bytesPrealloc) /\ Below(s, buf)
OneOwner == (mode = "append" /\ bytesPrealloc = NilSlice) \/ (mode = "scan" /\ buf = NilSlice)
BufferHolds == Holds(buf.arr, buf.off, text)
StringsHold == \A s \in strings : Holds(s.arr, s.off, s.text)
Placed ==
  /\ bytesPrealloc.arr < next \/ bytesPrealloc.off = 0
  /\ buf.arr < next \/ buf.off = 0
  /\ \A s \in strings : s.arr < next \/ s.off = 0
Inv == ArenaTypeOK /\ StringsHold /\ Disjoint /\ OneOwner /\ BufferHolds /\ Placed

\* What a piece of text is.
LEMMA PieceType ==
  ASSUME NEW t \in Pieces
  PROVE  t \in Seq(Value) /\ Len(t) \in Nat /\ Len(t) > 0
<1>1. PICK n \in 1..MaxPiece : t \in [1..n -> Value]
  BY DEF Pieces
<1>2. n \in Nat /\ n > 0
  BY <1>1, ArenaAssumption
<1>3. t \in Seq(Value) /\ Len(t) = n
  BY <1>1, <1>2
<1> QED BY <1>2, <1>3

\* What a write does to the memory.
LEMMA WrittenType ==
  ASSUME mem \in [Arrays -> [Indices -> Value]], NEW arr \in Arrays, NEW off \in Nat,
         NEW t \in Seq(Value)
  PROVE  /\ Written(arr, off, t) \in [Arrays -> [Indices -> Value]]
         /\ \A a \in Arrays, i \in Indices :
              Written(arr, off, t)[a][i] =
                IF a = arr /\ i \in off..off + Len(t) - 1 THEN t[i - off + 1] ELSE mem[a][i]
<1>1. \A i \in Indices : i \in off..off + Len(t) - 1 => t[i - off + 1] \in Value
  BY ArenaAssumption DEF Indices
<1> DEFINE new == [i \in Indices |-> IF i \in off..off + Len(t) - 1
                                     THEN t[i - off + 1] ELSE mem[arr][i]]
<1>2. new \in [Indices -> Value]
  BY <1>1
<1>3. Written(arr, off, t) = [mem EXCEPT ![arr] = new]
  BY DEF Written
<1> QED BY <1>2, <1>3

\* A write changes no byte outside its range.
LEMMA WrittenElsewhere ==
  ASSUME mem \in [Arrays -> [Indices -> Value]], NEW arr \in Arrays, NEW off \in Nat,
         NEW t \in Seq(Value), NEW a \in Arrays, NEW j \in Indices,
         ~(a = arr /\ j \in off..off + Len(t) - 1)
  PROVE  Written(arr, off, t)[a][j] = mem[a][j]
<1>1. CASE a # arr
  BY <1>1 DEF Written
<1>2. CASE a = arr
  BY <1>2 DEF Written
<1> QED BY <1>1, <1>2

\* A write leaves alone what lies below it in its array.
LEMMA WriteKeeps ==
  ASSUME mem \in [Arrays -> [Indices -> Value]], NEW arr \in Arrays, NEW off \in Nat,
         NEW t \in Seq(Value), mem' = Written(arr, off, t),
         NEW a \in Nat, NEW o \in Nat, NEW u \in Seq(Value), Holds(a, o, u),
         o + Len(u) <= MaxCap, u # <<>> => a \in Arrays,
         a = arr => o + Len(u) <= off
  PROVE  Holds(a, o, u)'
<1> SUFFICES ASSUME NEW i \in 1..Len(u) PROVE mem'[a][o + i - 1] = u[i]
  BY DEF Holds
<1>1. a \in Arrays /\ o + i - 1 \in Indices /\ (a = arr => o + i - 1 < off)
  BY ArenaAssumption DEF Indices
<1>2. mem[a][o + i - 1] = u[i]
  BY DEF Holds
<1>3. ~(a = arr /\ o + i - 1 \in off..off + Len(t) - 1)
  BY <1>1
<1>4. mem'[a][o + i - 1] = mem[a][o + i - 1]
  <2>1. PICK j \in Indices : j = o + i - 1
    BY <1>1
  <2>2. a \in Arrays /\ ~(a = arr /\ j \in off..off + Len(t) - 1)
    BY <1>1, <1>3, <2>1
  <2>3. Written(arr, off, t)[a][j] = mem[a][j]
    BY <2>2, WrittenElsewhere
  <2> QED BY <2>1, <2>3
<1> QED BY <1>2, <1>4

\* A write can be read back.
LEMMA WriteHolds ==
  ASSUME mem \in [Arrays -> [Indices -> Value]], NEW arr \in Arrays, NEW off \in Nat,
         NEW t \in Seq(Value), mem' = Written(arr, off, t), off + Len(t) <= MaxCap
  PROVE  \A i \in 1..Len(t) : mem'[arr][off + i - 1] = t[i]
<1> SUFFICES ASSUME NEW i \in 1..Len(t) PROVE mem'[arr][off + i - 1] = t[i]
  OBVIOUS
<1>1. /\ off + i - 1 \in Indices
      /\ off + i - 1 \in off..off + Len(t) - 1
      /\ (off + i - 1) - off + 1 = i
  BY ArenaAssumption DEF Indices
<1> QED BY <1>1, WrittenType, Zenon

\* All strings survive a write to memory above them.
LEMMA StringsSurvive ==
  ASSUME Inv, NEW arr \in Arrays, NEW off \in Nat, NEW t \in Seq(Value),
         mem' = Written(arr, off, t),
         \A s \in strings : s.arr = arr => s.off + Len(s.text) <= off
  PROVE  \A s \in strings : Holds(s.arr, s.off, s.text)'
<1> TAKE s \in strings
<1>1. /\ s.arr \in Nat /\ s.off \in Nat /\ s.text \in Seq(Value)
      /\ s.off + Len(s.text) <= MaxCap /\ (s.text # <<>> => s.arr \in Arrays)
      /\ mem \in [Arrays -> [Indices -> Value]]
  BY ArenaAssumption DEF Inv, ArenaTypeOK, IsString, Arrays
<1>2. Holds(s.arr, s.off, s.text)
  BY DEF Inv, StringsHold
<1> QED BY <1>1, <1>2, WriteKeeps, Zenon

\* The empty text and the empty slice.
LEMMA EmptyText == <<>> \in Seq(Value) /\ Len(<<>>) = 0
  OBVIOUS

LEMMA NilFields == /\ NilSlice \in [arr : Nat, off : Nat, len : Nat, cap : Nat]
                   /\ NilSlice.arr = 0 /\ NilSlice.off = 0 /\ NilSlice.len = 0 /\ NilSlice.cap = 0
  BY DEF NilSlice, Slice

\* The fields of a slice with capacity.
LEMMA SliceFields ==
  ASSUME ArenaTypeOK, NEW s, IsSlice(s), s.cap > 0
  PROVE  \E arr \in Arrays, off \in Nat, len \in Nat, cap \in Nat :
           /\ s = Slice(arr, off, len, cap) /\ arr < next
           /\ len <= cap /\ off + cap <= MaxCap
<1>1. /\ s.arr \in Nat /\ s.off \in Nat /\ s.len \in Nat /\ s.cap \in Nat
      /\ s = Slice(s.arr, s.off, s.len, s.cap)
      /\ s.len <= s.cap /\ s.off + s.cap <= MaxCap /\ s.arr < next
  BY DEF IsSlice, Slice
<1>2. s.arr \in Arrays
  BY <1>1, ArenaAssumption DEF Arrays, ArenaTypeOK
<1> QED BY <1>1, <1>2

\* A slice of an allocated array stays one when arrays are added.
LEMMA SliceIsSlice ==
  ASSUME ArenaTypeOK, NEW arr \in Nat, NEW off \in Nat, NEW len \in Nat, NEW cap \in Nat,
         len <= cap, off + cap <= MaxCap, arr < next', next' \in Nat,
         bytesPrealloc' = Slice(arr, off, len, cap)
  PROVE  IsSlice(bytesPrealloc)'
  BY DEF IsSlice, Slice

\* The initial state.
LEMMA InitInv == ArenaInit => Inv
<1> SUFFICES ASSUME ArenaInit PROVE Inv
  OBVIOUS
<1>1. ArenaTypeOK
  BY ArenaAssumption DEF ArenaInit, ArenaTypeOK, IsSlice, NilSlice, Slice, Arrays, Indices
<1> QED BY <1>1 DEF ArenaInit, Inv, StringsHold, Disjoint, OneOwner, BufferHolds, Holds, Placed, NilSlice, Slice

\* A new scanner for a text of n bytes.
LEMMA InitScannerInv ==
  ASSUME Inv, NEW n \in 0..MaxCap, InitScanner(n)
  PROVE  Inv'
<1> USE ArenaAssumption, EmptyText, NilFields DEF Inv, InitScanner, Slice
<1>1. /\ mem \in [Arrays -> [Indices -> Value]] /\ next \in Nat /\ next <= MaxArrays
      /\ IsSlice(bytesPrealloc) /\ IsSlice(buf)
      /\ text \in Seq(Value) /\ Len(text) = buf.len
      /\ \A s \in strings : IsString(s)
  BY DEF ArenaTypeOK
<1>2. ArenaTypeOK'
  <2>1. mem' \in [Arrays -> [Indices -> Value]] /\ next' \in 0..MaxArrays /\ mode' \in {"scan", "append"}
    BY <1>1 DEF ArenaTypeOK
  <2>2. IsSlice(bytesPrealloc)'
    BY <1>1 DEF IsSlice
  <2>3. IsSlice(buf)'
    BY <1>1 DEF IsSlice
  <2>4. text' \in Seq(Value) /\ Len(text') = buf'.len
    BY <1>1 DEF IsSlice
  <2>5. \A s \in strings' : IsString(s)'
    BY <1>1 DEF IsString
  <2> QED BY <2>1, <2>2, <2>3, <2>4, <2>5 DEF ArenaTypeOK
<1>3. StringsHold'
  BY DEF StringsHold, Holds
<1>4. BufferHolds'
  BY <1>1 DEF BufferHolds, Holds
<1>5. Disjoint'
  <2>1. \A s \in strings : s.arr = next => s.off = 0 /\ Len(s.text) = 0
    BY <1>1 DEF Placed, IsString
  <2>2. \A s \in strings : Below(s, bytesPrealloc)'
    BY <1>1, <2>1 DEF Below
  <2>3. \A s \in strings : Below(s, buf)'
    BY DEF Disjoint, Below
  <2> QED BY <2>2, <2>3 DEF Disjoint
<1>6. OneOwner'
  BY DEF OneOwner
<1>7. Placed'
  <2>1. next' = next + 1 /\ buf' = buf /\ strings' = strings /\ bytesPrealloc'.off = 0
    OBVIOUS
  <2>2. buf'.arr < next' \/ buf'.off = 0
    BY <1>1, <2>1 DEF Placed, IsSlice
  <2>3. \A s \in strings : s.arr < next' \/ s.off = 0
    BY <1>1, <2>1 DEF Placed, IsString
  <2> QED BY <2>1, <2>2, <2>3 DEF Placed
<1> QED BY <1>2, <1>3, <1>4, <1>5, <1>6, <1>7

\* The scanner gives up its memory.
LEMMA CleanupInv ==
  ASSUME Inv, Cleanup
  PROVE  Inv'
<1> USE ArenaAssumption, EmptyText, NilFields DEF Inv, Cleanup
<1>1. /\ mem \in [Arrays -> [Indices -> Value]] /\ next \in Nat /\ next <= MaxArrays
      /\ IsSlice(bytesPrealloc) /\ IsSlice(buf)
      /\ text \in Seq(Value) /\ Len(text) = buf.len
      /\ \A s \in strings : IsString(s)
  BY DEF ArenaTypeOK
<1>2. ArenaTypeOK'
  <2>1. mem' \in [Arrays -> [Indices -> Value]] /\ next' \in 0..MaxArrays /\ mode' \in {"scan", "append"}
    BY <1>1 DEF ArenaTypeOK
  <2>2. IsSlice(bytesPrealloc)'
    BY <1>1 DEF IsSlice
  <2>3. IsSlice(buf)'
    BY <1>1 DEF IsSlice
  <2>4. text' \in Seq(Value) /\ Len(text') = buf'.len
    BY <1>1 DEF IsSlice
  <2>5. \A s \in strings' : IsString(s)'
    BY <1>1 DEF IsString
  <2> QED BY <2>1, <2>2, <2>3, <2>4, <2>5 DEF ArenaTypeOK
<1>3. StringsHold'
  BY DEF StringsHold, Holds
<1>4. BufferHolds'
  BY <1>1 DEF BufferHolds, Holds
<1>5. Disjoint'
  <2>1. bytesPrealloc' = NilSlice /\ buf' = buf /\ strings' = strings
    OBVIOUS
  <2> QED BY <2>1 DEF Disjoint, Below
<1>6. OneOwner'
  BY DEF OneOwner
<1>7. Placed'
  BY <1>1 DEF Placed
<1> QED BY <1>2, <1>3, <1>4, <1>5, <1>6, <1>7

\* Emptying a slice (b[:0]) changes its length and nothing else.
LEMMA EmptiedFields ==
  ASSUME NEW s \in [arr : Nat, off : Nat, len : Nat, cap : Nat]
  PROVE  /\ [s EXCEPT !.len = 0] \in [arr : Nat, off : Nat, len : Nat, cap : Nat]
         /\ [s EXCEPT !.len = 0].arr = s.arr /\ [s EXCEPT !.len = 0].off = s.off
         /\ [s EXCEPT !.len = 0].len = 0 /\ [s EXCEPT !.len = 0].cap = s.cap
  OBVIOUS

\* A scan function takes the scanner's slice as its buffer.
LEMMA BufferInv ==
  ASSUME Inv, Buffer
  PROVE  Inv'
<1> USE ArenaAssumption, EmptyText, NilFields
<1>1. /\ mem \in [Arrays -> [Indices -> Value]] /\ next \in Nat /\ next <= MaxArrays
      /\ next \in 0..MaxArrays
      /\ IsSlice(bytesPrealloc) /\ IsSlice(buf)
      /\ text \in Seq(Value) /\ Len(text) = buf.len
      /\ \A s \in strings : IsString(s)
  BY DEF Inv, ArenaTypeOK
<1>a. /\ mode = "scan" /\ mode' = "append" /\ bytesPrealloc' = NilSlice /\ text' = <<>>
      /\ mem' = mem /\ next' = next /\ strings' = strings
  BY DEF Buffer
<1>b. /\ buf' \in [arr : Nat, off : Nat, len : Nat, cap : Nat]
      /\ buf'.arr = bytesPrealloc.arr /\ buf'.off = bytesPrealloc.off
      /\ buf'.len = 0 /\ buf'.cap = bytesPrealloc.cap
  <2>1. bytesPrealloc \in [arr : Nat, off : Nat, len : Nat, cap : Nat]
    BY <1>1 DEF IsSlice
  <2>2. buf' = [bytesPrealloc EXCEPT !.len = 0]
    BY DEF Buffer
  <2> QED BY <2>1, <2>2, EmptiedFields
<1>2. ArenaTypeOK'
  <2>1. mem' \in [Arrays -> [Indices -> Value]] /\ next' \in 0..MaxArrays /\ mode' \in {"scan", "append"}
    BY <1>1, <1>a
  <2>2. IsSlice(bytesPrealloc)'
    BY <1>a DEF IsSlice
  <2>3. IsSlice(buf)'
    BY <1>1, <1>a, <1>b DEF IsSlice
  <2>4. text' \in Seq(Value) /\ Len(text') = buf'.len
    BY <1>a, <1>b
  <2>5. \A s \in strings' : IsString(s)'
    BY <1>1, <1>a DEF IsString
  <2> QED BY <2>1, <2>2, <2>3, <2>4, <2>5 DEF ArenaTypeOK
<1>3. StringsHold'
  BY <1>a DEF Inv, StringsHold, Holds
<1>4. BufferHolds'
  BY <1>a, <1>b DEF BufferHolds, Holds
<1>5. Disjoint'
  BY <1>1, <1>a, <1>b DEF Inv, Disjoint, Below
<1>6. OneOwner'
  BY <1>a DEF OneOwner
<1>7. Placed'
  BY <1>1, <1>a, <1>b DEF Inv, Placed, IsSlice
<1> QED BY <1>2, <1>3, <1>4, <1>5, <1>6, <1>7 DEF Inv

\* A scan function fails.
LEMMA DropBufferInv ==
  ASSUME Inv, DropBuffer
  PROVE  Inv'
<1> USE ArenaAssumption, EmptyText, NilFields DEF Inv, DropBuffer
<1>1. /\ mem \in [Arrays -> [Indices -> Value]] /\ next \in Nat /\ next <= MaxArrays
      /\ IsSlice(bytesPrealloc) /\ IsSlice(buf)
      /\ text \in Seq(Value) /\ Len(text) = buf.len
      /\ \A s \in strings : IsString(s)
  BY DEF ArenaTypeOK
<1>2. ArenaTypeOK'
  <2>1. mem' \in [Arrays -> [Indices -> Value]] /\ next' \in 0..MaxArrays /\ mode' \in {"scan", "append"}
    BY <1>1 DEF ArenaTypeOK
  <2>2. IsSlice(bytesPrealloc)'
    BY <1>1 DEF IsSlice
  <2>3. IsSlice(buf)'
    BY <1>1 DEF IsSlice
  <2>4. text' \in Seq(Value) /\ Len(text') = buf'.len
    BY <1>1 DEF IsSlice
  <2>5. \A s \in strings' : IsString(s)'
    BY <1>1 DEF IsString
  <2> QED BY <2>1, <2>2, <2>3, <2>4, <2>5 DEF ArenaTypeOK
<1>3. StringsHold'
  BY DEF StringsHold, Holds
<1>4. BufferHolds'
  BY <1>1 DEF BufferHolds, Holds
<1>5. Disjoint'
  <2>1. bytesPrealloc' = bytesPrealloc /\ buf' = NilSlice /\ strings' = strings
    OBVIOUS
  <2> QED BY <2>1 DEF Disjoint, Below
<1>6. OneOwner'
  BY DEF OneOwner
<1>7. Placed'
  BY <1>1 DEF Placed
<1> QED BY <1>2, <1>3, <1>4, <1>5, <1>6, <1>7

\* A name is written to memory cut from the scanner's slice.
LEMMA AllocBytesInv ==
  ASSUME Inv, NEW t \in Pieces, AllocBytes(t)
  PROVE  Inv'
<1> USE ArenaAssumption
<1>1. /\ mem \in [Arrays -> [Indices -> Value]] /\ next \in Nat /\ next <= MaxArrays
      /\ IsSlice(bytesPrealloc) /\ IsSlice(buf)
      /\ text \in Seq(Value) /\ Len(text) = buf.len
      /\ \A s \in strings : IsString(s)
  BY DEF Inv, ArenaTypeOK
<1>2. t \in Seq(Value) /\ Len(t) \in Nat /\ Len(t) > 0
  BY PieceType
<1>3. bytesPrealloc.cap > 0
  BY <1>1, <1>2 DEF IsSlice, AllocBytes
<1>7. PICK arr \in Arrays, off \in Nat, len \in Nat, cap \in Nat :
        /\ bytesPrealloc = Slice(arr, off, len, cap) /\ arr < next
        /\ len <= cap /\ off + cap <= MaxCap
  BY <1>1, <1>3, SliceFields DEF Inv
<1> DEFINE str == [arr |-> arr, off |-> off, text |-> t]
<1>8. /\ mode = "scan" /\ mode' = "scan" /\ buf = NilSlice /\ buf' = buf /\ text' = text /\ next' = next
      /\ len >= Len(t) /\ mem' = Written(arr, off, t) /\ strings' = strings \cup {str}
      /\ bytesPrealloc' = Slice(arr, off + Len(t), len - Len(t), cap - Len(t))
  BY <1>7, Zenon DEF AllocBytes, Publish, Inv, OneOwner, Slice, Remaining
<1>9. /\ arr \in Nat /\ off + Len(t) <= MaxCap /\ off + Len(t) \in Nat
      /\ len - Len(t) \in Nat /\ cap - Len(t) \in Nat /\ len - Len(t) <= cap - Len(t)
      /\ (off + Len(t)) + (cap - Len(t)) <= MaxCap
  BY <1>2, <1>7, <1>8 DEF Arrays
<1>10. \A s \in strings : s.arr = arr => s.off + Len(s.text) <= off
  BY <1>3, <1>7 DEF Inv, Disjoint, Below, Slice
<1> HIDE DEF str
<1>11. str.arr = arr /\ str.off = off /\ str.text = t
  BY DEF str
<1>12. ArenaTypeOK'
  <2>1. mem' \in [Arrays -> [Indices -> Value]]
    BY <1>1, <1>2, <1>8, WrittenType
  <2>2. IsSlice(bytesPrealloc)'
    BY <1>1, <1>7, <1>8, <1>9, SliceIsSlice DEF Inv
  <2>3. IsSlice(buf)'
    BY <1>1, <1>8 DEF IsSlice
  <2>4. \A s \in strings : IsString(s)'
    BY <1>1, <1>8 DEF IsString
  <2>5. \A s \in strings' : IsString(s)'
    BY <1>2, <1>7, <1>8, <1>9, <1>11, <2>4, Zenon DEF IsString
  <2> QED BY <1>1, <1>8, <2>1, <2>2, <2>3, <2>5 DEF ArenaTypeOK
<1>13. StringsHold'
  <2>1. \A s \in strings : Holds(s.arr, s.off, s.text)'
    BY <1>2, <1>8, <1>10, StringsSurvive
  <2>2. \A i \in 1..Len(t) : mem'[arr][off + i - 1] = t[i]
    BY <1>1, <1>2, <1>8, <1>9, WriteHolds
  <2> QED BY <1>8, <1>11, <2>1, <2>2, Zenon DEF StringsHold, Holds
<1>14. BufferHolds'
  BY <1>1, <1>8, NilFields DEF BufferHolds, Holds
<1>15. Disjoint'
  <2>1. \A s \in strings' : s.arr = arr => s.off + Len(s.text) <= off + Len(t)
    <3>1. \A s \in strings : s.off \in Nat /\ Len(s.text) \in Nat
      BY <1>1 DEF IsString
    <3>2. \A s \in strings : s.arr = arr => s.off + Len(s.text) <= off + Len(t)
      BY <1>2, <1>10, <3>1
    <3>3. str.off + Len(str.text) <= off + Len(t)
      BY <1>2, <1>11
    <3>4. strings' = strings \cup {str}
      BY <1>8
    <3> QED BY <3>2, <3>3, <3>4, Zenon
  <2>2. \A s \in strings' : Below(s, bytesPrealloc)'
    BY <1>8, <2>1 DEF Below, Slice
  <2>3. \A s \in strings' : Below(s, buf)'
    BY <1>8, NilFields DEF Below
  <2> QED BY <2>2, <2>3 DEF Disjoint
<1>16. OneOwner'
  BY <1>8 DEF OneOwner
<1>17. Placed'
  BY <1>1, <1>7, <1>8, <1>11 DEF Inv, Placed, Slice
<1> QED BY <1>12, <1>13, <1>14, <1>15, <1>16, <1>17 DEF Inv

\* A name is written to an array of its own.
LEMMA AllocMakeInv ==
  ASSUME Inv, NEW t \in Pieces, AllocMake(t)
  PROVE  Inv'
<1> USE ArenaAssumption
<1>1. /\ mem \in [Arrays -> [Indices -> Value]] /\ next \in Nat /\ next <= MaxArrays
      /\ IsSlice(bytesPrealloc) /\ IsSlice(buf)
      /\ text \in Seq(Value) /\ Len(text) = buf.len
      /\ \A s \in strings : IsString(s)
  BY DEF Inv, ArenaTypeOK
<1>2. t \in Seq(Value) /\ Len(t) \in Nat /\ Len(t) > 0
  BY PieceType
<1>3. PICK arr \in Arrays : arr = next
  BY <1>1 DEF Arrays, AllocMake
<1> DEFINE str == [arr |-> arr, off |-> 0, text |-> t]
<1>4. /\ mode = "scan" /\ mode' = "scan" /\ buf = NilSlice /\ buf' = buf /\ text' = text
      /\ bytesPrealloc' = bytesPrealloc /\ next' = arr + 1 /\ arr < MaxArrays
      /\ Len(t) <= MaxCap /\ mem' = Written(arr, 0, t) /\ strings' = strings \cup {str}
  BY <1>3 DEF AllocMake, Publish, Inv, OneOwner
<1> HIDE DEF str
<1>5. str.arr = arr /\ str.off = 0 /\ str.text = t /\ arr \in Nat
  BY <1>1, <1>3 DEF str
<1>6. \A s \in strings : s.arr = arr => s.off + Len(s.text) <= 0
  BY <1>1, <1>3, EmptyText DEF Inv, Placed, IsString
<1>7. ArenaTypeOK'
  <2>1. mem' \in [Arrays -> [Indices -> Value]]
    BY <1>1, <1>2, <1>4, WrittenType, Zenon
  <2>a. next' = next + 1 /\ bytesPrealloc' = bytesPrealloc /\ buf' = buf
    BY <1>3, <1>4
  <2>2. IsSlice(bytesPrealloc)'
    BY <1>1, <2>a DEF IsSlice
  <2>3. IsSlice(buf)'
    BY <1>1, <2>a DEF IsSlice
  <2>4. \A s \in strings : IsString(s)'
    BY <1>1, <1>3, <1>4 DEF IsString
  <2>5. \A s \in strings' : IsString(s)'
    BY <1>2, <1>4, <1>5, <2>4 DEF IsString
  <2> QED BY <1>1, <1>4, <1>5, <2>1, <2>2, <2>3, <2>5 DEF ArenaTypeOK
<1>8. StringsHold'
  <2>1. \A s \in strings : Holds(s.arr, s.off, s.text)'
    BY <1>2, <1>4, <1>6, StringsSurvive
  <2>2. \A i \in 1..Len(t) : mem'[arr][0 + i - 1] = t[i]
    BY <1>1, <1>2, <1>4, WriteHolds
  <2> QED BY <1>4, <1>5, <2>1, <2>2 DEF StringsHold, Holds
<1>9. BufferHolds'
  BY <1>1, <1>4, NilFields DEF BufferHolds, Holds
<1>10. Disjoint'
  <2>1. \A s \in strings' : Below(s, bytesPrealloc)'
    BY <1>1, <1>3, <1>4, <1>5 DEF Inv, Disjoint, Below, IsSlice
  <2>2. \A s \in strings' : Below(s, buf)'
    BY <1>4, NilFields DEF Below
  <2> QED BY <2>1, <2>2 DEF Disjoint
<1>11. OneOwner'
  BY <1>4 DEF OneOwner
<1>12. Placed'
  <2>1. next \in Nat /\ next' = next + 1
    BY <1>1, <1>3, <1>4
  <2>2. (bytesPrealloc'.arr < next' \/ bytesPrealloc'.off = 0) /\ (buf'.arr < next' \/ buf'.off = 0)
    <3>1. bytesPrealloc.arr \in Nat /\ buf.arr \in Nat
      BY <1>1 DEF IsSlice
    <3>2. (bytesPrealloc.arr < next \/ bytesPrealloc.off = 0) /\ (buf.arr < next \/ buf.off = 0)
      BY DEF Inv, Placed
    <3>3. bytesPrealloc' = bytesPrealloc /\ buf' = buf
      BY <1>4
    <3> QED BY <2>1, <3>1, <3>2, <3>3
  <2>3. \A s \in strings : s.arr < next' \/ s.off = 0
    BY <1>1, <2>1 DEF Inv, Placed, IsString
  <2> QED BY <1>4, <1>5, <2>2, <2>3 DEF Placed
<1> QED BY <1>7, <1>8, <1>9, <1>10, <1>11, <1>12 DEF Inv

\* What appending t to a text does to it.
LEMMA AppendText ==
  ASSUME NEW u \in Seq(Value), NEW t \in Seq(Value)
  PROVE  /\ u \o t \in Seq(Value) /\ Len(u \o t) = Len(u) + Len(t)
         /\ \A i \in 1..Len(u) : (u \o t)[i] = u[i]
         /\ \A i \in 1..Len(t) : (u \o t)[Len(u) + i] = t[i]
  OBVIOUS

\* A text is in memory when its two parts are.
LEMMA HoldsParts ==
  ASSUME NEW u \in Seq(Value), NEW t \in Seq(Value), NEW arr \in Nat, NEW off \in Nat,
         Holds(arr, off, u)', Holds(arr, off + Len(u), t)'
  PROVE  Holds(arr, off, u \o t)'
<1> SUFFICES ASSUME NEW i \in 1..Len(u \o t) PROVE mem'[arr][off + i - 1] = (u \o t)[i]
  BY DEF Holds
<1>a. /\ \A k \in 1..Len(u) : mem'[arr][off + k - 1] = u[k]
      /\ \A k \in 1..Len(t) : mem'[arr][(off + Len(u)) + k - 1] = t[k]
  BY DEF Holds
<1>1. CASE i <= Len(u)
  BY <1>1, <1>a, AppendText
<1>2. CASE i > Len(u)
  <2>1. i - Len(u) \in 1..Len(t) /\ Len(u) + (i - Len(u)) = i
        /\ (off + Len(u)) + (i - Len(u)) - 1 = off + i - 1
    BY <1>2, AppendText
  <2>2. mem'[arr][(off + Len(u)) + (i - Len(u)) - 1] = t[i - Len(u)]
    BY <1>a, <2>1
  <2>3. (u \o t)[Len(u) + (i - Len(u))] = t[i - Len(u)]
    BY <2>1, AppendText
  <2> QED BY <2>1, <2>2, <2>3
<1> QED BY <1>1, <1>2, AppendText

\* The scan function appends within the capacity of its buffer.
LEMMA AppendInPlaceInv ==
  ASSUME Inv, NEW t \in Pieces, AppendInPlace(t)
  PROVE  Inv'
<1> USE ArenaAssumption
<1>1. /\ mem \in [Arrays -> [Indices -> Value]] /\ next \in Nat /\ next <= MaxArrays
      /\ IsSlice(bytesPrealloc) /\ IsSlice(buf)
      /\ text \in Seq(Value) /\ Len(text) = buf.len
      /\ \A s \in strings : IsString(s)
  BY DEF Inv, ArenaTypeOK
<1>2. t \in Seq(Value) /\ Len(t) \in Nat /\ Len(t) > 0
  BY PieceType
<1>3. buf.cap > 0
  <2>1. buf.len \in Nat /\ buf.cap \in Nat
    BY <1>1 DEF IsSlice
  <2>2. buf.len + Len(t) <= buf.cap
    BY DEF AppendInPlace
  <2> QED BY <1>2, <2>1, <2>2
<1>4. PICK arr \in Arrays, off \in Nat, len \in Nat, cap \in Nat :
        /\ buf = Slice(arr, off, len, cap) /\ arr < next
        /\ len <= cap /\ off + cap <= MaxCap
  BY <1>1, <1>3, SliceFields DEF Inv
<1>5. PICK u \in Seq(Value) : u = text /\ Len(u) = len
  BY <1>1, <1>4 DEF Slice
<1>6. /\ mode = "append" /\ mode' = "append" /\ bytesPrealloc = NilSlice /\ bytesPrealloc' = NilSlice
      /\ next' = next /\ strings' = strings /\ text' = u \o t
      /\ len + Len(t) <= cap /\ mem' = Written(arr, off + len, t)
      /\ buf' = Slice(arr, off, len + Len(t), cap)
  BY <1>4, <1>5, Zenon DEF AppendInPlace, Inv, OneOwner, Slice
<1>7. /\ arr \in Nat /\ off + len \in Nat /\ (off + len) + Len(t) <= MaxCap
      /\ len + Len(t) \in Nat /\ off + len <= MaxCap /\ cap > 0
  BY <1>2, <1>3, <1>4, <1>6 DEF Arrays, Slice
<1>8. \A s \in strings : s.arr = arr => s.off + Len(s.text) <= off
  BY <1>3, <1>4 DEF Inv, Disjoint, Below, Slice
<1>9. \A s \in strings : s.arr = arr => s.off + Len(s.text) <= off + len
  BY <1>1, <1>8 DEF IsString
<1>10. ArenaTypeOK'
  <2>1. mem' \in [Arrays -> [Indices -> Value]]
    BY <1>1, <1>2, <1>6, <1>7, WrittenType, Zenon
  <2>2. IsSlice(bytesPrealloc)'
    BY <1>6, NilFields DEF IsSlice
  <2>3. IsSlice(buf)'
    BY <1>4, <1>6, <1>7 DEF IsSlice, Slice
  <2>4. text' \in Seq(Value) /\ Len(text') = buf'.len
    BY <1>2, <1>5, <1>6, AppendText, Zenon DEF Slice
  <2>5. \A s \in strings' : IsString(s)'
    BY <1>1, <1>6 DEF IsString
  <2> QED BY <1>1, <1>6, <2>1, <2>2, <2>3, <2>4, <2>5 DEF ArenaTypeOK
<1>11. StringsHold'
  <2>1. \A s \in strings : Holds(s.arr, s.off, s.text)'
    BY <1>2, <1>6, <1>7, <1>9, StringsSurvive, Zenon
  <2> QED BY <1>6, <2>1 DEF StringsHold
<1>12. BufferHolds'
  <2>1. Holds(arr, off, u)
    BY <1>4, <1>5 DEF Inv, BufferHolds, Slice
  <2>2. Holds(arr, off, u)'
    <3>1. off + Len(u) <= MaxCap /\ off + Len(u) <= off + len
      BY <1>4, <1>5, <1>7
    <3> QED BY <1>1, <1>2, <1>5, <1>6, <1>7, <2>1, <3>1, WriteKeeps, Zenon
  <2>3. Holds(arr, off + Len(u), t)'
    <3>1. off + Len(u) \in Nat /\ (off + Len(u)) + Len(t) <= MaxCap
      BY <1>2, <1>5, <1>7
    <3>2. mem' = Written(arr, off + Len(u), t)
      BY <1>5, <1>6
    <3>3. \A i \in 1..Len(t) : mem'[arr][(off + Len(u)) + i - 1] = t[i]
      BY <1>1, <1>2, <1>7, <3>1, <3>2, WriteHolds, Zenon
    <3> QED BY <3>3 DEF Holds
  <2>4. Holds(arr, off, u \o t)'
    BY <1>2, <1>7, <2>2, <2>3, HoldsParts, Zenon
  <2>5. buf'.arr = arr /\ buf'.off = off
    BY <1>6 DEF Slice
  <2> QED BY <1>6, <2>4, <2>5, Zenon DEF BufferHolds, Holds
<1>13. Disjoint'
  BY <1>6, <1>8, NilFields DEF Disjoint, Below, Slice
<1>14. OneOwner'
  BY <1>6 DEF OneOwner
<1>15. Placed'
  BY <1>1, <1>4, <1>6, NilFields DEF Inv, Placed, Slice
<1> QED BY <1>10, <1>11, <1>12, <1>13, <1>14, <1>15 DEF Inv

\* The scan function appends beyond the capacity of its buffer.
LEMMA AppendGrowInv ==
  ASSUME Inv, NEW t \in Pieces, NEW newcap \in 0..MaxCap, AppendGrow(t, newcap)
  PROVE  Inv'
<1> USE ArenaAssumption
<1>1. /\ mem \in [Arrays -> [Indices -> Value]] /\ next \in Nat /\ next <= MaxArrays
      /\ IsSlice(bytesPrealloc) /\ IsSlice(buf)
      /\ text \in Seq(Value) /\ Len(text) = buf.len
      /\ \A s \in strings : IsString(s)
  BY DEF Inv, ArenaTypeOK
<1>2. t \in Seq(Value) /\ Len(t) \in Nat /\ Len(t) > 0
  BY PieceType
<1>3. PICK arr \in Arrays : arr = next
  BY <1>1 DEF Arrays, AppendGrow
<1>4. PICK u \in Seq(Value) : u = text
  BY <1>1
<1>5. Copy(t) = u \o t
  <2>1. /\ DOMAIN text = 1..buf.len
        /\ \A i \in 1..buf.len : mem[buf.arr][buf.off + i - 1] = text[i]
    BY <1>1 DEF Inv, BufferHolds, Holds
  <2>2. [i \in 1..buf.len |-> mem[buf.arr][buf.off + i - 1]] = text
    BY <1>1, <2>1
  <2> QED BY <1>4, <2>2, Zenon DEF Copy
<1>6. PICK v \in Seq(Value) : v = u \o t /\ Len(v) = Len(u) + Len(t)
  BY <1>2, AppendText, Zenon
<1>7. /\ mode = "append" /\ mode' = "append" /\ bytesPrealloc = NilSlice /\ bytesPrealloc' = NilSlice
      /\ next' = arr + 1 /\ arr < MaxArrays /\ strings' = strings /\ text' = v
      /\ Len(v) <= newcap /\ mem' = Written(arr, 0, v)
      /\ buf' = Slice(arr, 0, Len(v), newcap)
  BY <1>1, <1>3, <1>4, <1>5, <1>6 DEF AppendGrow, Inv, OneOwner
<1>8. /\ arr \in Nat /\ newcap \in Nat /\ newcap <= MaxCap /\ Len(v) \in Nat /\ Len(v) <= MaxCap
      /\ 0 + Len(v) <= MaxCap
  BY <1>1, <1>3, <1>6, <1>7
<1>9. \A s \in strings : s.arr = arr => s.off + Len(s.text) <= 0
  BY <1>1, <1>3, EmptyText DEF Inv, Placed, IsString
<1>10. ArenaTypeOK'
  <2>1. mem' \in [Arrays -> [Indices -> Value]]
    BY <1>1, <1>6, <1>7, WrittenType, Zenon
  <2>2. IsSlice(bytesPrealloc)'
    BY <1>7, NilFields DEF IsSlice
  <2>3. IsSlice(buf)'
    BY <1>7, <1>8 DEF IsSlice, Slice
  <2>4. text' \in Seq(Value) /\ Len(text') = buf'.len
    BY <1>6, <1>7 DEF Slice
  <2>5. \A s \in strings' : IsString(s)'
    BY <1>1, <1>3, <1>7 DEF IsString
  <2> QED BY <1>1, <1>7, <1>8, <2>1, <2>2, <2>3, <2>4, <2>5 DEF ArenaTypeOK
<1>11. StringsHold'
  <2>1. \A s \in strings : Holds(s.arr, s.off, s.text)'
    BY <1>6, <1>7, <1>9, StringsSurvive, Zenon
  <2> QED BY <1>7, <2>1 DEF StringsHold
<1>12. BufferHolds'
  <2>1. \A i \in 1..Len(v) : mem'[arr][0 + i - 1] = v[i]
    <3>1. mem' = Written(arr, 0, v) /\ 0 \in Nat /\ 0 + Len(v) <= MaxCap
      BY <1>7, <1>8
    <3> QED BY <1>1, <1>6, <3>1, WriteHolds, Zenon
  <2>2. buf'.arr = arr /\ buf'.off = 0
    BY <1>7 DEF Slice
  <2> QED BY <1>7, <2>1, <2>2 DEF BufferHolds, Holds
<1>13. Disjoint'
  BY <1>7, <1>9, NilFields DEF Disjoint, Below, Slice
<1>14. OneOwner'
  BY <1>7 DEF OneOwner
<1>15. Placed'
  BY <1>1, <1>3, <1>7, NilFields DEF Inv, Placed, Slice, IsString
<1> QED BY <1>10, <1>11, <1>12, <1>13, <1>14, <1>15 DEF Inv

\* The buffer becomes a string, and the scanner gets the rest of it.
LEMMA FinishStringInv ==
  ASSUME Inv, FinishString
  PROVE  Inv'
<1> USE ArenaAssumption
<1>1. /\ mem \in [Arrays -> [Indices -> Value]] /\ next \in Nat /\ next <= MaxArrays
      /\ IsSlice(buf) /\ text \in Seq(Value) /\ Len(text) = buf.len
      /\ \A s \in strings : IsString(s)
  BY DEF Inv, ArenaTypeOK
<1>2. /\ mode = "append" /\ mode' = "scan" /\ bytesPrealloc = NilSlice /\ buf' = NilSlice /\ text' = <<>>
      /\ next' = next /\ mem' = mem /\ bytesPrealloc' = ReturnBuffer
  BY DEF FinishString, Inv, OneOwner
<1>3. PICK arr \in Nat, off \in Nat, len \in Nat, cap \in Nat :
        /\ buf = Slice(arr, off, len, cap) /\ len <= cap /\ off + cap <= MaxCap
        /\ (cap > 0 => arr < next)
  BY <1>1 DEF IsSlice, Slice
<1>4. PICK u \in Seq(Value) : u = text /\ Len(u) = len
  BY <1>1, <1>3 DEF Slice
<1> DEFINE str == [arr |-> arr, off |-> off, text |-> u]
<1>5. strings' = strings \cup {str}
  BY <1>3, <1>4 DEF FinishString, Publish, Slice
<1> HIDE DEF str
<1>6. str.arr = arr /\ str.off = off /\ str.text = u
  BY DEF str
<1>7. \/ bytesPrealloc' = NilSlice
      \/ len < cap /\ bytesPrealloc' = Slice(arr, off + len, 0, cap - len)
  BY <1>2, <1>3 DEF ReturnBuffer, Slice
<1>8. ArenaTypeOK'
  <2>1. IsSlice(bytesPrealloc)'
    <3>1. CASE bytesPrealloc' = NilSlice
      BY <3>1, NilFields DEF IsSlice
    <3>2. CASE len < cap /\ bytesPrealloc' = Slice(arr, off + len, 0, cap - len)
      BY <1>1, <1>2, <1>3, <3>2 DEF IsSlice, Slice
    <3> QED BY <1>7, <3>1, <3>2
  <2>2. IsSlice(buf)'
    BY <1>2, NilFields DEF IsSlice
  <2>3. text' \in Seq(Value) /\ Len(text') = buf'.len
    BY <1>2, EmptyText, NilFields
  <2>4. IsString(str)'
    <3>1. len > 0 => arr < next
      BY <1>3
    <3>2. off + Len(u) <= MaxCap /\ (u # <<>> => len > 0)
      BY <1>3, <1>4
    <3> QED BY <1>2, <1>3, <1>4, <1>6, <3>1, <3>2 DEF IsString, str
  <2>5. \A s \in strings' : IsString(s)'
    BY <1>1, <1>2, <1>5, <2>4 DEF IsString, str
  <2> QED BY <1>1, <1>2, <2>1, <2>2, <2>3, <2>5 DEF ArenaTypeOK
<1>9. StringsHold'
  <2>1. Holds(arr, off, u)
    BY <1>3, <1>4 DEF Inv, BufferHolds, Slice
  <2> QED BY <1>2, <1>5, <1>6, <2>1 DEF Inv, StringsHold, Holds
<1>10. BufferHolds'
  BY <1>2, EmptyText DEF BufferHolds, Holds
<1>11. Disjoint'
  <2>1. cap > 0 => \A s \in strings : s.arr = arr => s.off + Len(s.text) <= off
    BY <1>3 DEF Inv, Disjoint, Below, Slice
  <2>2. cap > 0 => \A s \in strings' : s.arr = arr => s.off + Len(s.text) <= off + len
    BY <1>1, <1>3, <1>4, <1>5, <1>6, <2>1 DEF IsString
  <2>3. \A s \in strings' : Below(s, bytesPrealloc)'
    BY <1>3, <1>7, <2>2, NilFields DEF Below, Slice
  <2>4. \A s \in strings' : Below(s, buf)'
    BY <1>2, NilFields DEF Below
  <2> QED BY <2>3, <2>4 DEF Disjoint
<1>12. OneOwner'
  BY <1>2 DEF OneOwner
<1>13. Placed'
  <2>1. arr < next \/ off = 0
    BY <1>3 DEF Inv, Placed, Slice
  <2>2. bytesPrealloc'.arr < next' \/ bytesPrealloc'.off = 0
    BY <1>2, <1>3, <1>7, NilFields DEF Slice
  <2>3. \A s \in strings' : s.arr < next' \/ s.off = 0
    BY <1>2, <1>5, <1>6, <2>1 DEF Inv, Placed
  <2> QED BY <1>2, <2>2, <2>3, NilFields DEF Placed
<1> QED BY <1>8, <1>9, <1>10, <1>11, <1>12, <1>13 DEF Inv

\* Every step of the scanner keeps the invariant.
LEMMA NextInv == Inv /\ [ArenaNext]_arenaVars => Inv'
<1> SUFFICES ASSUME Inv, [ArenaNext]_arenaVars PROVE Inv'
  OBVIOUS
<1>1. ASSUME NEW n \in 0..MaxCap, InitScanner(n) PROVE Inv'
  BY <1>1, InitScannerInv, Zenon
<1>2. CASE Cleanup
  BY <1>2, CleanupInv, Zenon
<1>3. ASSUME NEW t \in Pieces, AllocBytes(t) PROVE Inv'
  BY <1>3, AllocBytesInv, Zenon
<1>4. ASSUME NEW t \in Pieces, AllocMake(t) PROVE Inv'
  BY <1>4, AllocMakeInv, Zenon
<1>5. ASSUME NEW t \in Pieces, AppendInPlace(t) PROVE Inv'
  BY <1>5, AppendInPlaceInv, Zenon
<1>6. CASE Buffer
  BY <1>6, BufferInv, Zenon
<1>7. ASSUME NEW t \in Pieces, NEW cap \in 0..MaxCap, AppendGrow(t, cap) PROVE Inv'
  BY <1>7, AppendGrowInv, Zenon
<1>8. CASE FinishString
  BY <1>8, FinishStringInv, Zenon
<1>9. CASE DropBuffer
  BY <1>9, DropBufferInv, Zenon
<1>10. CASE UNCHANGED arenaVars
  BY <1>10 DEF arenaVars, Inv, ArenaTypeOK, IsSlice, IsString, StringsHold, Holds, Disjoint, Below,
     OneOwner, BufferHolds, Placed
<1> QED BY <1>1, <1>2, <1>3, <1>4, <1>5, <1>6, <1>7, <1>8, <1>9, <1>10 DEF ArenaNext

\* The slices of the scanner lie inside of allocated arrays, and so do its strings.
THEOREM ArenaTypeCorrect == ArenaSpec => []ArenaTypeOK
<1>1. Inv => ArenaTypeOK
  BY DEF Inv
<1> QED BY InitInv, NextInv, <1>1, PTL DEF ArenaSpec

\* A string that the scanner cut out of its memory by an unsafe cast (scan.go,
\* finishString and scanIdent) never changes, for every sequence of tokens and
\* texts.
THEOREM ArenaStringsIntact == ArenaSpec => []StringsIntact
<1>1. Inv => StringsIntact
  <2> SUFFICES ASSUME Inv, NEW s \in strings PROVE At(s.arr, s.off, Len(s.text)) = s.text
    BY DEF StringsIntact
  <2>1. s.text \in Seq(Value)
    BY DEF Inv, ArenaTypeOK, IsString
  <2>2. \A i \in 1..Len(s.text) : mem[s.arr][s.off + i - 1] = s.text[i]
    BY DEF Inv, StringsHold, Holds
  <2>3. s.text = [i \in 1..Len(s.text) |-> s.text[i]]
    BY <2>1
  <2>4. [i \in 1..Len(s.text) |-> mem[s.arr][s.off + i - 1]] = [i \in 1..Len(s.text) |-> s.text[i]]
    BY <2>2, Zenon
  <2> QED BY <2>3, <2>4, Zenon DEF At
<1> QED BY InitInv, NextInv, <1>1, PTL DEF ArenaSpec

-----------------------------------------------------------------------------
(* RingBuffer *)

Slot == Element \cup {Nil}

LEMMA ModSmall ==
  ASSUME NEW a \in Nat, NEW c \in Nat, c > 0, a < c
  PROVE  a % c = a
  OBVIOUS

LEMMA ModWrap ==
  ASSUME NEW a \in Nat, NEW c \in Nat, c > 0, c <= a, a < 2 * c
  PROVE  a % c = a - c
  OBVIOUS

LEMMA ModRange ==
  ASSUME NEW a \in Nat, NEW c \in Nat, c > 0
  PROVE  a % c \in 0 .. c - 1
  OBVIOUS

\* (h + i) % c for an index h and an offset i of a ring of c slots.
SlotAt(h, i, c) == IF h + i < c THEN h + i ELSE h + i - c

\* The slot before and after slot h.
Prev(h, c) == IF h = 0 THEN c - 1 ELSE h - 1

Succ(h, c) == IF h = c - 1 THEN 0 ELSE h + 1

LEMMA ModIsAt ==
  ASSUME NEW c \in Nat, NEW h \in 0 .. c - 1, NEW i \in 0 .. c
  PROVE  /\ (h + i) % c = SlotAt(h, i, c)
         /\ (i + h) % c = SlotAt(h, i, c)
         /\ SlotAt(h, i, c) \in 0 .. c - 1
<1>1. CASE h + i < c
  BY <1>1, ModSmall DEF SlotAt
<1>2. CASE ~(h + i < c)
  BY <1>2, ModWrap DEF SlotAt
<1>3. QED
  BY <1>1, <1>2

LEMMA AtZero ==
  ASSUME NEW c \in Nat, NEW h \in 0 .. c - 1
  PROVE  SlotAt(h, 0, c) = h
  BY DEF SlotAt

LEMMA AtPrev ==
  ASSUME NEW c \in Nat, NEW h \in 0 .. c - 1, NEW n \in 0 .. c - 1
  PROVE  SlotAt(h, n, c) = SlotAt(Prev(h, c), n + 1, c)
  BY DEF SlotAt, Prev

LEMMA AtRange ==
  ASSUME NEW c \in Nat, NEW h \in 0 .. c - 1, NEW i \in 0 .. c
  PROVE  SlotAt(h, i, c) \in 0 .. c - 1
  BY DEF SlotAt

\* Moving the head or the tail by one slot, as the code computes it.
LEMMA AtSteps ==
  ASSUME NEW c \in Nat, NEW h \in 0 .. c - 1
  PROVE  /\ SlotAt(h, 0, c) = h
         /\ \A n \in 0 .. c - 1 : (SlotAt(h, n, c) + 1) % c = SlotAt(h, n + 1, c)
         /\ \A n \in 1 .. c : (c + SlotAt(h, n, c) - 1) % c = SlotAt(h, n - 1, c)
         /\ (c + h - 1) % c \in 0 .. c - 1
         /\ \A n \in 0 .. c - 1 : SlotAt((c + h - 1) % c, n + 1, c) = SlotAt(h, n, c)
         /\ (h + 1) % c \in 0 .. c - 1
         /\ \A n \in 1 .. c : SlotAt((h + 1) % c, n - 1, c) = SlotAt(h, n, c)
<1>1. SlotAt(h, 0, c) = h
  BY DEF SlotAt
<1>2. ASSUME NEW n \in 0 .. c - 1
      PROVE  (SlotAt(h, n, c) + 1) % c = SlotAt(h, n + 1, c)
  BY ModSmall, ModWrap DEF SlotAt
<1>3. ASSUME NEW n \in 1 .. c
      PROVE  (c + SlotAt(h, n, c) - 1) % c = SlotAt(h, n - 1, c)
  BY ModSmall, ModWrap DEF SlotAt
<1>4. (c + h - 1) % c = IF h = 0 THEN c - 1 ELSE h - 1
  BY ModSmall, ModWrap
<1>5. (h + 1) % c = IF h = c - 1 THEN 0 ELSE h + 1
  BY ModSmall, ModWrap
<1>6. QED
  BY <1>1, <1>2, <1>3, <1>4, <1>5 DEF SlotAt

LEMMA FunctionIsSeq ==
  ASSUME NEW S, NEW n \in Nat, NEW f \in [1 .. n -> S]
  PROVE  f \in Seq(S) /\ Len(f) = n /\ DOMAIN f = 1 .. n
  OBVIOUS

\* Writing one slot of a slice.
LEMMA WriteSlot ==
  ASSUME NEW b \in Seq(Slot), NEW k \in 0 .. Len(b) - 1, NEW e \in Slot
  PROVE  LET w == [b EXCEPT ![k + 1] = e]
         IN  /\ w \in Seq(Slot)
             /\ Len(w) = Len(b)
             /\ \A j \in 0 .. Len(b) - 1 : w[j + 1] = IF j = k THEN e ELSE b[j + 1]
  OBVIOUS


\* The n elements from slot h on.
RingSeq(b, h, n) == [i \in 1 .. n |-> b[SlotAt(h, i - 1, Len(b)) + 1]]

\* s is what n reads from slot g on return; SlotWritten: after slot k was set to e.
Read(s, b, g, n, c) ==
  /\ s \in Seq(Slot)
  /\ Len(s) = n
  /\ \A i \in 1 .. n : s[i] = b[SlotAt(g, i - 1, c) + 1]

SlotWritten(s, b, g, n, c, k, e) ==
  /\ s \in Seq(Slot)
  /\ Len(s) = n
  /\ \A i \in 1 .. n : s[i] = IF SlotAt(g, i - 1, c) = k THEN e ELSE b[SlotAt(g, i - 1, c) + 1]

LEMMA RingSeqType ==
  ASSUME NEW c \in Nat, NEW b \in Seq(Slot), c = Len(b),
         NEW h \in 0 .. c - 1, NEW n \in 0 .. c
  PROVE  Read(RingSeq(b, h, n), b, h, n, c)
<1>2. ASSUME NEW i \in 1 .. n
      PROVE  SlotAt(h, i - 1, c) + 1 \in 1 .. c
  <2>1. i - 1 \in 0 .. c
    OBVIOUS
  <2>2. SlotAt(h, i - 1, c) \in 0 .. c - 1
    BY <2>1, AtRange
  <2>3. QED
    BY <2>2
<1>3. RingSeq(b, h, n) \in [1 .. n -> Slot]
  BY <1>2 DEF RingSeq
<1>4. QED
  BY <1>3, FunctionIsSeq DEF RingSeq, Read

\* Two sequences of equal length and elements are equal.
LEMMA SeqExtensionality ==
  ASSUME NEW s \in Seq(Slot), NEW t \in Seq(Slot), Len(s) = Len(t),
         \A i \in 1 .. Len(s) : s[i] = t[i]
  PROVE  s = t
  OBVIOUS

\* Reading n elements from slot g on after writing slot k.
LEMMA RingSeqWrite ==
  ASSUME NEW c \in Nat, NEW b \in Seq(Slot), c = Len(b),
         NEW g \in 0 .. c - 1, NEW n \in 0 .. c, NEW k \in 0 .. c - 1, NEW e \in Slot
  PROVE  SlotWritten(RingSeq([b EXCEPT ![k + 1] = e], g, n), b, g, n, c, k, e)
<1> DEFINE w == [b EXCEPT ![k + 1] = e]
<1>1. /\ w \in Seq(Slot)
      /\ c = Len(w)
      /\ \A j \in 0 .. c - 1 : w[j + 1] = IF j = k THEN e ELSE b[j + 1]
  BY WriteSlot
<1> HIDE DEF w
<1>2. /\ RingSeq(w, g, n) \in Seq(Slot)
      /\ Len(RingSeq(w, g, n)) = n
      /\ \A i \in 1 .. n : RingSeq(w, g, n)[i] = w[SlotAt(g, i - 1, c) + 1]
  BY <1>1, RingSeqType, Zenon DEF Read
<1>3. ASSUME NEW i \in 1 .. n
      PROVE  w[SlotAt(g, i - 1, c) + 1] = IF SlotAt(g, i - 1, c) = k THEN e
                                      ELSE b[SlotAt(g, i - 1, c) + 1]
  <2>1. i - 1 \in 0 .. c
    OBVIOUS
  <2>2. SlotAt(g, i - 1, c) \in 0 .. c - 1
    BY <2>1, AtRange
  <2>3. QED
    BY <1>1, <2>2, Zenon
<1>4. QED
  BY <1>2, <1>3, Zenon DEF w, SlotWritten

LEMMA PushBackSeq ==
  ASSUME NEW c \in Nat, NEW b \in Seq(Slot), c = Len(b),
         NEW h \in 0 .. c - 1, NEW n \in 0 .. c - 1, NEW e \in Slot
  PROVE  RingSeq([b EXCEPT ![SlotAt(h, n, c) + 1] = e], h, n + 1) = Append(RingSeq(b, h, n), e)
<1>0. PICK s, t : s = RingSeq(b, h, n) /\ t = RingSeq([b EXCEPT ![SlotAt(h, n, c) + 1] = e], h, n + 1)
  OBVIOUS
<1>1. n \in 0 .. c /\ n + 1 \in 0 .. c /\ SlotAt(h, n, c) \in 0 .. c - 1
  <2>1. n \in 0 .. c /\ n + 1 \in 0 .. c
    OBVIOUS
  <2>2. QED
    BY <2>1, AtRange, Zenon
<1>2. /\ s \in Seq(Slot)
      /\ Len(s) = n
      /\ \A i \in 1 .. n : s[i] = b[SlotAt(h, i - 1, c) + 1]
  <2>1. Read(s, b, h, n, c)
    BY <1>0, <1>1, RingSeqType, Zenon
  <2>2. QED
    BY <2>1 DEF Read
<1>3. /\ t \in Seq(Slot)
      /\ Len(t) = n + 1
      /\ \A i \in 1 .. n + 1 : t[i] = IF SlotAt(h, i - 1, c) = SlotAt(h, n, c) THEN e
                                      ELSE b[SlotAt(h, i - 1, c) + 1]
  <2>1. SlotWritten(t, b, h, n + 1, c, SlotAt(h, n, c), e)
    BY <1>0, <1>1, RingSeqWrite, Zenon
  <2>2. QED
    BY <2>1 DEF SlotWritten
<1>4. \A i \in 1 .. n : i \in 1 .. n + 1 /\ SlotAt(h, i - 1, c) # SlotAt(h, n, c)
  BY DEF SlotAt
<1>5. \A i \in 1 .. n : t[i] = s[i]
  BY <1>2, <1>3, <1>4, Zenon
<1>6. t[n + 1] = e
  <2>1. n + 1 \in 1 .. n + 1 /\ (n + 1) - 1 = n
    OBVIOUS
  <2>2. QED
    BY <1>3, <2>1
<1>7. t = Append(s, e)
  BY <1>2, <1>3, <1>5, <1>6
<1>8. QED
  BY <1>7, <1>0, Zenon

\* The slots before and after a slot are slots of the ring.
LEMMA NeighbourRange ==
  ASSUME NEW c \in Nat, NEW h \in 0 .. c - 1
  PROVE  Prev(h, c) \in 0 .. c - 1 /\ Succ(h, c) \in 0 .. c - 1
  BY DEF Prev, Succ

LEMMA PushFrontSeq ==
  ASSUME NEW c \in Nat, NEW b \in Seq(Slot), c = Len(b),
         NEW h \in 0 .. c - 1, NEW n \in 0 .. c - 1, NEW e \in Slot
  PROVE  RingSeq([b EXCEPT ![Prev(h, c) + 1] = e], Prev(h, c), n + 1) = <<e>> \o RingSeq(b, h, n)
<1>g. PICK g \in 0 .. c - 1 : g = Prev(h, c)
  BY NeighbourRange, Zenon
<1>0. PICK s, t : s = RingSeq(b, h, n) /\ t = RingSeq([b EXCEPT ![g + 1] = e], g, n + 1)
  OBVIOUS
<1>1. n \in 0 .. c /\ n + 1 \in 0 .. c
  OBVIOUS
<1>2. /\ s \in Seq(Slot)
      /\ Len(s) = n
      /\ \A i \in 1 .. n : s[i] = b[SlotAt(h, i - 1, c) + 1]
  <2>1. Read(s, b, h, n, c)
    BY <1>0, <1>1, RingSeqType, Zenon
  <2>2. QED
    BY <2>1 DEF Read
<1>3. /\ t \in Seq(Slot)
      /\ Len(t) = n + 1
      /\ \A i \in 1 .. n + 1 : t[i] = IF SlotAt(g, i - 1, c) = g THEN e
                                      ELSE b[SlotAt(g, i - 1, c) + 1]
  <2>1. SlotWritten(t, b, g, n + 1, c, g, e)
    BY <1>0, <1>1, RingSeqWrite, Zenon
  <2>2. QED
    BY <2>1 DEF SlotWritten
<1>4. \A i \in 1 .. n : /\ SlotAt(g, (i + 1) - 1, c) # g
                        /\ SlotAt(g, (i + 1) - 1, c) = SlotAt(h, i - 1, c)
  BY <1>g DEF SlotAt, Prev
<1>5. 1 - 1 = 0 /\ SlotAt(g, 0, c) = g
  BY AtZero
<1>6. ASSUME NEW i \in 1 .. n
      PROVE  t[i + 1] = s[i]
  <2>1. i + 1 \in 1 .. n + 1
    OBVIOUS
  <2>2. t[i + 1] = IF SlotAt(g, (i + 1) - 1, c) = g THEN e
                   ELSE b[SlotAt(g, (i + 1) - 1, c) + 1]
    BY <1>3, <2>1, Zenon
  <2>3. t[i + 1] = b[SlotAt(h, i - 1, c) + 1]
    BY <1>4, <2>2, Zenon
  <2>4. QED
    BY <1>2, <2>3, Zenon
<1>7. t[1] = e
  BY <1>3, <1>5
<1>8. t = <<e>> \o s
  BY <1>2, <1>3, <1>6, <1>7
<1>9. QED
  BY <1>8, <1>0, <1>g, Zenon

\* A sequence moved down by one place is its tail.
LEMMA ShiftedIsTail ==
  ASSUME NEW m \in Nat, NEW s \in Seq(Slot), NEW t \in Seq(Slot), Len(s) = m + 1, Len(t) = m,
         \A i \in 1 .. m : t[i] = s[i + 1]
  PROVE  t = Tail(s)
<1>1. Tail(s) \in Seq(Slot) /\ Len(Tail(s)) = m
  OBVIOUS
<1>2. \A i \in 1 .. m : Tail(s)[i] = s[i + 1]
  OBVIOUS
<1>3. QED
  BY <1>1, <1>2

LEMMA PopFrontSeq ==
  ASSUME NEW c \in Nat, NEW b \in Seq(Slot), c = Len(b),
         NEW h \in 0 .. c - 1, NEW m \in 0 .. c - 1, NEW e \in Slot
  PROVE  RingSeq([b EXCEPT ![h + 1] = e], Succ(h, c), m) = Tail(RingSeq(b, h, m + 1))
<1>g. PICK g \in 0 .. c - 1 : g = Succ(h, c)
  BY NeighbourRange, Zenon
<1>0. PICK s, t : s = RingSeq(b, h, m + 1) /\ t = RingSeq([b EXCEPT ![h + 1] = e], g, m)
  OBVIOUS
<1>1. m + 1 \in 0 .. c /\ m \in 0 .. c
  OBVIOUS
<1>2. /\ s \in Seq(Slot)
      /\ Len(s) = m + 1
      /\ \A i \in 1 .. m + 1 : s[i] = b[SlotAt(h, i - 1, c) + 1]
  <2>1. Read(s, b, h, m + 1, c)
    BY <1>0, <1>1, RingSeqType, Zenon
  <2>2. QED
    BY <2>1 DEF Read
<1>3. /\ t \in Seq(Slot)
      /\ Len(t) = m
      /\ \A i \in 1 .. m : t[i] = IF SlotAt(g, i - 1, c) = h THEN e
                                      ELSE b[SlotAt(g, i - 1, c) + 1]
  <2>1. SlotWritten(t, b, g, m, c, h, e)
    BY <1>0, <1>1, RingSeqWrite, Zenon
  <2>2. QED
    BY <2>1 DEF SlotWritten
<1>4. \A i \in 1 .. m : /\ SlotAt(g, i - 1, c) # h
                            /\ SlotAt(g, i - 1, c) = SlotAt(h, (i + 1) - 1, c)
  BY <1>g DEF SlotAt, Succ
<1>5. ASSUME NEW i \in 1 .. m
      PROVE  t[i] = s[i + 1]
  <2>1. i + 1 \in 1 .. m + 1
    OBVIOUS
  <2>2. QED
    BY <1>2, <1>3, <1>4, <2>1, Zenon
<1>6. t = Tail(s)
  <2>1. m \in Nat
    OBVIOUS
  <2>2. s \in Seq(Slot) /\ t \in Seq(Slot) /\ Len(s) = m + 1 /\ Len(t) = m
    BY <1>2, <1>3, Zenon
  <2>3. QED
    BY <1>5, <2>1, <2>2, ShiftedIsTail, Zenon
<1>7. QED
  BY <1>6, <1>0, <1>g, Zenon

LEMMA PopBackSeq ==
  ASSUME NEW c \in Nat, NEW b \in Seq(Slot), c = Len(b),
         NEW h \in 0 .. c - 1, NEW m \in 0 .. c - 1, NEW e \in Slot
  PROVE  RingSeq([b EXCEPT ![SlotAt(h, m, c) + 1] = e], h, m)
           = SubSeq(RingSeq(b, h, m + 1), 1, m)
<1>0. PICK s, t : s = RingSeq(b, h, m + 1) /\ t = RingSeq([b EXCEPT ![SlotAt(h, m, c) + 1] = e], h, m)
  OBVIOUS
<1>1. m + 1 \in 0 .. c /\ m \in 0 .. c /\ SlotAt(h, m, c) \in 0 .. c - 1
  <2>1. m + 1 \in 0 .. c /\ m \in 0 .. c
    OBVIOUS
  <2>2. QED
    BY <2>1, AtRange, Zenon
<1>2. /\ s \in Seq(Slot)
      /\ Len(s) = m + 1
      /\ \A i \in 1 .. m + 1 : s[i] = b[SlotAt(h, i - 1, c) + 1]
  <2>1. Read(s, b, h, m + 1, c)
    BY <1>0, <1>1, RingSeqType, Zenon
  <2>2. QED
    BY <2>1 DEF Read
<1>3. /\ t \in Seq(Slot)
      /\ Len(t) = m
      /\ \A i \in 1 .. m : t[i] = IF SlotAt(h, i - 1, c) = SlotAt(h, m, c) THEN e
                                      ELSE b[SlotAt(h, i - 1, c) + 1]
  <2>1. SlotWritten(t, b, h, m, c, SlotAt(h, m, c), e)
    BY <1>0, <1>1, RingSeqWrite, Zenon
  <2>2. QED
    BY <2>1 DEF SlotWritten
<1>4. \A i \in 1 .. m : i \in 1 .. m + 1 /\ SlotAt(h, i - 1, c) # SlotAt(h, m, c)
  BY DEF SlotAt
<1>5. \A i \in 1 .. m : t[i] = s[i]
  BY <1>2, <1>3, <1>4, Zenon
<1>6. t = SubSeq(s, 1, m)
  BY <1>2, <1>3, <1>5
<1>7. QED
  BY <1>6, <1>0, Zenon

-----------------------------------------------------------------------------
\* TypeOK alone does not bound Length: an empty ring needs head = tail, and a
\* ring without slots must be an empty one.
RingInv ==
  /\ TypeOK
  /\ ~nonEmpty => head = tail
  /\ Cap = 0 => ~nonEmpty

\* The tail is the head plus the length, around the ring.
LEMMA LengthFacts ==
  ASSUME RingInv
  PROVE  /\ Cap \in Nat
         /\ Length \in 0 .. Cap
         /\ Cap > 0 => tail = SlotAt(head, Length, Cap)
         /\ nonEmpty = (Length # 0)
<1>1. Cap \in Nat
  BY DEF RingInv, TypeOK, Cap
<1>2. QED
  BY <1>1 DEF RingInv, TypeOK, Length, SlotAt

\* Reading the ring with Get is reading it with RingSeq.
LEMMA ContentsIsRingSeq ==
  ASSUME RingInv, Cap > 0
  PROVE  Contents = RingSeq(buffer, head, Length)
<1>1. /\ Cap \in Nat
      /\ Length \in 0 .. Cap
      /\ head \in 0 .. Cap - 1
  BY LengthFacts DEF RingInv, TypeOK
<1>2. ASSUME NEW i \in 1 .. Length
      PROVE  (i - 1 + head) % Cap = SlotAt(head, i - 1, Cap)
  <2>1. i - 1 \in 0 .. Cap
    BY <1>1
  <2>2. QED
    BY <1>1, <2>1, ModIsAt
<1>3. QED
  BY <1>2 DEF Contents, RingSeq, Get, Cap

LEMMA GetIsAt ==
  ASSUME RingInv, NEW i \in 0 .. Length - 1
  PROVE  /\ Get(i) = buffer[SlotAt(head, i, Cap) + 1]
         /\ Get(i) \in Slot
<1>1. /\ Cap \in Nat
      /\ i \in 0 .. Cap
      /\ Cap > 0
  BY LengthFacts
<1>2. head \in 0 .. Cap - 1
  BY <1>1 DEF RingInv, TypeOK
<1>3. /\ (i + head) % Cap = SlotAt(head, i, Cap)
      /\ SlotAt(head, i, Cap) \in 0 .. Cap - 1
  BY <1>1, <1>2, ModIsAt
<1>4. SlotAt(head, i, Cap) + 1 \in 1 .. Len(buffer)
  BY <1>1, <1>3 DEF Cap
<1>5. QED
  BY <1>3, <1>4 DEF Get, RingInv, TypeOK, Slot

\* grow on a full ring unwraps it: slot i of the new slice is element i.
LEMMA GrownFacts ==
  ASSUME RingInv, Length = Cap, NEW n \in Nat, n > Cap
  PROVE  /\ Grown(n) \in Seq(Slot)
         /\ Len(Grown(n)) = n
         /\ \A i \in 0 .. Length - 1 : Grown(n)[i + 1] = Get(i)
<1> DEFINE live == IF head < tail
                   THEN SubSeq(buffer, head + 1, tail)
                   ELSE SubSeq(buffer, head + 1, Cap) \o SubSeq(buffer, 1, tail)
           slot(i) == IF i <= Length /\ i <= Len(live) THEN live[i] ELSE Nil
<1>1. /\ Cap \in Nat
      /\ Length \in Nat
      /\ buffer \in Seq(Slot)
      /\ Len(buffer) = Cap
  BY LengthFacts DEF RingInv, TypeOK, Slot, Cap
<1>2. head = tail /\ head \in 0 .. Cap
  BY <1>1, LengthFacts DEF RingInv, TypeOK, SlotAt
<1>3. live = SubSeq(buffer, head + 1, Cap) \o SubSeq(buffer, 1, head)
  <2>1. ~(head < tail)
    BY <1>1, <1>2
  <2>2. QED
    BY <1>2, <2>1, Zenon
<1> HIDE DEF live
<1>4. /\ SubSeq(buffer, head + 1, Cap) \in Seq(Slot)
      /\ Len(SubSeq(buffer, head + 1, Cap)) = Cap - head
      /\ \A j \in 1 .. Cap - head : SubSeq(buffer, head + 1, Cap)[j] = buffer[head + j]
  BY <1>1, <1>2
<1>5. /\ SubSeq(buffer, 1, head) \in Seq(Slot)
      /\ Len(SubSeq(buffer, 1, head)) = head
      /\ \A j \in 1 .. head : SubSeq(buffer, 1, head)[j] = buffer[j]
  BY <1>1, <1>2
<1>6. /\ live \in Seq(Slot)
      /\ Len(live) = Cap
      /\ \A j \in 1 .. Cap :
           live[j] = IF j <= Cap - head THEN buffer[head + j] ELSE buffer[j - (Cap - head)]
  <2> DEFINE back == SubSeq(buffer, head + 1, Cap)
             front == SubSeq(buffer, 1, head)
  <2>1. live = back \o front /\ back \in Seq(Slot) /\ front \in Seq(Slot)
        /\ Len(back) = Cap - head /\ Len(front) = head
    BY <1>3, <1>4, <1>5, Zenon
  <2>2. /\ \A j \in 1 .. Cap - head : back[j] = buffer[head + j]
        /\ \A j \in 1 .. head : front[j] = buffer[j]
    BY <1>4, <1>5, Zenon
  <2> HIDE DEF back, front
  <2> QED BY <1>1, <1>2, <2>1, <2>2
<1>7. \A i \in 1 .. n : slot(i) \in Slot
  <2> SUFFICES ASSUME NEW i \in 1 .. n
               PROVE  slot(i) \in Slot
    OBVIOUS
  <2>1. CASE i <= Cap
    BY <1>1, <1>6, <2>1
  <2>2. CASE ~(i <= Cap)
    BY <1>1, <1>6, <2>2 DEF Slot
  <2>3. QED
    BY <2>1, <2>2
<1>8. Grown(n) = [i \in 1 .. n |-> slot(i)]
  BY DEF Grown, live
<1> HIDE DEF slot
<1>9. Grown(n) \in [1 .. n -> Slot]
  BY <1>7, <1>8
<1>10. ASSUME NEW i \in 0 .. Length - 1
       PROVE  Grown(n)[i + 1] = Get(i)
  <2>1. i + 1 \in 1 .. n /\ i + 1 \in 1 .. Cap
    BY <1>1
  <2>2. Grown(n)[i + 1] = live[i + 1]
    <3>1. Grown(n)[i + 1] = slot(i + 1)
      BY <1>8, <2>1
    <3>2. i + 1 <= Length /\ i + 1 <= Len(live)
      BY <1>1, <1>6, <2>1
    <3>3. QED
      BY <3>1, <3>2 DEF slot
  <2>3. live[i + 1] = buffer[SlotAt(head, i, Cap) + 1]
    BY <1>1, <1>2, <1>6, <2>1 DEF SlotAt
  <2>4. QED
    BY <2>2, <2>3, GetIsAt
<1>11. QED
  BY <1>9, <1>10, FunctionIsSeq

LEMMA EmptyContents ==
  ASSUME Length = 0
  PROVE  Contents = << >>
  BY DEF Contents

\* A grown ring holds what the full one held.
LEMMA GrownContents ==
  ASSUME RingInv, Length = Cap, NEW n \in Nat, n > Cap
  PROVE  RingSeq(Grown(n), 0, Length) = Contents
<1>1. /\ Len(Grown(n)) = n
      /\ \A i \in 0 .. Length - 1 : Grown(n)[i + 1] = Get(i)
      /\ Length \in Nat
      /\ Length < n
  BY GrownFacts, LengthFacts
<1>2. ASSUME NEW i \in 1 .. Length
      PROVE  Grown(n)[SlotAt(0, i - 1, n) + 1] = Get(i - 1)
  <2>1. i - 1 \in 0 .. Length - 1 /\ SlotAt(0, i - 1, n) = i - 1
    BY <1>1 DEF SlotAt
  <2>2. QED
    BY <1>1, <2>1, Zenon
<1>3. QED
  BY <1>1, <1>2, Zenon DEF Contents, RingSeq

\* What maybeGrow leaves: the same elements, and a free slot at tail.
LEMMA MaybeGrowFacts ==
  ASSUME RingInv
  PROVE  \E b \in Seq(Slot), c, h, n \in Nat :
           /\ AfterMaybeGrow = [buffer |-> b, head |-> h, tail |-> SlotAt(h, n, c)]
           /\ c = Len(b) /\ h \in 0 .. c - 1
           /\ n = Length /\ n \in 0 .. c - 1
           /\ Contents = RingSeq(b, h, n)
<1>1. /\ Cap \in Nat
      /\ Length \in 0 .. Cap
      /\ Cap > 0 => tail = SlotAt(head, Length, Cap)
  BY LengthFacts
<1>2. CASE Length # Cap
  <2>1. AfterMaybeGrow = [buffer |-> buffer, head |-> head, tail |-> tail]
    BY <1>2 DEF AfterMaybeGrow
  <2>2. Cap > 0 /\ Length \in 0 .. Cap - 1 /\ Length \in Nat
    BY <1>1, <1>2
  <2>3. buffer \in Seq(Slot) /\ head \in 0 .. Cap - 1 /\ head \in Nat
    BY <1>1, <2>2 DEF RingInv, TypeOK, Slot
  <2>4. Contents = RingSeq(buffer, head, Length)
    BY <2>2, ContentsIsRingSeq
  <2>5. QED
    BY <1>1, <2>1, <2>2, <2>3, <2>4, Zenon DEF Cap
<1>3. CASE Length = Cap
  <2> DEFINE n == IF Cap = 0 THEN 1 ELSE 2 * Cap
  <2>1. AfterMaybeGrow = [buffer |-> Grown(n), head |-> 0, tail |-> Cap]
    BY <1>3 DEF AfterMaybeGrow
  <2>2. n \in Nat /\ n > Cap
    BY <1>1
  <2> HIDE DEF n
  <2>3. Grown(n) \in Seq(Slot) /\ n = Len(Grown(n))
    BY <1>3, <2>2, GrownFacts
  <2>4. /\ Cap = SlotAt(0, Length, n)
        /\ 0 \in 0 .. n - 1 /\ 0 \in Nat
        /\ Length \in Nat /\ Length \in 0 .. n - 1
    BY <1>1, <1>3, <2>2 DEF SlotAt
  <2>5. Contents = RingSeq(Grown(n), 0, Length)
    BY <1>3, <2>2, GrownContents
  <2>6. QED
    BY <2>1, <2>2, <2>3, <2>4, <2>5, Zenon
<1>4. QED
  BY <1>2, <1>3

-----------------------------------------------------------------------------
\* The new state of an operation that leaves n elements from head' on.
LEMMA NewRing ==
  ASSUME NEW c \in Nat, NEW n \in 0 .. c,
         buffer' \in Seq(Slot), panicked' \in BOOLEAN, nonEmpty' \in BOOLEAN,
         c = Len(buffer'),
         head' \in 0 .. c - 1,
         tail' = SlotAt(head', n, c),
         nonEmpty' <=> n # 0
  PROVE  /\ RingInv'
         /\ Contents' = RingSeq(buffer', head', n)
<1>1. tail' \in 0 .. c - 1 /\ Cap' = c /\ c # 0
  BY AtRange DEF Cap
<1>2. RingInv'
  <2>1. SlotAt(head', 0, c) = head'
    BY AtZero
  <2>2. TypeOK'
    BY <1>1 DEF TypeOK, Slot
  <2>3. QED
    BY <1>1, <2>1, <2>2 DEF RingInv
<1>3. Length' = n
  <2>1. CASE n = 0
    BY <2>1 DEF Length
  <2>2. CASE n # 0
    <3>1. nonEmpty'
      BY <2>2
    <3>2. QED
      BY <1>1, <2>2, <3>1 DEF Length, Cap, SlotAt
  <2>3. QED
    BY <2>1, <2>2
<1>4. ASSUME NEW i \in 1 .. n
      PROVE  (i - 1 + head') % c = SlotAt(head', i - 1, c)
  <2>1. i - 1 \in 0 .. c
    OBVIOUS
  <2>2. QED
    BY <2>1, ModIsAt
<1>5. QED
  BY <1>1, <1>2, <1>3, <1>4 DEF Contents, RingSeq, Get, Cap

\* AddLast writes the free slot at tail and moves tail past it.
LEMMA AddLastStep ==
  ASSUME RingInv, NEW e \in Element, AddLast(e)
  PROVE  RingInv' /\ DequeView!PushBack(e)
<1>1. PICK b \in Seq(Slot), c, h, n \in Nat :
           /\ AfterMaybeGrow = [buffer |-> b, head |-> h, tail |-> SlotAt(h, n, c)]
           /\ c = Len(b) /\ h \in 0 .. c - 1
           /\ n = Length /\ n \in 0 .. c - 1
           /\ Contents = RingSeq(b, h, n)
  BY MaybeGrowFacts
<1>2. /\ buffer' = [b EXCEPT ![SlotAt(h, n, c) + 1] = e]
      /\ head' = h
      /\ tail' = (SlotAt(h, n, c) + 1) % c
      /\ nonEmpty' = TRUE
      /\ panicked' = panicked
  BY <1>1 DEF AddLast
<1>3. n + 1 \in 0 .. c /\ n + 1 # 0 /\ SlotAt(h, n, c) \in 0 .. c - 1
  BY <1>1 DEF SlotAt
<1>4. buffer' \in Seq(Slot) /\ c = Len(buffer')
  BY <1>1, <1>2, <1>3, WriteSlot DEF Slot
<1>5. tail' = SlotAt(head', n + 1, c)
  BY <1>1, <1>2, AtSteps
<1>6. panicked' \in BOOLEAN
  BY <1>2 DEF RingInv, TypeOK
<1>7. RingInv' /\ Contents' = RingSeq(buffer', head', n + 1)
  BY <1>1, <1>2, <1>3, <1>4, <1>5, <1>6, NewRing, Zenon
<1>8. RingSeq(buffer', head', n + 1) = Append(RingSeq(b, h, n), e)
  <2>1. e \in Slot
    BY DEF Slot
  <2>2. QED
    <3>1. c = Len(b) /\ h \in 0 .. c - 1 /\ n \in 0 .. c - 1
      BY <1>1
    <3>2. RingSeq([b EXCEPT ![SlotAt(h, n, c) + 1] = e], h, n + 1) = Append(RingSeq(b, h, n), e)
      BY <2>1, <3>1, PushBackSeq, ZenonT(40)
    <3>3. QED
      BY <1>2, <3>2, Zenon
<1>9. QED
  BY <1>1, <1>7, <1>8 DEF DequeView!PushBack

\* AddFirst moves head back one slot, around the ring, and writes it.
LEMMA AddFirstStep ==
  ASSUME RingInv, NEW e \in Element, AddFirst(e)
  PROVE  RingInv' /\ DequeView!PushFront(e)
<1>1. PICK b \in Seq(Slot), c, h, n \in Nat :
           /\ AfterMaybeGrow = [buffer |-> b, head |-> h, tail |-> SlotAt(h, n, c)]
           /\ c = Len(b) /\ h \in 0 .. c - 1
           /\ n = Length /\ n \in 0 .. c - 1
           /\ Contents = RingSeq(b, h, n)
  BY MaybeGrowFacts
<1>2. PICK g \in 0 .. c - 1 : g = Prev(h, c)
  BY <1>1, NeighbourRange, Zenon
<1>3. (c + h - 1) % c = g
  BY <1>1, <1>2, ModSmall, ModWrap DEF Prev
<1>4. /\ buffer' = [b EXCEPT ![g + 1] = e]
      /\ head' = g
      /\ tail' = SlotAt(h, n, c)
      /\ nonEmpty' = TRUE
      /\ panicked' = panicked
  BY <1>1, <1>3, Zenon DEF AddFirst
<1>5. n + 1 \in 0 .. c /\ n + 1 # 0
  BY <1>1
<1>6. buffer' \in Seq(Slot) /\ c = Len(buffer')
  BY <1>1, <1>4, WriteSlot DEF Slot
<1>7. tail' = SlotAt(head', n + 1, c)
  <2>1. SlotAt(h, n, c) = SlotAt(g, n + 1, c)
    BY <1>1, <1>2, AtPrev
  <2>2. QED
    BY <1>4, <2>1
<1>8. panicked' \in BOOLEAN
  BY <1>4 DEF RingInv, TypeOK
<1>9. RingInv' /\ Contents' = RingSeq(buffer', head', n + 1)
  BY <1>1, <1>4, <1>5, <1>6, <1>7, <1>8, NewRing, Zenon
<1>10. RingSeq(buffer', head', n + 1) = <<e>> \o RingSeq(b, h, n)
  <2>1. e \in Slot
    BY DEF Slot
  <2>2. QED
    <3>1. RingSeq([b EXCEPT ![g + 1] = e], g, n + 1) = <<e>> \o RingSeq(b, h, n)
      <4>1. c = Len(b) /\ h \in 0 .. c - 1 /\ n \in 0 .. c - 1
        BY <1>1
      <4>2. RingSeq([b EXCEPT ![Prev(h, c) + 1] = e], Prev(h, c), n + 1)
              = <<e>> \o RingSeq(b, h, n)
        BY <2>1, <4>1, PushFrontSeq, ZenonT(40)
      <4>3. QED
        BY <1>2, <4>2, Zenon
    <3>2. QED
      BY <1>4, <3>1, Zenon
<1>11. QED
  BY <1>1, <1>9, <1>10 DEF DequeView!PushFront

\* The state a removal starts from: m + 1 elements.
LEMMA NonEmptyFacts ==
  ASSUME RingInv, Length # 0
  PROVE  \E c, h, m \in Nat :
           /\ buffer \in Seq(Slot) /\ c = Len(buffer) /\ c = Cap
           /\ head = h /\ h \in 0 .. c - 1
           /\ m \in 0 .. c - 1 /\ Length = m + 1
           /\ tail = SlotAt(h, m + 1, c)
           /\ Contents = RingSeq(buffer, h, m + 1)
           /\ Contents # << >>
<1>1. /\ Cap \in Nat
      /\ Length \in 0 .. Cap
      /\ Cap > 0
      /\ tail = SlotAt(head, Length, Cap)
  BY LengthFacts
<1>2. PICK m \in Nat : Length = m + 1 /\ m \in 0 .. Cap - 1
  <2>1. /\ Length - 1 \in Nat
        /\ Length = (Length - 1) + 1
        /\ Length - 1 \in 0 .. Cap - 1
    BY <1>1
  <2>2. QED
    BY <2>1, Zenon
<1>3. buffer \in Seq(Slot) /\ head \in 0 .. Cap - 1 /\ head \in Nat
  BY <1>1 DEF RingInv, TypeOK, Slot
<1>4. Contents = RingSeq(buffer, head, m + 1)
  BY <1>1, <1>2, ContentsIsRingSeq
<1>5. Contents # << >>
  BY <1>2 DEF Contents
<1>6. QED
  BY <1>1, <1>2, <1>3, <1>4, <1>5, Zenon DEF Cap

LEMMA RemoveFirstStep ==
  ASSUME RingInv, RemoveFirst
  PROVE  RingInv' /\ DequeView!PopFront
<1>1. PICK c, h, m \in Nat :
           /\ buffer \in Seq(Slot) /\ c = Len(buffer) /\ c = Cap
           /\ head = h /\ h \in 0 .. c - 1
           /\ m \in 0 .. c - 1 /\ Length = m + 1
           /\ tail = SlotAt(h, m + 1, c)
           /\ Contents = RingSeq(buffer, h, m + 1)
           /\ Contents # << >>
  BY NonEmptyFacts DEF RemoveFirst
<1>2. PICK g \in 0 .. c - 1 : g = Succ(h, c)
  BY <1>1, NeighbourRange, Zenon
<1>3. (h + 1) % c = g
  BY <1>1, <1>2, ModSmall, ModWrap DEF Succ
<1>4. /\ buffer' = [buffer EXCEPT ![h + 1] = Nil]
      /\ head' = g
      /\ tail' = tail
      /\ nonEmpty' = (head' # tail)
      /\ panicked' = panicked
  BY <1>1, <1>3 DEF RemoveFirst
<1>5. m \in 0 .. c /\ Nil \in Slot
  BY <1>1 DEF Slot
<1>6. buffer' \in Seq(Slot) /\ c = Len(buffer')
  BY <1>1, <1>4, <1>5, WriteSlot, Zenon
<1>7. tail' = SlotAt(head', m, c) /\ (head' # tail <=> m # 0)
  BY <1>1, <1>2, <1>4 DEF SlotAt, Succ
<1>8. panicked' \in BOOLEAN /\ nonEmpty' \in BOOLEAN /\ (nonEmpty' <=> m # 0)
  BY <1>4, <1>7, Zenon DEF RingInv, TypeOK
<1>9. RingInv' /\ Contents' = RingSeq(buffer', head', m)
  BY <1>1, <1>4, <1>5, <1>6, <1>7, <1>8, NewRing, Zenon
<1>10. RingSeq(buffer', head', m) = Tail(RingSeq(buffer, h, m + 1))
  <2>1. RingSeq([buffer EXCEPT ![h + 1] = Nil], g, m) = Tail(RingSeq(buffer, h, m + 1))
    <3>1. buffer \in Seq(Slot) /\ c = Len(buffer) /\ h \in 0 .. c - 1 /\ m \in 0 .. c - 1
      BY <1>1
    <3>2. RingSeq([buffer EXCEPT ![h + 1] = Nil], Succ(h, c), m)
            = Tail(RingSeq(buffer, h, m + 1))
      BY <1>5, <3>1, PopFrontSeq, ZenonT(40)
    <3>3. QED
      BY <1>2, <3>2, Zenon
  <2>2. QED
    BY <1>4, <2>1, Zenon
<1>11. QED
  BY <1>1, <1>9, <1>10 DEF DequeView!PopFront

LEMMA RemoveLastStep ==
  ASSUME RingInv, RemoveLast
  PROVE  RingInv' /\ DequeView!PopBack
<1>1. PICK c, h, m \in Nat :
           /\ buffer \in Seq(Slot) /\ c = Len(buffer) /\ c = Cap
           /\ head = h /\ h \in 0 .. c - 1
           /\ m \in 0 .. c - 1 /\ Length = m + 1
           /\ tail = SlotAt(h, m + 1, c)
           /\ Contents = RingSeq(buffer, h, m + 1)
           /\ Contents # << >>
  BY NonEmptyFacts DEF RemoveLast
<1>2. (c + tail - 1) % c = SlotAt(h, m, c)
  <2>1. m + 1 \in 1 .. c /\ (m + 1) - 1 = m
    BY <1>1
  <2>2. QED
    BY <1>1, <2>1, AtSteps
<1>3. /\ buffer' = [buffer EXCEPT ![SlotAt(h, m, c) + 1] = Nil]
      /\ head' = h
      /\ tail' = SlotAt(h, m, c)
      /\ nonEmpty' = (SlotAt(h, m, c) # h)
      /\ panicked' = panicked
  BY <1>1, <1>2, Zenon DEF RemoveLast
<1>4. m \in 0 .. c /\ Nil \in Slot /\ SlotAt(h, m, c) \in 0 .. c - 1
  BY <1>1 DEF Slot, SlotAt
<1>5. buffer' \in Seq(Slot) /\ c = Len(buffer')
  BY <1>1, <1>3, <1>4, WriteSlot, Zenon
<1>6. SlotAt(h, m, c) # h <=> m # 0
  BY <1>1 DEF SlotAt
<1>7. panicked' \in BOOLEAN /\ nonEmpty' \in BOOLEAN /\ (nonEmpty' <=> m # 0)
  BY <1>3, <1>6, Zenon DEF RingInv, TypeOK
<1>8. RingInv' /\ Contents' = RingSeq(buffer', head', m)
  BY <1>1, <1>3, <1>4, <1>5, <1>7, NewRing, Zenon
<1>9. RingSeq(buffer', head', m) = SubSeq(RingSeq(buffer, h, m + 1), 1, m)
  <2>1. /\ buffer \in Seq(Slot) /\ c = Len(buffer)
        /\ h \in 0 .. c - 1 /\ m \in 0 .. c - 1 /\ Nil \in Slot
    BY <1>1, <1>4
  <2>2. RingSeq([buffer EXCEPT ![SlotAt(h, m, c) + 1] = Nil], h, m)
          = SubSeq(RingSeq(buffer, h, m + 1), 1, m)
    BY <2>1, PopBackSeq, Zenon
  <2>3. QED
    BY <1>3, <2>2, Zenon
<1>10. Len(Contents) = m + 1 /\ (m + 1) - 1 = m
  <2>1. m + 1 \in 0 .. c
    BY <1>1
  <2>2. Read(Contents, buffer, h, m + 1, c)
    BY <1>1, <2>1, RingSeqType, Zenon
  <2>3. QED
    BY <2>2 DEF Read
<1>11. QED
  BY <1>1, <1>8, <1>9, <1>10 DEF DequeView!PopBack

LEMMA ResetStep ==
  ASSUME RingInv, Reset
  PROVE  RingInv' /\ DequeView!Clear
<1>1. Cap \in Nat /\ Cap' = Cap
  BY DEF RingInv, TypeOK, Reset, Cap
<1>2. RingInv'
  <2>1. 0 \in 0 .. (IF Cap = 0 THEN 0 ELSE Cap - 1)
    BY <1>1
  <2>2. QED
    BY <1>1, <2>1, Zenon DEF RingInv, TypeOK, Reset
<1>3. Length' = 0
  BY DEF Reset, Length
<1>4. Contents' = << >>
  BY <1>3 DEF Contents
<1>5. QED
  BY <1>2, <1>4 DEF DequeView!Clear

\* On a full ring grow's "tail = old capacity" is where the elements end.
LEMMA ReserveStep ==
  ASSUME RingInv, NEW n \in 0 .. MaxReserve, Length = Cap, Reserve(n)
  PROVE  RingInv' /\ UNCHANGED Contents
<1>1. /\ Cap \in Nat
      /\ Length \in 0 .. Cap
      /\ nonEmpty = (Length # 0)
      /\ n \in Nat
      /\ n > Cap
  BY LengthFacts, RingAssumption DEF Reserve
<1>2. ~GrowPanics
  BY <1>1 DEF GrowPanics, RingInv, TypeOK
<1>3. /\ buffer' = Grown(n)
      /\ head' = 0
      /\ tail' = Cap
      /\ panicked' = panicked
      /\ nonEmpty' = nonEmpty
  BY <1>2 DEF Reserve
<1>4. buffer' \in Seq(Slot) /\ n = Len(buffer')
  BY <1>1, <1>3, GrownFacts
<1>5. PICK k \in 0 .. n : k = Length
  BY <1>1
<1>6. head' \in 0 .. n - 1 /\ tail' = SlotAt(head', k, n)
  BY <1>1, <1>3, <1>5 DEF SlotAt
<1>7. panicked' \in BOOLEAN /\ nonEmpty' \in BOOLEAN /\ (nonEmpty' <=> k # 0)
  BY <1>1, <1>3, <1>5, Zenon DEF RingInv, TypeOK
<1>8. RingInv' /\ Contents' = RingSeq(buffer', head', k)
  BY <1>1, <1>4, <1>6, <1>7, NewRing
<1>9. RingSeq(Grown(n), 0, Length) = Contents
  BY <1>1, GrownContents
<1>10. QED
  BY <1>3, <1>5, <1>8, <1>9

LEMMA StutterStep ==
  ASSUME RingInv, UNCHANGED vars
  PROVE  RingInv' /\ UNCHANGED Contents
  BY DEF RingInv, TypeOK, vars, Cap, Contents, Length, Get

LEMMA ClientStep ==
  ASSUME RingInv, [ClientNext]_vars
  PROVE  RingInv' /\ [DequeView!Next]_Contents
<1>1. CASE \E e \in Element : AddFirst(e)
  BY <1>1, AddFirstStep DEF DequeView!Next
<1>2. CASE \E e \in Element : AddLast(e)
  BY <1>2, AddLastStep DEF DequeView!Next
<1>3. CASE RemoveFirst
  BY <1>3, RemoveFirstStep DEF DequeView!Next
<1>4. CASE RemoveLast
  BY <1>4, RemoveLastStep DEF DequeView!Next
<1>5. CASE Reset
  BY <1>5, ResetStep DEF DequeView!Next
<1>6. CASE ReserveWhenFull
  BY <1>6, ReserveStep DEF ReserveWhenFull
<1>7. CASE UNCHANGED vars
  BY <1>7, StutterStep
<1>8. QED
  BY <1>1, <1>2, <1>3, <1>4, <1>5, <1>6, <1>7 DEF ClientNext, DequeNext

LEMMA InitStep ==
  ASSUME Init
  PROVE  RingInv /\ DequeView!Init
<1>1. Cap = 0 /\ 0 \in 0 .. 0 /\ << >> \in Seq(Element \cup {Nil})
  BY DEF Init, Cap
<1>2. RingInv
  BY <1>1, Zenon DEF Init, RingInv, TypeOK
<1>3. Length = 0
  BY DEF Init, Length
<1>4. Contents = << >>
  BY <1>3, EmptyContents
<1>5. QED
  BY <1>2, <1>4 DEF DequeView!Init

\* head and tail stay inside the slice whatever its clients push, pop, reset or
\* reserve, for every element set and every bound.
THEOREM RingTypeOK == ClientSpec => []TypeOK
<1>1. Init => RingInv
  BY InitStep
<1>2. RingInv /\ [ClientNext]_vars => RingInv'
  BY ClientStep
<1>3. RingInv => TypeOK
  BY DEF RingInv
<1>4. QED
  BY <1>1, <1>2, <1>3, PTL DEF ClientSpec

\* The ring buffer is a deque: its wrapping, doubling and index arithmetic are
\* not observable through Get and Len.
THEOREM RingImplementsDeque == ClientSpec => ImplementsDeque
<1>1. Init => RingInv /\ DequeView!Init
  BY InitStep
<1>2. RingInv /\ [ClientNext]_vars => RingInv' /\ [DequeView!Next]_Contents
  BY ClientStep
<1>3. QED
  BY <1>1, <1>2, PTL DEF ClientSpec, ImplementsDeque, DequeView!Spec

=============================================================================
