---------------------------- MODULE ScannerArena ----------------------------
(***************************************************************************)
(* The memory of the scanner (parser/scan.go): token strings are cut out   *)
(* of one preallocated byte slice without copying, by an unsafe cast, and  *)
(* the rest of a buffer is handed out again.  A Go string must never       *)
(* change; here nothing but this discipline guarantees it.                 *)
(***************************************************************************)
EXTENDS Integers, Sequences, FiniteSets

CONSTANTS Value,      \* what a byte may be
          Zero,       \* what make([]byte, n) fills arrays with
          MaxArrays,  \* the number of arrays that are ever allocated
          MaxCap,     \* the largest capacity of an array
          MaxPiece    \* the longest text written at once

ASSUME ArenaAssumption ==
  /\ Zero \in Value
  /\ MaxArrays \in Nat /\ MaxCap \in Nat /\ MaxPiece \in Nat

VARIABLES mem,            \* the bytes of every array
          next,           \* the arrays 0..next-1 are allocated
          bytesPrealloc,  \* the slice of the scanner
          buf,            \* the slice a scan function appends to, and
          text,           \*   what it has appended to it
          mode,           \* "append" when there is such a slice, else "scan"
          strings         \* the strings in tokens: where they are, what they were

arenaVars == <<mem, next, bytesPrealloc, buf, text, mode, strings>>

Arrays == 0..MaxArrays - 1
Indices == 0..MaxCap - 1

Slice(arr, off, len, cap) == [arr |-> arr, off |-> off, len |-> len, cap |-> cap]
NilSlice == Slice(0, 0, 0, 0)

Pieces == UNION {[1..n -> Value] : n \in 1..MaxPiece}

\* mem with t written to array arr from index off on.
Written(arr, off, t) ==
  [mem EXCEPT ![arr] = [i \in Indices |-> IF i \in off..off + Len(t) - 1
                                          THEN t[i - off + 1] ELSE mem[arr][i]]]

ArenaInit ==
  /\ mem = [a \in Arrays |-> [i \in Indices |-> Zero]]
  /\ next = 0
  /\ bytesPrealloc = NilSlice
  /\ buf = NilSlice /\ text = <<>> /\ mode = "scan"
  /\ strings = {}

\* scanner.init for a text of n bytes; the scanner of a Parser is used again.
InitScanner(n) ==
  /\ mode = "scan" /\ next < MaxArrays
  /\ bytesPrealloc' = Slice(next, 0, n, n)
  /\ next' = next + 1
  /\ UNCHANGED <<mem, buf, text, mode, strings>>

\* scanner.cleanup.
Cleanup ==
  /\ mode = "scan"
  /\ bytesPrealloc' = NilSlice
  /\ UNCHANGED <<mem, next, buf, text, mode, strings>>

Publish(arr, off, t) == strings' = strings \cup {[arr |-> arr, off |-> off, text |-> t]}

\* scanIdent: allocBytes, the lower-case name is written, and becomes a string.
Remaining(length) ==
  [bytesPrealloc EXCEPT !.off = @ + length, !.len = @ - length, !.cap = @ - length]
AllocBytes(t) ==
  /\ mode = "scan" /\ bytesPrealloc.len >= Len(t)
  /\ mem' = Written(bytesPrealloc.arr, bytesPrealloc.off, t)
  /\ Publish(bytesPrealloc.arr, bytesPrealloc.off, t)
  /\ bytesPrealloc' = Remaining(Len(t))
  /\ UNCHANGED <<next, buf, text, mode>>
AllocMake(t) ==
  /\ mode = "scan" /\ bytesPrealloc.len < Len(t) /\ Len(t) <= MaxCap /\ next < MaxArrays
  /\ mem' = Written(next, 0, t)
  /\ Publish(next, 0, t)
  /\ next' = next + 1
  /\ UNCHANGED <<bytesPrealloc, buf, text, mode>>

\* buffer: all of bytesPrealloc, up to its capacity.
Buffer ==
  /\ mode = "scan"
  /\ buf' = [bytesPrealloc EXCEPT !.len = 0]
  /\ text' = <<>>
  /\ mode' = "append"
  /\ bytesPrealloc' = NilSlice
  /\ UNCHANGED <<mem, next, strings>>

\* append within the capacity of buf, and beyond it: a larger array, with a copy
\* of what buf held.
AppendInPlace(t) ==
  /\ mode = "append" /\ buf.len + Len(t) <= buf.cap
  /\ mem' = Written(buf.arr, buf.off + buf.len, t)
  /\ buf' = [buf EXCEPT !.len = @ + Len(t)]
  /\ text' = text \o t
  /\ UNCHANGED <<next, bytesPrealloc, mode, strings>>
Copy(t) == [i \in 1..buf.len |-> mem[buf.arr][buf.off + i - 1]] \o t
AppendGrow(t, cap) ==
  /\ mode = "append" /\ buf.len + Len(t) > buf.cap /\ next < MaxArrays
  /\ cap >= buf.len + Len(t)
  /\ mem' = Written(next, 0, Copy(t))
  /\ buf' = Slice(next, 0, buf.len + Len(t), cap)
  /\ next' = next + 1
  /\ text' = text \o t
  /\ UNCHANGED <<bytesPrealloc, mode, strings>>

\* finishString and returnBuffer: buf[len(buf):] has no length, only capacity.  The
\* mutant returns all of buf.
ReturnAll == [buf EXCEPT !.len = 0]
ReturnBuffer ==
  IF buf.len < buf.cap THEN Slice(buf.arr, buf.off + buf.len, 0, buf.cap - buf.len)
  ELSE bytesPrealloc
FinishString ==
  /\ mode = "append"
  /\ Publish(buf.arr, buf.off, text)
  /\ bytesPrealloc' = ReturnBuffer
  /\ buf' = NilSlice /\ text' = <<>> /\ mode' = "scan"
  /\ UNCHANGED <<mem, next>>

\* A scan function fails: the token has a constant for a string, buf is lost.
DropBuffer ==
  /\ mode = "append"
  /\ buf' = NilSlice /\ text' = <<>> /\ mode' = "scan"
  /\ UNCHANGED <<mem, next, bytesPrealloc, strings>>

ArenaNext ==
  \/ \E n \in 0..MaxCap : InitScanner(n)
  \/ Cleanup
  \/ \E t \in Pieces : AllocBytes(t) \/ AllocMake(t) \/ AppendInPlace(t)
  \/ Buffer
  \/ \E t \in Pieces : \E cap \in 0..MaxCap : AppendGrow(t, cap)
  \/ FinishString
  \/ DropBuffer
ArenaSpec == ArenaInit /\ [][ArenaNext]_arenaVars

-----------------------------------------------------------------------------
IsSlice(s) ==
  /\ s \in [arr : Nat, off : Nat, len : Nat, cap : Nat]
  /\ s.len <= s.cap /\ s.off + s.cap <= MaxCap
  /\ s.cap > 0 => s.arr < next

IsString(s) ==
  /\ s.arr \in Nat /\ s.off \in Nat /\ s.text \in Seq(Value)
  /\ s.off + Len(s.text) <= MaxCap
  /\ s.text # <<>> => s.arr < next

ArenaTypeOK ==
  /\ mem \in [Arrays -> [Indices -> Value]]
  /\ next \in 0..MaxArrays
  /\ IsSlice(bytesPrealloc) /\ IsSlice(buf)
  /\ mode \in {"scan", "append"}
  /\ text \in Seq(Value) /\ Len(text) = buf.len
  /\ \A s \in strings : IsString(s)

\* The memory of the n bytes at off of array arr.
At(arr, off, n) == [i \in 1..n |-> mem[arr][off + i - 1]]

\* The string of a token is what the scanner wrote for it, however many tokens,
\* of this and of later texts, were scanned since: no write to a buffer and no
\* reuse of returned memory reaches it.
StringsIntact == \A s \in strings : At(s.arr, s.off, Len(s.text)) = s.text
=============================================================================
