------------------------------ MODULE SQLEncode ------------------------------
(***************************************************************************)
(* The encoders of lex/encode.go: string literals, byte literals and       *)
(* identifiers as SQL text, and byte arrays as raw text and back.          *)
(***************************************************************************)
EXTENDS SQLScan

\* stringencoding.EncodeMap: the bytes with an escape of one letter.
EncodeMap == 8 :> 98 @@ 12 :> 102 @@ 10 :> 110 @@ 13 :> 114 @@ 9 :> 116 @@ Backslash :> Backslash
NeedEscape(ch) == ch \in DOMAIN EncodeMap
HexMap(ch) == <<Backslash, 120, HexChar(ch \div 16), HexChar(ch % 16)>>

\* %0nX of fmt.
UpperHex(v, n) ==
  [i \in 1..n |-> LET d == (v \div 16^(n - i)) % 16 IN IF d < 10 THEN 48 + d ELSE 55 + d]

\* stringencoding.EncodeEscapedChar: the escape of the rune r that starts at
\* index i of s.  A RuneError has RuneLen 3: the bytes after it are escaped too.
EncodeEscapedChar(s, r, i) ==
  CASE r = RuneError ->
         FlattenSeq([k \in 1..Min({3, Len(s) - i + 1}) |-> HexMap(s[i + k - 1])])
    [] RuneLen(r) = 1 ->
         IF NeedEscape(r) THEN <<Backslash, EncodeMap[r]>>
         ELSE IF r = SingleQuote THEN <<Backslash, SingleQuote>>
         ELSE HexMap(r)
    [] RuneLen(r) = 2 -> <<Backslash, 117>> \o UpperHex(r, 4)
    [] RuneLen(r) > 2 /\ r # RuneError -> <<Backslash, 85>> \o UpperHex(r, 8)

\* A printable rune is written as it is unless it needs an escape.
Plain(r) == r \in 32..126 /\ ~NeedEscape(r) /\ r # SingleQuote

\* EncodeSQLStringWithFlags.  start is the index of the first byte not written.
mustQuote == {Space, 44, 123, 125}
Quoted(s, done, bare) ==
  LET text == done.out \o SubSeq(s, done.start, Len(s))
  IN  IF done.out # <<>> THEN Bytes("e'") \o text \o <<SingleQuote>>
      ELSE IF bare THEN text
      ELSE <<SingleQuote>> \o text \o <<SingleQuote>>
EncodeSQLStringWithFlags(s, bareStrings) ==
  LET step(acc, r) ==
        IF r.at < acc.start \/ Plain(r.rune) THEN acc
        ELSE [start |-> r.at + RuneLen(r.rune),
              out |-> acc.out \o SubSeq(s, acc.start, r.at - 1) \o EncodeEscapedChar(s, r.rune, r.at)]
  IN  Quoted(s, FoldLeft(step, [start |-> 1, out |-> <<>>], Runes(s)),
             bareStrings /\ \A r \in ToSet(Runes(s)) : r.rune \notin mustQuote)
EncodeSQLString(s) == EncodeSQLStringWithFlags(s, FALSE)

\* EncodeSQLBytes, byte by byte; the mutant does not consult the map, so that a
\* backslash is written as it is.
EncodeSQLByteNoMap(ch) ==
  IF ch = SingleQuote THEN <<Backslash, ch>>
  ELSE IF ch < 32 \/ ch >= 127 THEN HexMap(ch)
  ELSE <<ch>>
EncodeSQLByte(ch) ==
  IF NeedEscape(ch) THEN <<Backslash, EncodeMap[ch]>>
  ELSE IF ch = SingleQuote THEN <<Backslash, ch>>
  ELSE IF ch < 32 \/ ch >= 127 THEN HexMap(ch)
  ELSE <<ch>>
EncodeSQLBytes(s) ==
  Bytes("b'") \o FlattenSeq([i \in 1..Len(s) |-> EncodeSQLByte(s[i])]) \o <<SingleQuote>>

-----------------------------------------------------------------------------
\* The reserved keywords among Keywords, and those the lexer looks ahead for
\* (lex/predicates.go).  The mutant's list lacks one that the lexer has.
reservedKeywords ==
  {Bytes(w) : w \in {"as", "between", "ilike", "in", "like", "not", "similar", "time", "with"}}
StaleLookaheadKeywords == reservedKeywords \cup {Bytes(w) : w \in {"ordinality", "generated"}}
reservedOrLookaheadKeywords ==
  reservedKeywords \cup {Bytes(w) : w \in {"between", "ilike", "in", "like", "of", "ordinality",
                                           "similar", "time", "generated"}}

\* The mutant looks only at the characters of the name, not at their case.
AnyCaseBareIdentifier(s) ==
  s # <<>> /\ s[1] \in IdentStart /\ \A c \in ToSet(s) : c \in IdentMiddle
isBareIdentifier(s) ==
  /\ s # <<>>
  /\ s[1] \in IdentStart
  /\ \A c \in ToSet(s) : c \in IdentMiddle \ Upper
  /\ (\A c \in ToSet(s) : c < 128) \/ NormalizeName(s) = s

\* EncodeEscapedSQLIdent doubles the double quotes.
QuoteTwice(ch) == IF ch = DoubleQuote THEN <<ch, ch>> ELSE <<ch>>
EncodeEscapedSQLIdent(s) ==
  <<DoubleQuote>> \o FlattenSeq([i \in 1..Len(s) |-> QuoteTwice(s[i])]) \o <<DoubleQuote>>
EncodeUnrestrictedSQLIdent(s) == IF isBareIdentifier(s) THEN s ELSE EncodeEscapedSQLIdent(s)
EncodeRestrictedSQLIdent(s) ==
  IF s \notin reservedOrLookaheadKeywords /\ isBareIdentifier(s) THEN s
  ELSE EncodeEscapedSQLIdent(s)

-----------------------------------------------------------------------------
\* EncodeByteArrayToRawBytes and DecodeRawBytesToByteArray, formats hex and
\* escape.  A decoding that fails has ok = FALSE.
EncodeRawByte(c) ==
  IF c = Backslash THEN <<Backslash, Backslash>>
  ELSE IF c < 32 \/ c >= 127 THEN <<Backslash, 48 + c \div 64, 48 + ((c \div 8) % 8), 48 + (c % 8)>>
  ELSE <<c>>
EncodeByteArrayToRawBytes(data, hex) ==
  IF hex THEN Bytes("\\x") \o FlattenSeq([i \in 1..Len(data) |-> SubSeq(HexMap(data[i]), 3, 4)])
  ELSE FlattenSeq([i \in 1..Len(data) |-> EncodeRawByte(data[i])])

Decoded(ok, bytes) == [ok |-> ok, bytes |-> bytes]
DecodeHex(data) ==
  IF Len(data) % 2 = 0 /\ \A c \in ToSet(data) : IsHexDigit(c)
  THEN Decoded(TRUE, [i \in 1..Len(data) \div 2 |-> 16 * HexVal(data[2 * i - 1]) + HexVal(data[2 * i])])
  ELSE Decoded(FALSE, <<>>)
OctalEscape(d) == d[1] \in 48..51 /\ d[2] \in 48..55 /\ d[3] \in 48..55
DecodeEscape(data) ==
  LET D[i \in 0..Len(data)] ==
        LET octal == Slice(data, i + 1, i + 4)
            then(byte, rest) == [rest EXCEPT !.bytes = <<byte>> \o @]
        IN  IF i = Len(data) THEN Decoded(TRUE, <<>>)
            ELSE IF Peek(data, i) # Backslash THEN then(Peek(data, i), D[i + 1])
            ELSE IF i >= Len(data) - 1 THEN Decoded(FALSE, <<>>)
            ELSE IF Peek(data, i + 1) = Backslash THEN then(Backslash, D[i + 2])
            ELSE IF i + 3 >= Len(data) \/ ~OctalEscape(octal) THEN Decoded(FALSE, <<>>)
            ELSE then(Number(octal, 8), D[i + 4])
  IN  D[0]
DecodeRawBytesToByteArrayAuto(data) ==
  IF Len(data) >= 2 /\ data[1] = Backslash /\ data[2] \in {88, 120}
  THEN DecodeHex(Slice(data, 2, Len(data)))
  ELSE DecodeEscape(data)
=============================================================================
