------------------------------ MODULE SQLChars ------------------------------
(***************************************************************************)
(* Bytes, character classes and UTF-8, as the scanner (parser/scan.go) and *)
(* the encoder (lex/encode.go) use them.  A Go string is a sequence of     *)
(* bytes 0..255; a position in it is 0-based, as in the source.            *)
(***************************************************************************)
EXTENDS Integers, Sequences, FiniteSets, SequencesExt

Byte == 0..255

\* The bytes the code names by character literals.
NUL == 0
Newline == 10
Space == 32
DoubleQuote == 34
Dollar == 36
SingleQuote == 39
Star == 42
Dash == 45
Dot == 46
Slash == 47
Zero == 48
Semicolon == 59
Backslash == 92
Underscore == 95

\* The byte of a one-character string, and a string literal of the source as
\* the bytes it stands for.
Ord(c) ==
  LET ascii == " !\"#$%&'()*+,-./0123456789:;<=>?@ABCDEFGHIJKLMNOPQRSTUVWXYZ[\\]^_ abcdefghijklmnopqrstuvwxyz{|}~"
  IN  31 + CHOOSE i \in 1..95 : SubSeq(ascii, i, i) = c
Bytes(s) == [i \in 1..Len(s) |-> Ord(SubSeq(s, i, i))]

\* lex/predicates.go
Upper == 65..90
IsDigit(ch) == ch \in 48..57
IsHexDigit(ch) == ch \in 48..57 \cup 97..102 \cup 65..70
IdentStart == Upper \cup 97..122 \cup 128..255 \cup {Underscore}
IdentMiddle == IdentStart \cup 48..57 \cup {Dollar}

HexVal(ch) == IF ch <= 57 THEN ch - 48 ELSE IF ch <= 70 THEN ch - 55 ELSE ch - 87
HexChar(v) == IF v < 10 THEN 48 + v ELSE 87 + v

\* in[a:b] of Go, and the number a run of digits denotes in a base.
Slice(in, a, b) == SubSeq(in, a + 1, b)
Number(digits, base) == FoldLeft(LAMBDA acc, d : base * acc + HexVal(d), 0, digits)

-----------------------------------------------------------------------------
\* Go's unicode/utf8.
RuneError == 65533
MaxRune == 1114111
IsSurrogate(r) == r \in 55296..57343

\* The rune at 1-based index i of s and its width; an invalid byte is a
\* RuneError of width 1, as in a Go range loop.
RuneAt(s, i) ==
  LET bad == [rune |-> RuneError, width |-> 1]
      cont(k) == IF i + k <= Len(s) /\ s[i + k] \in 128..191 THEN s[i + k] - 128 ELSE -1
      good(r, w, lo) == IF r >= lo /\ r <= MaxRune /\ ~IsSurrogate(r)
                        THEN [rune |-> r, width |-> w] ELSE bad
  IN  CASE s[i] < 128 -> [rune |-> s[i], width |-> 1]
        [] s[i] \in 194..223 /\ cont(1) >= 0 ->
             good(64 * (s[i] - 192) + cont(1), 2, 128)
        [] s[i] \in 224..239 /\ cont(1) >= 0 /\ cont(2) >= 0 ->
             good(4096 * (s[i] - 224) + 64 * cont(1) + cont(2), 3, 2048)
        [] s[i] \in 240..244 /\ cont(1) >= 0 /\ cont(2) >= 0 /\ cont(3) >= 0 ->
             good(262144 * (s[i] - 240) + 4096 * cont(1) + 64 * cont(2) + cont(3), 4, 65536)
        [] OTHER -> bad

\* The runes of s in order: a record [rune, width, at] for each, at its index.
RuneThen(r, i, R) == <<[rune |-> r.rune, width |-> r.width, at |-> i]>> \o R[i + r.width]
Runes(s) ==
  LET R[i \in 1..Len(s) + 1] == IF i > Len(s) THEN <<>> ELSE RuneThen(RuneAt(s, i), i, R)
  IN  R[1]

ValidUTF8(s) == \A r \in ToSet(Runes(s)) : ~(r.rune = RuneError /\ r.width = 1)

RuneLen(r) == IF r < 128 THEN 1 ELSE IF r < 2048 THEN 2 ELSE IF r < 65536 THEN 3 ELSE 4

EncodeValidRune(r) ==
  LET low(k) == 128 + ((r \div 64^k) % 64)
  IN  CASE RuneLen(r) = 1 -> <<r>>
        [] RuneLen(r) = 2 -> <<192 + r \div 64, low(0)>>
        [] RuneLen(r) = 3 -> <<224 + r \div 4096, low(1), low(0)>>
        [] RuneLen(r) = 4 -> <<240 + r \div 262144, low(2), low(1), low(0)>>
EncodeRune(v) == EncodeValidRune(IF v > MaxRune \/ IsSurrogate(v) THEN RuneError ELSE v)

\* lex/normalize.go: every rune in lower case, then NFC.  The letters with a
\* case that the model knows are those of Latin-1 and the two Turkish i's; NFC
\* leaves all of them as they are.
ToLower(r) ==
  IF r \in Upper \cup ((192..222) \ {215}) THEN r + 32
  ELSE IF r \in {304, 305} THEN 105
  ELSE r
NormalizeName(n) == FoldLeft(LAMBDA acc, r : acc \o EncodeRune(ToLower(r.rune)), <<>>, Runes(n))
=============================================================================
