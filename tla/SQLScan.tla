------------------------------- MODULE SQLScan -------------------------------
(***************************************************************************)
(* The lexical scanner of parser/scan.go as functions of the input in and  *)
(* a position p.  Scan(in, p) is the token a call of scanner.scan finds    *)
(* when s.pos = p, with the position `end' it leaves in s.pos.             *)
(***************************************************************************)
EXTENDS SQLChars

\* lex/tokens.go.  A token that is one character has that byte as its id, and
\* the end of the input has id 0.
IDENT == 57346
SCONST == 57347
BCONST == 57348
BITCONST == 57349
ICONST == 57350
FCONST == 57351
PLACEHOLDER == 57352
ERROR == 57362
HELPTOKEN == 57823

\* The operators of more than one character, by the switch arms of scan.
Operators == {<<Bytes(o[1]), o[2]>> : o \in {
  <<"..", 57355>>, <<"!=", 57358>>, <<"<>", 57358>>, <<"!~", 57359>>, <<"!~*", 57361>>,
  <<"~*", 57360>>, <<"??", HELPTOKEN>>, <<"?|", 57566>>, <<"?&", 57567>>, <<"<<", 57593>>,
  <<"<<=", 57542>>, <<"<=", 57356>>, <<"<@", 57820>>, <<">>", 57705>>, <<">>=", 57543>>,
  <<">=", 57357>>, <<"::", 57353>>, <<":::", 57354>>, <<"||", 57422>>, <<"||/", 57403>>,
  <<"|/", 57751>>, <<"//", 57504>>, <<"@>", 57430>>, <<"&&", 57375>>, <<"->", 57494>>,
  <<"->>", 57495>>, <<"#>", 57496>>, <<"#>>", 57497>>, <<"#-", 57685>>}}

\* The keywords the models use, with the ids of lex/tokens.go.  Every other
\* word is an IDENT.
Keywords == {<<Bytes(k[1]), k[2]>> : k \in {
  <<"as", 57379>>, <<"not", 57616>>, <<"with", 57809>>, <<"generated", 57512>>, <<"of", 57624>>,
  <<"in", 57536>>, <<"between", 57389>>, <<"like", 57582>>, <<"ilike", 57533>>,
  <<"similar", 57728>>, <<"always", 57371>>, <<"time", 57764>>, <<"ordinality", 57637>>,
  <<"ranges", 57672>>}}
GetKeywordID(word) ==
  IF \E k \in Keywords : k[1] = word
  THEN (CHOOSE k \in Keywords : k[1] = word)[2]
  ELSE IDENT
AllowedExperimental == {Bytes("ranges")}

Eof == -1
Peek(in, p) == IF p >= Len(in) THEN Eof ELSE in[p + 1]

\* The first position from p on that is not a byte of S.
Span(in, p, S) == Min({q \in p..Len(in) : Peek(in, q) \notin S})

\* What a scan leaves behind: the fields of sqlSymType and s.pos.  The text of
\* an error message is left out.
Token(id, pos, end, str) == [id |-> id, pos |-> pos, end |-> end, str |-> str]

-----------------------------------------------------------------------------
\* skipWhitespace without comments: where it stops and whether it saw a newline.
Whitespace == {Space, Newline, 9, 12, 13}
BlanksUpTo(in, p, q) == [pos |-> q, newline |-> \E i \in p..q - 1 : Peek(in, i) = Newline]
Blanks(in, p) == BlanksUpTo(in, p, Span(in, p, Whitespace))

Unterminated == -1

\* A /* inside a comment opens another level; the mutant forgets it.
NotNested(depth) == depth
Nested(depth) == depth + 1

\* The end of the comment that starts at p, or Unterminated.
BlockCommentEnd(in, p) ==
  LET C[q \in 0..Len(in) + 1, depth \in 1..Len(in)] ==
        IF Peek(in, q) = Eof THEN Unterminated
        ELSE IF Peek(in, q) = Star /\ Peek(in, q + 1) = Slash
             THEN IF depth = 1 THEN q + 2 ELSE C[q + 2, depth - 1]
        ELSE IF Peek(in, q) = Slash /\ Peek(in, q + 1) = Star
             THEN C[q + 2, Nested(depth)]
        ELSE C[q + 1, depth]
  IN  C[p + 2, 1]
LineCommentEnd(in, p) ==
  Min({Len(in)} \cup {q + 1 : q \in {i \in p..Len(in) - 1 : Peek(in, i) = Newline}})

\* skipWhitespace with comments.  ok is FALSE when a comment is not terminated;
\* pos is then where it starts.  Skip is what is skipped from a position on.
AfterComment(start, end, Skip) ==
  IF end = Unterminated THEN [ok |-> FALSE, pos |-> start] ELSE Skip[end]
SkipComments(in, b, Skip) ==
  IF Peek(in, b) = Slash /\ Peek(in, b + 1) = Star
  THEN AfterComment(b, BlockCommentEnd(in, b), Skip)
  ELSE IF Peek(in, b) = Dash /\ Peek(in, b + 1) = Dash
  THEN AfterComment(b, LineCommentEnd(in, b), Skip)
  ELSE [ok |-> TRUE, pos |-> b]
SkipWhitespace(in, p) ==
  LET Skip[q \in 0..Len(in)] == SkipComments(in, Blanks(in, q).pos, Skip)
  IN  Skip[p]

-----------------------------------------------------------------------------
\* scanIdent: the word in lower case, and the keyword it is, with the
\* experimental_ and testing_ prefixes of the allowed keywords dropped.
Lowered(raw) ==
  IF \A c \in ToSet(raw) : c \notin Upper THEN raw
  ELSE IF \A c \in ToSet(raw) : c < 128
       THEN [i \in DOMAIN raw |-> IF raw[i] \in Upper THEN raw[i] + 32 ELSE raw[i]]
  ELSE NormalizeName(raw)

Unprefixed(word) ==
  LET prefixes == {pre \in {Bytes("experimental_"), Bytes("testing_")} : IsPrefix(pre, word)}
  IN  IF prefixes = {} THEN word
      ELSE Slice(word, Len(CHOOSE pre \in prefixes : TRUE), Len(word))
WithoutPrefix(word, kw) == IF kw \in AllowedExperimental THEN kw ELSE word
KeywordOrName(p, end, word) == Token(GetKeywordID(word), p, end, word)
ScanWord(p, end, word) == KeywordOrName(p, end, WithoutPrefix(word, Unprefixed(word)))
ScanWordUpTo(in, p, end) == ScanWord(p, end, Lowered(Slice(in, p, end)))
ScanIdent(in, p) == ScanWordUpTo(in, p, Span(in, p, IdentMiddle))

\* scanNumber: start is the position of the first digit or of the dot.
\* constant.MakeFromLiteral accepts every literal the loop accepts.
ScanNumber(in, start) ==
  LET error(q) == Token(ERROR, start, q, <<>>)
      literal(q) == Slice(in, start, q)
      NoLeadingZeros(s) == Slice(s, Min({Len(s) - 1, Span(s, 0, {Zero})}), Len(s))
      N[q \in 0..Len(in), hex \in BOOLEAN, dec \in BOOLEAN, exp \in BOOLEAN] ==
        LET ch == Peek(in, q)
            sign == IF Peek(in, q + 1) \in {43, Dash} THEN 1 ELSE 0
        IN  IF IsDigit(ch) \/ (hex /\ IsHexDigit(ch)) THEN N[q + 1, hex, dec, exp]
            ELSE IF ch \in {88, 120}
                 THEN IF hex \/ Peek(in, start) # Zero \/ q # start + 1 THEN error(q)
                      ELSE N[q + 1, TRUE, dec, exp]
            ELSE IF ~hex /\ ch = Dot /\ ~dec /\ ~exp /\ Peek(in, q + 1) # Dot
                 THEN N[q + 1, hex, TRUE, exp]
            ELSE IF ~hex /\ ch \in {69, 101} /\ ~exp
                 THEN IF IsDigit(Peek(in, q + 1 + sign)) THEN N[q + 1 + sign, hex, dec, TRUE]
                      ELSE error(q + 1 + sign)
            ELSE IF dec \/ exp THEN Token(FCONST, start, q, literal(q))
            ELSE IF hex /\ q = start + 2 THEN error(q)
            ELSE Token(ICONST, start, q, IF hex THEN literal(q) ELSE NoLeadingZeros(literal(q)))
  IN  N[start + 1, FALSE, Peek(in, start) = Dot, FALSE]

MaxPlaceholderIdx == 65535
ScanPlaceholder(in, p) ==
  LET end == Span(in, p + 1, 48..57)
      digits == Slice(in, p + 1, end)
  IN  IF Number(digits, 10) \in 1..MaxPlaceholderIdx + 1
      THEN Token(PLACEHOLDER, p, end, digits)
      ELSE Token(ERROR, p, end, <<>>)

-----------------------------------------------------------------------------
\* The content of a quoted literal, from inside its quotes: whether it is well
\* formed, its bytes, and s.pos after it.
Content(ok, end, str) == [ok |-> ok, end |-> end, str |-> str]
Literal(id, p, c) == Token(IF c.ok THEN id ELSE ERROR, p, c.end, IF c.ok THEN c.str ELSE <<>>)
Then(prefix, content) == [content EXCEPT !.str = prefix \o @]

\* What follows the closing quote at q: adjacent literals are joined when the
\* whitespace between them has a newline.  The mutant consumes a byte too many.
AfterQuoteSkips(in, q, quote) ==
  LET b == Blanks(in, q + 1)
  IN  [joined |-> b.newline /\ Peek(in, b.pos) = quote, pos |-> b.pos + 1]
AfterBlanks(in, b, quote) == [joined |-> b.newline /\ Peek(in, b.pos) = quote, pos |-> b.pos]
AfterQuote(in, q, quote) == AfterBlanks(in, Blanks(in, q + 1), quote)

\* The rest of a literal after a closing quote; Rest is what is read from a
\* position on.
JoinOrEnd(after, Rest) ==
  IF after.joined THEN Rest[after.pos + 1] ELSE Content(TRUE, after.pos, <<>>)

Consumed(in, q) == Min({q + 1, Len(in)})

\* scanHexString and scanBitString.  half is the high digit of the byte being
\* read, or None.
None == -1
ScanHexString(in, p, quote) ==
  LET H[q \in 0..Len(in), half \in -1..15] ==
        LET ch == Peek(in, q)
            after == AfterQuote(in, q, quote)
        IN  IF ch = quote
            THEN IF after.joined THEN H[after.pos + 1, half]
                 ELSE Content(half = None, after.pos, <<>>)
            ELSE IF ~IsHexDigit(ch) THEN Content(FALSE, Consumed(in, q), <<>>)
            ELSE IF half = None THEN H[q + 1, HexVal(ch)]
            ELSE Then(<<16 * half + HexVal(ch)>>, H[q + 1, None])
  IN  H[p, None]

ScanBitString(in, p, quote) ==
  LET B[q \in 0..Len(in)] ==
        IF Peek(in, q) = quote THEN JoinOrEnd(AfterQuote(in, q, quote), B)
        ELSE IF Peek(in, q) \in {48, 49} THEN Then(<<Peek(in, q)>>, B[q + 1])
        ELSE Content(FALSE, Consumed(in, q), <<>>)
  IN  B[p]

\* The escape whose backslash is at q, as strconv.UnquoteChar decodes it: the
\* bytes it stands for and where it ends.  \X is read as \x when two bytes
\* follow it, and is an error otherwise.
Escapes == {97, 98, 102, 110, 114, 116, 118, 120, 88, 117, 85, Backslash} \cup 48..55
UnquoteChar(in, q) ==
  LET t == Peek(in, q + 1)
      simple == 97 :> 7 @@ 98 :> 8 @@ 102 :> 12 @@ 110 :> 10 @@ 114 :> 13
                @@ 116 :> 9 @@ 118 :> 11 @@ Backslash :> Backslash
      hexDigits == 120 :> 2 @@ 88 :> 2 @@ 117 :> 4 @@ 85 :> 8
      digits(n) == Slice(in, q + 2, q + 2 + n)
      octal == Slice(in, q + 1, q + 4)
      hexOK(n) == q + 2 + n <= Len(in) /\ \A d \in ToSet(digits(n)) : IsHexDigit(d)
      octalOK == q + 4 <= Len(in) /\ \A d \in ToSet(octal) : d \in 48..55
      failed == Content(FALSE, q + 1, <<>>)
      \* Number of an eight-digit escape overflows where it is not a rune.
      rune(n) == IF n = 8 /\ Number(digits(3), 16) > 1 THEN MaxRune + 1 ELSE Number(digits(n), 16)
  IN  IF t \in DOMAIN simple THEN Content(TRUE, q + 2, <<simple[t]>>)
      ELSE IF t \in DOMAIN hexDigits
      THEN LET n == hexDigits[t]
           IN  IF ~hexOK(n) \/ (n > 2 /\ (rune(n) > MaxRune \/ IsSurrogate(rune(n)))) THEN failed
               ELSE Content(TRUE, q + 2 + n, IF n = 2 THEN <<Number(digits(n), 16)>>
                                             ELSE EncodeRune(rune(n)))
      ELSE IF octalOK /\ Number(octal, 8) < 256 THEN Content(TRUE, q + 4, <<Number(octal, 8)>>)
      ELSE failed

\* scanString: '...', "...", e'...' and b'...'.
Unescaped(escape, Rest) == IF escape.ok THEN Then(escape.str, Rest[escape.end]) ELSE escape
CheckUTF8(content, requireUTF8) ==
  [content EXCEPT !.ok = @ /\ (requireUTF8 => ValidUTF8(content.str))]
ScanString(in, p, quote, allowEscapes, requireUTF8) ==
  LET S[q \in 0..Len(in)] ==
        LET ch == Peek(in, q)
            t == Peek(in, q + 1)
        IN  IF ch = Eof THEN Content(FALSE, q, <<>>)
            ELSE IF ch = quote
            THEN IF t = quote THEN Then(<<quote>>, S[q + 2])
                 ELSE JoinOrEnd(AfterQuote(in, q, quote), S)
            ELSE IF ch = Backslash /\ allowEscapes
            THEN IF t = quote THEN Then(<<quote>>, S[q + 2])
                 ELSE IF t \notin Escapes THEN S[q + 1]
                 ELSE Unescaped(UnquoteChar(in, q), S)
            ELSE Then(<<ch>>, S[q + 1])
  IN  CheckUTF8(S[p], requireUTF8)

\* A $ that does not end the string may be the first byte of the end tag, also
\* when it was read as part of a tag; the mutant takes it for the end of one.
DollarEndsTag(matched) == IF matched = None THEN 0 ELSE None
DollarMayStartTag(matched) == 0

\* scanDollarQuotedString, from the position after the first $.  A tag is
\* matched byte by byte: matched is the number of bytes of it seen since the
\* last $, or None when the text since then is not a prefix of it.
DollarContent(end, str, ok) == Content(ok, end, IF ok THEN str ELSE <<>>)
DollarString(end, str) == DollarContent(end, str, ValidUTF8(str))
DollarBody(in, body, tag) ==
  LET D[q \in 0..Len(in), matched \in -1..Len(in)] ==
        LET ch == Peek(in, q)
        IN  IF ch = Eof THEN Content(FALSE, q, <<>>)
            ELSE IF ch = Dollar
            THEN IF matched = Len(tag) THEN DollarString(q + 1, Slice(in, body, q - Len(tag) - 1))
                 ELSE D[q + 1, DollarMayStartTag(matched)]
            ELSE IF matched # None /\ matched < Len(tag) /\ ch = tag[matched + 1]
                 THEN D[q + 1, matched + 1]
            ELSE D[q + 1, None]
  IN  D[body, None]
DollarUpTo(in, start, tagEnd) ==
  IF Peek(in, tagEnd) = Dollar
  THEN Literal(SCONST, start - 1, DollarBody(in, tagEnd + 1, Slice(in, start, tagEnd)))
  ELSE Token(Dollar, start - 1, IF Peek(in, tagEnd) = Eof THEN start ELSE tagEnd, <<Dollar>>)
ScanDollarQuotedString(in, start) == DollarUpTo(in, start, Span(in, start, IdentStart))

-----------------------------------------------------------------------------
\* An operator of several characters, the longest that matches, or the
\* character itself.  The mutant looks at the character and does not consume it.
PeekOperator(in, p) == Token(Peek(in, p), p, p, <<Peek(in, p)>>)
OperatorOf(in, p, matching) ==
  LET longest == CHOOSE o \in matching : \A x \in matching : Len(x[1]) <= Len(o[1])
  IN  IF matching = {} THEN Token(Peek(in, p), p, p + 1, <<Peek(in, p)>>)
      ELSE Token(longest[2], p, p + Len(longest[1]), <<Peek(in, p)>>)
ScanOperator(in, p) ==
  OperatorOf(in, p, {o \in Operators : /\ p + Len(o[1]) <= Len(in)
                                       /\ Slice(in, p, p + Len(o[1])) = o[1]})

\* The literals scanString reads: what they start with, before a quote of its own
\* or not, the token they are, and what is asked of their content.
StringForms == {
  [first |-> {DoubleQuote}, prefix |-> 0, id |-> IDENT, escapes |-> FALSE, utf8 |-> TRUE],
  [first |-> {SingleQuote}, prefix |-> 0, id |-> SCONST, escapes |-> FALSE, utf8 |-> TRUE],
  [first |-> {98}, prefix |-> 1, id |-> BCONST, escapes |-> TRUE, utf8 |-> FALSE],
  [first |-> {69, 101}, prefix |-> 1, id |-> SCONST, escapes |-> TRUE, utf8 |-> TRUE]}
FormsOf(ch, quoted) == {f \in StringForms : ch \in f.first /\ (f.prefix = 1 => quoted)}
ScanForm(in, p, f) ==
  Literal(f.id, p, ScanString(in, p + f.prefix + 1, Peek(in, p + f.prefix), f.escapes, f.utf8))

\* scanner.scan: the switch on the first character of a token, and what is before
\* it.
ScanAt(in, p, ch, quoted) ==
  IF ch = Eof THEN Token(0, p, p, Bytes("EOF"))
  ELSE IF ch = Dollar /\ IsDigit(Peek(in, p + 1)) THEN ScanPlaceholder(in, p)
  ELSE IF ch = Dollar THEN ScanDollarQuotedString(in, p + 1)
  ELSE IF FormsOf(ch, quoted) # {} THEN ScanForm(in, p, CHOOSE f \in FormsOf(ch, quoted) : TRUE)
  ELSE IF ch = 66 /\ quoted THEN Literal(BITCONST, p, ScanBitString(in, p + 2, SingleQuote))
  ELSE IF ch \in {88, 120} /\ quoted THEN Literal(BCONST, p, ScanHexString(in, p + 2, SingleQuote))
  ELSE IF IsDigit(ch) \/ (ch = Dot /\ IsDigit(Peek(in, p + 1))) THEN ScanNumber(in, p)
  ELSE IF ch \in IdentStart THEN ScanIdent(in, p)
  ELSE ScanOperator(in, p)
ScanAfter(in, ws) ==
  IF ~ws.ok THEN Token(ERROR, ws.pos, Len(in), <<>>)
  ELSE ScanAt(in, ws.pos, Peek(in, ws.pos), Peek(in, ws.pos + 1) = SingleQuote)
Scan(in, from) == ScanAfter(in, SkipWhitespace(in, from))

-----------------------------------------------------------------------------
\* The exported helpers: SplitFirstStatement, Tokens, LastLexicalToken and
\* EndsInSemicolon.  Each has its loop and, before it, what the loop does with a
\* token t.
SplitAfter(t, Rest) ==
  IF t.id \in {0, ERROR} THEN [ok |-> FALSE, pos |-> 0]
  ELSE IF t.id = Semicolon THEN [ok |-> TRUE, pos |-> t.end]
  ELSE Rest[t.end]
SplitFirstStatement(in) ==
  LET F[p \in 0..Len(in)] == SplitAfter(Scan(in, p), F)
  IN  F[0]

TokenBefore(t, rest) ==
  IF rest.ok THEN [rest EXCEPT !.tokens = <<[id |-> t.id, str |-> t.str]>> \o @] ELSE rest
TokensAfter(t, Rest) ==
  IF t.id \in {0, ERROR} THEN [ok |-> t.id = 0, tokens |-> <<>>] ELSE TokenBefore(t, Rest[t.end])
Tokens(in) ==
  LET T[p \in 0..Len(in)] == TokensAfter(Scan(in, p), T)
  IN  T[0]

LastAfter(t, last, Rest) ==
  IF t.id = 0 THEN [tok |-> last, ok |-> last # 0] ELSE Rest[t.end, t.id]
LastLexicalToken(in) ==
  LET L[p \in 0..Len(in), last \in Nat] == LastAfter(Scan(in, p), last, L)
  IN  L[0, 0]

EndsInSemicolon(in) == LastLexicalToken(in) = [tok |-> Semicolon, ok |-> TRUE]
=============================================================================
