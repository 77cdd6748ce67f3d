----------------------------- MODULE SQLScanner -----------------------------
(***************************************************************************)
(* The scanner of parser/scan.go at work: LastLexicalToken's loop, which   *)
(* scans an input to its end, past lexical errors.  SplitFirstStatement    *)
(* and Tokens run the same loop and stop earlier.                          *)
(***************************************************************************)
EXTENDS SQLScan

CONSTANT Texts   \* the inputs, as a sequence of sets of them

ASSUME TextsAssumption == \A i \in DOMAIN Texts : \A s \in Texts[i] : s \in Seq(Byte)

VARIABLES in,     \* scanner.in
          pos,    \* scanner.pos
          toks    \* the tokens found so far

vars == <<in, pos, toks>>

MakeScanner(text) == in = text /\ pos = 0 /\ toks = <<>>
Init == \E i \in DOMAIN Texts : \E text \in Texts[i] : MakeScanner(text)

Done == toks # <<>> /\ Last(toks).id = 0

Found(t) == /\ toks' = Append(toks, t)
            /\ pos' = t.end
ScanToken == /\ ~Done
             /\ Found(Scan(in, pos))
             /\ UNCHANGED in

Next == ScanToken

Spec == Init /\ [][Next]_vars

-----------------------------------------------------------------------------
\* Every token lies in the input, after the one before it and before s.pos.
\* lexer.populateErrorDetails and scanOneStmt slice the input at these positions.
TypeOK ==
  /\ in \in Seq(Byte)
  /\ pos \in 0..Len(in)
  /\ \A i \in DOMAIN toks :
       /\ toks[i].pos \in 0..Len(in)
       /\ toks[i].pos <= toks[i].end
       /\ toks[i].end <= pos
       /\ i > 1 => toks[i - 1].end <= toks[i].pos

\* A scan that does not find the end moves forward, although scan backs up after
\* a slash, a dash, a dot or a dollar that starts nothing: the loops of
\* LastLexicalToken, SplitFirstStatement and Tokens terminate on every input.
Progress == [][pos' > pos \/ Done']_vars

-----------------------------------------------------------------------------
(***************************************************************************)
(* Where a semicolon separates statements, said a second time: a reader    *)
(* that goes through the text byte by byte and knows only which kind of    *)
(* text it is in.  It knows quotes, comments, blanks, backslashes and two  *)
(* letters, e and a.                                                       *)
(***************************************************************************)
Reader(kind, depth) == [kind |-> kind, depth |-> depth]

ReadByte(r, ch) ==
  LET inCode == CASE ch = SingleQuote -> IF r.kind \in {"e", "e'closed", "e'newline"}
                                         THEN "e'" ELSE "'"
                  [] ch = DoubleQuote -> "dq"
                  [] ch = Dash -> IF r.kind = "-" THEN "line" ELSE "-"
                  [] ch = Slash -> IF r.kind = "/" THEN "code" ELSE "/"
                  [] ch = Star -> IF r.kind = "/" THEN "block" ELSE "code"
                  [] ch = 101 -> IF r.kind \in {"e", "word"} THEN "word" ELSE "e"
                  [] ch = 97 -> "word"
                  [] ch = Space -> IF r.kind \in {"e'closed", "e'blank"} THEN "e'blank"
                                   ELSE IF r.kind = "e'newline" THEN r.kind ELSE "code"
                  [] ch = Newline -> IF r.kind \in {"e'closed", "e'blank", "e'newline"}
                                     THEN "e'newline" ELSE "code"
                  [] OTHER -> "code"
  IN  CASE r.kind = "'" -> Reader(IF ch = SingleQuote THEN "code" ELSE "'", 0)
        [] r.kind = "dq" -> Reader(IF ch = DoubleQuote THEN "code" ELSE "dq", 0)
        [] r.kind = "e'" -> Reader(IF ch = SingleQuote THEN "e'closed"
                                   ELSE IF ch = Backslash THEN "e'\\" ELSE "e'", 0)
        [] r.kind = "e'\\" -> Reader("e'", 0)
        [] r.kind = "line" -> Reader(IF ch = Newline THEN "code" ELSE "line", 0)
        [] r.kind = "block*" /\ ch = Slash ->
             IF r.depth = 1 THEN Reader("code", 0) ELSE Reader("block", r.depth - 1)
        [] r.kind = "block/" /\ ch = Star -> Reader("block", r.depth + 1)
        [] r.kind \in {"block", "block*", "block/"} /\ ~(r.kind = "block*" /\ ch = Slash)
             /\ ~(r.kind = "block/" /\ ch = Star) ->
             Reader(IF ch = Star THEN "block*" ELSE IF ch = Slash THEN "block/" ELSE "block", r.depth)
        [] OTHER -> Reader(inCode, IF inCode = "block" THEN 1 ELSE 0)

\* The reader before each byte of s and after the last.
Readers(s) ==
  FoldLeft(LAMBDA rs, ch : Append(rs, ReadByte(Last(rs), ch)), <<Reader("code", 0)>>, s)

ReaderBytes == {SingleQuote, DoubleQuote, Semicolon, Dash, Slash, Star, Newline,
                Space, Backslash, 101, 97}

Open == {"'", "dq", "e'", "e'\\", "block", "block*", "block/"}
Hidden == Open \cup {"line"}

\* What the reader says: a semicolon is a token exactly when it is outside quotes
\* and comments, and the input is in error exactly when it ends inside one of them.
ReaderAgrees ==
  ToSet(in) \subseteq ReaderBytes =>
    LET readers == Readers(in)
        errors == {i \in DOMAIN toks : toks[i].id = ERROR}
    IN  /\ errors # {} <=> Last(readers).kind \in Open
        /\ errors = {} => {t.pos : t \in {u \in ToSet(toks) : u.id = Semicolon}} =
                          {p \in 0..Len(in) - 1 : /\ Peek(in, p) = Semicolon
                                                  /\ readers[p + 1].kind \notin Hidden}

\* The loop of main over SplitFirstStatement: where the text is cut.
PieceThen(last, split, Rest) ==
  IF split.ok THEN <<last + split.pos>> \o Rest[last + split.pos] ELSE <<>>
Pieces ==
  LET P[last \in 0..Len(in)] ==
        PieceThen(last, SplitFirstStatement(Slice(in, last, Len(in))), P)
  IN  P[0]

\* The cuts are the ends of the semicolons, and the text ends in a semicolon when
\* nothing but blanks and comments is left after the last cut.
CutsAre(cuts, semicolons) ==
  LET rest == IF cuts = <<>> THEN in ELSE Slice(in, Last(cuts), Len(in))
  IN  /\ cuts = [i \in DOMAIN semicolons |-> semicolons[i].end]
      /\ EndsInSemicolon(in) <=> cuts # <<>> /\ Tokens(rest).tokens = <<>>

\* Semicolons separate statements where they are outside quotes and comments, with
\* escapes, doubled quotes, literals joined over a newline and nested comments; and
\* SplitFirstStatement, which scans only what the cuts before it left, cuts at the
\* semicolons of one scan over all of the text.  (Dollar quotes, which the reader
\* does not know, are DollarQuotesMatch's.)
SemicolonsSeparate ==
  Done => /\ ReaderAgrees
          /\ (\A i \in DOMAIN toks : toks[i].id # ERROR) =>
               CutsAre(Pieces, SelectSeq(toks, LAMBDA t : t.id = Semicolon))

\* A dollar-quoted string ends at the first $tag$ after its opening one, although
\* scanDollarQuotedString matches the tag while it reads, without backing up.
DollarQuotesMatch ==
  toks # <<>> /\ Peek(in, Last(toks).pos) = Dollar =>
    LET t == Last(toks)
        bodies == {q \in t.pos + 2..Len(in) :
                     /\ Peek(in, q - 1) = Dollar
                     /\ \A k \in t.pos + 1..q - 2 : Peek(in, k) \in IdentStart}
        body == Min(bodies)
        n == body - t.pos
        ends == {q \in body..Len(in) - n : Slice(in, q, q + n) = Slice(in, t.pos, body)}
    IN  t.id # 0 /\ bodies # {} =>
          IF ends = {} THEN t.id = ERROR
          ELSE t = Token(SCONST, t.pos, Min(ends) + n, Slice(in, body, Min(ends)))
=============================================================================
