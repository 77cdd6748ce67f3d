------------------------------ MODULE RoundTrip ------------------------------
(***************************************************************************)
(* What the formatter writes with lex/encode.go the parser reads back with *)
(* parser/scan.go: one value is formatted after a word and before a rest   *)
(* of the statement, and the text is scanned again.                        *)
(***************************************************************************)
EXTENDS SQLEncode, SQLLex

CONSTANT Cases   \* values, with an encoding, the word before and the text after them

ASSUME RoundTripAssumption ==
  \A c \in Cases :
    /\ c.kind \in {"string", "bytes", "ident", "name", "unrestricted", "rawhex", "rawescape"}
    /\ c.value \in Seq(Byte) /\ c.before \in Seq(Byte) /\ c.after \in Seq(Byte)

VARIABLES kind,     \* how the value is encoded
          value,    \* the value
          before,   \* the word it follows
          after,    \* what follows it
          text,     \* the formatted text
          read      \* what was read back: tokens of the text or decoded bytes

rtVars == <<kind, value, before, after, text, read>>

Raw == kind \in {"rawhex", "rawescape"}

NewCase(c) == /\ kind = c.kind /\ value = c.value /\ before = c.before /\ after = c.after
              /\ text = <<>>
              /\ read = <<>>

\* The strings of a statement are valid UTF-8 (scanString checks them); byte
\* strings are arbitrary.
RoundTripInit == /\ \E c \in Cases : NewCase(c)
                 /\ kind \in {"string", "ident", "name", "unrestricted"} => ValidUTF8(value)
                 /\ Raw => before = <<>> /\ after = <<>>

Format == /\ text = <<>>
          /\ text' = CASE kind = "string" -> before \o <<Space>> \o EncodeSQLString(value) \o after
                       [] kind = "bytes" -> before \o <<Space>> \o EncodeSQLBytes(value) \o after
                       [] kind = "ident" -> before \o <<Space>> \o EncodeEscapedSQLIdent(value) \o after
                       [] kind = "name" -> before \o <<Space>> \o EncodeRestrictedSQLIdent(value) \o after
                       [] kind = "unrestricted" -> before \o <<Space>> \o EncodeUnrestrictedSQLIdent(value) \o after
                       [] kind = "rawhex" -> EncodeByteArrayToRawBytes(value, TRUE)
                       [] kind = "rawescape" -> EncodeByteArrayToRawBytes(value, FALSE)
          /\ UNCHANGED <<kind, value, before, after, read>>

\* The raw text of an empty byte array is empty in the escape format.
Read == /\ text # <<>>
        /\ read = <<>>
        /\ read' = IF Raw THEN <<DecodeRawBytesToByteArrayAuto(text)>>
                   ELSE <<Tokens(text)>>
        /\ UNCHANGED <<kind, value, before, after, text>>

RoundTripNext == Format \/ Read
RoundTripSpec == RoundTripInit /\ [][RoundTripNext]_rtVars

-----------------------------------------------------------------------------
Scanned == read # <<>> /\ ~Raw

\* The token that stands for the value, if the text has it: it comes after the
\* word before it.
HasValue == read[1].ok /\ Len(read[1].tokens) >= Len(Tokens(before).tokens) + 1
ValueToken == read[1].tokens[Len(Tokens(before).tokens) + 1]

\* What follows the value is scanned as it would be alone.
RestUntouched ==
  LET rest == Len(Tokens(before).tokens) + 1
  IN  SubSeq(read[1].tokens, rest + 1, Len(read[1].tokens)) = Tokens(after).tokens

LiteralId == [string |-> SCONST, bytes |-> BCONST, ident |-> IDENT]

\* A string, a bytes literal of any byte values and a quoted identifier are read
\* back as one token with the value they were written from, whatever is next to
\* them, and no encoding is left open or swallows text that is not its own; a byte
\* array is read back from the raw text of either format, which the decoder tells
\* apart by itself.
LiteralRoundTrip ==
  /\ Scanned /\ kind \in DOMAIN LiteralId =>
       HasValue /\ ValueToken = [id |-> LiteralId[kind], str |-> value] /\ RestUntouched
  /\ read # <<>> /\ Raw => read[1] = [ok |-> TRUE, bytes |-> value]

\* A name that Name.Format or UnrestrictedName.Format writes, bare or quoted, is
\* read back with the same letters, and what follows it is left alone.
NameRoundTrip == Scanned /\ kind \in {"name", "unrestricted"} =>
  HasValue /\ ValueToken.str = value /\ RestUntouched

\* The name changed how the grammar sees the word before it.
Fused == /\ Scanned /\ kind = "name" /\ read[1].ok /\ before # <<>>
         /\ LexID(read[1].tokens, 1) # read[1].tokens[1].id

\* A name never changes how the grammar sees the word before it: the keywords
\* lexer.Lex looks ahead for are quoted (lexer.go: "If you update these cases,
\* update lex.lookaheadKeywords").
NamesDontFuse == ~Fused

\* Of all the words that lexer.Lex looks ahead for, and all that it does so after,
\* the list of lex/predicates.go lacks one: a name fuses only when it is always,
\* after generated.  Every other name that is such a word is quoted.
OnlyAlwaysFuses == Fused => before = Bytes("generated") /\ value = Bytes("always")
=============================================================================
