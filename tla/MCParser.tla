------------------------------ MODULE MCParser ------------------------------
(* Instances of SQLParser: the texts its runs parse. *)
EXTENDS SQLParser

CONSTANTS MaxTextPieces, MaxReusePieces   \* the largest numbers of pieces of a text

\* One text: separators, literals and comments that may not end, help, and several
\* lines.
OneText == [fragments |-> {Bytes("a"), Bytes(";"), Bytes("$1"), Bytes("'"), Bytes("??"), Bytes("$"),
                           Bytes("/*"), <<Newline>>},
            maxFragments |-> MaxTextPieces, maxCalls |-> 1, maxAnnotations |-> 0]

\* Two texts, of statements with and without placeholders.
TwoTexts == [fragments |-> {Bytes("a;"), Bytes("$2"), Bytes("$1;")},
             maxFragments |-> MaxReusePieces, maxCalls |-> 2, maxAnnotations |-> 1]
MCUses == <<OneText, TwoTexts>>
=============================================================================
