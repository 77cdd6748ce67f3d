------------------------------- MODULE MCText -------------------------------
(***************************************************************************)
(* Instances of SQLScanner, SQLStream and RoundTrip: the texts they are    *)
(* given.  One of the three is picked at the start and the others stay as  *)
(* they are.                                                               *)
(***************************************************************************)
EXTENDS SQLScanner, SQLStream, MCRoundTrip

CONSTANTS MaxQuotePieces, MaxDollarPieces   \* the largest numbers of pieces of a text

VARIABLE active \* the one that runs

\* Quotes, escapes and comments.
QuoteFragments ==
  {Bytes("'"), Bytes("\""), Bytes(";"), Bytes("--"), Bytes("/*"), Bytes("*/"),
   <<Newline>>, Bytes("e'"), Bytes("\\"), Bytes(" ")}

\* Dollar quotes, with tags that are prefixes of each other.
DollarFragments == {Bytes("$"), Bytes("a"), Bytes(";")}

ScannerTexts == <<ValuesOf(QuoteFragments, MaxQuotePieces), ValuesOf(DollarFragments, MaxDollarPieces)>>

\* Semicolons inside and outside of quotes and comments.
StreamFragments == {Bytes("a"), Bytes(";"), Bytes("'"), Bytes("/*"), Bytes("*/"), Bytes("--"),
                    <<Newline>>, Bytes("$")}

\* A NUL byte in the text.
NulFragments == {Bytes("a"), Bytes(";"), <<NUL>>}

\* Those that do not run have no text.
NoCase == [kind |-> "string", value |-> <<>>, before |-> <<>>, after |-> <<>>]
MCInit == \/ active = "scanner" /\ Init /\ NewStream(<<>>) /\ NewCase(NoCase)
          \/ active = "stream" /\ StreamInit /\ MakeScanner(<<>>) /\ NewCase(NoCase)
          \/ active = "roundtrip" /\ RoundTripInit /\ MakeScanner(<<>>) /\ NewStream(<<>>)
ScannerStep == active = "scanner" /\ Next /\ UNCHANGED <<active, streamVars, rtVars>>
StreamStep == active = "stream" /\ StreamNext /\ UNCHANGED <<active, vars, rtVars>>
RoundTripStep == active = "roundtrip" /\ RoundTripNext /\ UNCHANGED <<active, vars, streamVars>>

MCVars == <<active, vars, streamVars, rtVars>>
Ends == /\ \/ active = "scanner" /\ Done
           \/ active = "roundtrip" /\ read # <<>>
        /\ UNCHANGED MCVars
MCNext == ScannerStep \/ StreamStep \/ RoundTripStep \/ Ends
MCSpec == MCInit /\ [][MCNext]_MCVars

\* What is true of every state of the scanner and the stream.
MCTypeOK == TypeOK /\ StreamTypeOK
=============================================================================
