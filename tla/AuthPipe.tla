------------------------------ MODULE AuthPipe ------------------------------
(***************************************************************************)
(* authPipe of pgwire/auth.go: the two ends of an authentication exchange. *)
(* The connection's goroutine pushes password data and waits for the       *)
(* decision; the authenticator's goroutine (handleAuthentication and its   *)
(* method) asks for data and reports the decision.  A Go channel operation *)
(* is one step, and so is a read or a write of the field writerDone, which *)
(* no lock protects.                                                       *)
(*                                                                         *)
(* The loop of the connection's goroutine is not in this repository: it is *)
(* modelled from the interface authenticatorIO.  It passes on the client's *)
(* password messages until one is refused, asks for the decision when the  *)
(* client goes on to something else, and says that no more data comes when *)
(* it ends.                                                                *)
(***************************************************************************)
EXTENDS Naturals, Sequences

CONSTANT MaxMessages  \* the password messages that the client sends at most

ASSUME AuthAssumption == MaxMessages \in Nat

VARIABLES writerDone,  \* authPipe.writerDone: the channel is open or closed, and
                       \* the field refers to it or is nil
          readerDone,  \* authPipe.readerDone: the decisions in it, one at most
          writer,      \* the connection's goroutine
          reader       \* the authenticator's goroutine

authVars == <<writerDone, readerDone, writer, reader>>

\* A decision is "ok" or "fail"; password data is acceptable or it is not.
Undecided == "undecided"
Decisions == {"ok", "fail"}

\* newAuthPipe.
AuthInit ==
  /\ writerDone = [closed |-> FALSE, isNil |-> FALSE]
  /\ readerDone = <<>>
  /\ writer = [pc |-> "serving", then |-> "ended", sent |-> 0, got |-> Undecided]
  /\ reader = [pc |-> "checking", done |-> "none", asked |-> FALSE, fed |-> FALSE,
               decision |-> Undecided]

-----------------------------------------------------------------------------
\* The connection's goroutine.  A password message of the client: it calls
\* sendPwdData, whose select offers the data and waits for a decision.
SendPwdData ==
  /\ writer.pc = "serving" /\ writer.sent < MaxMessages
  /\ writer' = [writer EXCEPT !.pc = "sending", !.sent = @ + 1]
  /\ UNCHANGED <<writerDone, readerDone, reader>>

\* sendPwdData finds the decision instead, takes it, and fails: "unexpected auth
\* data".  The connection ends.
SendPwdDataFails ==
  /\ writer.pc = "sending" /\ readerDone # <<>>
  /\ readerDone' = Tail(readerDone)
  /\ writer' = [writer EXCEPT !.pc = "closing", !.then = "ended"]
  /\ UNCHANGED <<writerDone, reader>>

\* The client drops the connection: noMorePwdData.  Or it sends something else:
\* authResult, which begins with noMorePwdData.
Finishes(then) ==
  /\ writer.pc = "serving"
  /\ writer' = [writer EXCEPT !.pc = "closing", !.then = then]
  /\ UNCHANGED <<writerDone, readerDone, reader>>
Drops == Finishes("ended")
AuthResult == Finishes("waiting")

\* noMorePwdData: nothing if the field is nil; else the channel is closed, and the
\* field is set to nil after that.  The mutant closes nothing.
LeavesOpen(d) == d
Closed(d) == [d EXCEPT !.closed = TRUE]
NoMorePwdData ==
  /\ writer.pc = "closing"
  /\ IF writerDone.isNil
     THEN /\ writer' = [writer EXCEPT !.pc = writer.then]
          /\ UNCHANGED writerDone
     ELSE /\ writer' = [writer EXCEPT !.pc = "closed"]
          /\ writerDone' = Closed(writerDone)
  /\ UNCHANGED <<readerDone, reader>>
NoMorePwdDataSetsNil ==
  /\ writer.pc = "closed"
  /\ writerDone' = [writerDone EXCEPT !.isNil = TRUE]
  /\ writer' = [writer EXCEPT !.pc = writer.then]
  /\ UNCHANGED <<readerDone, reader>>

\* The rest of authResult.  The connection calls noMorePwdData once more when it
\* ends.
AuthResultReturns ==
  /\ writer.pc = "waiting" /\ readerDone # <<>>
  /\ readerDone' = Tail(readerDone)
  /\ writer' = [writer EXCEPT !.pc = "closing", !.then = "ended", !.got = Head(readerDone)]
  /\ UNCHANGED <<writerDone, reader>>

-----------------------------------------------------------------------------
\* The authenticator's goroutine.
Decides(d) == reader' = [reader EXCEPT !.pc = "reporting", !.decision = d]

\* handleAuthentication up to the method: it may fail (no such user, no login
\* privilege, no matching rule, a method that cannot be used), and the methods
\* that need no password decide by themselves.
DecidesWithoutData ==
  /\ reader.pc = "checking"
  /\ \E d \in Decisions : Decides(d)
  /\ UNCHANGED <<writerDone, readerDone, writer>>

\* authPassword: SendAuthRequest, which may fail.
SendAuthRequest ==
  /\ reader.pc = "checking"
  /\ \/ reader' = [reader EXCEPT !.pc = "asked", !.asked = TRUE]
     \/ Decides("fail")
  /\ UNCHANGED <<writerDone, readerDone, writer>>

\* GetPwdData: the select evaluates the field, and waits on what it found in it.
GetPwdData ==
  /\ reader.pc = "asked"
  /\ reader' = [reader EXCEPT !.pc = "getting",
                              !.done = IF writerDone.isNil THEN "nil" ELSE "channel"]
  /\ UNCHANGED <<writerDone, readerDone, writer>>

\* The data goes from a blocked sendPwdData to a blocked GetPwdData; authPassword
\* checks it, and the hook decides.
PwdDataPasses ==
  /\ writer.pc = "sending" /\ reader.pc = "getting"
  /\ writer' = [writer EXCEPT !.pc = "serving"]
  /\ \E d \in Decisions :
       reader' = [reader EXCEPT !.pc = "reporting", !.fed = TRUE, !.decision = d]
  /\ UNCHANGED <<writerDone, readerDone>>

\* GetPwdData fails on the closed channel, and so does authPassword.  A receive
\* from a nil channel is never ready.  The mutant takes the error for data.
GoesOn == "ok"
OnNoData == "fail"
GetPwdDataFails ==
  /\ reader.pc = "getting" /\ reader.done = "channel" /\ writerDone.closed
  /\ Decides(OnNoData)
  /\ UNCHANGED <<writerDone, readerDone, writer>>

\* AuthOK or AuthFail: a send to readerDone, which has room for one.
Reported == Append(readerDone, reader.decision)
Report ==
  /\ reader.pc = "reporting" /\ Len(readerDone) < 1
  /\ readerDone' = Reported
  /\ reader' = [reader EXCEPT !.pc = "ended"]
  /\ UNCHANGED <<writerDone, writer>>

-----------------------------------------------------------------------------
WriterStep == \/ SendPwdDataFails \/ NoMorePwdData \/ NoMorePwdDataSetsNil
              \/ AuthResultReturns
ReaderStep == \/ DecidesWithoutData \/ SendAuthRequest \/ GetPwdData
              \/ PwdDataPasses \/ GetPwdDataFails \/ Report
ClientStep == SendPwdData \/ Drops \/ AuthResult

\* The authenticator waits on a nil channel, and the connection sends no data.
Stranded == reader.pc = "getting" /\ reader.done = "nil"

\* Both goroutines have ended, or the authenticator is stranded.
AuthRests ==
  /\ \/ writer.pc = "ended" /\ reader.pc = "ended"
     \/ writer.pc \in {"ended", "waiting"} /\ Stranded
  /\ UNCHANGED authVars

AuthNext == WriterStep \/ ReaderStep \/ ClientStep \/ AuthRests
AuthSpec == AuthInit /\ [][AuthNext]_authVars

\* A goroutine that can run does; the client has to do nothing.
FairAuthSpec == AuthSpec /\ WF_authVars(WriterStep) /\ WF_authVars(ReaderStep)

-----------------------------------------------------------------------------
AuthTypeOK ==
  /\ writerDone \in [closed : BOOLEAN, isNil : BOOLEAN]
  /\ readerDone \in {<<>>} \cup {<<d>> : d \in Decisions}
  /\ writer.pc \in {"serving", "sending", "closing", "closed", "waiting", "ended"}
  /\ writer.sent \in 0..MaxMessages /\ writer.got \in Decisions \cup {Undecided}
  /\ reader.pc \in {"checking", "asked", "getting", "reporting", "ended"}
  /\ reader.done \in {"none", "channel", "nil"}

\* A client that authResult accepts after its authenticator asked for a password
\* has sent one that reached the authenticator: closing the pipe, at any moment,
\* is not an answer.  The decision is the authenticator's own.
AcceptedOnlyWithData ==
  writer.got # Undecided =>
    /\ writer.got = reader.decision
    /\ writer.got = "ok" /\ reader.asked => reader.fed

\* A sendPwdData that is blocked returns: the authenticator takes the data, or
\* decides, and then it fails.  A connection that says it sends no more data comes to
\* its end, with the decision if it asked for it, unless the authenticator called
\* GetPwdData after noMorePwdData had set the field to nil.
ConnectionEnds ==
  /\ writer.pc = "sending" ~> writer.pc # "sending"
  /\ writer.pc \in {"closing", "closed", "waiting"} ~> writer.pc = "ended" \/ Stranded

\* "An error is returned if the client connection dropped or if the client didn't
\* respect the protocol" (AuthConn.GetPwdData): once noMorePwdData has closed the
\* channel, a GetPwdData returns.
GetPwdDataReturns == reader.pc = "getting" /\ writerDone.closed ~> reader.pc # "getting"
=============================================================================
