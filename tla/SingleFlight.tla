---------------------------- MODULE SingleFlight ----------------------------
(***************************************************************************)
(* Group of utils/syncutil/singleflight: callers of Do and DoChan with the *)
(* same key share one execution of a function.  A section under g.mu is    *)
(* one step; what a call does between sections interleaves with the        *)
(* others.  The function returns, with a value that is that of its call.   *)
(***************************************************************************)
EXTENDS Integers, Sequences, FiniteSets

CONSTANTS Proc,       \* the callers, each of which calls Do or DoChan once
          Key,        \* the keys
          MaxForgets  \* the number of calls of Forget

ASSUME SingleFlightAssumption == MaxForgets \in Nat /\ IsFiniteSet(Proc)

VARIABLES m,        \* Group.m: the call of each key, or NoCall
          calls,    \* every call struct made, in order
          pc,       \* what each caller is doing
          joined,   \* the call each caller leads or has joined
          result,   \* what each caller got: the call its value is of, and shared
          forgets   \* how often Forget was called

vars == <<m, calls, pc, joined, result, forgets>>

NoCall == 0
NoResult == [val |-> NoCall, shared |-> FALSE]

\* A call is "running" until fn returns, "done" after wg.Done, and "finished"
\* after the section that deletes the key.  forgotten is not in the code: Forget
\* was called for the key while the call was in m.
NewCall(key, chans) ==
  [key |-> key, phase |-> "running", dups |-> 0, chans |-> chans, forgotten |-> FALSE]

Init == /\ m = [k \in Key |-> NoCall]
        /\ calls = <<>>
        /\ pc = [p \in Proc |-> "idle"]
        /\ joined = [p \in Proc |-> NoCall]
        /\ result = [p \in Proc |-> NoResult]
        /\ forgets = 0

\* A caller that finds no call for its key makes one: Do runs fn itself, DoChan
\* starts a goroutine and waits for the channel.  The mutant does not put it in
\* the map.
NotStored(k, c) == m
Stored(k, c) == [m EXCEPT ![k] = c]
Lead(p, k, next, chans) ==
  /\ pc[p] = "idle" /\ m[k] = NoCall
  /\ calls' = Append(calls, NewCall(k, chans))
  /\ m' = Stored(k, Len(calls'))
  /\ joined' = [joined EXCEPT ![p] = Len(calls')]
  /\ pc' = [pc EXCEPT ![p] = next]
  /\ UNCHANGED <<result, forgets>>
DoLead(p, k) == Lead(p, k, "lead", {})
DoChanLead(p, k) == Lead(p, k, "chan", {p})

\* A caller that finds one is counted in dups.  The mutant forgets to.
NotCounted(call) == call.dups
Counted(call) == call.dups + 1
Join(p, k, next, chans) ==
  /\ pc[p] = "idle" /\ m[k] # NoCall
  /\ calls' = [calls EXCEPT ![m[k]].dups = Counted(calls[m[k]]), ![m[k]].chans = @ \cup chans]
  /\ joined' = [joined EXCEPT ![p] = m[k]]
  /\ pc' = [pc EXCEPT ![p] = next]
  /\ UNCHANGED <<m, result, forgets>>
DoJoin(p, k) == Join(p, k, "wait", {})
DoChanJoin(p, k) == Join(p, k, "chan", {p})

\* doCall: fn returns, the value is stored, and wg.Done.
FnReturns(c) ==
  /\ calls[c].phase = "running"
  /\ calls' = [calls EXCEPT ![c].phase = "done"]
  /\ UNCHANGED <<m, pc, joined, result, forgets>>

Shared(call) == call.dups > 0

\* The last section of doCall: the key is deleted, whatever call it has now, and
\* the channels, which have room for one result, get theirs.  One mutant leaves
\* the key in the map, another sends to no channel.
KeepKey(c) == m
DeleteKey(c) == [m EXCEPT ![calls[c].key] = NoCall]
NoReceivers(c) == {}
Receivers(c) == calls[c].chans
Finish(c) ==
  /\ calls[c].phase = "done"
  /\ m' = DeleteKey(c)
  /\ calls' = [calls EXCEPT ![c].phase = "finished"]
  /\ result' = [p \in Proc |-> IF p \in Receivers(c)
                               THEN [val |-> c, shared |-> Shared(calls[c])] ELSE result[p]]
  /\ pc' = [p \in Proc |-> IF p \in Receivers(c) THEN "returned" ELSE pc[p]]
  /\ UNCHANGED <<joined, forgets>>

Return(p, shared) ==
  /\ result' = [result EXCEPT ![p] = [val |-> joined[p], shared |-> shared]]
  /\ pc' = [pc EXCEPT ![p] = "returned"]
  /\ UNCHANGED <<m, calls, joined, forgets>>

\* Do of the caller that ran fn, after doCall; it reads dups without the mutex.
DoLeadReturns(p) ==
  /\ pc[p] = "lead" /\ calls[joined[p]].phase = "finished"
  /\ Return(p, Shared(calls[joined[p]]))

\* Do of a duplicate: wg.Wait.
DoJoinReturns(p) ==
  /\ pc[p] = "wait" /\ calls[joined[p]].phase # "running"
  /\ Return(p, TRUE)

\* Forget
Forgotten(k) == [m EXCEPT ![k] = NoCall]
Forget(k) ==
  /\ forgets < MaxForgets
  /\ m' = Forgotten(k)
  /\ calls' = [c \in DOMAIN calls |-> [calls[c] EXCEPT !.forgotten = @ \/ c = m[k]]]
  /\ forgets' = forgets + 1
  /\ UNCHANGED <<pc, joined, result>>

Stop == (\A p \in Proc : pc[p] = "returned") /\ UNCHANGED vars

ProcStep(p) == DoLeadReturns(p) \/ DoJoinReturns(p)
CallStep(c) == c \in DOMAIN calls /\ (FnReturns(c) \/ Finish(c))
Starts == \E p \in Proc, k \in Key : \/ DoLead(p, k) \/ DoJoin(p, k)
                                     \/ DoChanLead(p, k) \/ DoChanJoin(p, k)

Next == \/ Starts
        \/ \E p \in Proc : ProcStep(p)
        \/ \E c \in DOMAIN calls : CallStep(c)
        \/ \E k \in Key : Forget(k)
        \/ Stop
Spec == Init /\ [][Next]_vars

\* Goroutines that can run do run, and fn returns; nobody has to call.
CallIds == 1..Cardinality(Proc)
FairSpec == Spec /\ (\A p \in Proc : WF_vars(ProcStep(p)))
                 /\ (\A c \in CallIds : WF_vars(CallStep(c)))

-----------------------------------------------------------------------------
TypeOK ==
  /\ m \in [Key -> 0..Len(calls)]
  /\ \A c \in DOMAIN calls : /\ calls[c].key \in Key
                             /\ calls[c].phase \in {"running", "done", "finished"}
                             /\ calls[c].dups \in 0..Cardinality(Proc)
                             /\ calls[c].chans \subseteq Proc
  /\ pc \in [Proc -> {"idle", "lead", "wait", "chan", "returned"}]
  /\ joined \in [Proc -> 0..Len(calls)]
  /\ \A k \in Key : m[k] # NoCall => calls[m[k]].key = k /\ calls[m[k]].phase # "finished"

Callers(c) == {p \in Proc : joined[p] = c}

\* "The return value shared indicates whether v was given to multiple callers"
\* (Do): the leader and the channels never say less or more than that, though
\* callers still join between wg.Done and the deletion of the key.
SharedExact ==
  \A p \in Proc : pc[p] = "returned" =>
    /\ result[p].val = joined[p]
    /\ result[p].shared <=> Cardinality(Callers(joined[p])) > 1

\* "making sure that only one execution is in-flight for a given key at a time"
\* (Do), not counting the executions that Forget was called for.
OneInFlight ==
  \A c, d \in DOMAIN calls :
    /\ calls[c].key = calls[d].key /\ calls[c].phase = "running" /\ calls[d].phase = "running"
    /\ ~calls[c].forgotten /\ ~calls[d].forgotten
    => c = d

\* As long as no call of a key was forgotten, it has one execution in flight at
\* most: the lock, the lookup and the deletion at the end keep Do's promise.
OneInFlightUntilForget ==
  \A c, d \in DOMAIN calls :
    /\ calls[c].key = calls[d].key /\ calls[c].phase = "running" /\ calls[d].phase = "running"
    /\ \A e \in DOMAIN calls : calls[e].key = calls[c].key => ~calls[e].forgotten
    => c = d

\* Every caller gets a result, also when its call was forgotten, or its key was
\* deleted from the map by another call.
EveryoneReturns == \A p \in Proc : pc[p] # "idle" ~> pc[p] = "returned"
=============================================================================
