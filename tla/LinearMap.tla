------------------------------ MODULE LinearMap ------------------------------
(***************************************************************************)
(* What IntMap of utils/syncutil promises: a map that goroutines may use   *)
(* concurrently as if each call happened at one instant between its start  *)
(* and its return.  A call that changes nothing may report what was in the *)
(* map at any such instant.  Range promises this for each key by itself.   *)
(***************************************************************************)
EXTENDS FiniteSets

CONSTANTS Goroutine, Key, Value, Absent

VARIABLES map,  \* what each key is mapped to
          call  \* the call each goroutine is in

mapVars == <<map, call>>

\* An operation with its key and its value; Absent stands for those it lacks.
Requests == {"Load", "Delete"} \X Key \X {Absent}
            \cup {"Store", "LoadOrStore"} \X Key \X Value
            \cup {<<"Range", Absent, Absent>>}
KeysOf(op, k) == CASE op = "Range" -> Key [] op = "Store" -> {} [] OTHER -> {k}
NoCall == [pc |-> "idle"]

Init == map = [k \in Key |-> Absent] /\ call = [g \in Goroutine |-> NoCall]

\* seen is what the keys of a call have been mapped to since it started.
Invoke(g, op, k, v) ==
  /\ call[g].pc = "idle"
  /\ call' = [call EXCEPT ![g] = [pc |-> "pending", op |-> op, key |-> k, val |-> v,
                                  seen |-> [j \in KeysOf(op, k) |-> {map[j]}]]]
  /\ UNCHANGED map

\* A call says what it did, and what it found under which keys.
Result(how, what) == [how |-> how, what |-> what]
Just(k, v) == [j \in {k} |-> v]
Nothing == [j \in {} |-> Absent]
Returning(res) == [pc |-> "returning", res |-> res]

\* The instant of a call that changes the map, which all pending calls see.
Change(g, k, v, res) ==
  /\ map' = [map EXCEPT ![k] = v]
  /\ call' = [h \in Goroutine |->
                IF h = g THEN Returning(res)
                ELSE IF call[h].pc = "pending" /\ k \in DOMAIN call[h].seen
                     THEN [call[h] EXCEPT !.seen[k] = @ \cup {v}] ELSE call[h]]
Effect(g) ==
  /\ call[g].pc = "pending"
  /\ \/ call[g].op = "Store" /\ Change(g, call[g].key, call[g].val, Result("stored", Nothing))
     \/ call[g].op = "Delete" /\ Change(g, call[g].key, Absent, Result("deleted", Nothing))
     \/ /\ call[g].op = "LoadOrStore" /\ map[call[g].key] = Absent
        /\ Change(g, call[g].key, call[g].val, Result("stored", Just(call[g].key, call[g].val)))

\* The return of a call that changes nothing.
Answers(c) ==
  CASE c.op = "Load" -> {Result("loaded", Just(c.key, v)) : v \in c.seen[c.key]}
    [] c.op = "Store" -> {}
    [] c.op = "Delete" -> {Result("deleted", Nothing) : v \in c.seen[c.key] \cap {Absent}}
    [] c.op = "LoadOrStore" -> {Result("loaded", Just(c.key, v)) : v \in c.seen[c.key] \ {Absent}}
    [] c.op = "Range" -> {Result("ranged", f) : f \in {f \in [Key -> Value \cup {Absent}] :
                                                         \A k \in Key : f[k] \in c.seen[k]}}
Answer(g) ==
  /\ call[g].pc = "pending"
  /\ \E res \in Answers(call[g]) : call' = [call EXCEPT ![g] = Returning(res)]
  /\ UNCHANGED map

Return(g) ==
  /\ call[g].pc = "returning"
  /\ call' = [call EXCEPT ![g] = NoCall]
  /\ UNCHANGED map

\* Every step is one of some goroutine's call.
Next == \E g \in Goroutine :
          /\ call'[g] # call[g]
          /\ \/ \E r \in Requests : Invoke(g, r[1], r[2], r[3])
             \/ Effect(g) \/ Answer(g) \/ Return(g)
Spec == Init /\ [][Next]_mapVars
=============================================================================
