-------------------------------- MODULE KVMap --------------------------------
(***************************************************************************)
(* What a hashtable promises: a map whose changes are atomic, and lookups  *)
(* that take time.  A lookup answers with something that the map had for   *)
(* the key at a moment between its call and its return.                    *)
(***************************************************************************)
CONSTANTS Keys, Vals, NoVal, Threads

VARIABLES map,    \* what each key has
          seen,   \* for each lookup: what its key has had since the call
          ans,    \* for each thread: the answer that it has got
          failed  \* an operation has ended in a panic, which none does

mvars == <<map, seen, ans, failed>>

None == [key |-> NoVal, vals |-> {}]

MInit ==
    /\ map = [k \in Keys |-> NoVal]
    /\ seen = [t \in Threads |-> None] /\ ans = [t \in Threads |-> NoVal]
    /\ failed = FALSE

\* The map changes; the lookups of the key may answer with either.
Change(k, v) ==
    /\ map' = [map EXCEPT ![k] = v]
    /\ seen' = [t \in Threads |-> IF seen[t].key = k THEN [seen[t] EXCEPT !.vals = @ \cup {v}]
                                  ELSE seen[t]]
    /\ UNCHANGED <<ans, failed>>

MSet(k, v) == map[k] = NoVal /\ Change(k, v)
MDel(k)    == map[k] # NoVal /\ Change(k, NoVal)

MCall(t, k) ==
    /\ seen[t] = None
    /\ seen' = [seen EXCEPT ![t] = [key |-> k, vals |-> {map[k]}]]
    /\ UNCHANGED <<map, ans, failed>>

MReturn(t) ==
    /\ seen[t] # None
    /\ \E v \in seen[t].vals : ans' = [ans EXCEPT ![t] = v]
    /\ seen' = [seen EXCEPT ![t] = None]
    /\ UNCHANGED <<map, failed>>

MForget(t) == ans' = [ans EXCEPT ![t] = NoVal] /\ UNCHANGED <<map, seen, failed>>

MNext ==
    \/ \E k \in Keys : (\E v \in Vals : MSet(k, v)) \/ MDel(k)
    \/ \E t \in Threads : (\E k \in Keys : MCall(t, k)) \/ MReturn(t) \/ MForget(t)

MSpec == MInit /\ [][MNext]_mvars

==============================================================================
