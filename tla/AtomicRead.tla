----------------------------- MODULE AtomicRead -----------------------------
(****************************************************************************)
(* What a synchronous read through the sensor hub promises its caller, with *)
(* no mutex, lock or shared structure: it returns a value of the attribute  *)
(* it was called for out of a report that came after the call, or zero, and *)
(* once it has a value it keeps it.  The exception are reads after a mishap *)
(* in the hub, which may return anything.                                   *)
(****************************************************************************)
CONSTANTS
    Readers,   \* the threads that read
    Attrs,     \* attribute usage ids
    Nobody     \* no attribute

VARIABLES
    asked,     \* the attribute each reader's call is for
    seen,      \* the readers whose attribute came in a report since the call
    result,    \* what it will return
    excused    \* a mishap has happened

vars == <<asked, seen, result, excused>>

Results == Attrs \cup {"zero", "oops"}

Init ==
    /\ asked = [r \in Readers |-> Nobody]
    /\ seen = {}
    /\ result = [r \in Readers |-> "zero"]
    /\ excused = FALSE

Call(r) ==
    /\ asked[r] = Nobody
    /\ \E a \in Attrs : asked' = [asked EXCEPT ![r] = a]
    /\ UNCHANGED <<seen, result, excused>>

\* A report comes, with the attributes of its fields.
Report ==
    /\ \E fields \in SUBSET Attrs :
          seen' = seen \cup {r \in Readers : asked[r] \in fields}
    /\ UNCHANGED <<asked, result, excused>>

\* A value of the call's own attribute, and a new one.
Answer(r) ==
    /\ result[r] = "zero"
    /\ r \in seen
    /\ result' = [result EXCEPT ![r] = asked[r]]
    /\ UNCHANGED <<asked, seen, excused>>

Return(r) ==
    /\ asked[r] # Nobody
    /\ asked' = [asked EXCEPT ![r] = Nobody]
    /\ seen' = seen \ {r}
    /\ result' = [result EXCEPT ![r] = "zero"]
    /\ UNCHANGED excused

Mishap == excused' = TRUE /\ UNCHANGED <<asked, seen, result>>

Misanswer(r) ==
    /\ excused
    /\ asked[r] # Nobody
    /\ \E v \in Results : result' = [result EXCEPT ![r] = v]
    /\ UNCHANGED <<asked, seen, excused>>

Next ==
    \/ \E r \in Readers : Call(r) \/ Answer(r) \/ Return(r) \/ Misanswer(r)
    \/ Report
    \/ Mishap

Spec == Init /\ [][Next]_vars
=============================================================================
