---------------------------- MODULE HubRead_proofs ----------------------------
(****************************************************************************)
(* Proofs about HubRead, for any readers, attributes and reports: type      *)
(* correctness, that a buffer is freed at most once and not used after,     *)
(* that an answer is one to the question asked, and that the hub implements *)
(* the atomic read of module AtomicRead.                                    *)
(****************************************************************************)
EXTENDS HubRead, SequenceTheorems, TLAPS

-----------------------------------------------------------------------------
\* The structure is worked on by the reader that holds the mutex only.  Between
\* its memset and its request, status is off; until it frees the buffer, the
\* pointer is not one that was freed.
Working == {"init", "fill", "request", "wait", "switch", "read", "free"}

EventShape ==
    /\ PastTest => event.left # << >>
    /\ pending.data = "live" => pending.of \in Attrs

HolderInv ==
    \A r \in Readers :
        /\ pc[r] \in Working => pending.data # "freed"
        /\ pc[r] \in {"init", "fill", "request"} => ~pending.status

Inv == TypeOK /\ EventShape /\ HolderInv

\* Every step of the specification, the stuttering one included, keeps Inv.
LEMMA InitInv == Init => Inv
<1> << >> \in Seq(Attrs)  OBVIOUS
<1> QED
  BY ReadersAssumption
  DEF Init, Inv, TypeOK, EventShape, PastTest, HolderInv, NoPending, NoEvent,
      Labels, Results, Buffer, Working

LEMMA ReaderInv ==
    ASSUME Inv, NEW r \in Readers, Call(r) \/ Lock(r) \/ Send(r) \/ Proceed(r)
    PROVE  Inv'
<1> USE ReadersAssumption
        DEF Inv, TypeOK, EventShape, PastTest, HolderInv, Working, Labels,
            Results, Buffer, Step
<1>1. CASE Call(r)           BY <1>1 DEF Call
<1>2. CASE Lock(r)           BY <1>2 DEF Lock
<1>3. CASE Request(r)        BY <1>3 DEF Request
<1>4. CASE NoReport(r)       BY <1>4 DEF NoReport
<1>5. CASE Memset(r)         BY <1>5 DEF Memset, Overtake, NoPending
<1>6. CASE InitCompletion(r) BY <1>6 DEF InitCompletion
<1>7. CASE Fill(r)           BY <1>7 DEF Fill
<1>8. CASE Woken(r)          BY <1>8 DEF Woken
<1>9. CASE GiveUp(r)         BY <1>9 DEF GiveUp
<1>10. CASE Switch(r)
  <2>1. CASE pending.sized   BY <1>10, <2>1 DEF Switch
  <2>2. CASE ~pending.sized  BY <1>10, <2>2 DEF Switch
  <2> QED  BY <2>1, <2>2
<1>11. CASE Read(r)          BY <1>11 DEF Read
<1>12. CASE Free(r)          BY <1>12 DEF Free
<1>13. CASE Clear(r)         BY <1>13 DEF Clear
<1>14. CASE Unlock(r)
  <2>1. /\ asked' \in [Readers -> Attrs \cup {Nobody}]
        /\ result' \in [Readers -> Results]
        /\ seen' \subseteq Readers
    BY <1>14 DEF Unlock
  <2>2. pc' = [pc EXCEPT ![r] = "idle"] /\ mutex' = Nobody /\ mutex = r
    BY <1>14 DEF Unlock
  <2>3. \A q \in Readers : pc'[q] \in {"idle", "lock"}
    BY <2>2
  <2>4. UNCHANGED <<pending, event, removal, mishaps>>
    BY <1>14 DEF Unlock
  <2> QED  BY <2>1, <2>2, <2>3, <2>4
<1> QED
  BY <1>1, <1>2, <1>3, <1>4, <1>5, <1>6, <1>7, <1>8, <1>9, <1>10, <1>11, <1>12,
     <1>13, <1>14 DEF Send, Proceed

\* The fields of a report that are still to be looked at.
LEMMA Fields ==
    ASSUME TypeOK, event.left # << >>
    PROVE  Head(event.left) \in Attrs /\ Tail(event.left) \in Seq(Attrs)
<1>1. event.left \in Seq(Attrs)  BY DEF TypeOK
<1> QED  BY <1>1

LEMMA OtherInv ==
    ASSUME Inv, Report \/ RawEvent \/ Remove \/ UNCHANGED vars
    PROVE  Inv'
<1>0. TypeOK /\ EventShape  BY DEF Inv
<1> USE DEF Inv, TypeOK, EventShape, PastTest, HolderInv, Working, Labels,
            Results, Buffer, reader
<1>1. CASE Report  BY <1>1, ReportsAssumption DEF Report, NoEvent
<1>2. CASE Test
  <2>1. CASE event.left = << >>
    <3>1. << >> \in Seq(Attrs)  OBVIOUS
    <3> QED  BY <1>2, <2>1, <3>1 DEF Test, NoEvent
  <2>2. CASE event.left # << >> /\ Matches(Head(event.left))
    BY <1>2, <2>2 DEF Test
  <2>3. CASE event.left # << >> /\ ~Matches(Head(event.left))
    <3>1. Tail(event.left) \in Seq(Attrs)  BY <1>0, <2>3, Fields
    <3> QED  BY <1>2, <2>3, <3>1 DEF Test
  <2> QED  BY <2>1, <2>2, <2>3
<1>3. CASE Copy
  <2> DEFINE attr == Head(event.left)
  <2>1. attr \in Attrs  BY <1>0, <1>3, Fields DEF Copy
  <2> HIDE DEF attr
  <2>2. CASE /\ pending' = [pending EXCEPT !.data = "live", !.of = attr]
             /\ event' = [event EXCEPT !.at = "size", !.copied = TRUE]
             /\ UNCHANGED mishaps
    BY <1>3, <2>1, <2>2 DEF Copy
  <2>3. CASE /\ pending' = [pending EXCEPT !.data = "null", !.of = Nobody]
             /\ event' = [event EXCEPT !.at = "size", !.copied = FALSE]
             /\ mishaps' = mishaps \cup (IF pending.sized THEN {"torn"} ELSE {})
    BY <1>3, <2>3 DEF Copy
  <2> QED  BY <1>3, <2>2, <2>3 DEF Copy, attr
<1>4. CASE SetSize  BY <1>4 DEF SetSize
<1>5. CASE Complete
  <2>1. Tail(event.left) \in Seq(Attrs)  BY <1>0, <1>5, Fields DEF Complete
  <2> QED  BY <1>5, <2>1 DEF Complete
<1>6. CASE Remove  BY <1>6 DEF Remove, StopHardware, WakeReader, RemoveClients
<1>7. CASE UNCHANGED vars  BY <1>7 DEF vars
<1> QED  BY <1>1, <1>2, <1>3, <1>4, <1>5, <1>6, <1>7 DEF RawEvent

LEMMA Invariance == Spec => []Inv
<1>1. Inv /\ [Next]_vars => Inv'  BY ReaderInv, OtherInv DEF Next
<1> QED  BY InitInv, <1>1, PTL DEF Spec
\* Every variable keeps its type, and the mutex belongs to one reader.
THEOREM Typing == Spec => []TypeOK
<1>1. Inv => TypeOK  BY DEF Inv
<1> QED  BY Invariance, <1>1, PTL

\* The buffer a reader is about to read or free has not been freed before,
\* although kfree leaves its address in the structure.
THEOREM NoUseAfterFree == Spec => []FreedOnce
<1>1. Inv => FreedOnce  BY DEF Inv, HolderInv, FreedOnce, Working
<1> QED  BY Invariance, <1>1, PTL

-----------------------------------------------------------------------------
\* Without mishaps the structure, the event that is past its test and the reader
\* that holds the mutex are all about the same attribute.
Asking == {"request", "wait", "switch", "read", "free"}

ReaderClean ==
    \A r \in Readers :
        /\ pc[r] \in Asking => pending.attr = asked[r]
        /\ pc[r] \in {"init", "fill"} => pending.data = "null"
        /\ pc[r] = "read" => pending.sized
        /\ result[r] \in {"zero", asked[r]}
        /\ pc[r] \notin {"free", "clear", "unlock"} => result[r] = "zero"

EventClean ==
    PastTest =>
        /\ pending.attr = Head(event.left)
        /\ \A r \in Readers : pc[r] \notin {"init", "fill", "request"}

BufferClean ==
    /\ pending.data = "live" => pending.of = pending.attr
    /\ pending.sized => pending.data # "null"
    /\ event.at = "size" =>
          IF event.copied THEN pending.data # "null"
                          ELSE ~pending.sized /\ pending.data = "null"

Clean == mishaps = {} => ReaderClean /\ EventClean /\ BufferClean

LEMMA InitClean == Init => Clean
  BY DEF Init, Clean, ReaderClean, EventClean, BufferClean, PastTest, Asking,
         NoPending, NoEvent

LEMMA ReaderCleanStep ==
    ASSUME Inv, Clean, NEW r \in Readers, Call(r) \/ Lock(r) \/ Send(r) \/ Proceed(r)
    PROVE  Clean'
<1> USE ReadersAssumption, AttrsAssumption
        DEF Inv, TypeOK, EventShape, HolderInv, Clean, ReaderClean, EventClean,
            BufferClean, PastTest, Asking, Working, Labels, Buffer, Step
<1>1. CASE Call(r)           BY <1>1 DEF Call
<1>2. CASE Lock(r)           BY <1>2 DEF Lock
<1>3. CASE Request(r)        BY <1>3 DEF Request
<1>4. CASE NoReport(r)       BY <1>4 DEF NoReport
<1>5. CASE Memset(r)         BY <1>5 DEF Memset, Overtake, NoPending
<1>6. CASE InitCompletion(r) BY <1>6 DEF InitCompletion
<1>7. CASE Fill(r)           BY <1>7 DEF Fill
<1>8. CASE Woken(r)          BY <1>8 DEF Woken
<1>9. CASE GiveUp(r)         BY <1>9 DEF GiveUp
<1>10. CASE Switch(r)
  <2>1. CASE pending.sized   BY <1>10, <2>1 DEF Switch
  <2>2. CASE ~pending.sized  BY <1>10, <2>2 DEF Switch
  <2> QED  BY <2>1, <2>2
<1>11. CASE Read(r)          BY <1>11 DEF Read
<1>12. CASE Free(r)          BY <1>12 DEF Free
<1>13. CASE Clear(r)         BY <1>13 DEF Clear
<1>14. CASE Unlock(r)        BY <1>14 DEF Unlock
<1> QED
  BY <1>1, <1>2, <1>3, <1>4, <1>5, <1>6, <1>7, <1>8, <1>9, <1>10, <1>11, <1>12,
     <1>13, <1>14 DEF Send, Proceed

LEMMA OtherCleanStep ==
    ASSUME Inv, Clean, Report \/ RawEvent \/ Remove \/ UNCHANGED vars
    PROVE  Clean'
<1> USE DEF Inv, TypeOK, EventShape, HolderInv, Clean, ReaderClean, EventClean,
            BufferClean, PastTest, Asking, Working, Labels, Buffer, reader
<1>1. CASE Report  BY <1>1 DEF Report, NoEvent
<1>2. CASE Test
  <2>1. CASE event.left = << >>  BY <1>2, <2>1 DEF Test, NoEvent
  <2>2. CASE event.left # << >> /\ Matches(Head(event.left))
    BY <1>2, <2>2 DEF Test, Matches
  <2>3. CASE event.left # << >> /\ ~Matches(Head(event.left))
    BY <1>2, <2>3 DEF Test
  <2> QED  BY <2>1, <2>2, <2>3
<1>3. CASE Copy
  <2> DEFINE attr == Head(event.left)
  <2> HIDE DEF attr
  <2>1. mishaps = {} => attr = pending.attr
    BY <1>3 DEF Copy, attr
  <2>2. CASE /\ pending' = [pending EXCEPT !.data = "live", !.of = attr]
             /\ event' = [event EXCEPT !.at = "size", !.copied = TRUE]
             /\ UNCHANGED mishaps
    BY <1>3, <2>1, <2>2 DEF Copy
  <2>3. CASE /\ pending' = [pending EXCEPT !.data = "null", !.of = Nobody]
             /\ event' = [event EXCEPT !.at = "size", !.copied = FALSE]
             /\ mishaps' = mishaps \cup (IF pending.sized THEN {"torn"} ELSE {})
    BY <1>3, <2>3 DEF Copy
  <2> QED  BY <1>3, <2>2, <2>3 DEF Copy, attr
<1>4. CASE SetSize  BY <1>4 DEF SetSize
<1>5. CASE Complete  BY <1>5 DEF Complete
<1>6. CASE Remove  BY <1>6 DEF Remove, StopHardware, WakeReader, RemoveClients
<1>7. CASE UNCHANGED vars  BY <1>7 DEF vars
<1> QED  BY <1>1, <1>2, <1>3, <1>4, <1>5, <1>6, <1>7 DEF RawEvent

\* Inv and Clean hold in every reachable state.
LEMMA CleanInvariance == Spec => [](Inv /\ Clean)
<1>1. Inv /\ Clean /\ [Next]_vars => Clean'
  BY ReaderCleanStep, OtherCleanStep DEF Next
<1> QED  BY Invariance, InitClean, <1>1, PTL DEF Spec

\* A read returns 0 or a value of the attribute asked for, unless the structure
\* was cleared under an event past its test or a copy failed after one was made.
THEOREM AnswerIsToTheQuestion == Spec => []AnswersMatch
<1>1. Clean => AnswersMatch  BY DEF Clean, ReaderClean, AnswersMatch
<1> QED  BY CleanInvariance, <1>1, PTL

-----------------------------------------------------------------------------
\* The hub implements an atomic read.

\* A reader that has sent its request holds off, by the spin lock, reports that
\* began before: what an event may still find came after the call.
Sent == {"wait", "switch", "read", "free"}

SeenInv ==
    /\ event.at = "idle" => event.left = << >>
    /\ \A r \in Readers :
          /\ pc[r] = "idle" <=> asked[r] = Nobody
          /\ pc[r] \in Sent /\ asked[r] \in Range(event.left) => r \in seen

FreshInv ==
    mishaps = {} =>
        \A r \in Readers :
            /\ pc[r] \in {"init", "fill", "request"} => pending.data = "null"
            /\ pc[r] \in {"wait", "switch", "read"} /\ pending.data = "live"
                  => r \in seen

LEMMA InitFresh == Init => SeenInv /\ FreshInv
  BY ReadersAssumption, AttrsAssumption
  DEF Init, SeenInv, FreshInv, Sent, NoPending, NoEvent

\* The fields left after one more are among those before.
LEMMA TailFields ==
    ASSUME TypeOK, event.left # << >>
    PROVE  /\ Range(Tail(event.left)) \subseteq Range(event.left)
           /\ Head(event.left) \in Range(event.left)
<1>1. event.left \in Seq(Attrs)  BY DEF TypeOK
<1>2. Head(event.left) = event.left[1] /\ 1 \in DOMAIN event.left
  BY <1>1
<1>3. ASSUME NEW i \in DOMAIN Tail(event.left)
      PROVE  i + 1 \in DOMAIN event.left /\ Tail(event.left)[i] = event.left[i + 1]
  BY <1>1
<1> QED  BY <1>2, <1>3 DEF Range

LEMMA ReaderFresh ==
    ASSUME Inv, Clean, SeenInv, FreshInv, NEW r \in Readers,
           Call(r) \/ Lock(r) \/ Send(r) \/ Proceed(r)
    PROVE  SeenInv' /\ FreshInv'
<1> USE ReadersAssumption, AttrsAssumption
        DEF Inv, TypeOK, HolderInv, Clean, EventClean, PastTest, SeenInv,
            FreshInv, Sent, Working, Labels, Buffer, Step
<1>0. event.at = "idle" => \A a : a \notin Range(event.left)
  BY DEF Range
<1>1. CASE Call(r)           BY <1>1 DEF Call
<1>2. CASE Lock(r)           BY <1>2 DEF Lock
<1>3. CASE Request(r)        BY <1>0, <1>3 DEF Request
<1>4. CASE NoReport(r)       BY <1>4 DEF NoReport
<1>5. CASE Memset(r)         BY <1>5 DEF Memset, Overtake, NoPending
<1>6. CASE InitCompletion(r) BY <1>6 DEF InitCompletion
<1>7. CASE Fill(r)           BY <1>7 DEF Fill
<1>8. CASE Woken(r)          BY <1>8 DEF Woken
<1>9. CASE GiveUp(r)         BY <1>9 DEF GiveUp
<1>10. CASE Switch(r)
  <2>1. CASE pending.sized   BY <1>10, <2>1 DEF Switch
  <2>2. CASE ~pending.sized  BY <1>10, <2>2 DEF Switch
  <2> QED  BY <2>1, <2>2
<1>11. CASE Read(r)          BY <1>11 DEF Read
<1>12. CASE Free(r)          BY <1>12 DEF Free
<1>13. CASE Clear(r)         BY <1>13 DEF Clear
<1>14. CASE Unlock(r)        BY <1>14 DEF Unlock
<1> QED
  BY <1>1, <1>2, <1>3, <1>4, <1>5, <1>6, <1>7, <1>8, <1>9, <1>10, <1>11, <1>12,
     <1>13, <1>14 DEF Send, Proceed

LEMMA OtherFresh ==
    ASSUME Inv, Clean, SeenInv, FreshInv,
           Report \/ RawEvent \/ Remove \/ UNCHANGED vars
    PROVE  SeenInv' /\ FreshInv'
<1>0. TypeOK /\ EventShape  BY DEF Inv
<1> USE DEF Inv, TypeOK, EventShape, Clean, ReaderClean, EventClean, Asking,
            PastTest, SeenInv, FreshInv, Sent, Labels, Buffer, reader
<1>1. CASE Report  BY <1>1 DEF Report, NoEvent
<1>2. CASE Test
  <2>1. CASE event.left = << >>  BY <1>2, <2>1 DEF Test, NoEvent, Range
  <2>2. CASE event.left # << >> /\ Matches(Head(event.left))
    BY <1>2, <2>2 DEF Test
  <2>3. CASE event.left # << >> /\ ~Matches(Head(event.left))
    <3>1. Range(Tail(event.left)) \subseteq Range(event.left)
      BY <1>0, <2>3, TailFields
    <3>2. event' = [event EXCEPT !.left = Tail(@)]
      BY <1>2, <2>3 DEF Test
    <3> QED  BY <1>2, <3>1, <3>2 DEF Test
  <2> QED  BY <2>1, <2>2, <2>3
<1>3. CASE Copy
  <2>1. Head(event.left) \in Range(event.left)
    BY <1>0, <1>3, TailFields DEF Copy
  <2>2. /\ event'.at = "size" /\ event'.left = event.left
        /\ mishaps' = {} => mishaps = {}
        /\ UNCHANGED <<pc, asked, seen>>
    BY <1>3 DEF Copy
  <2>3. mishaps = {} =>
            \A r \in Readers :
                /\ pc[r] \notin {"init", "fill", "request"}
                /\ pc[r] \in {"wait", "switch", "read"} => r \in seen
    BY <1>3, <2>1 DEF Copy
  <2> QED  BY <2>2, <2>3
<1>4. CASE SetSize  BY <1>4 DEF SetSize
<1>5. CASE Complete
  <2>1. Range(Tail(event.left)) \subseteq Range(event.left)
    BY <1>0, <1>5, TailFields DEF Complete
  <2> QED  BY <1>5, <2>1 DEF Complete
<1>6. CASE Remove  BY <1>6 DEF Remove, StopHardware, WakeReader, RemoveClients
<1>7. CASE UNCHANGED vars  BY <1>7 DEF vars
<1> QED  BY <1>1, <1>2, <1>3, <1>4, <1>5, <1>6, <1>7 DEF RawEvent

LEMMA FreshInvariance == Spec => [](Inv /\ Clean /\ SeenInv /\ FreshInv)
<1>1. Inv /\ Clean /\ SeenInv /\ FreshInv /\ [Next]_vars => SeenInv' /\ FreshInv'
  BY ReaderFresh, OtherFresh DEF Next
<1> QED  BY CleanInvariance, InitFresh, <1>1, PTL DEF Spec

\* A step of a reader is one of the abstract read, or none.
LEMMA ReaderRefines ==
    ASSUME Inv, Clean, SeenInv, FreshInv, NEW r \in Readers,
           Call(r) \/ Lock(r) \/ Send(r) \/ Proceed(r)
    PROVE  Promise!Next \/ UNCHANGED Promise!vars
<1> USE DEF Inv, TypeOK, SeenInv, Step
<1>1. CASE Call(r)
  <2>1. Promise!Call(r)  BY <1>1 DEF Call, Promise!Call
  <2> QED  BY <2>1 DEF Promise!Next
<1>2. CASE Read(r)
  <2>1. UNCHANGED <<asked, seen, mishaps>>  BY <1>2 DEF Read
  <2>2. asked[r] # Nobody  BY <1>2 DEF Read
  <2>3. CASE mishaps = {}
    <3>1. pc[r] = "read" /\ pending.sized  BY <1>2, <2>3 DEF Read, Clean, ReaderClean
    <3>2. pending.data = "live"
      BY <2>3, <3>1 DEF Clean, BufferClean, HolderInv, Working, Buffer
    <3>3. result[r] = "zero" /\ pending.of = asked[r] /\ r \in seen
      BY <2>3, <3>1, <3>2 DEF Clean, BufferClean, ReaderClean, Asking, FreshInv
    <3>4. Promise!Answer(r)  BY <1>2, <2>1, <3>2, <3>3 DEF Read, Promise!Answer
    <3> QED  BY <3>4 DEF Promise!Next
  <2>4. CASE mishaps # {}
    <3>1. pending.data = "live" => pending.of \in Attrs  BY DEF EventShape
    <3>2. \E v \in Promise!Results : result' = [result EXCEPT ![r] = v]
      BY <1>2, <3>1 DEF Read, Promise!Results
    <3>3. Promise!Misanswer(r)  BY <2>1, <2>2, <2>4, <3>2 DEF Promise!Misanswer
    <3> QED  BY <3>3 DEF Promise!Next
  <2> QED  BY <2>3, <2>4
<1>3. CASE Unlock(r)
  <2>1. Promise!Return(r)  BY <1>3 DEF Unlock, Promise!Return
  <2> QED  BY <2>1 DEF Promise!Next
<1>4. CASE Memset(r)
  <2>1. UNCHANGED <<asked, seen, result>> /\ mishaps \subseteq mishaps'
    BY <1>4 DEF Memset, Overtake
  <2>2. Promise!Mishap \/ UNCHANGED Promise!vars
    BY <2>1 DEF Promise!Mishap, Promise!vars
  <2> QED  BY <2>2 DEF Promise!Next
<1>5. CASE \/ Lock(r) \/ Request(r) \/ NoReport(r) \/ InitCompletion(r) \/ Fill(r)
           \/ Woken(r) \/ GiveUp(r) \/ Switch(r) \/ Free(r) \/ Clear(r)
  BY <1>5 DEF Lock, Request, NoReport, InitCompletion, Fill, Woken, GiveUp, Switch,
              Free, Clear, Promise!vars
<1> QED  BY <1>1, <1>2, <1>3, <1>4, <1>5 DEF Send, Proceed

\* A step of the device or the hub is a report, a mishap, or none.
LEMMA OtherRefines ==
    ASSUME Inv, Report \/ RawEvent \/ Remove \/ UNCHANGED vars
    PROVE  Promise!Next \/ UNCHANGED Promise!vars
<1> USE DEF reader
<1>1. CASE Report
  <2>1. PICK fields \in Reports :
            seen' = seen \cup {r \in Readers : asked[r] \in Range(fields)}
    BY <1>1 DEF Report
  <2>2. Range(fields) \in SUBSET Attrs
    BY ReportsAssumption DEF Range
  <2>3. Promise!Report
    BY <1>1, <2>1, <2>2 DEF Report, Promise!Report
  <2> QED  BY <2>3 DEF Promise!Next
<1>2. CASE Copy
  <2>1. UNCHANGED <<asked, seen, result>> /\ mishaps \subseteq mishaps'
    BY <1>2 DEF Copy
  <2>2. Promise!Mishap \/ UNCHANGED Promise!vars
    BY <2>1 DEF Promise!Mishap, Promise!vars
  <2> QED  BY <2>2 DEF Promise!Next
<1>3. CASE Test \/ SetSize \/ Complete \/ Remove
  BY <1>3 DEF Test, SetSize, Complete, Remove, StopHardware, WakeReader,
              RemoveClients, Promise!vars
<1>4. CASE UNCHANGED vars  BY <1>4 DEF vars, Promise!vars
<1> QED  BY <1>1, <1>2, <1>3, <1>4 DEF RawEvent

\* Through the hub a caller reads atomically: what it gets belongs to its own
\* attribute and to a report that came after its call (raw_event and
\* sensor_hub_input_attr_get_raw_value), for any readers, attributes and reports.
THEOREM HubReadsAtomically == Spec => ReadsAtomically
<1>1. Init => Promise!Init
  BY DEF Init, Promise!Init
<1>2. Inv /\ Clean /\ SeenInv /\ FreshInv /\ [Next]_vars
        => [Promise!Next]_(Promise!vars)
  BY ReaderRefines, OtherRefines DEF Next
<1> QED  BY FreshInvariance, <1>1, <1>2, PTL DEF Spec, ReadsAtomically, Promise!Spec
=============================================================================
