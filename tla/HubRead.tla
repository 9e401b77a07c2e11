------------------------------- MODULE HubRead -------------------------------
(****************************************************************************)
(* A synchronous read of one attribute through the sensor hub               *)
(* (sensors/drivers/hid-sensor-hub.c).  A reader, serialised with the other *)
(* readers by a mutex, fills the one pending-request structure, asks the    *)
(* device for a report and sleeps for at most five seconds.                 *)
(* sensor_hub_raw_event, which the HID layer calls for every report, an     *)
(* answer or a periodic sample, looks for the attribute asked for, leaves a *)
(* copy of its value in the structure and wakes the reader.                 *)
(*                                                                          *)
(* Only raw_event, and the two statements of the reader around its request, *)
(* hold the spin lock: the reader clears, fills, reads and releases the     *)
(* structure while raw_event may be anywhere in its own steps.  The lock is *)
(* held exactly while an event is in progress (event.at # "idle").          *)
(****************************************************************************)
EXTENDS Sequences, Functions

CONSTANTS
    Readers,   \* the threads that read
    Attrs,     \* attribute usage ids
    Reports,   \* input reports of the device: the attributes of their fields
    Nobody     \* no reader, no attribute

ASSUME ReadersAssumption == Nobody \notin Readers
ASSUME AttrsAssumption   == Nobody \notin Attrs
ASSUME ReportsAssumption == Reports \subseteq Seq(Attrs)

VARIABLES
    pc,        \* where each reader is
    asked,     \* the attribute its read is for
    result,    \* what its read will return: an attribute's value, zero ...
    mutex,     \* the holder of data->mutex
    pending,   \* data->pending
    event,     \* the call of sensor_hub_raw_event in progress
    removal,   \* how far sensor_hub_remove is
    seen,      \* history: the readers whose attribute came since the call
    mishaps    \* history: "overtaken", a reader cleared the structure under an
               \*   event past its test; "torn", a copy failed after one was made

vars == <<pc, asked, result, mutex, pending, event, removal, seen, mishaps>>

Labels == {"idle", "lock", "memset", "init", "fill", "request", "wait",
           "switch", "read", "free", "clear", "unlock"}
Buffer  == {"null", "live", "freed"}
Results == Attrs \cup {"zero", "oops"}

\* raw_size is modelled by whether it is 0, raw_data by the state of the memory
\* it points to and by the attribute whose value was copied there.
NoPending == [status |-> FALSE, attr |-> Nobody, sized |-> FALSE,
              data |-> "null", of |-> Nobody, ready |-> FALSE]
NoEvent   == [at |-> "idle", left |-> << >>, copied |-> FALSE]

Init ==
    /\ pc = [r \in Readers |-> "idle"]
    /\ asked = [r \in Readers |-> Nobody]
    /\ result = [r \in Readers |-> "zero"]
    /\ mutex = Nobody
    /\ pending = NoPending
    /\ event = NoEvent
    /\ removal = "present"
    /\ seen = {}
    /\ mishaps = {}

-----------------------------------------------------------------------------
\* sensor_hub_input_attr_get_raw_value, by reader r.

Step(r, from, to) == pc[r] = from /\ pc' = [pc EXCEPT ![r] = to]

\* A user reads an attribute; not once the client devices are being removed.
Call(r) ==
    /\ removal # "gone"
    /\ Step(r, "idle", "lock")
    /\ \E a \in Attrs : asked' = [asked EXCEPT ![r] = a]
    /\ UNCHANGED <<result, mutex, pending, event, removal, seen, mishaps>>

Lock(r) ==
    /\ mutex = Nobody
    /\ Step(r, "lock", "memset")
    /\ mutex' = r
    /\ UNCHANGED <<asked, result, pending, event, removal, seen, mishaps>>

PastTest == event.at \in {"copy", "size", "complete"}

Overtake == mishaps' = mishaps \cup (IF PastTest THEN {"overtaken"} ELSE {})

\* Mutant of Memset: the old buffer's address stays.
KeepBuffer(r) ==
    /\ Step(r, "memset", "init")
    /\ pending' = [NoPending EXCEPT !.data = pending.data, !.of = pending.of]
    /\ Overtake
    /\ UNCHANGED <<asked, result, mutex, event, removal, seen>>

Memset(r) ==
    /\ Step(r, "memset", "init")
    /\ pending' = NoPending
    /\ Overtake
    /\ UNCHANGED <<asked, result, mutex, event, removal, seen>>

InitCompletion(r) ==
    /\ Step(r, "init", "fill")
    /\ pending' = [pending EXCEPT !.ready = FALSE]
    /\ UNCHANGED <<asked, result, mutex, event, removal, seen, mishaps>>

Fill(r) ==
    /\ Step(r, "fill", "request")
    /\ pending' = [pending EXCEPT !.attr = asked[r], !.sized = FALSE]
    /\ UNCHANGED <<asked, result, mutex, event, removal, seen, mishaps>>

\* Mutant of Request: the spin lock is not taken.
RequestUnlocked(r) ==
    /\ Step(r, "request", "wait")
    /\ pending' = [pending EXCEPT !.status = TRUE]
    /\ UNCHANGED <<asked, result, mutex, event, removal, seen, mishaps>>

\* Under the spin lock: status is set and the request is sent.
Request(r) ==
    /\ event.at = "idle"
    /\ Step(r, "request", "wait")
    /\ pending' = [pending EXCEPT !.status = TRUE]
    /\ UNCHANGED <<asked, result, mutex, event, removal, seen, mishaps>>

\* Mutant of NoReport: return without the way out that err_free takes.
ReturnEarly(r) ==
    /\ event.at = "idle"
    /\ Step(r, "request", "idle")
    /\ pending' = [pending EXCEPT !.status = TRUE]
    /\ asked' = [asked EXCEPT ![r] = Nobody]
    /\ UNCHANGED <<result, mutex, event, removal, seen, mishaps>>

\* The device has no such report: nothing was sent, nothing is freed.
NoReport(r) ==
    /\ event.at = "idle"
    /\ Step(r, "request", "clear")
    /\ pending' = [pending EXCEPT !.status = TRUE]
    /\ UNCHANGED <<asked, result, mutex, event, removal, seen, mishaps>>

\* Woken by complete(), by the timeout or by a signal: the code does not ask.
Woken(r) ==
    /\ pending.ready
    /\ Step(r, "wait", "switch")
    /\ pending' = [pending EXCEPT !.ready = FALSE]
    /\ UNCHANGED <<asked, result, mutex, event, removal, seen, mishaps>>

GiveUp(r) ==
    /\ Step(r, "wait", "switch")
    /\ UNCHANGED <<asked, result, mutex, pending, event, removal, seen, mishaps>>

\* switch (raw_size): only a size other than 0 leads to the buffer.
Switch(r) ==
    /\ Step(r, "switch", IF pending.sized THEN "read" ELSE "free")
    /\ UNCHANGED <<asked, result, mutex, pending, event, removal, seen, mishaps>>

Read(r) ==
    /\ Step(r, "read", "free")
    /\ result' = [result EXCEPT ![r] =
                    IF pending.data = "live" THEN pending.of ELSE "oops"]
    /\ UNCHANGED <<asked, mutex, pending, event, removal, seen, mishaps>>

\* kfree(raw_data); the pointer is left as it is.
Free(r) ==
    /\ Step(r, "free", "clear")
    /\ pending' = [pending EXCEPT
                     !.data = IF @ = "null" THEN "null" ELSE "freed",
                     !.of = Nobody]
    /\ UNCHANGED <<asked, result, mutex, event, removal, seen, mishaps>>

Clear(r) ==
    /\ Step(r, "clear", "unlock")
    /\ pending' = [pending EXCEPT !.status = FALSE]
    /\ UNCHANGED <<asked, result, mutex, event, removal, seen, mishaps>>

Unlock(r) ==
    /\ Step(r, "unlock", "idle")
    /\ mutex' = Nobody
    /\ asked' = [asked EXCEPT ![r] = Nobody]
    /\ result' = [result EXCEPT ![r] = "zero"]
    /\ seen' = seen \ {r}
    /\ UNCHANGED <<pending, event, removal, mishaps>>

-----------------------------------------------------------------------------
\* sensor_hub_raw_event, with the spin lock held from its first step to its last.

reader == <<pc, asked, result, mutex>>

\* The device sends a report: it may answer a request, or be a sample.
Report ==
    /\ event.at = "idle"
    /\ removal = "present"
    /\ \E fields \in Reports :
          /\ event' = [NoEvent EXCEPT !.at = "test", !.left = fields]
          /\ seen' = seen \cup {r \in Readers : asked[r] \in Range(fields)}
    /\ UNCHANGED <<reader, pending, removal, mishaps>>

\* Mutant of Matches: the attribute is not compared.
AnyField(attr) == pending.status

Matches(attr) == pending.status /\ pending.attr = attr

\* The next field, or the end of the report and of the lock.
Test ==
    /\ event.at = "test"
    /\ event' = IF event.left = << >> THEN NoEvent
                ELSE IF Matches(Head(event.left)) THEN [event EXCEPT !.at = "copy"]
                ELSE [event EXCEPT !.left = Tail(@)]
    /\ UNCHANGED <<reader, pending, removal, seen, mishaps>>

\* kmemdup, which may find no memory.
Copy ==
    /\ event.at = "copy"
    /\ \/ /\ pending' = [pending EXCEPT !.data = "live", !.of = Head(event.left)]
          /\ event' = [event EXCEPT !.at = "size", !.copied = TRUE]
          /\ UNCHANGED mishaps
       \/ /\ pending' = [pending EXCEPT !.data = "null", !.of = Nobody]
          /\ event' = [event EXCEPT !.at = "size", !.copied = FALSE]
          /\ mishaps' = mishaps \cup (IF pending.sized THEN {"torn"} ELSE {})
    /\ UNCHANGED <<reader, removal, seen>>

\* The test of raw_data may use the result of kmemdup or read the field again.
SetSize ==
    /\ event.at = "size"
    /\ \E copied \in {event.copied, pending.data # "null"} :
          pending' = [pending EXCEPT !.sized = copied]
    /\ event' = [event EXCEPT !.at = "complete", !.copied = FALSE]
    /\ UNCHANGED <<reader, removal, seen, mishaps>>

Complete ==
    /\ event.at = "complete"
    /\ pending' = [pending EXCEPT !.ready = TRUE]
    /\ event' = [event EXCEPT !.at = "test", !.left = Tail(@)]
    /\ UNCHANGED <<reader, removal, seen, mishaps>>

-----------------------------------------------------------------------------
\* sensor_hub_remove.

\* hid_hw_stop: the call in progress ends, and no other comes.
StopHardware ==
    /\ removal = "present"
    /\ event.at = "idle"
    /\ removal' = "stopped"
    /\ UNCHANGED <<reader, pending, event, seen, mishaps>>

WakeReader ==
    /\ removal = "stopped"
    /\ removal' = "woken"
    /\ pending' = [pending EXCEPT !.ready = @ \/ pending.status]
    /\ UNCHANGED <<reader, event, seen, mishaps>>

\* Removing the client devices waits for the reads that have begun.
RemoveClients ==
    /\ removal = "woken"
    /\ \A r \in Readers : pc[r] = "idle"
    /\ removal' = "gone"
    /\ UNCHANGED <<reader, pending, event, seen, mishaps>>

-----------------------------------------------------------------------------
Proceed(r) ==
    \/ Memset(r) \/ InitCompletion(r) \/ Fill(r) \/ Woken(r) \/ GiveUp(r)
    \/ Switch(r) \/ Read(r) \/ Free(r) \/ Clear(r) \/ Unlock(r)

Send(r) == Request(r) \/ NoReport(r)

RawEvent == Test \/ Copy \/ SetSize \/ Complete

Remove == StopHardware \/ WakeReader \/ RemoveClients

Next ==
    \/ \E r \in Readers : Call(r) \/ Lock(r) \/ Send(r) \/ Proceed(r)
    \/ Report \/ RawEvent
    \/ Remove

Spec == Init /\ [][Next]_vars

\* Threads run, a sleep ends after five seconds, and neither the mutex nor the
\* spin lock, both of which queue, passes a waiter over for ever.  Nothing is
\* assumed of the device.
Fairness ==
    /\ WF_vars(RawEvent)
    /\ \A r \in Readers : WF_vars(Proceed(r)) /\ SF_vars(Lock(r)) /\ SF_vars(Send(r))

FairSpec == Spec /\ Fairness

-----------------------------------------------------------------------------
\* Properties.

\* Every variable holds a value of its type, and the mutex is held by the one
\* reader that is past its lock.
TypeOK ==
    /\ pc \in [Readers -> Labels]
    /\ asked \in [Readers -> Attrs \cup {Nobody}]
    /\ result \in [Readers -> Results]
    /\ mutex \in Readers \cup {Nobody}
    /\ \A r \in Readers : pc[r] \in {"idle", "lock"} <=> mutex # r
    /\ pending \in [status : BOOLEAN, attr : Attrs \cup {Nobody}, sized : BOOLEAN,
                    data : Buffer, of : Attrs \cup {Nobody}, ready : BOOLEAN]
    /\ event \in [at : {"idle", "test", "copy", "size", "complete"},
                  left : Seq(Attrs), copied : BOOLEAN]
    /\ removal \in {"present", "stopped", "woken", "gone"}
    /\ seen \subseteq Readers
    /\ mishaps \subseteq {"overtaken", "torn"}

\* A buffer is never freed twice and never read after it was freed, although
\* kfree leaves its address behind and raw_event may store another at any time.
FreedOnce ==
    \A r \in Readers : pc[r] \in {"switch", "read", "free"} => pending.data # "freed"

\* A read returns 0 or a value of the attribute it asked for, and never follows
\* a null pointer, whatever reports, timeouts and signals come in between, as
\* long as no reader clears the structure under an event past its test and no
\* copy fails after one was made for the same read.
AnswersMatch ==
    mishaps = {} => \A r \in Readers :
        pc[r] \in {"free", "clear", "unlock"} => result[r] \in {"zero", asked[r]}

\* To its callers the hub is an atomic read (module AtomicRead): a value comes
\* out of a report sent after the call and belongs to the attribute asked for,
\* and it is given once, whatever steps of readers and raw_event interleave.
Promise == INSTANCE AtomicRead WITH asked <- asked, seen <- seen,
                                    result <- result, excused <- mishaps # {}
ReadsAtomically == Promise!Spec

\* Every read returns, whatever the device does, and through its removal.
ReadsReturn == \A r \in Readers : pc[r] = "lock" ~> pc[r] = "idle"

\* What "spin lock to protect pending request structure" promises, without that
\* exception: no read returns the value of another attribute.
PendingProtected ==
    \A r \in Readers :
        (pc[r] \in {"free", "clear", "unlock"} /\ result[r] \in Attrs)
            => result[r] = asked[r]
=============================================================================
