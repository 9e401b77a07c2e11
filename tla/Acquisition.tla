------------------------------ MODULE Acquisition ------------------------------
(****************************************************************************)
(* One call of prepare_output (sensors/libs/iio_utils.h) after another, step *)
(* by step, against the files of an Industrial IO device in sysfs and its    *)
(* character device.  Several processes may use the same device: a daemon    *)
(* and the second daemon that a failed rotation leaves behind, or a daemon   *)
(* and the script unstick.  SIGINT and SIGHUP run sigint_callback_handler    *)
(* at any step.                                                              *)
(*                                                                           *)
(* The kernel's side is external.  It refuses to change the trigger while    *)
(* the buffer is enabled, to enable the buffer without a trigger, and to     *)
(* open the character device twice.  The writes ignore what fprintf and      *)
(* fclose report, so a refused write goes unnoticed unless it is verified.   *)
(* What fprintf was given stays in the process's memory until fclose, so     *)
(* that a write takes effect in one step, at its fclose; a signal before it  *)
(* may find the stream filled, and exit() then writes what it holds.         *)
(****************************************************************************)
EXTENDS Integers, FiniteSets

CONSTANTS
    Users,        \* the processes that read this device
    Faults,       \* the faults that may happen (FaultKinds)
    MaxFaults,    \* bound: number of faults
    MaxUnsticks,  \* bound: number of times unstick is run
    Nobody        \* no process

FaultKinds == {"sysfs", "unread", "power", "memory", "open", "wake", "stop",
               "count"}

ASSUME UsersAssumption  == Nobody \notin Users
ASSUME FaultsAssumption == Faults \subseteq FaultKinds
ASSUME BoundsAssumption == MaxFaults \in Nat /\ MaxUnsticks \in Nat

VARIABLES
    pc,        \* where each process is
    ret,       \* what its last prepare_output returned
    trigger,   \* trigger/current_trigger names the data-ready trigger
    buffer,    \* buffer/enable is 1
    data,      \* the buffer holds a scan
    holder,    \* the process that has the character device open
    unstick,   \* the step the script unstick is at
    faults, unsticks,   \* counters for the bounds
    pending,   \* what a signal found in the stream of a write not yet closed
    faulted,   \* history: a fault hit this process's current call
    caught     \* history: the signal found an unwritten 1 and the buffer on

device   == <<trigger, buffer, data>>
counters == <<faults, unsticks>>
marks    == <<pending, faulted, caught>>
vars == <<pc, ret, device, holder, unstick, counters, marks>>

Setup   == {"setTrigger", "verifyTrigger", "setLength", "enable",
            "verifyEnable", "allocate", "open"}
Session == {"poll", "read", "disable", "disconnect", "close"}
Stop    == {"stopTrigger", "stopBuffer", "exit"}
Ended   == {"returned", "killed"}
Labels  == Setup \cup Session \cup Stop \cup Ended \cup {"pause"}

\* A reading; a reading of nothing (the read failed, yet process_scan ran);
\* -1 from a verified write; any other error number.
Results == {"none", "scan", "empty", "mismatch", "errno"}

\* The trigger's name, the numbers for buffer/enable, and the dummy name.
Writes == {"nothing", "name", "1", "0", "NULL"}

\* Any of the processes may not have been started.
Init ==
    /\ pc \in [Users -> {"setTrigger", "returned"}]
    /\ ret = [u \in Users |-> "none"]
    /\ trigger = FALSE
    /\ buffer = FALSE
    /\ data = FALSE
    /\ holder = Nobody
    /\ unstick = "buffer"
    /\ faults = 0 /\ unsticks = 0
    /\ pending = [u \in Users |-> "nothing"]
    /\ faulted = [u \in Users |-> FALSE] /\ caught = [u \in Users |-> FALSE]

-----------------------------------------------------------------------------
\* The kernel.

\* A write of current_trigger: refused while the buffer is on.
WriteTrigger(on) == trigger' = IF buffer THEN trigger ELSE on

\* A write of 1 to buffer/enable: refused without a trigger; starts empty.
EnableBuffer ==
    IF trigger /\ ~buffer
    THEN buffer' = TRUE /\ data' = FALSE
    ELSE UNCHANGED <<buffer, data>>

DisableBuffer == buffer' = FALSE /\ UNCHANGED data

\* The trigger fires and a scan enters the buffer.
Sample ==
    /\ trigger /\ buffer
    /\ ~data
    /\ data' = TRUE
    /\ UNCHANGED <<pc, ret, trigger, buffer, holder, unstick, counters, marks>>

-----------------------------------------------------------------------------
\* prepare_output by process u.

At(u, label)  == pc[u] = label
Goto(u, label) == pc' = [pc EXCEPT ![u] = label]

\* A step that leaves everything but pc and what it names alone.
Proceed(u, from, to) ==
    /\ At(u, from)
    /\ Goto(u, to)
    /\ UNCHANGED <<ret, holder, unstick, counters, marks>>

Return(u, r) ==
    /\ Goto(u, "pause")
    /\ ret' = [ret EXCEPT ![u] = r]

Fault(u, kind) ==
    /\ kind \in Faults
    /\ faults < MaxFaults
    /\ faults' = faults + 1
    /\ faulted' = [faulted EXCEPT ![u] = TRUE]
    /\ UNCHANGED unsticks

SetTrigger(u) ==
    /\ Proceed(u, "setTrigger", "verifyTrigger")
    /\ WriteTrigger(TRUE)
    /\ UNCHANGED <<buffer, data>>

\* Reading the file back: the name written, or return -1.
Verify(u, label, holds, next) ==
    /\ At(u, label)
    /\ IF holds THEN Goto(u, next) /\ UNCHANGED ret ELSE Return(u, "mismatch")
    /\ UNCHANGED <<device, holder, unstick, counters, marks>>

VerifyTrigger(u) == Verify(u, "verifyTrigger", trigger, "setLength")

SetLength(u) == Proceed(u, "setLength", "enable") /\ UNCHANGED device

Enable(u) ==
    /\ Proceed(u, "enable", "verifyEnable")
    /\ EnableBuffer
    /\ UNCHANGED trigger

\* The trigger's driver cannot open the sensor hub (set_state gives -EIO), so that
\* the kernel refuses the buffer; the write does not notice.
EnableRefused(u) ==
    /\ At(u, "enable")
    /\ ~buffer
    /\ Fault(u, "power")
    /\ Goto(u, "verifyEnable")
    /\ UNCHANGED <<ret, device, holder, unstick, pending, caught>>

VerifyEnable(u) == Verify(u, "verifyEnable", buffer, "allocate")

\* The file opens but cannot be read, and nobody looks at what fscanf returns:
\* the name is then compared with the path left in temp, the number is whatever
\* was on the stack.
VerifyUnread(u) ==
    /\ \/ pc[u] \in {"verifyTrigger", "verifyEnable"} /\ Return(u, "mismatch")
       \/ At(u, "verifyEnable") /\ Goto(u, "allocate") /\ UNCHANGED ret
    /\ Fault(u, "unread")
    /\ UNCHANGED <<device, holder, unstick, pending, caught>>

Allocate(u) == Proceed(u, "allocate", "open") /\ UNCHANGED device

\* The file is missing or may not be opened: -errno, whatever was set up stays.
SysfsFails(u) ==
    /\ pc[u] \in Setup \ {"allocate", "open"}
    /\ Fault(u, "sysfs")
    /\ Return(u, "errno")
    /\ UNCHANGED <<device, holder, unstick, pending, caught>>

\* malloc or asprintf fails.
NoMemory(u) ==
    /\ At(u, "allocate")
    /\ Fault(u, "memory")
    /\ Return(u, "errno")
    /\ UNCHANGED <<device, holder, unstick, pending, caught>>

\* Mutant of Open: a call that finds the device busy stops the buffer.
OpenTidily(u) ==
    /\ At(u, "open")
    /\ IF holder = Nobody
       THEN Goto(u, "poll") /\ holder' = u /\ UNCHANGED <<ret, device>>
       ELSE /\ Return(u, "errno")
            /\ DisableBuffer
            /\ UNCHANGED <<holder, trigger>>
    /\ UNCHANGED <<unstick, counters, marks>>

\* A device that is already open is busy: -EBUSY, and everything stays on.
Open(u) ==
    /\ At(u, "open")
    /\ IF holder = Nobody
       THEN Goto(u, "poll") /\ holder' = u /\ UNCHANGED ret
       ELSE Return(u, "errno") /\ UNCHANGED holder
    /\ UNCHANGED <<device, unstick, counters, marks>>

OpenFails(u) ==
    /\ At(u, "open")
    /\ Fault(u, "open")
    /\ Return(u, "errno")
    /\ UNCHANGED <<device, holder, unstick, pending, caught>>

\* poll without a timeout: it ends with data or with a signal.
Poll(u) == data /\ Proceed(u, "poll", "read") /\ UNCHANGED device

PollWoken(u) ==
    /\ At(u, "poll")
    /\ Fault(u, "wake")
    /\ Goto(u, "read")
    /\ UNCHANGED <<ret, device, holder, unstick, pending, caught>>

\* Mutant of Read: what the callback returns is dropped.
ReadDropped(u) ==
    /\ At(u, "read")
    /\ Goto(u, "disable")
    /\ data' = FALSE
    /\ UNCHANGED <<ret, trigger, buffer, holder, unstick, counters, marks>>

\* The read does not block: a scan or -1, and the callback runs on either.
Read(u) ==
    /\ At(u, "read")
    /\ Goto(u, "disable")
    /\ ret' = [ret EXCEPT ![u] = IF data THEN "scan" ELSE "empty"]
    /\ data' = FALSE
    /\ UNCHANGED <<trigger, buffer, holder, unstick, counters, marks>>

Disable(u) ==
    /\ Proceed(u, "disable", "disconnect")
    /\ DisableBuffer
    /\ UNCHANGED trigger

\* Mutant of DisableFails: return without closing the device.
DisableFailsEarly(u) ==
    /\ At(u, "disable")
    /\ Fault(u, "sysfs")
    /\ Goto(u, "pause")
    /\ UNCHANGED <<ret, device, holder, unstick, pending, caught>>

\* buffer/enable cannot be opened: the trigger is left alone too.
DisableFails(u) ==
    /\ At(u, "disable")
    /\ Fault(u, "sysfs")
    /\ Goto(u, "close")
    /\ UNCHANGED <<ret, device, holder, unstick, pending, caught>>

\* Mutant of Disconnect: the trigger stays connected.
DisconnectForgotten(u) == Proceed(u, "disconnect", "close") /\ UNCHANGED device

Disconnect(u) ==
    /\ Proceed(u, "disconnect", "close")
    /\ WriteTrigger(FALSE)
    /\ UNCHANGED <<buffer, data>>

DisconnectFails(u) ==
    /\ At(u, "disconnect")
    /\ Fault(u, "sysfs")
    /\ Goto(u, "close")
    /\ UNCHANGED <<ret, device, holder, unstick, pending, caught>>

\* Mutant of Close: the descriptor is kept.
KeepOpen(u) ==
    /\ At(u, "close")
    /\ Goto(u, "pause")
    /\ UNCHANGED <<ret, device, holder, unstick, counters, marks>>

Close(u) ==
    /\ At(u, "close")
    /\ Goto(u, "pause")
    /\ holder' = Nobody
    /\ UNCHANGED <<ret, device, unstick, counters, marks>>

\* The caller sleeps, after -1 looks the device up again, and calls anew.
Again(u) ==
    /\ At(u, "pause")
    /\ Goto(u, "setTrigger")
    /\ faulted' = [faulted EXCEPT ![u] = FALSE]
    /\ UNCHANGED <<ret, device, holder, unstick, counters, pending, caught>>

\* --count calls were made: main returns.
CountReached(u) ==
    /\ At(u, "pause")
    /\ Fault(u, "count")
    /\ Goto(u, "returned")
    /\ UNCHANGED <<ret, device, holder, unstick, pending, caught>>

-----------------------------------------------------------------------------
\* sigint_callback_handler.

\* What the stream of the write at a label holds once fprintf is done.
Unwritten(label) ==
    CASE label = "setTrigger" -> "name" [] label = "enable" -> "1"
      [] label = "disable" -> "0"       [] label = "disconnect" -> "NULL"
      [] OTHER -> "nothing"

\* The signal comes before the fprintf or between it and the fclose.
Signal(u) ==
    /\ pc[u] \notin Stop \cup Ended
    /\ Fault(u, "stop")
    /\ Goto(u, "stopTrigger")
    /\ \E held \in {"nothing", Unwritten(pc[u])} :
          pending' = [pending EXCEPT ![u] = held]
    /\ caught' = [caught EXCEPT ![u] = pending'[u] = "1" /\ buffer]
    /\ UNCHANGED <<ret, device, holder, unstick>>

StopTrigger(u) ==
    /\ Proceed(u, "stopTrigger", "stopBuffer")
    /\ WriteTrigger(FALSE)
    /\ UNCHANGED <<buffer, data>>

\* Mutant of StopBuffer: the process ends without stopping the buffer.
StopAtOnce(u) == Proceed(u, "stopBuffer", "exit") /\ UNCHANGED device

StopBuffer(u) ==
    /\ Proceed(u, "stopBuffer", "exit")
    /\ DisableBuffer
    /\ UNCHANGED trigger

Flush(write) ==
    CASE write = "name"    -> WriteTrigger(TRUE) /\ UNCHANGED <<buffer, data>>
      [] write = "NULL"    -> WriteTrigger(FALSE) /\ UNCHANGED <<buffer, data>>
      [] write = "1"       -> EnableBuffer /\ UNCHANGED trigger
      [] write = "0"       -> DisableBuffer /\ UNCHANGED trigger
      [] write = "nothing" -> UNCHANGED device

\* exit() writes what open streams hold and closes the device.
Exit(u) ==
    /\ At(u, "exit")
    /\ Goto(u, "killed")
    /\ Flush(pending[u])
    /\ holder' = IF holder = u THEN Nobody ELSE holder
    /\ pending' = [pending EXCEPT ![u] = "nothing"]
    /\ UNCHANGED <<ret, unstick, counters, faulted, caught>>

-----------------------------------------------------------------------------
\* The script sensors/unstick: first the buffer, then the trigger.

UnstickBuffer ==
    /\ unstick = "buffer"
    /\ unsticks < MaxUnsticks
    /\ unsticks' = unsticks + 1
    /\ unstick' = "trigger"
    /\ DisableBuffer
    /\ UNCHANGED <<pc, ret, trigger, holder, faults, marks>>

UnstickTrigger ==
    /\ unstick = "trigger"
    /\ unstick' = "buffer"
    /\ WriteTrigger(FALSE)
    /\ UNCHANGED <<pc, ret, buffer, data, holder, counters, marks>>

-----------------------------------------------------------------------------
\* What a process does of itself.
Step(u) ==
    \/ SetTrigger(u) \/ VerifyTrigger(u) \/ SetLength(u) \/ Enable(u)
    \/ VerifyEnable(u) \/ Allocate(u) \/ Open(u) \/ Poll(u) \/ Read(u)
    \/ Disable(u) \/ Disconnect(u) \/ Close(u) \/ Again(u)
    \/ StopTrigger(u) \/ StopBuffer(u) \/ Exit(u)

Trouble(u) ==
    \/ SysfsFails(u) \/ VerifyUnread(u) \/ EnableRefused(u) \/ NoMemory(u)
    \/ OpenFails(u) \/ PollWoken(u) \/ DisableFails(u) \/ DisconnectFails(u) \/ CountReached(u) \/ Signal(u)

Next ==
    \/ \E u \in Users : Step(u) \/ Trouble(u)
    \/ Sample
    \/ UnstickBuffer \/ UnstickTrigger

Spec == Init /\ [][Next]_vars

\* Every process is scheduled and the sensor hub goes on sampling.
FairSpec == Spec /\ WF_vars(Sample) /\ \A u \in Users : WF_vars(Step(u))

-----------------------------------------------------------------------------
\* Properties.

\* Every variable holds a value of its type, and a call that got past its read
\* has something to return.
TypeOK ==
    /\ pc \in [Users -> Labels]
    /\ ret \in [Users -> Results]
    /\ \A u \in Users :
          pc[u] \in {"disable", "disconnect", "close", "pause"} => ret[u] # "none"
    /\ trigger \in BOOLEAN /\ buffer \in BOOLEAN /\ data \in BOOLEAN
    /\ holder \in Users \cup {Nobody}
    /\ unstick \in {"buffer", "trigger"}
    /\ faults \in Nat /\ unsticks \in Nat
    /\ pending \in [Users -> Writes]
    /\ faulted \in [Users -> BOOLEAN] /\ caught \in [Users -> BOOLEAN]

\* Process u has the device for itself from the start, but for unstick.
Alone(u) == \A v \in Users \ {u} : pc[v] = "returned" /\ ret[v] = "none"

\* The process that has the device open is the one between its open and its
\* close (or stopping): no path through prepare_output loses the descriptor,
\* which would lock every later call out with EBUSY.
DescriptorTracked ==
    \A u \in Users :
        /\ pc[u] \in Session => holder = u
        /\ holder = u => pc[u] \in Session \cup Stop

\* A call that ran through without a fault leaves the device as the
\* documentation asks, trigger and buffer off, whatever state earlier calls,
\* failed ones included, had left it in (one process alone on the device).
QuietAfterCleanCall ==
    \A u \in Users :
        (Alone(u) /\ pc[u] = "pause" /\ ~faulted[u] /\ ret[u] \in {"scan", "empty"})
            => ~trigger /\ ~buffer

\* Whatever step SIGINT interrupts, once the process is gone its buffer is off
\* (one process alone on the device), but for one case: the signal fell between
\* the fprintf and the fclose of the 1, which exit() writes after the handler's
\* 0, and the buffer was on already, left by an earlier call that failed, so that
\* the kernel refused to disconnect the trigger.
StopTurnsBufferOff ==
    \A u \in Users :
        Alone(u) /\ pc[u] = "killed" /\ buffer => caught[u]

\* Scans are read for ever: a call that fails half way, leaving the device as it
\* is, never spoils more than the calls that a fault hits (one process alone).
\* But unstick may stop the buffer under its poll for good, and so may a refused
\* buffer that goes unnoticed because the file read back could not be read.
ReadsGoOn ==
    \/ \A u \in Users : ~Alone(u)
    \/ []<>(\E u \in Users : pc[u] = "disable" /\ ret[u] = "scan")
    \/ <>(unsticks > 0 \/ \A u \in Users : pc[u] \in Stop \cup Ended)
    \/ <>(\E u \in Users : pc[u] = "allocate" /\ ~buffer)

\* No poll lasts for ever, although it has no timeout and unstick or another
\* process may stop the buffer under it, as long as that other process goes on:
\* its next call finds the device busy and leaves the buffer on.
PollEnds ==
    \A u \in Users :
        pc[u] = "poll" ~> \/ pc[u] # "poll"
                         \/ \E v \in Users : pc[v] \in Stop \cup Ended

\* The documentation: the trigger and the buffer should be turned off after the
\* program is finished reading data.
DeviceOffWhenFinished ==
    (\A u \in Users : pc[u] \in Ended) => ~trigger /\ ~buffer
=============================================================================
