-------------------------- MODULE Acquisition_proofs --------------------------
(****************************************************************************)
(* Theorems about the acquisition of samples, for any faults and any number *)
(* of runs of unstick and any set of processes.                             *)
(****************************************************************************)
EXTENDS Acquisition, TLAPS

\* What makes a process's own step, or a fault that hits it: prepare_output's
\* and the handler's code only.
Acts(u) == Step(u) \/ Trouble(u)

\* A process moves only its own program counter, result and marks.
LEMMA OthersKept ==
  ASSUME TypeOK, NEW u \in Users, Acts(u), NEW v \in Users, v # u
  PROVE  /\ pc'[v] = pc[v] /\ ret'[v] = ret[v] /\ faulted'[v] = faulted[v]
         /\ pending'[v] = pending[v] /\ caught'[v] = caught[v]
<1> USE DEF TypeOK, Goto, Return, counters, device, marks
<1>1. CASE Step(u)
  BY <1>1 DEF Step, SetTrigger, VerifyTrigger, SetLength, Enable, VerifyEnable,
     Allocate, Open, Poll, Read, Disable, Disconnect, Close, Again, StopTrigger,
     StopBuffer, Exit, Proceed, Verify
<1>2. CASE Trouble(u)
  BY <1>2 DEF Trouble, SysfsFails, NoMemory, OpenFails, PollWoken, DisableFails,
     DisconnectFails, EnableRefused, CountReached, Signal, VerifyUnread, Fault
<1>3. QED BY <1>1, <1>2 DEF Acts

\* Every reachable state is well typed, and a call past its read has a result.
THEOREM Typing == Spec => []TypeOK
<1>1. Init => TypeOK
  <2> SUFFICES ASSUME Init PROVE TypeOK
    OBVIOUS
  <2>1. pc \in [Users -> Labels] /\ ret \in [Users -> Results]
    BY DEF Init, Labels, Setup, Ended, Results
  <2>2. /\ faulted \in [Users -> BOOLEAN] /\ caught \in [Users -> BOOLEAN]
        /\ pending \in [Users -> Writes]
    BY DEF Init, Writes
  <2>3. trigger \in BOOLEAN /\ buffer \in BOOLEAN /\ data \in BOOLEAN
    BY DEF Init
  <2>4. holder \in Users \cup {Nobody} /\ unstick \in {"buffer", "trigger"}
    BY DEF Init
  <2>5. faults \in Nat /\ unsticks \in Nat
    BY DEF Init
  <2>6. \A u \in Users :
          pc[u] \notin {"disable", "disconnect", "close", "pause"}
    BY DEF Init
  <2>7. QED BY <2>1, <2>2, <2>3, <2>4, <2>5, <2>6 DEF TypeOK
<1>2. TypeOK /\ [Next]_vars => TypeOK'
  <2> SUFFICES ASSUME TypeOK, [Next]_vars PROVE TypeOK'
    OBVIOUS
  <2> USE DEF device, counters, marks
  <2>1. ASSUME NEW u \in Users, Acts(u) PROVE TypeOK'
    <3> DEFINE Past(l) == l \in {"disable", "disconnect", "close", "pause"}
    <3>1. pc' \in [Users -> Labels] /\ ret' \in [Users -> Results]
      <4>1. CASE Step(u)
        BY <4>1 DEF Step, SetTrigger, VerifyTrigger, SetLength, Enable,
           VerifyEnable, Allocate, Open, Poll, Read, Disable, Disconnect, Close,
           Again, StopTrigger, StopBuffer, Exit, Proceed, Verify, Goto, Return, TypeOK,
           Labels, Setup, Session, Stop, Ended, Results
      <4>2. CASE Trouble(u)
        BY <4>2 DEF Trouble, SysfsFails, NoMemory, OpenFails, PollWoken,
           DisableFails, DisconnectFails, EnableRefused, CountReached, Signal, VerifyUnread, Fault, Goto,
           Return, TypeOK, Labels, Setup, Session, Stop, Ended, Results
      <4>3. QED BY <2>1, <4>1, <4>2 DEF Acts
    <3>2. Past(pc'[u]) => ret'[u] # "none"
      <4>1. CASE Step(u)
        BY <4>1 DEF Step, At, SetTrigger, VerifyTrigger, SetLength, Enable,
           VerifyEnable, Allocate, Open, Poll, Read, Disable, Disconnect, Close,
           Again, StopTrigger, StopBuffer, Exit, Proceed, Verify, Goto, Return, TypeOK
      <4>2. CASE Trouble(u)
        BY <4>2 DEF Trouble, At, SysfsFails, NoMemory, OpenFails, PollWoken,
           DisableFails, DisconnectFails, EnableRefused, CountReached, Signal, VerifyUnread, Fault, Goto,
           Return, TypeOK
      <4>3. QED BY <2>1, <4>1, <4>2 DEF Acts
    <3>3. \A v \in Users : Past(pc'[v]) => ret'[v] # "none"
      BY <2>1, <3>2, OthersKept DEF TypeOK
    <3>4. /\ faulted' \in [Users -> BOOLEAN] /\ caught' \in [Users -> BOOLEAN]
          /\ pending' \in [Users -> Writes]
      <4>1. CASE Step(u)
        BY <4>1 DEF Step, SetTrigger, VerifyTrigger, SetLength, Enable,
           VerifyEnable, Allocate, Open, Poll, Read, Disable, Disconnect, Close,
           Again, StopTrigger, StopBuffer, Exit, Proceed, Verify, TypeOK,
           Writes
      <4>2. CASE Trouble(u)
        BY <4>2 DEF Trouble, SysfsFails, NoMemory, OpenFails, PollWoken,
           DisableFails, DisconnectFails, EnableRefused, CountReached, Signal, VerifyUnread, Fault, TypeOK,
           Unwritten, Writes
      <4>3. QED BY <2>1, <4>1, <4>2 DEF Acts
    <3>5. trigger' \in BOOLEAN /\ buffer' \in BOOLEAN /\ data' \in BOOLEAN
      <4>1. CASE Step(u)
        BY <4>1 DEF Step, SetTrigger, VerifyTrigger, SetLength, Enable,
           VerifyEnable, Allocate, Open, Poll, Read, Disable, Disconnect, Close,
           Again, StopTrigger, StopBuffer, Exit, Proceed, Verify, TypeOK, WriteTrigger,
           EnableBuffer, DisableBuffer, Flush, Writes
      <4>2. CASE Trouble(u)
        BY <4>2 DEF Trouble, SysfsFails, NoMemory, OpenFails, PollWoken,
           DisableFails, DisconnectFails, EnableRefused, CountReached, Signal, VerifyUnread, TypeOK
      <4>3. QED BY <2>1, <4>1, <4>2 DEF Acts
    <3>6. holder' \in Users \cup {Nobody} /\ unstick' \in {"buffer", "trigger"}
      <4>1. CASE Step(u)
        BY <4>1 DEF Step, SetTrigger, VerifyTrigger, SetLength, Enable,
           VerifyEnable, Allocate, Open, Poll, Read, Disable, Disconnect, Close,
           Again, StopTrigger, StopBuffer, Exit, Proceed, Verify, TypeOK
      <4>2. CASE Trouble(u)
        BY <4>2 DEF Trouble, SysfsFails, NoMemory, OpenFails, PollWoken,
           DisableFails, DisconnectFails, EnableRefused, CountReached, Signal, VerifyUnread, TypeOK
      <4>3. QED BY <2>1, <4>1, <4>2 DEF Acts
    <3>7. faults' \in Nat /\ unsticks' \in Nat
      <4>1. CASE Step(u)
        BY <4>1 DEF Step, SetTrigger, VerifyTrigger, SetLength, Enable,
           VerifyEnable, Allocate, Open, Poll, Read, Disable, Disconnect, Close,
           Again, StopTrigger, StopBuffer, Exit, Proceed, Verify, TypeOK
      <4>2. CASE Trouble(u)
        BY <4>2 DEF Trouble, SysfsFails, NoMemory, OpenFails, PollWoken,
           DisableFails, DisconnectFails, EnableRefused, CountReached, Signal, VerifyUnread, Fault, TypeOK
      <4>3. QED BY <2>1, <4>1, <4>2 DEF Acts
    <3>8. QED BY <3>1, <3>3, <3>4, <3>5, <3>6, <3>7 DEF TypeOK
  <2>2. CASE Sample
    BY <2>2 DEF Sample, TypeOK
  <2>3. CASE UnstickBuffer
    <3>1. unsticks' \in Nat /\ unstick' \in {"buffer", "trigger"}
      BY <2>3 DEF UnstickBuffer, TypeOK
    <3>2. buffer' \in BOOLEAN /\ data' \in BOOLEAN
      BY <2>3 DEF UnstickBuffer, DisableBuffer, TypeOK
    <3>3. QED BY <2>3, <3>1, <3>2 DEF UnstickBuffer, TypeOK
  <2>4. CASE UnstickTrigger
    BY <2>4 DEF UnstickTrigger, WriteTrigger, TypeOK
  <2>5. CASE UNCHANGED vars
    BY <2>5 DEF vars, TypeOK
  <2>6. QED BY <2>1, <2>2, <2>3, <2>4, <2>5 DEF Next, Acts
<1>3. QED BY <1>1, <1>2, PTL DEF Spec

-----------------------------------------------------------------------------
\* The character device is never lost (prepare_output, lines 703 to 732): the
\* one process that holds it is between its open and its close.
THEOREM DescriptorSafe == Spec => []DescriptorTracked
<1>1. Init => DescriptorTracked
  BY UsersAssumption DEF Init, DescriptorTracked, Session
<1>2. TypeOK /\ DescriptorTracked /\ [Next]_vars => DescriptorTracked'
  <2> SUFFICES ASSUME TypeOK, DescriptorTracked, [Next]_vars
               PROVE  DescriptorTracked'
    OBVIOUS
  <2> USE DEF device, counters, marks
  <2>1. ASSUME NEW u \in Users, Acts(u) PROVE DescriptorTracked'
    <3>1. /\ pc'[u] \in Session => holder' = u
          /\ holder' = u => pc'[u] \in Session \cup Stop
      <4>1. CASE Step(u)
        BY <4>1, UsersAssumption DEF Step, At, SetTrigger, VerifyTrigger,
           SetLength, Enable, VerifyEnable, Allocate, Open, Poll, Read, Disable,
           Disconnect, Close, Again, StopTrigger, StopBuffer, Exit, Proceed, Verify,
           Goto, Return, TypeOK, DescriptorTracked, Session, Stop
      <4>2. CASE Trouble(u)
        BY <4>2 DEF Trouble, At, SysfsFails, NoMemory, OpenFails, PollWoken,
           DisableFails, DisconnectFails, EnableRefused, CountReached, Signal, VerifyUnread, Fault, Goto,
           Return, TypeOK, DescriptorTracked, Setup, Session, Stop, Ended
      <4>3. QED BY <2>1, <4>1, <4>2 DEF Acts
    <3>2. \/ holder' = holder
          \/ holder = Nobody /\ holder' = u
          \/ holder = u /\ holder' = Nobody
      <4>1. CASE Step(u)
        BY <4>1 DEF Step, At, SetTrigger, VerifyTrigger, SetLength, Enable,
           VerifyEnable, Allocate, Open, Poll, Read, Disable, Disconnect, Close,
           Again, StopTrigger, StopBuffer, Exit, Proceed, Verify, DescriptorTracked,
           Session
      <4>2. CASE Trouble(u)
        BY <4>2 DEF Trouble, SysfsFails, NoMemory, OpenFails, PollWoken,
           DisableFails, DisconnectFails, EnableRefused, CountReached, Signal, VerifyUnread
      <4>3. QED BY <2>1, <4>1, <4>2 DEF Acts
    <3>3. ASSUME NEW v \in Users, v # u
          PROVE  /\ pc'[v] \in Session => holder' = v
                 /\ holder' = v => pc'[v] \in Session \cup Stop
      <4>1. pc'[v] = pc[v]
        BY <2>1, <3>3, OthersKept
      <4>2. QED BY <3>2, <3>3, <4>1, UsersAssumption DEF DescriptorTracked
    <3>4. QED BY <3>1, <3>3 DEF DescriptorTracked
  <2>2. CASE Sample \/ UnstickBuffer \/ UnstickTrigger \/ UNCHANGED vars
    BY <2>2 DEF Sample, UnstickBuffer, UnstickTrigger, vars, DescriptorTracked
  <2>3. QED BY <2>1, <2>2 DEF Next, Acts
<1>3. QED BY <1>1, <1>2, Typing, PTL DEF Spec

-----------------------------------------------------------------------------
\* One process alone on its device.

\* What the clean-up at the end of a call, and the handler's, has reached so far: a
\* 1 still to be written finds no trigger, unless the buffer was on when the signal
\* came.
CleanUpOf(u) ==
    /\ pc[u] = "disconnect" => ~buffer
    /\ pc[u] = "close" /\ ~faulted[u] => ~trigger /\ ~buffer
    /\ pc[u] = "pause" /\ ~faulted[u] /\ ret[u] \in {"scan", "empty"}
          => ~trigger /\ ~buffer
    /\ pc[u] \in {"exit", "killed"} /\ buffer => pc[u] = "killed" /\ caught[u]
    /\ pending[u] = "1" /\ ~caught[u] =>
          /\ pc[u] = "stopTrigger" => ~buffer
          /\ pc[u] \in {"stopBuffer", "exit"} => ~trigger /\ ~buffer

CleanUpInv == \A u \in Users : Alone(u) => CleanUpOf(u)

\* Nobody becomes alone: a process that returns has made a call.
LEMMA AloneFromTheStart ==
  ASSUME TypeOK, NEW u \in Users, Acts(u), NEW v \in Users, Alone(v)'
  PROVE  v = u
<1> SUFFICES ASSUME v # u PROVE FALSE
  OBVIOUS
<1>1. pc'[u] = "returned" /\ ret'[u] = "none"
  BY DEF Alone
<1> USE DEF TypeOK, Goto, Return, counters, device, marks, At
<1>2. CASE Step(u)
  BY <1>1, <1>2 DEF Step, SetTrigger, VerifyTrigger, SetLength, Enable,
     VerifyEnable, Allocate, Open, Poll, Read, Disable, Disconnect, Close, Again,
     StopTrigger, StopBuffer, Exit, Proceed, Verify
<1>3. CASE Trouble(u)
  BY <1>1, <1>3 DEF Trouble, SysfsFails, NoMemory, OpenFails, PollWoken,
     DisableFails, DisconnectFails, EnableRefused, CountReached, Signal, VerifyUnread, Fault
<1>4. QED BY <1>2, <1>3 DEF Acts

\* CleanUpInv is an invariant.
LEMMA CleanUpInvariant == Spec => []CleanUpInv
<1>1. Init => CleanUpInv
  <2> SUFFICES ASSUME Init, NEW u \in Users PROVE CleanUpOf(u)
    BY DEF CleanUpInv
  <2>1. pc[u] \in {"setTrigger", "returned"} /\ pending[u] = "nothing"
    BY DEF Init
  <2>2. QED BY <2>1 DEF CleanUpOf
<1>2. TypeOK /\ CleanUpInv /\ [Next]_vars => CleanUpInv'
  <2> SUFFICES ASSUME TypeOK, CleanUpInv, [Next]_vars,
                      NEW me \in Users, Alone(me)'
               PROVE  CleanUpOf(me)'
    BY DEF CleanUpInv
  <2> USE DEF device, counters, marks
  <2>1. ASSUME NEW u \in Users, Acts(u) PROVE CleanUpOf(me)'
    <3>1. me = u
      BY <2>1, AloneFromTheStart
    <3>2. \A v \in Users \ {me} : pc[v] = pc'[v] /\ ret[v] = ret'[v]
      BY <2>1, <3>1, OthersKept
    <3>3. Alone(me)
      BY <3>2 DEF Alone
    <3>4. CleanUpOf(me)
      BY <3>3 DEF CleanUpInv
    <3>5. CASE Step(me)
      <4> USE DEF At, Proceed, Verify, Goto, Return, TypeOK, CleanUpOf
      <4>1. CASE \/ SetTrigger(me) \/ VerifyTrigger(me) \/ SetLength(me)
                 \/ Enable(me) \/ VerifyEnable(me) \/ Allocate(me) \/ Open(me)
        BY <3>4, <4>1 DEF SetTrigger, VerifyTrigger, SetLength, Enable,
           VerifyEnable, Allocate, Open
      <4>2. CASE Poll(me) \/ Read(me) \/ Again(me)
        BY <3>4, <4>2 DEF Poll, Read, Again
      <4>3. CASE Disable(me) \/ Close(me) \/ StopBuffer(me)
        BY <3>4, <4>3 DEF Disable, Close, StopBuffer, DisableBuffer
      <4>4. CASE Disconnect(me)
        BY <3>4, <4>4 DEF Disconnect, WriteTrigger
      <4>5. CASE StopTrigger(me)
        <5>1. pc[me] = "stopTrigger" /\ pc'[me] = "stopBuffer"
          BY <4>5 DEF StopTrigger
        <5>2. pending' = pending /\ caught' = caught
              /\ buffer' = buffer /\ (~buffer => ~trigger')
          BY <4>5 DEF StopTrigger, WriteTrigger
        <5>3. pending[me] = "1" /\ ~caught[me] => ~trigger' /\ ~buffer'
          BY <3>4, <5>1, <5>2
        <5>4. QED BY <5>1, <5>2, <5>3
      <4>6. CASE Exit(me)
        BY <3>4, <4>6 DEF Exit, Flush, Writes, WriteTrigger, EnableBuffer, DisableBuffer
      <4>7. QED BY <3>5, <4>1, <4>2, <4>3, <4>4, <4>5, <4>6 DEF Step
    <3>6. CASE Trouble(me)
      BY <3>4, <3>6 DEF Trouble, At, SysfsFails, NoMemory, OpenFails, PollWoken,
         DisableFails, DisconnectFails, EnableRefused, CountReached, Signal, VerifyUnread, Fault, Goto, Return,
         TypeOK, CleanUpOf, Setup, Ended
    <3>7. QED BY <2>1, <3>1, <3>5, <3>6 DEF Acts
  <2>2. CASE UNCHANGED <<pc, ret, faulted, pending, caught>>
    <3>1. CleanUpOf(me)
      BY <2>2 DEF Alone, CleanUpInv
    <3>2. CASE Sample
      BY <2>2, <3>1, <3>2 DEF Sample, CleanUpOf
    <3>3. CASE UnstickBuffer
      BY <2>2, <3>1, <3>3 DEF UnstickBuffer, DisableBuffer, CleanUpOf
    <3>4. CASE UnstickTrigger
      BY <2>2, <3>1, <3>4 DEF UnstickTrigger, WriteTrigger, CleanUpOf
    <3>5. CASE UNCHANGED vars
      BY <2>2, <3>1, <3>5 DEF vars, CleanUpOf
    <3>6. QED BY <2>1, <3>2, <3>3, <3>4, <3>5 DEF Next, Acts
  <2>3. CASE Sample \/ UnstickBuffer \/ UnstickTrigger \/ UNCHANGED vars
    BY <2>2, <2>3 DEF Sample, UnstickBuffer, UnstickTrigger, vars
  <2>4. QED BY <2>1, <2>3 DEF Next, Acts
<1>3. QED BY <1>1, <1>2, Typing, PTL DEF Spec

\* A call without a fault leaves trigger and buffer off, whatever the calls
\* before it left (prepare_output, lines 723 to 729).
THEOREM CleanCallIsQuiet == Spec => []QuietAfterCleanCall
<1>1. CleanUpInv => QuietAfterCleanCall
  BY DEF CleanUpInv, CleanUpOf, QuietAfterCleanCall
<1>2. QED BY <1>1, CleanUpInvariant, PTL

\* A process that a signal ended has stopped its buffer, wherever the signal
\* found it, unless that was between the fprintf and the fclose of the 1 with the
\* buffer on already (sigint_callback_handler, _write_sysfs_int).
THEOREM StopIsSafe == Spec => []StopTurnsBufferOff
<1>1. CleanUpInv => StopTurnsBufferOff
  BY DEF CleanUpInv, CleanUpOf, StopTurnsBufferOff
<1>2. QED BY <1>1, CleanUpInvariant, PTL
=============================================================================
