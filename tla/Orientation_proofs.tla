-------------------------- MODULE Orientation_proofs --------------------------
(****************************************************************************)
(* Theorems about the orientation daemon, for any set of process            *)
(* identifiers, any postures and any number of signals and faults.          *)
(****************************************************************************)
EXTENDS Orientation, FiniteSetTheorems, TLAPS

FrameType == [Frames -> [stage : Stages, orient : Codes]]
ChildType == [Pids -> [kind : Kinds, orient : Codes, done : BOOLEAN]]

-----------------------------------------------------------------------------
\* Type correctness.

\* The codes: the enum's members, the error numbers, and what rotate_left
\* makes of any of them.
LEMMA CodeFacts ==
  /\ {INVALID, FLAT} \cup Edges \cup ErrCodes \cup Postures \subseteq Codes
  /\ TOP \in Codes
  /\ \A c \in Codes : RotateLeft(c) \in Codes
  BY ErrCodesAssumption, PosturesAssumption
  DEF Codes, Edges, RotateLeft, INVALID, FLAT, TOP, RIGHT, BOTTOM, LEFT

\* Whatever part of rotate_to a frame moves to, the frames stay well typed.
LEMMA GoToType ==
  ASSUME TypeOK, NEW f \in Frames, NEW s \in Stages, GoTo(f, s)
  PROVE  frame' \in FrameType
  BY DEF TypeOK, GoTo, FrameType

\* fork() leaves a well-typed process table.
LEMMA ForkType ==
  ASSUME TypeOK, NEW f \in Frames, NEW kind \in Kinds, Fork(f, kind)
  PROVE  /\ child' \in ChildType /\ faults' \in Nat
         /\ mishaps' \subseteq {"overlap", "fork", "clone"}
<1>1. frame[f].orient \in Codes
  BY DEF TypeOK
<1>2. ASSUME NEW k \in Kinds, Spawn(f, k) PROVE child' \in ChildType
  <2>1. PICK p \in Pids : child' = [child EXCEPT ![p] =
                [kind |-> k, orient |-> frame[f].orient, done |-> FALSE]]
    BY <1>2 DEF Spawn
  <2>2. QED BY <1>1, <2>1 DEF TypeOK, ChildType
<1>3. child' \in ChildType
  BY <1>2 DEF Fork, Kinds, TypeOK, ChildType
<1>4. faults' \in Nat
  BY DEF Fork, Fault, TypeOK
<1>5. mishaps' \subseteq {"overlap", "fork", "clone"}
  BY DEF Fork, TypeOK
<1>6. QED BY <1>3, <1>4, <1>5

\* So does wait().
LEMMA WaitType ==
  ASSUME TypeOK, Wait PROVE child' \in ChildType
<1>1. NoChild \in [kind : Kinds, orient : Codes, done : BOOLEAN]
  BY CodeFacts DEF NoChild, Kinds
<1>2. CASE \E p \in Pids : child' = [child EXCEPT ![p] = NoChild]
  BY <1>1, <1>2 DEF TypeOK, ChildType
<1>3. CASE UNCHANGED child
  BY <1>3 DEF TypeOK, ChildType
<1>4. QED BY <1>2, <1>3 DEF Wait, Children

\* A result of prepare_output, an error number included, is a code the enum can hold.
LEMMA ResultType ==
  ASSUME TypeOK, NEW r \in Codes, Result(r), faults' \in Nat PROVE TypeOK'
<1>1. readings' \in Codes \X Codes
  BY DEF TypeOK, Result
<1>2. pc' \in Labels
  BY DEF Result, Labels
<1>3. QED BY <1>1, <1>2 DEF TypeOK, Result, sigVars, outVars

\* Every reachable state is well typed.
THEOREM Typing == Spec => []TypeOK
<1>1. Init => TypeOK
  <2> SUFFICES ASSUME Init PROVE TypeOK
    OBVIOUS
  <2> USE CodeFacts
  <2>1. frame \in FrameType
    BY DEF Init, FrameType, IdleFrame, Stages
  <2>2. child \in ChildType
    BY DEF Init, ChildType, NoChild, Kinds
  <2>3. posture \in {FLAT} \cup Edges
    BY PosturesAssumption DEF Init
  <2>4. readings \in Codes \X Codes
    BY DEF Init
  <2>5. pc \in Labels
    BY DEF Init, Labels
  <2>6. lock \in BOOLEAN /\ recent \in BOOLEAN /\ pending \in BOOLEAN
    BY DEF Init
  <2>7. /\ signalled \in BOOLEAN /\ touchScreen \in BOOLEAN
        /\ mishaps \subseteq {"overlap", "fork", "clone"}
    BY DEF Init
  <2>8. /\ orientation \in Codes /\ previous \in Codes /\ screen \in Codes
        /\ display \in Codes /\ touch \in Codes
    BY DEF Init
  <2>9. signals \in Nat /\ moves \in Nat /\ faults \in Nat
    BY DEF Init
  <2>10. QED
    BY <2>1, <2>2, <2>3, <2>4, <2>5, <2>6, <2>7, <2>8, <2>9
    DEF TypeOK, FrameType, ChildType
<1>2. TypeOK /\ [Next]_vars => TypeOK'
  <2> SUFFICES ASSUME TypeOK, [Next]_vars PROVE TypeOK'
    OBVIOUS
  <2> USE DEF mainVars, sigVars, envVars, outVars, history
  <2>1. CASE MainLoop
    <3>1. CASE Acquire
      <4>1. PICK r \in Codes : Result(r)
        BY <3>1, CodeFacts DEF Acquire, TypeOK
      <4>2. faults' \in Nat
        BY <3>1 DEF Acquire, TypeOK
      <4>3. QED BY <4>1, <4>2, ResultType
    <3>2. CASE TestTarget
      <4>1. frame' \in FrameType
        BY <3>2 DEF TestTarget, TypeOK, FrameType, Stages
      <4>2. pc' \in Labels
        BY <3>2 DEF TestTarget, Labels
      <4>3. QED BY <3>2, <4>1, <4>2 DEF TestTarget, TypeOK, FrameType
    <3>3. CASE FindDevice \/ Backoff \/ TestStable \/ Save \/ Sleep
      BY <3>3 DEF TypeOK, FindDevice, Backoff, TestStable, Save, Sleep, Labels
    <3>4. QED BY <2>1, <3>1, <3>2, <3>3 DEF MainLoop
  <2>2. CASE Trouble
    <3>1. CASE AcquireErrno
      <4>1. PICK r \in Codes : Result(r)
        BY <3>1, CodeFacts DEF AcquireErrno
      <4>2. faults' \in Nat
        BY <3>1 DEF AcquireErrno, Fault, TypeOK
      <4>3. QED BY <4>1, <4>2, ResultType
    <3>2. CASE AcquireMismatch
      BY <3>2, CodeFacts DEF TypeOK, AcquireMismatch, Fault, Labels
    <3>3. CASE DeviceLost \/ CountReached \/ Interrupted
      <4>1. frame' \in FrameType
        BY <3>3, CodeFacts DEF DeviceLost, CountReached, Interrupted,
           ExitProcess, FrameType, IdleFrame, Stages
      <4>2. pc' \in Labels
        BY <3>3 DEF DeviceLost, CountReached, Interrupted, ExitProcess, Labels
      <4>3. faults' \in Nat
        BY <3>3 DEF DeviceLost, CountReached, Interrupted, Fault, TypeOK
      <4>4. QED
        BY <3>3, <4>1, <4>2, <4>3 DEF DeviceLost, CountReached, Interrupted,
           ExitProcess, TypeOK, FrameType
    <3>4. QED BY <2>2, <3>1, <3>2, <3>3 DEF Trouble
  <2>3. CASE \E f \in Frames : RotateTo(f)
    <3>1. PICK f \in Frames : RotateTo(f)
      BY <2>3
    <3>2. CASE SetScreen(f)
      <4>1. frame' \in FrameType
        BY <3>2, GoToType DEF SetScreen, Stages
      <4>2. screen' \in Codes
        BY <3>2 DEF SetScreen, TypeOK
      <4>3. QED BY <3>2, <4>1, <4>2 DEF SetScreen, TypeOK, FrameType
    <3>3. CASE ForkScreen(f)
      <4>1. frame' \in FrameType
        BY <3>3, GoToType DEF ForkScreen, Stages
      <4>2. /\ child' \in ChildType /\ faults' \in Nat
            /\ mishaps' \subseteq {"overlap", "fork", "clone"}
        BY <3>3, ForkType DEF ForkScreen, Kinds
      <4>3. QED
        BY <3>3, <4>1, <4>2 DEF ForkScreen, TypeOK, FrameType, ChildType
    <3>4. CASE WaitScreen(f)
      <4>1. frame' \in FrameType
        BY <3>4, GoToType DEF WaitScreen, Stages
      <4>2. child' \in ChildType
        BY <3>4, WaitType DEF WaitScreen
      <4>3. QED
        BY <3>4, <4>1, <4>2 DEF WaitScreen, TypeOK, FrameType, ChildType
    <3>5. CASE ForkTouch(f)
      <4>1. frame' \in FrameType
        BY <3>5, GoToType DEF ForkTouch, Stages
      <4>2. /\ child' \in ChildType /\ faults' \in Nat
            /\ mishaps' \subseteq {"overlap", "fork", "clone"}
        <5>1. CASE touchScreen
          BY <3>5, <5>1, ForkType DEF ForkTouch, Kinds
        <5>2. CASE ~touchScreen
          BY <3>5, <5>2 DEF ForkTouch, TypeOK, ChildType
        <5>3. QED BY <5>1, <5>2
      <4>3. QED
        BY <3>5, <4>1, <4>2 DEF ForkTouch, TypeOK, FrameType, ChildType
    <3>6. CASE WaitTouch(f)
      <4>1. frame' \in FrameType
        BY <3>6, CodeFacts DEF WaitTouch, TypeOK, FrameType, IdleFrame, Stages
      <4>2. child' \in ChildType
        BY <3>6, WaitType DEF WaitTouch
      <4>3. pc' \in Labels
        BY <3>6 DEF WaitTouch, Labels, TypeOK
      <4>4. QED
        BY <3>6, <4>1, <4>2, <4>3 DEF WaitTouch, TypeOK, FrameType, ChildType
    <3>7. QED BY <3>1, <3>2, <3>3, <3>4, <3>5, <3>6 DEF RotateTo
  <2>4. CASE HandleSignal
    <3>1. frame' \in FrameType
      BY <2>4, CodeFacts DEF TypeOK, FrameType, HandleSignal, SecondSignal,
         ToggleSignal, Stages, Frames
    <3>2. pc' \in Labels
      BY <2>4 DEF TypeOK, HandleSignal, Labels
    <3>3. /\ lock' \in BOOLEAN /\ recent' \in BOOLEAN
          /\ mishaps' \subseteq {"overlap", "fork", "clone"}
      BY <2>4 DEF TypeOK, HandleSignal, SecondSignal, ToggleSignal
    <3>4. QED BY <2>4, <3>1, <3>2, <3>3 DEF TypeOK, FrameType, HandleSignal
  <2>5. CASE SendSignal
    <3>1. pending' \in BOOLEAN
      BY <2>5 DEF SendSignal
    <3>2. signals' \in Nat
      BY <2>5 DEF TypeOK, SendSignal
    <3>3. QED BY <2>5, <3>1, <3>2 DEF TypeOK, SendSignal
  <2>6. CASE TimePasses
    BY <2>6 DEF TypeOK, TimePasses
  <2>7. CASE \E p \in Pids : ProgramRuns(p) \/ CloneRuns(p)
    <3>1. PICK p \in Pids : ProgramRuns(p) \/ CloneRuns(p)
      BY <2>7
    <3>2. child' \in ChildType
      BY <3>1 DEF TypeOK, ChildType, ProgramRuns, CloneRuns, Finish
    <3>3. display' \in Codes /\ touch' \in Codes
      BY <3>1, CodeFacts DEF TypeOK, ProgramRuns, CloneRuns
    <3>4. QED
      BY <3>1, <3>2, <3>3 DEF TypeOK, ChildType, ProgramRuns, CloneRuns
  <2>8. CASE Turn
    BY <2>8, PosturesAssumption DEF Turn, TypeOK
  <2>9. CASE UNCHANGED vars
    BY <2>9 DEF vars, TypeOK
  <2>10. QED
    BY <2>1, <2>2, <2>3, <2>4, <2>5, <2>6, <2>7, <2>8, <2>9 DEF Next
<1>3. QED BY <1>1, <1>2, PTL DEF Spec

-----------------------------------------------------------------------------
\* The loop rotates only with good reason.

\* What makes AutoRotationJustified inductive.  previous_orientation is either
\* the last reading or, after a signal, the screen's orientation; the one
\* exception (a rotation by hand since) goes with a suspended rotation.
Awaiting == pc \in {"find", "poll", "woken", "sleep", "backoff"}
HasRead  == pc \in {"testStable", "testTarget", "rotating", "save", "sleep"}

ReadingsInv ==
    /\ Awaiting => lock \/ previous \in {readings[2], screen}
    /\ HasRead => orientation = readings[2] /\ orientation # INVALID
    /\ pc = "testStable" => signalled \/ lock \/ previous \in {readings[1], screen}
    /\ pc = "testTarget" => \/ signalled \/ lock
                            \/ orientation \in {readings[1], screen}
    /\ frame["handler"] # IdleFrame => lock
    /\ frame["main"] # IdleFrame => pc = "rotating"
    /\ pc = "exited" => \A f \in Frames : frame[f] = IdleFrame

\* Every reachable state satisfies ReadingsInv.
LEMMA ReadingsInvariant == Spec => []ReadingsInv
<1>1. Init => ReadingsInv
  BY DEF Init, ReadingsInv, Awaiting, HasRead, Frames
<1>2. TypeOK /\ ReadingsInv /\ [Next]_vars => ReadingsInv'
  <2> SUFFICES ASSUME TypeOK, ReadingsInv, [Next]_vars PROVE ReadingsInv'
    OBVIOUS
  <2> USE DEF ReadingsInv, Awaiting, HasRead, mainVars, sigVars, envVars,
      outVars, history
  <2>1. CASE MainLoop
    <3>1. CASE Acquire
      <4>1. PICK r \in {FLAT} \cup Edges : Result(r)
        BY <3>1 DEF Acquire, TypeOK
      <4>2. r # INVALID
        BY DEF Edges, FLAT, TOP, RIGHT, BOTTOM, LEFT, INVALID
      <4>3. readings'[1] = readings[2] /\ readings'[2] = r
        BY <4>1 DEF Result
      <4>4. pc = "poll" \/ pc = "woken"
        BY <3>1 DEF Acquire, MainAt
      <4>5. QED BY <4>1, <4>2, <4>3, <4>4 DEF Result
    <3>2. CASE TestTarget
      BY <3>2 DEF TestTarget, MainAt, Frames, TypeOK, IdleFrame
    <3>3. CASE FindDevice
      BY <3>3 DEF FindDevice, MainAt
    <3>4. CASE Backoff
      BY <3>4 DEF Backoff, MainAt
    <3>5. CASE TestStable
      BY <3>5 DEF TestStable, MainAt
    <3>6. CASE Save
      BY <3>6 DEF Save, MainAt
    <3>7. CASE Sleep
      BY <3>7 DEF Sleep, MainAt
    <3>8. QED
      BY <2>1, <3>1, <3>2, <3>3, <3>4, <3>5, <3>6, <3>7 DEF MainLoop
  <2>2. CASE Trouble
    <3>1. CASE AcquireErrno
      <4>1. PICK r \in ErrCodes : Result(r)
        BY <3>1 DEF AcquireErrno
      <4>2. r # INVALID
        BY ErrCodesAssumption
      <4>3. readings'[1] = readings[2] /\ readings'[2] = r
        BY <4>1 DEF Result
      <4>4. pc = "poll"
        BY <3>1 DEF AcquireErrno, MainAt
      <4>5. QED BY <4>1, <4>2, <4>3, <4>4 DEF Result
    <3>2. CASE AcquireMismatch
      BY <3>2 DEF AcquireMismatch, MainAt
    <3>3. CASE DeviceLost \/ CountReached \/ Interrupted
      BY <3>3 DEF DeviceLost, CountReached, Interrupted, ExitProcess, Frames
    <3>4. QED BY <2>2, <3>1, <3>2, <3>3 DEF Trouble
  <2>3. CASE \E f \in Frames : RotateTo(f)
    <3>1. PICK f \in Frames : RotateTo(f)
      BY <2>3
    <3>2. frame[f] # IdleFrame /\ pc # "exited"
      BY <3>1 DEF RotateTo, SetScreen, ForkScreen, WaitScreen, ForkTouch,
         WaitTouch, Running, IdleFrame
    <3>3. f = "handler" => lock
      BY <3>2
    <3>4. f = "main" => pc = "rotating"
      BY <3>2
    <3>5. \A g \in Frames : g # f => frame'[g] = frame[g]
      BY <3>1 DEF RotateTo, SetScreen, ForkScreen, WaitScreen, ForkTouch,
         WaitTouch, GoTo, TypeOK
    <3>6. CASE SetScreen(f)
      BY <3>2, <3>3, <3>4, <3>5, <3>6 DEF SetScreen, Frames
    <3>7. CASE ForkScreen(f) \/ WaitScreen(f) \/ ForkTouch(f)
      BY <3>2, <3>3, <3>4, <3>5, <3>7 DEF ForkScreen, WaitScreen, ForkTouch,
         Frames
    <3>8. CASE WaitTouch(f)
      BY <3>2, <3>3, <3>4, <3>5, <3>8 DEF WaitTouch, Frames, TypeOK
    <3>9. QED BY <3>1, <3>6, <3>7, <3>8 DEF RotateTo
  <2>4. CASE HandleSignal
    <3>1. CASE SecondSignal
      BY <2>4, <3>1 DEF HandleSignal, SecondSignal, TypeOK, Frames
    <3>2. CASE ToggleSignal
      BY <2>4, <3>2 DEF HandleSignal, ToggleSignal
    <3>3. QED BY <2>4, <3>1, <3>2 DEF HandleSignal
  <2>5. CASE SendSignal \/ TimePasses
    BY <2>5 DEF SendSignal, TimePasses
  <2>6. CASE \E p \in Pids : ProgramRuns(p) \/ CloneRuns(p)
    BY <2>6 DEF ProgramRuns, CloneRuns
  <2>7. CASE Turn
    BY <2>7 DEF Turn
  <2>8. CASE UNCHANGED vars
    BY <2>8 DEF vars
  <2>9. QED
    BY <2>1, <2>2, <2>3, <2>4, <2>5, <2>6, <2>7, <2>8 DEF Next
<1>3. QED BY <1>1, <1>2, Typing, PTL DEF Spec

\* The loop's rotations are justified (the test in main, lines 428 to 429).
THEOREM RotationJustified == Spec => AutoRotationJustified
<1> DEFINE Justified ==
      (frame["main"] = IdleFrame /\ frame'["main"] # IdleFrame) =>
        \/ signalled
        \/ /\ readings = <<orientation, orientation>>
           /\ orientation \notin {screen, FLAT, INVALID}
           /\ ~lock
<1>1. TypeOK /\ ReadingsInv /\ [Next]_vars => [Justified]_vars
  <2> SUFFICES ASSUME TypeOK, ReadingsInv, Next,
                      frame["main"] = IdleFrame, frame'["main"] # IdleFrame,
                      ~signalled
               PROVE  /\ readings = <<orientation, orientation>>
                      /\ orientation \notin {screen, FLAT, INVALID}
                      /\ ~lock
    OBVIOUS
  <2> USE DEF mainVars, sigVars, envVars, outVars, history
  <2>1. TestTarget
    <3>1. ASSUME NEW f \in Frames, RotateTo(f) PROVE FALSE
      <4>1. f = "main" => frame["main"] # IdleFrame
        BY <3>1 DEF RotateTo, SetScreen, ForkScreen, WaitScreen, ForkTouch,
           WaitTouch, Running, IdleFrame
      <4>2. f # "main" => frame'["main"] = frame["main"]
        BY <3>1 DEF RotateTo, SetScreen, ForkScreen, WaitScreen, ForkTouch,
           WaitTouch, GoTo, TypeOK, Frames
      <4>3. QED BY <4>1, <4>2
    <3>2. ASSUME MainLoop, ~TestTarget PROVE FALSE
      BY <3>2 DEF MainLoop, FindDevice, Acquire, Result, Backoff, TestStable,
         Save, Sleep
    <3>3. ASSUME Trouble PROVE FALSE
      BY <3>3 DEF Trouble, DeviceLost, CountReached, Interrupted, ExitProcess,
         AcquireErrno, AcquireMismatch, Result, Frames
    <3>4. ASSUME HandleSignal PROVE FALSE
      BY <3>4 DEF HandleSignal, SecondSignal, ToggleSignal, TypeOK, Frames
    <3>5. ASSUME \/ SendSignal \/ TimePasses \/ Turn
                 \/ \E p \in Pids : ProgramRuns(p) \/ CloneRuns(p)
          PROVE  FALSE
      BY <3>5 DEF SendSignal, TimePasses, Turn, ProgramRuns, CloneRuns
    <3>6. QED BY <3>1, <3>2, <3>3, <3>4, <3>5 DEF Next
  <2>2. WantsRotation /\ pc = "testTarget"
    BY <2>1 DEF TestTarget, MainAt
  <2>3. orientation = readings[2] /\ orientation # INVALID
    BY <2>2 DEF ReadingsInv, HasRead
  <2>4. orientation = readings[1]
    BY <2>2 DEF ReadingsInv, WantsRotation
  <2>5. readings = <<readings[1], readings[2]>>
    BY DEF TypeOK
  <2>6. QED BY <2>2, <2>3, <2>4, <2>5 DEF WantsRotation
<1>2. QED
  BY <1>1, Typing, ReadingsInvariant, PTL DEF Spec, AutoRotationJustified

-----------------------------------------------------------------------------
\* No zombies: every child is waited for.

\* The process table is finite, so its entries can be counted.
LEMMA FiniteChildren == IsFiniteSet(Children) /\ Cardinality(Children) \in Nat
<1>1. IsFiniteSet(Children)
  BY PidsAssumption, FS_Subset DEF Children
<1>2. QED BY <1>1, FS_CardinalityType

\* fork() adds at most one child.
LEMMA ForkCounts ==
  ASSUME TypeOK, NEW f \in Frames, NEW kind \in Kinds \ {"none"}, Fork(f, kind)
  PROVE  Cardinality(Children') <= Cardinality(Children) + 1
<1>1. ASSUME NEW k \in Kinds \ {"none"}, Spawn(f, k)
      PROVE  Cardinality(Children') <= Cardinality(Children) + 1
  <2>1. PICK p \in Pids \ Children :
          child' = [child EXCEPT ![p] =
              [kind |-> k, orient |-> frame[f].orient, done |-> FALSE]]
    BY <1>1 DEF Spawn
  <2>2. child'[p].kind = k
    BY <2>1 DEF TypeOK
  <2>3. child'[p] # NoChild
    BY <2>2 DEF NoChild
  <2>4. Children' = Children \cup {p}
    BY <2>1, <2>3 DEF Children, TypeOK
  <2>5. QED BY <2>4, FiniteChildren, FS_AddElement
<1>2. CASE UNCHANGED child
  <2>1. Children' = Children
    BY <1>2 DEF Children
  <2>2. QED BY <2>1, FiniteChildren
<1>3. QED BY <1>1, <1>2 DEF Fork, Kinds

\* wait() removes one child, unless there is none.
LEMMA WaitCounts ==
  ASSUME TypeOK, Wait
  PROVE  \/ Cardinality(Children') = Cardinality(Children) - 1
         \/ Cardinality(Children') = 0
<1>1. CASE \E p \in Children : child' = [child EXCEPT ![p] = NoChild]
  <2>1. PICK p \in Children : child' = [child EXCEPT ![p] = NoChild]
    BY <1>1
  <2>2. Children' = Children \ {p}
    BY <2>1 DEF Children, TypeOK
  <2>3. QED BY <2>1, <2>2, FiniteChildren, FS_RemoveElement
<1>2. CASE Children = {} /\ UNCHANGED child
  <2>1. Children' = {}
    BY <1>2 DEF Children
  <2>2. QED BY <2>1, FS_EmptySet
<1>3. QED BY <1>1, <1>2 DEF Wait

\* A child that ends, or does anything else, stays in the table.
LEMMA ChildSteps ==
  ASSUME TypeOK, NEW p \in Pids, ProgramRuns(p) \/ CloneRuns(p)
  PROVE  Children' = Children
<1>1. child[p] # NoChild
  BY DEF ProgramRuns, CloneRuns, NoChild
<1>2. CASE Finish(p)
  <2>1. child'[p].done
    BY <1>2 DEF Finish, TypeOK
  <2>2. child'[p] # NoChild
    BY <2>1 DEF NoChild
  <2>3. QED BY <1>1, <1>2, <2>2 DEF Finish, Children, TypeOK
<1>3. CASE UNCHANGED child
  BY <1>3 DEF Children
<1>4. QED BY <1>2, <1>3 DEF ProgramRuns, CloneRuns

\* There are never more unreaped children than waits under way (the fork and
\* wait calls of rotate_to, in both of its activations).
THEOREM NoZombies == Spec => []ChildrenAwaited
<1>1. Init => ChildrenAwaited
  <2> SUFFICES ASSUME Init PROVE ChildrenAwaited
    OBVIOUS
  <2>1. Children = {}
    BY DEF Init, Children
  <2>2. QED
    BY <2>1, FS_EmptySet DEF ChildrenAwaited, Owed
<1>2. TypeOK /\ ReadingsInv /\ ChildrenAwaited /\ [Next]_vars => ChildrenAwaited'
  <2> SUFFICES ASSUME TypeOK, ReadingsInv, ChildrenAwaited, [Next]_vars, pc' # "exited"
               PROVE  Cardinality(Children') <= Owed("main")' + Owed("handler")'
    BY DEF ChildrenAwaited
  <2> USE DEF mainVars, sigVars, envVars, outVars, history
  <2>1. pc # "exited"
    <3>1. SUFFICES ASSUME pc = "exited" PROVE FALSE
      OBVIOUS
    <3>2. \A f \in Frames : ~RotateTo(f)
      BY <3>1 DEF RotateTo, SetScreen, ForkScreen, WaitScreen, ForkTouch,
         WaitTouch, Running
    <3>3. ~MainLoop
      BY <3>1 DEF MainLoop, MainAt, FindDevice, Acquire, Backoff, TestStable,
         TestTarget, Save, Sleep
    <3>4. ~Trouble
      BY <3>1 DEF Trouble, MainAt, DeviceLost, CountReached, Interrupted,
         AcquireErrno, AcquireMismatch
    <3>5. QED
      BY <3>1, <3>2, <3>3, <3>4 DEF Next, SendSignal, HandleSignal, TimePasses,
         ProgramRuns, CloneRuns, Turn, vars
  <2>2. Cardinality(Children) <= Owed("main") + Owed("handler")
    BY <2>1 DEF ChildrenAwaited
  <2>3. \A f \in Frames : Owed(f) \in {0, 1}
    BY DEF Owed
  <2>4. ASSUME UNCHANGED child, \A f \in Frames : Owed(f)' >= Owed(f)
        PROVE  Cardinality(Children') <= Owed("main")' + Owed("handler")'
    <3>1. Children' = Children
      BY <2>4 DEF Children
    <3>2. Owed("main")' >= Owed("main") /\ Owed("handler")' >= Owed("handler")
      BY <2>4 DEF Frames
    <3>3. Owed("main")' \in {0, 1} /\ Owed("handler")' \in {0, 1}
      BY DEF Owed
    <3>4. QED BY <2>2, <2>3, <3>1, <3>2, <3>3, FiniteChildren DEF Frames
  <2>5. ASSUME NEW f \in Frames, RotateTo(f)
        PROVE  Cardinality(Children') <= Owed("main")' + Owed("handler")'
    <3>1. ASSUME NEW n \in Int, Owed(f)' = Owed(f) + n,
                 \/ Cardinality(Children') <= Cardinality(Children) + n
                 \/ Cardinality(Children') = 0,
                 \A g \in Frames : g # f => frame'[g] = frame[g]
          PROVE  Cardinality(Children') <= Owed("main")' + Owed("handler")'
      <4>1. \A g \in Frames : g # f => Owed(g)' = Owed(g)
        BY <3>1 DEF Owed
      <4>2. Owed("main")' + Owed("handler")' = Owed("main") + Owed("handler") + n
        BY <2>3, <3>1, <4>1 DEF Frames
      <4>3. Owed("main")' + Owed("handler")' >= 0
        BY DEF Owed
      <4>4. Cardinality(Children) \in Nat
        BY FiniteChildren
      <4>5. CASE Cardinality(Children') = 0
        BY <4>3, <4>5
      <4>6. CASE Cardinality(Children') <= Cardinality(Children) + n
        <5>1. Cardinality(Children') \in Nat
          <6>1. IsFiniteSet(Children')
            BY PidsAssumption, FS_Subset DEF Children
          <6>2. QED BY <6>1, FS_CardinalityType
        <5>2. QED BY <2>2, <2>3, <4>2, <4>4, <4>6, <5>1 DEF Frames
      <4>7. QED BY <3>1, <4>5, <4>6
    <3>2. \A g \in Frames : g # f => frame'[g] = frame[g]
      BY <2>5 DEF RotateTo, SetScreen, ForkScreen, WaitScreen, ForkTouch,
         WaitTouch, GoTo, TypeOK
    <3>3. CASE SetScreen(f)
      <4>1. Owed(f)' = Owed(f) + 0
        BY <3>3 DEF SetScreen, Running, GoTo, Owed, TypeOK
      <4>2. Children' = Children
        BY <3>3 DEF SetScreen, Children
      <4>3. QED BY <3>1, <3>2, <4>1, <4>2, FiniteChildren
    <3>4. CASE ForkScreen(f)
      <4>1. Owed(f)' = Owed(f) + 1
        BY <3>4 DEF ForkScreen, Running, GoTo, Owed, TypeOK
      <4>2. Cardinality(Children') <= Cardinality(Children) + 1
        BY <3>4, ForkCounts DEF ForkScreen, Kinds
      <4>3. QED BY <3>1, <3>2, <4>1, <4>2
    <3>5. CASE WaitScreen(f)
      <4>1. Owed(f)' = Owed(f) + (-1)
        BY <3>5 DEF WaitScreen, Running, GoTo, Owed, TypeOK
      <4>2. \/ Cardinality(Children') <= Cardinality(Children) + (-1)
            \/ Cardinality(Children') = 0
        BY <3>5, WaitCounts, FiniteChildren DEF WaitScreen
      <4>3. QED BY <3>1, <3>2, <4>1, <4>2
    <3>6. CASE ForkTouch(f)
      <4>1. Owed(f)' = Owed(f) + 1
        BY <3>6 DEF ForkTouch, Running, GoTo, Owed, TypeOK
      <4>2. CASE touchScreen
        <5>1. Cardinality(Children') <= Cardinality(Children) + 1
          BY <3>6, <4>2, ForkCounts DEF ForkTouch, Kinds
        <5>2. QED BY <3>1, <3>2, <4>1, <5>1
      <4>3. CASE ~touchScreen
        <5>1. Children' = Children
          BY <3>6, <4>3 DEF ForkTouch, Children
        <5>2. QED BY <3>1, <3>2, <4>1, <5>1, FiniteChildren
      <4>4. QED BY <4>2, <4>3
    <3>7. CASE WaitTouch(f)
      <4>1. Owed(f)' = Owed(f) + (-1)
        BY <3>7 DEF WaitTouch, Running, IdleFrame, Owed, TypeOK
      <4>2. \/ Cardinality(Children') <= Cardinality(Children) + (-1)
            \/ Cardinality(Children') = 0
        BY <3>7, WaitCounts, FiniteChildren DEF WaitTouch
      <4>3. QED BY <3>1, <3>2, <4>1, <4>2
    <3>8. QED BY <2>5, <3>3, <3>4, <3>5, <3>6, <3>7 DEF RotateTo
  <2>6. CASE MainLoop
    <3>1. UNCHANGED child
      BY <2>6 DEF MainLoop, FindDevice, Acquire, Result, Backoff, TestStable,
         TestTarget, Save, Sleep
    <3>2. ~TestTarget => UNCHANGED frame
      BY <2>6 DEF MainLoop, FindDevice, Acquire, Result, Backoff, TestStable,
         Save, Sleep
    <3>3. TestTarget => frame["main"] = IdleFrame /\ frame'["handler"] = frame["handler"]
      BY DEF TestTarget, MainAt, ReadingsInv, TypeOK, Frames
    <3>4. \A f \in Frames : Owed(f)' >= Owed(f)
      BY <2>3, <3>2, <3>3 DEF Owed, Frames, IdleFrame
    <3>5. QED BY <2>4, <3>1, <3>4
  <2>7. CASE Trouble
    <3>1. UNCHANGED <<child, frame>>
      BY <2>7 DEF Trouble, DeviceLost, CountReached, Interrupted, ExitProcess,
         AcquireErrno, AcquireMismatch, Result
    <3>2. \A f \in Frames : Owed(f)' >= Owed(f)
      BY <2>3, <3>1 DEF Owed
    <3>3. QED BY <2>4, <3>1, <3>2
  <2>8. CASE HandleSignal
    <3>1. UNCHANGED child
      BY <2>8 DEF HandleSignal
    <3>2. frame["handler"] = IdleFrame /\ frame'["main"] = frame["main"]
      BY <2>8 DEF HandleSignal, SecondSignal, ToggleSignal, TypeOK, Frames
    <3>3. \A f \in Frames : Owed(f)' >= Owed(f)
      BY <2>3, <3>2 DEF Owed, Frames, IdleFrame
    <3>4. QED BY <2>4, <3>1, <3>3
  <2>9. CASE SendSignal \/ TimePasses \/ Turn \/ UNCHANGED vars
    <3>1. UNCHANGED <<child, frame>>
      BY <2>9 DEF SendSignal, TimePasses, Turn, vars
    <3>2. \A f \in Frames : Owed(f)' >= Owed(f)
      BY <2>3, <3>1 DEF Owed
    <3>3. QED BY <2>4, <3>1, <3>2
  <2>10. CASE \E p \in Pids : ProgramRuns(p) \/ CloneRuns(p)
    <3>1. Children' = Children
      BY <2>10, ChildSteps
    <3>2. UNCHANGED frame
      BY <2>10 DEF ProgramRuns, CloneRuns
    <3>3. QED BY <2>2, <3>1, <3>2 DEF Owed
  <2>11. QED
    BY <2>5, <2>6, <2>7, <2>8, <2>9, <2>10 DEF Next
<1>3. QED BY <1>1, <1>2, Typing, ReadingsInvariant, PTL DEF Spec

-----------------------------------------------------------------------------
\* Screen and touchscreen agree between two rotations.

\* What makes Agreement inductive: only one frame is active, its child is the one
\* it waits for, and a program that is done has done its work.
OnlyChild(kind, o, worked) ==
    \E p \in Pids :
        /\ Children = {p}
        /\ child[p].kind = kind /\ child[p].orient = o
        /\ child[p].done => worked

Shown(o) == o \in Edges => display = o

\* Frame f's progress; the other frame is idle.
Progress(f) ==
    LET stage == frame[f].stage
        o     == frame[f].orient
    IN
    /\ stage \in {"idle", "set", "forkScreen", "forkTouch"} => Children = {}
    /\ stage \notin {"idle", "set"} => screen = o
    /\ stage = "idle" =>
          Shown(screen) /\ (touchScreen /\ screen \in Edges => touch = screen)
    /\ stage = "waitScreen" => OnlyChild("xrandr", o, Shown(o))
    /\ stage \in {"forkTouch", "waitTouch"} => Shown(o)
    /\ stage = "waitTouch" =>
          IF touchScreen THEN o \in Edges /\ OnlyChild("xinput", o, touch = o)
          ELSE Children = {}

AgreeInv ==
    pc # "exited" /\ mishaps = {} =>
        \E f \in Frames :
            (\A g \in Frames \ {f} : frame[g] = IdleFrame) /\ Progress(f)

\* A fork of the only child, and the wait for it.
LEMMA SpawnOnly ==
  ASSUME TypeOK, Children = {}, NEW f \in Frames, NEW kind \in Kinds \ {"none"},
         Spawn(f, kind)
  PROVE  \E p \in Pids : /\ Children' = {p}
                         /\ child'[p].kind = kind /\ child'[p].orient = frame[f].orient
                         /\ ~child'[p].done
<1> DEFINE new == [kind |-> kind, orient |-> frame[f].orient, done |-> FALSE]
<1>1. PICK p \in Pids : child' = [child EXCEPT ![p] = new]
  BY DEF Spawn
<1>2. child'[p] = new /\ new # NoChild
  BY <1>1 DEF TypeOK, NoChild
<1>3. \A q \in Pids \ {p} : child'[q] = NoChild
  BY <1>1 DEF TypeOK, Children
<1>4. Children' = {p}
  BY <1>2, <1>3 DEF Children
<1>5. QED BY <1>2, <1>4

LEMMA WaitOnly ==
  ASSUME TypeOK, NEW kind, NEW o, NEW worked, OnlyChild(kind, o, worked), Wait
  PROVE  Children' = {} /\ worked
<1>1. PICK p \in Pids : Children = {p} /\ (child[p].done => worked)
  BY DEF OnlyChild
<1>2. child[p].done /\ child' = [child EXCEPT ![p] = NoChild]
  BY <1>1 DEF Wait
<1>3. \A q \in Pids : child'[q] = NoChild
  BY <1>1, <1>2 DEF TypeOK, Children
<1>4. QED BY <1>1, <1>2, <1>3 DEF Children

\* Nothing that AgreeInv speaks of changes.
LEMMA AgreeStays ==
  ASSUME AgreeInv, UNCHANGED <<frame, child, screen, display, touch, touchScreen>>,
         pc' # "exited" => pc # "exited", mishaps' = {} => mishaps = {}
  PROVE  AgreeInv'
<1>1. Children' = Children
  BY DEF Children
<1>2. \A f \in Frames : Progress(f)' <=> Progress(f)
  BY <1>1 DEF Progress, OnlyChild, Shown
<1>3. QED BY <1>2 DEF AgreeInv

\* A step of rotate_to in frame f.
LEMMA AgreeRotating ==
  ASSUME TypeOK, AgreeInv, NEW f \in Frames, RotateTo(f)
  PROVE  AgreeInv'
<1> SUFFICES ASSUME pc' # "exited", mishaps' = {}
             PROVE  \E g \in Frames :
                       (\A h \in Frames \ {g} : frame'[h] = IdleFrame) /\ Progress(g)'
  BY DEF AgreeInv
<1> USE DEF mainVars, sigVars, envVars, outVars, history
<1>0. pc # "exited" /\ frame[f] # IdleFrame
  BY DEF RotateTo, SetScreen, ForkScreen, WaitScreen, ForkTouch, WaitTouch, Running,
     IdleFrame
<1>1. mishaps = {} /\ UNCHANGED <<display, touch, touchScreen>>
  BY DEF RotateTo, SetScreen, ForkScreen, WaitScreen, ForkTouch, WaitTouch, Fork
<1>2. (\A h \in Frames \ {f} : frame[h] = IdleFrame) /\ Progress(f)
  BY <1>0, <1>1 DEF AgreeInv, Frames
<1>3. \A s \in Stages : GoTo(f, s) =>
         /\ frame'[f].stage = s /\ frame'[f].orient = frame[f].orient
         /\ \A h \in Frames \ {f} : frame'[h] = frame[h]
  BY DEF GoTo, TypeOK
<1>4. frame[f].stage \in Stages
  BY DEF TypeOK
<1> SUFFICES (\A h \in Frames \ {f} : frame'[h] = frame[h]) /\ Progress(f)'
  BY <1>2
<1>5. CASE SetScreen(f)
  <2>1. frame'[f].stage = "forkScreen" /\ frame'[f].orient = frame[f].orient
        /\ \A h \in Frames \ {f} : frame'[h] = frame[h]
    BY <1>3, <1>5 DEF SetScreen, Stages
  <2>2. Children' = {} /\ screen' = frame[f].orient
    BY <1>2, <1>5 DEF SetScreen, Running, Progress, Children
  <2>3. QED BY <2>1, <2>2 DEF Progress
<1>6. CASE ForkScreen(f)
  <2>1. frame'[f].stage = "waitScreen" /\ frame'[f].orient = frame[f].orient
        /\ \A h \in Frames \ {f} : frame'[h] = frame[h]
    BY <1>3, <1>6 DEF ForkScreen, Stages
  <2>2. Children = {} /\ screen' = frame[f].orient
    BY <1>2, <1>6 DEF ForkScreen, Running, Progress
  <2>3. Spawn(f, "xrandr")
    BY <1>6 DEF ForkScreen, Fork
  <2>4. OnlyChild("xrandr", frame[f].orient, Shown(frame[f].orient))'
    BY <2>1, <2>2, <2>3, SpawnOnly DEF OnlyChild, Kinds
  <2>5. QED BY <2>1, <2>2, <2>4 DEF Progress
<1>7. CASE WaitScreen(f)
  <2>1. frame'[f].stage = "forkTouch" /\ frame'[f].orient = frame[f].orient
        /\ \A h \in Frames \ {f} : frame'[h] = frame[h]
    BY <1>3, <1>7 DEF WaitScreen, Stages
  <2>2. OnlyChild("xrandr", frame[f].orient, Shown(frame[f].orient))
        /\ screen' = frame[f].orient
    BY <1>2, <1>7 DEF WaitScreen, Running, Progress
  <2>3. Children' = {} /\ Shown(frame[f].orient)
    BY <1>7, <2>2, WaitOnly DEF WaitScreen
  <2>4. QED BY <1>1, <2>1, <2>2, <2>3 DEF Progress, Shown
<1>8. CASE ForkTouch(f)
  <2>1. frame'[f].stage = "waitTouch" /\ frame'[f].orient = frame[f].orient
        /\ \A h \in Frames \ {f} : frame'[h] = frame[h]
    BY <1>3, <1>8 DEF ForkTouch, Stages
  <2>2. Children = {} /\ screen' = frame[f].orient /\ Shown(frame[f].orient)
    BY <1>2, <1>8 DEF ForkTouch, Running, Progress
  <2>3. CASE touchScreen
    <3>1. Spawn(f, "xinput") /\ frame[f].orient \in Edges
      BY <1>8, <2>3 DEF ForkTouch, Fork
    <3>2. OnlyChild("xinput", frame[f].orient, touch = frame[f].orient)'
      BY <2>1, <2>2, <3>1, SpawnOnly DEF OnlyChild, Kinds
    <3>3. QED BY <1>1, <2>1, <2>2, <2>3, <3>1, <3>2 DEF Progress, Shown
  <2>4. CASE ~touchScreen
    <3>1. Children' = {}
      BY <1>8, <2>2, <2>4 DEF ForkTouch, Children
    <3>2. QED BY <1>1, <2>1, <2>2, <2>4, <3>1 DEF Progress, Shown
  <2>5. QED BY <2>3, <2>4
<1>9. CASE WaitTouch(f)
  <2>1. frame'[f] = IdleFrame /\ \A h \in Frames \ {f} : frame'[h] = frame[h]
    BY <1>9 DEF WaitTouch, TypeOK
  <2>2. screen = frame[f].orient /\ Shown(screen) /\ screen' = screen
    BY <1>2, <1>9 DEF WaitTouch, Running, Progress
  <2>3. Children' = {} /\ (touchScreen => touch = screen)
    <3>1. CASE touchScreen
      <4>1. OnlyChild("xinput", frame[f].orient, touch = frame[f].orient)
        BY <1>2, <1>9, <3>1 DEF WaitTouch, Running, Progress
      <4>2. QED BY <1>9, <2>2, <4>1, WaitOnly DEF WaitTouch
    <3>2. CASE ~touchScreen
      <4>1. Children = {}
        BY <1>2, <1>9, <3>2 DEF WaitTouch, Running, Progress
      <4>2. QED BY <1>9, <3>2, <4>1 DEF WaitTouch, Wait, Children
    <3>3. QED BY <3>1, <3>2
  <2>4. QED BY <1>1, <2>1, <2>2, <2>3 DEF Progress, Shown, IdleFrame
<1>10. QED BY <1>5, <1>6, <1>7, <1>8, <1>9 DEF RotateTo

\* A frame becomes active: the loop's, or the handler's.
LEMMA AgreeStart ==
  ASSUME TypeOK, ReadingsInv, AgreeInv, TestTarget \/ HandleSignal
  PROVE  AgreeInv'
<1> USE DEF mainVars, sigVars, envVars, outVars, history
<1>1. CASE UNCHANGED <<frame, mishaps>>
  BY <1>1, AgreeStays DEF TestTarget, HandleSignal, MainAt
<1>2. CASE \E f \in Frames, o \in Int :
              /\ frame' = [frame EXCEPT ![f] = [stage |-> "set", orient |-> o]]
              /\ mishaps' = {} => mishaps = {} /\ \A g \in Frames : frame[g] = IdleFrame
  <2> SUFFICES ASSUME pc' # "exited", mishaps' = {}
               PROVE  \E g \in Frames :
                         (\A h \in Frames \ {g} : frame'[h] = IdleFrame) /\ Progress(g)'
    BY DEF AgreeInv
  <2>1. PICK f \in Frames, o \in Int :
           /\ frame' = [frame EXCEPT ![f] = [stage |-> "set", orient |-> o]]
           /\ mishaps = {} /\ \A g \in Frames : frame[g] = IdleFrame
    BY <1>2
  <2>2. pc # "exited"
    BY DEF TestTarget, HandleSignal, MainAt
  <2>3. Children' = {}
    <3>1. Children = {}
      BY <2>1, <2>2 DEF AgreeInv, Progress, IdleFrame
    <3>2. QED BY <3>1 DEF TestTarget, HandleSignal, Children
  <2>4. frame'[f].stage = "set" /\ \A h \in Frames \ {f} : frame'[h] = IdleFrame
    BY <2>1 DEF TypeOK
  <2>5. QED BY <2>3, <2>4 DEF Progress
<1>3. CASE TestTarget /\ ~UNCHANGED frame
  <2>1. frame["main"] = IdleFrame /\ frame["handler"] = IdleFrame
    BY <1>3 DEF TestTarget, MainAt, ReadingsInv
  <2>2. orientation \in Int
    BY DEF TypeOK, Codes
  <2>3. QED BY <1>2, <1>3, <2>1, <2>2 DEF TestTarget, Frames
<1>4. CASE HandleSignal /\ SecondSignal
  <2>1. RotateLeft(screen) \in Int
    BY CodeFacts DEF TypeOK, Codes
  <2>2. mishaps' = {} => mishaps = {} /\ \A g \in Frames : frame[g] = IdleFrame
    BY <1>4 DEF HandleSignal, SecondSignal, Frames
  <2>3. QED BY <1>2, <1>4, <2>1, <2>2 DEF SecondSignal, Frames
<1>5. CASE HandleSignal /\ ToggleSignal
  BY <1>1, <1>5 DEF ToggleSignal
<1>6. CASE TestTarget /\ UNCHANGED frame
  BY <1>1, <1>6 DEF TestTarget
<1>7. QED BY <1>3, <1>4, <1>5, <1>6 DEF HandleSignal

\* A program works and ends.  There is no clone yet.
LEMMA AgreeProgram ==
  ASSUME TypeOK, AgreeInv, NEW p \in Pids, ProgramRuns(p) \/ CloneRuns(p)
  PROVE  AgreeInv'
<1> USE DEF mainVars, sigVars, envVars, outVars, history
<1> SUFFICES ASSUME pc' # "exited", mishaps' = {}
             PROVE  \E g \in Frames :
                       (\A h \in Frames \ {g} : frame'[h] = IdleFrame) /\ Progress(g)'
  BY DEF AgreeInv
<1>1. pc # "exited" /\ mishaps = {} /\ UNCHANGED <<frame, screen, touchScreen>>
  BY DEF ProgramRuns, CloneRuns
<1>2. PICK f \in Frames : (\A g \in Frames \ {f} : frame[g] = IdleFrame) /\ Progress(f)
  BY <1>1 DEF AgreeInv
<1>3. p \in Children
  BY DEF ProgramRuns, CloneRuns, Children, NoChild
<1>4. frame[f].stage \in Stages
  BY DEF TypeOK
<1>5. /\ \/ frame[f].stage = "waitScreen" /\ child[p].kind = "xrandr"
         \/ /\ frame[f].stage = "waitTouch" /\ child[p].kind = "xinput"
            /\ touchScreen /\ frame[f].orient \in Edges
      /\ Children = {p} /\ child[p].orient = frame[f].orient
  BY <1>2, <1>3, <1>4 DEF Progress, OnlyChild, Stages
<1>6. ProgramRuns(p)
  BY <1>5 DEF CloneRuns
<1>7. /\ child'[p].kind = child[p].kind /\ child'[p].orient = child[p].orient
      /\ child'[p] # NoChild
      /\ \A q \in Pids \ {p} : child'[q] = child[q]
  BY <1>5, <1>6 DEF ProgramRuns, Finish, TypeOK, NoChild
<1>8. Children' = {p}
  BY <1>5, <1>7 DEF Children
<1>9. CASE frame[f].stage = "waitScreen"
  <2>1. Shown(frame[f].orient)'
    BY <1>1, <1>5, <1>6, <1>9 DEF ProgramRuns, Shown
  <2>2. QED BY <1>1, <1>2, <1>5, <1>7, <1>8, <1>9, <2>1 DEF Progress, OnlyChild
<1>10. CASE frame[f].stage = "waitTouch"
  <2>1. touch' = frame[f].orient /\ display' = display
    BY <1>5, <1>6, <1>10 DEF ProgramRuns
  <2>2. Shown(frame[f].orient)' /\ touchScreen
    BY <1>1, <1>2, <1>5, <1>10, <2>1 DEF Progress, Shown
  <2>3. QED BY <1>1, <1>2, <1>5, <1>7, <1>8, <1>10, <2>1, <2>2 DEF Progress, OnlyChild
<1>11. QED BY <1>5, <1>9, <1>10

LEMMA AgreeInvariant == Spec => []AgreeInv
<1>1. Init => AgreeInv
  <2> SUFFICES ASSUME Init PROVE AgreeInv
    OBVIOUS
  <2>1. Children = {}
    BY DEF Init, Children
  <2>2. "main" \in Frames /\ \A f \in Frames : frame[f] = IdleFrame
    BY DEF Init, Frames
  <2>3. Progress("main")
    BY <2>1, <2>2 DEF Init, Progress, IdleFrame, Shown, Edges, INVALID, TOP, RIGHT,
       BOTTOM, LEFT
  <2>4. QED BY <2>2, <2>3 DEF AgreeInv
<1>2. TypeOK /\ ReadingsInv /\ AgreeInv /\ [Next]_vars => AgreeInv'
  <2> SUFFICES ASSUME TypeOK, ReadingsInv, AgreeInv, [Next]_vars PROVE AgreeInv'
    OBVIOUS
  <2> USE DEF mainVars, sigVars, envVars, outVars, history
  <2>1. CASE MainLoop /\ ~TestTarget
    BY <2>1, AgreeStays DEF MainLoop, FindDevice, Acquire, Result, Backoff, TestStable,
       Save, Sleep, MainAt
  <2>2. CASE TestTarget \/ HandleSignal
    BY <2>2, AgreeStart
  <2>3. CASE AcquireErrno \/ AcquireMismatch
    BY <2>3, AgreeStays DEF AcquireErrno, AcquireMismatch, Result, MainAt
  <2>4. CASE DeviceLost \/ CountReached \/ Interrupted
    BY <2>4 DEF DeviceLost, CountReached, Interrupted, ExitProcess, AgreeInv
  <2>5. CASE \E f \in Frames : RotateTo(f)
    BY <2>5, AgreeRotating
  <2>6. CASE SendSignal \/ TimePasses \/ Turn
    BY <2>6, AgreeStays DEF SendSignal, TimePasses, Turn
  <2>7. CASE \E p \in Pids : ProgramRuns(p) \/ CloneRuns(p)
    BY <2>7, AgreeProgram
  <2>8. CASE UNCHANGED vars
    BY <2>8, AgreeStays DEF vars
  <2>9. QED
    BY <2>1, <2>2, <2>3, <2>4, <2>5, <2>6, <2>7, <2>8 DEF Next, Trouble, MainLoop
<1>3. QED BY <1>1, <1>2, Typing, ReadingsInvariant, PTL DEF Spec

\* Between rotations screen and touchscreen are turned to screen_orientation, for
\* any postures, signals and faults, unless one of the mishaps happened.
THEOREM ScreensAgree == Spec => []Agreement
<1>1. AgreeInv => Agreement
  BY DEF AgreeInv, Agreement, Progress, Shown, IdleFrame
<1>2. QED BY <1>1, AgreeInvariant, PTL
=============================================================================
