------------------------------ MODULE Orientation ------------------------------
(****************************************************************************)
(* The orientation daemon (sensors/orientation.c): one process that reads   *)
(* the accelerometer in a loop, rotates screen and touchscreen by running   *)
(* two programs, and is controlled by SIGUSR1, whose handler interrupts the *)
(* loop between any two of its steps and may itself call rotate_to.         *)
(*                                                                          *)
(* rotate_to is therefore active in up to two frames at once, "main" and    *)
(* "handler".  They share screen_orientation and, through wait(), the set   *)
(* of children of the process.  The handler runs to its end before the loop *)
(* goes on, and SIGUSR1 is blocked meanwhile; one further signal stays      *)
(* pending (signals are not queued).                                        *)
(*                                                                          *)
(* One acquisition (prepare_output) is one step here; module Acquisition    *)
(* takes it apart.                                                          *)
(****************************************************************************)
EXTENDS Integers, FiniteSets

CONSTANTS
    Pids,         \* process identifiers fork() has to give
    Postures,     \* positions of the tablet the sensor can report
    ErrCodes,     \* error numbers, other than -1, prepare_output may return
    Faults,       \* the faults the environment may produce (FaultKinds)
    MaxFaults,    \* bound: number of faults
    MaxSignals,   \* bound: number of SIGUSR1 sent
    MaxMoves      \* bound: number of times the tablet is turned

FaultKinds == {"lost", "errno", "mismatch", "stop", "count", "fork", "exec"}

\* enum OrientationPositions
INVALID == -1
FLAT    == 0
TOP     == 1
RIGHT   == 2
BOTTOM  == 3
LEFT    == 4

Edges == {TOP, RIGHT, BOTTOM, LEFT}
Codes == {i \in Int : i <= LEFT}    \* what an OrientationPositions may hold

\* Two children at a time are the most there can be (ChildrenAwaited).
ASSUME PidsAssumption == IsFiniteSet(Pids) /\ Cardinality(Pids) >= 2
ASSUME PosturesAssumption == Postures \subseteq {FLAT} \cup Edges
ASSUME ErrCodesAssumption == ErrCodes \subseteq Int /\ \A c \in ErrCodes : c < INVALID
ASSUME FaultsAssumption == Faults \subseteq FaultKinds
ASSUME BoundsAssumption ==
    MaxFaults \in Nat /\ MaxSignals \in Nat /\ MaxMoves \in Nat

VARIABLES
    pc,           \* where main() is
    orientation,  \* main's local: the last result of prepare_output
    previous,     \* previous_orientation
    screen,       \* screen_orientation
    lock,         \* orientation_lock
    recent,       \* a toggling signal came less than two seconds ago
                  \*   (now <= last_sigusr_time + 1)
    frame,        \* the two possible activations of rotate_to
    child,        \* the process table entries of the daemon's children
    pending,      \* SIGUSR1 is pending
    posture,      \* how the tablet is held
    display,      \* the orientation the screen really has
    touch,        \* the orientation the touchscreen's matrix matches
    touchScreen,  \* touchScreenName is not empty
    signals, moves, faults,   \* counters for the bounds
    \* History, read by the properties only:
    readings,     \* the last two orientations prepare_output returned
    signalled,    \* the handler ran since the last of them
    mishaps       \* "overlap": the handler called rotate_to inside main's;
                  \* "fork": a fork failed; "clone": a child went on as a daemon

mainVars == <<pc, orientation, previous>>
sigVars  == <<lock, recent, pending>>
envVars  == <<posture, signals, moves, faults>>
outVars  == <<display, touch, touchScreen>>
history  == <<readings, signalled, mishaps>>
vars == <<mainVars, screen, sigVars, frame, child, envVars, outVars, history>>

Frames == {"main", "handler"}
Stages == {"idle", "set", "forkScreen", "waitScreen", "forkTouch", "waitTouch"}
Labels == {"find", "poll", "woken", "testStable", "testTarget", "rotating",
           "save", "sleep", "backoff", "exited"}
Kinds  == {"none", "xrandr", "xinput", "clone"}

IdleFrame == [stage |-> "idle", orient |-> INVALID]
NoChild   == [kind |-> "none", orient |-> INVALID, done |-> FALSE]
Children  == {p \in Pids : child[p] # NoChild}

Init ==
    /\ pc = "find"
    /\ orientation = FLAT
    /\ previous = INVALID
    /\ screen = INVALID
    /\ lock = FALSE
    /\ recent = FALSE
    /\ frame = [f \in Frames |-> IdleFrame]
    /\ child = [p \in Pids |-> NoChild]
    /\ pending = FALSE
    /\ posture \in Postures
    /\ display = TOP
    /\ touch = TOP
    /\ touchScreen \in BOOLEAN
    /\ signals = 0 /\ moves = 0 /\ faults = 0
    /\ readings = <<INVALID, INVALID>>
    /\ signalled = FALSE
    /\ mishaps = {}

-----------------------------------------------------------------------------
\* The main loop.

MainAt(label) == pc = label /\ frame["handler"] = IdleFrame

Fault(kind) ==
    /\ kind \in Faults
    /\ faults < MaxFaults
    /\ faults' = faults + 1

\* error_restart: the device and its trigger are found again, the channel
\* array is rebuilt; nothing of the loop's own state is reset.
FindDevice ==
    /\ MainAt("find")
    /\ pc' = "poll"
    /\ UNCHANGED <<orientation, previous, screen, sigVars, frame, child,
                   envVars, outVars, history>>

\* What every way out of the process does to the model: no frame runs on.
ExitProcess ==
    /\ pc' = "exited"
    /\ frame' = [f \in Frames |-> IdleFrame]
    /\ UNCHANGED <<orientation, previous, screen, sigVars, child, posture,
                   signals, moves, outVars, history>>

DeviceLost == MainAt("find") /\ Fault("lost") /\ ExitProcess

\* --count reached: main returns.
CountReached == MainAt("sleep") /\ Fault("count") /\ ExitProcess

\* SIGINT or SIGHUP, in the loop or inside the SIGUSR1 handler.
Interrupted == pc # "exited" /\ Fault("stop") /\ ExitProcess

\* prepare_output returned something other than -1.
Result(r) ==
    /\ orientation' = r
    /\ readings' = <<readings[2], r>>
    /\ signalled' = FALSE
    /\ pc' = "testStable"
    /\ UNCHANGED <<previous, screen, sigVars, frame, child, posture, signals,
                   moves, outVars, mishaps>>

\* poll() saw data and the read got the scan; a poll that a signal woke is
\* not restarted, and the read that follows it finds data or fails, which
\* process_scan turns into FLAT (no scan at all).
Acquire ==
    \/ MainAt("poll") /\ Result(posture) /\ UNCHANGED faults
    \/ MainAt("woken") /\ (\E r \in {posture, FLAT} : Result(r)) /\ UNCHANGED faults

\* An error return that is not -1 is taken for an orientation.
AcquireErrno ==
    MainAt("poll") /\ Fault("errno") /\ \E r \in ErrCodes : Result(r)

\* A verified write read back something else: -1, sleep and start again.
AcquireMismatch ==
    /\ MainAt("poll")
    /\ Fault("mismatch")
    /\ orientation' = FLAT
    /\ pc' = "backoff"
    /\ UNCHANGED <<previous, screen, sigVars, frame, child, posture, signals,
                   moves, outVars, history>>

Backoff ==
    /\ MainAt("backoff")
    /\ pc' = "find"
    /\ UNCHANGED <<orientation, previous, screen, sigVars, frame, child,
                   envVars, outVars, history>>

\* Mutant of TestStable: an edge needs to be up only once.
TestOnce ==
    /\ MainAt("testStable")
    /\ pc' = "testTarget"
    /\ UNCHANGED <<orientation, previous, screen, sigVars, frame, child,
                   envVars, outVars, history>>

\* The condition of the rotation, read in two steps: a signal may come between.
TestStable ==
    /\ MainAt("testStable")
    /\ pc' = IF previous = orientation THEN "testTarget" ELSE "save"
    /\ UNCHANGED <<orientation, previous, screen, sigVars, frame, child,
                   envVars, outVars, history>>

WantsRotation == orientation # screen /\ orientation # FLAT /\ ~lock

TestTarget ==
    /\ MainAt("testTarget")
    /\ \/ /\ WantsRotation
          /\ pc' = "rotating"
          /\ frame' = [frame EXCEPT !["main"] =
                          [stage |-> "set", orient |-> orientation]]
       \/ ~WantsRotation /\ pc' = "save" /\ UNCHANGED frame
    /\ UNCHANGED <<orientation, previous, screen, sigVars, child, envVars,
                   outVars, history>>

\* Mutant of Save: the reading is not remembered.
SaveForgotten ==
    /\ MainAt("save")
    /\ pc' = "sleep"
    /\ UNCHANGED <<orientation, previous, screen, sigVars, frame, child,
                   envVars, outVars, history>>

Save ==
    /\ MainAt("save")
    /\ previous' = orientation
    /\ pc' = "sleep"
    /\ UNCHANGED <<orientation, screen, sigVars, frame, child, envVars,
                   outVars, history>>

Sleep ==
    /\ MainAt("sleep")
    /\ pc' = "poll"
    /\ UNCHANGED <<orientation, previous, screen, sigVars, frame, child,
                   envVars, outVars, history>>

-----------------------------------------------------------------------------
\* rotate_to, in frame f.

Running(f, stage) ==
    /\ pc # "exited"
    /\ frame[f].stage = stage
    /\ f = "main" => frame["handler"] = IdleFrame

GoTo(f, stage) == frame' = [frame EXCEPT ![f].stage = stage]

\* Mutant of SetScreen: screen_orientation takes the reading, not the argument.
ScreenFromReading(f) ==
    /\ Running(f, "set")
    /\ screen' = orientation
    /\ GoTo(f, "forkScreen")
    /\ UNCHANGED <<mainVars, sigVars, child, envVars, outVars, history>>

SetScreen(f) ==
    /\ Running(f, "set")
    /\ screen' = frame[f].orient
    /\ GoTo(f, "forkScreen")
    /\ UNCHANGED <<mainVars, sigVars, child, envVars, outVars, history>>

\* A child of this kind, in a free entry of the process table.
Spawn(f, kind) ==
    \E p \in Pids \ Children :
        child' = [child EXCEPT ![p] =
            [kind |-> kind, orient |-> frame[f].orient, done |-> FALSE]]

\* fork() and, in the child, exec().  A child whose exec fails, or that has no
\* exec to do (kind "clone"), returns from rotate_to and goes on as a second
\* daemon.
Fork(f, kind) ==
    \/ /\ Spawn(f, kind)
       /\ mishaps' = mishaps \cup ({kind} \cap {"clone"})
       /\ UNCHANGED faults
    \/ Fault("exec") /\ Spawn(f, "clone") /\ mishaps' = mishaps \cup {"clone"}
    \/ Fault("fork") /\ UNCHANGED child /\ mishaps' = mishaps \cup {"fork"}

ForkScreen(f) ==
    /\ Running(f, "forkScreen")
    /\ Fork(f, "xrandr")
    /\ GoTo(f, "waitScreen")
    /\ UNCHANGED <<mainVars, screen, sigVars, posture, signals, moves, outVars,
                   readings, signalled>>

\* Mutant of Wait: without a child it blocks instead of failing.
WaitForAny ==
    \E p \in Children :
        child[p].done /\ child' = [child EXCEPT ![p] = NoChild]

\* wait(): reaps whichever child has ended; with no child it fails at once.
Wait ==
    \/ \E p \in Children :
          child[p].done /\ child' = [child EXCEPT ![p] = NoChild]
    \/ Children = {} /\ UNCHANGED child

WaitScreen(f) ==
    /\ Running(f, "waitScreen")
    /\ Wait
    /\ GoTo(f, "forkTouch")
    /\ UNCHANGED <<mainVars, screen, sigVars, envVars, outVars, history>>

\* Without a touchscreen there is no second child, yet the wait is made.
ForkTouch(f) ==
    /\ Running(f, "forkTouch")
    /\ IF touchScreen
       THEN Fork(f, IF frame[f].orient \in Edges THEN "xinput" ELSE "clone")
       ELSE UNCHANGED <<child, mishaps, faults>>
    /\ GoTo(f, "waitTouch")
    /\ UNCHANGED <<mainVars, screen, sigVars, posture, signals, moves, outVars,
                   readings, signalled>>

\* Mutant of WaitTouch: the second child is left to itself.
SkipWaitTouch(f) ==
    /\ Running(f, "waitTouch")
    /\ frame' = [frame EXCEPT ![f] = IdleFrame]
    /\ pc' = IF f = "main" THEN "save" ELSE pc
    /\ UNCHANGED <<orientation, previous, screen, sigVars, child, envVars,
                   outVars, history>>

WaitTouch(f) ==
    /\ Running(f, "waitTouch")
    /\ Wait
    /\ frame' = [frame EXCEPT ![f] = IdleFrame]
    /\ pc' = IF f = "main" THEN "save" ELSE pc
    /\ UNCHANGED <<orientation, previous, screen, sigVars, envVars, outVars,
                   history>>

RotateTo(f) ==
    SetScreen(f) \/ ForkScreen(f) \/ WaitScreen(f) \/ ForkTouch(f) \/ WaitTouch(f)

-----------------------------------------------------------------------------
\* SIGUSR1.

\* Mutant of RotateLeft: LEFT is not followed by TOP.
NextCode(o) == o + 1

RotateLeft(o) == IF o = LEFT THEN TOP ELSE o + 1

SendSignal ==
    /\ pc # "exited"
    /\ signals < MaxSignals
    /\ signals' = signals + 1
    /\ pending' = TRUE
    /\ UNCHANGED <<mainVars, screen, lock, recent, frame, child, posture,
                   moves, faults, outVars, history>>

\* A quick second signal: suspend, and rotate by hand.
SecondSignal ==
    /\ recent
    /\ lock' = TRUE
    /\ recent' = FALSE
    /\ frame' = [frame EXCEPT !["handler"] =
                    [stage |-> "set", orient |-> RotateLeft(screen)]]
    /\ mishaps' = IF frame["main"] = IdleFrame THEN mishaps
                                              ELSE mishaps \cup {"overlap"}

\* Any other signal suspends or resumes.
ToggleSignal ==
    /\ ~recent
    /\ lock' = ~lock
    /\ recent' = TRUE
    /\ UNCHANGED <<frame, mishaps>>

HandleSignal ==
    /\ pc # "exited"
    /\ pending
    /\ frame["handler"] = IdleFrame
    /\ pending' = FALSE
    /\ previous' = screen
    /\ signalled' = TRUE
    /\ SecondSignal \/ ToggleSignal
    /\ \/ UNCHANGED pc
       \/ pc = "poll" /\ pc' = "woken"
    /\ UNCHANGED <<orientation, screen, child, envVars, outVars, readings>>

TimePasses ==
    /\ recent
    /\ recent' = FALSE
    /\ UNCHANGED <<mainVars, screen, lock, pending, frame, child, envVars,
                   outVars, history>>

-----------------------------------------------------------------------------
\* The children and the user.

Finish(p) == child' = [child EXCEPT ![p].done = TRUE]

\* xrandr or xinput does its work and ends; "flat" and "invalid" are no
\* orientations xrandr knows.
ProgramRuns(p) ==
    /\ child[p].kind \in {"xrandr", "xinput"}
    /\ ~child[p].done
    /\ Finish(p)
    /\ display' = IF child[p].kind = "xrandr" /\ child[p].orient \in Edges
                  THEN child[p].orient ELSE display
    /\ touch' = IF child[p].kind = "xinput" THEN child[p].orient ELSE touch
    /\ UNCHANGED <<touchScreen, mainVars, screen, sigVars, frame, envVars, history>>

\* A clone is a daemon of its own: it may rotate, and need never end.
CloneRuns(p) ==
    /\ child[p].kind = "clone"
    /\ ~child[p].done
    /\ \/ Finish(p) /\ UNCHANGED outVars
       \/ /\ \E d \in Edges, t \in {touch} \cup Edges : display' = d /\ touch' = t
          /\ UNCHANGED <<child, touchScreen>>
    /\ UNCHANGED <<mainVars, screen, sigVars, frame, envVars, history>>

Turn ==
    /\ moves < MaxMoves
    /\ moves' = moves + 1
    /\ posture' \in Postures \ {posture}
    /\ UNCHANGED <<mainVars, screen, sigVars, frame, child, signals, faults,
                   outVars, history>>

-----------------------------------------------------------------------------
MainLoop ==
    \/ FindDevice \/ Acquire \/ Backoff
    \/ TestStable \/ TestTarget \/ Save \/ Sleep

Trouble == DeviceLost \/ CountReached \/ Interrupted \/ AcquireErrno \/ AcquireMismatch

Next ==
    \/ MainLoop
    \/ Trouble
    \/ \E f \in Frames : RotateTo(f)
    \/ SendSignal \/ HandleSignal \/ TimePasses
    \/ \E p \in Pids : ProgramRuns(p) \/ CloneRuns(p)
    \/ Turn

Spec == Init /\ [][Next]_vars

\* The scheduler runs the daemon and the programs it starts, the kernel
\* delivers a pending signal, and the sensor keeps producing samples.
\* Nothing is assumed of clones, of the user, of the clock or of faults.
Fairness ==
    /\ WF_vars(MainLoop)
    /\ WF_vars(HandleSignal)
    /\ \A f \in Frames : WF_vars(RotateTo(f))
    /\ \A p \in Pids : WF_vars(ProgramRuns(p))

FairSpec == Spec /\ Fairness

-----------------------------------------------------------------------------
\* Properties.

\* Every variable holds a value of its type.
TypeOK ==
    /\ pc \in Labels
    /\ orientation \in Codes /\ previous \in Codes /\ screen \in Codes
    /\ lock \in BOOLEAN /\ recent \in BOOLEAN /\ pending \in BOOLEAN
    /\ frame \in [Frames -> [stage : Stages, orient : Codes]]
    /\ child \in [Pids -> [kind : Kinds, orient : Codes, done : BOOLEAN]]
    /\ posture \in {FLAT} \cup Edges
    /\ display \in Codes /\ touch \in Codes /\ touchScreen \in BOOLEAN
    /\ signals \in Nat /\ moves \in Nat /\ faults \in Nat
    /\ readings \in Codes \X Codes
    /\ signalled \in BOOLEAN /\ mishaps \subseteq {"overlap", "fork", "clone"}

\* The waits that frame f still makes for children it may have started.
Owed(f) == IF frame[f].stage \in {"waitScreen", "waitTouch"} THEN 1 ELSE 0

\* However the two frames take each other's children from wait(), there are
\* never more unreaped children than calls of wait() under way: a daemon that
\* is in neither rotate_to has left no zombie (rotate_to's fork/wait pairs).
ChildrenAwaited ==
    pc # "exited" => Cardinality(Children) <= Owed("main") + Owed("handler")

\* When no rotation is under way, the screen and the touchscreen are turned to
\* screen_orientation, if the handler never rotated inside a rotation and every
\* child was started as it should be.
Agreement ==
    (/\ pc # "exited"
     /\ \A f \in Frames : frame[f] = IdleFrame
     /\ screen \in Edges
     /\ mishaps = {})
    => display = screen /\ (touchScreen => touch = screen)

\* The loop starts a rotation only to a new orientation, other than FLAT, that
\* two readings in a row gave, and only when rotation is not suspended; the
\* exception is a signal handled after the later reading.
AutoRotationJustified ==
    [][ (frame["main"] = IdleFrame /\ frame'["main"] # IdleFrame) =>
          \/ signalled
          \/ /\ readings = <<orientation, orientation>>
             /\ orientation \notin {screen, FLAT, INVALID}
             /\ ~lock ]_vars

\* A rotation ends: wait() stealing the other frame's child, or finding none,
\* blocks neither frame, unless a second daemon was started.
RotationCompletes ==
    \A f \in Frames :
        frame[f] # IdleFrame ~> frame[f] = IdleFrame \/ "clone" \in mishaps

\* The tablet stays on edge e, and the daemon runs with rotation not suspended.
HeldOn(e) == posture = e /\ ~lock /\ pc # "exited"

\* A tablet that stays on an edge is in the end shown that way up, unless the
\* handler once rotated inside a rotation or a child was not started properly.
StableEdgeShown ==
    \A e \in Edges :
        <>[](HeldOn(e) /\ mishaps = {}) => <>[](display = e)

\* What the comment at the head of orientation.c says, whatever the user does
\* (no fault excuses it).
EdgeUpIsShown ==
    \A e \in Edges : <>[]HeldOn(e) => <>[](display = e)

\* The comment speaks of edges: the loop rotates to an edge only.
AutoRotatesToEdge ==
    frame["main"] # IdleFrame => frame["main"].orient \in Edges
=============================================================================
