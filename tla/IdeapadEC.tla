------------------------------- MODULE IdeapadEC -------------------------------
(****************************************************************************)
(* The mailbox of the embedded controller as ideapad-laptop uses it         *)
(* (yoga_laptop/ideapad-laptop.c): a command register and a data register,  *)
(* reached by the ACPI methods VPCW and VPCR.  read_ec_data and             *)
(* write_ec_cmd take several calls of them each, poll for at most 100 ms,   *)
(* and hold no lock, although sysfs files, rfkill, the backlight, the input *)
(* device and ACPI notifications call them from threads of their own.       *)
(*                                                                          *)
(* The controller (external) takes a command, executes it and clears the    *)
(* register.  It may be slow: a call that timed out leaves its command      *)
(* behind, to be executed while the next call is under way.                 *)
(****************************************************************************)
CONSTANTS
    Threads,   \* callers
    Cells,     \* what the controller keeps: brightness, fan, camera ...
    Switches,  \* the cells it changes by itself, and nobody writes
    Values,    \* what a cell may hold
    None       \* no cell, no value

ASSUME CellsAssumption == Switches \subseteq Cells /\ None \notin Cells
ASSUME ValuesAssumption == None \notin Values

VARIABLES
    pc,        \* where each thread's call is
    op,        \* what its call is for
    result,    \* *data
    alone,     \* history: no other call, nor an old command, crossed this one
    seen,      \* history: the values the cell to be read had during the call
    command,   \* the command register: 0 when there is nothing to do
    data,      \* the data register
    running,   \* the command the controller is executing
    stored     \* what it keeps

vars == <<pc, op, result, alone, seen, command, data, running, stored>>
ec   == <<command, data, running, stored>>

Commands  == [kind : {"read", "write"}, cell : Cells]
NoCommand == [kind |-> "none", cell |-> None]
NoOp      == [kind |-> "none", cell |-> None, value |-> None]

Init ==
    /\ pc = [t \in Threads |-> "idle"]
    /\ op = [t \in Threads |-> NoOp]
    /\ result = [t \in Threads |-> None]
    /\ alone = [t \in Threads |-> FALSE]
    /\ seen = [t \in Threads |-> {}]
    /\ command = NoCommand
    /\ data \in Values
    /\ running = NoCommand
    /\ stored \in [Cells -> Values]

-----------------------------------------------------------------------------
\* read_ec_data and write_ec_cmd, by thread t.

Step(t, from, to) == pc[t] = from /\ pc' = [pc EXCEPT ![t] = to]

Quiet(t) ==
    /\ command = NoCommand /\ running = NoCommand
    /\ \A u \in Threads \ {t} : pc[u] = "idle"

Call(t, first, what) ==
    /\ Step(t, "idle", first)
    /\ op' = [op EXCEPT ![t] = what]
    /\ alone' = [u \in Threads |-> u = t /\ Quiet(t)]
    /\ UNCHANGED <<result, ec>>

CallRead(t) ==
    \E c \in Cells :
        /\ Call(t, "command", [kind |-> "read", cell |-> c, value |-> None])
        /\ seen' = [seen EXCEPT ![t] = {stored[c]}]

\* Mutant of CallWrite: the data register is not written.
CommandOnly(t) ==
    \E c \in Cells \ Switches, v \in Values :
        /\ Call(t, "command", [kind |-> "write", cell |-> c, value |-> v])
        /\ UNCHANGED seen

CallWrite(t) ==
    \E c \in Cells \ Switches, v \in Values :
        /\ Call(t, "data", [kind |-> "write", cell |-> c, value |-> v])
        /\ UNCHANGED seen

\* An ACPI method fails, and the call with it.
MethodFails(t) ==
    /\ pc[t] \in {"data", "command", "poll", "fetch"}
    /\ pc' = [pc EXCEPT ![t] = "failed"]
    /\ UNCHANGED <<op, result, alone, seen, ec>>

PutData(t) ==
    /\ Step(t, "data", "command")
    /\ data' = op[t].value
    /\ UNCHANGED <<op, result, alone, seen, command, running, stored>>

PutCommand(t) ==
    /\ Step(t, "command", "poll")
    /\ command' = [kind |-> op[t].kind, cell |-> op[t].cell]
    /\ UNCHANGED <<op, result, alone, seen, data, running, stored>>

\* Mutant of Poll: what VPCR(1) returned is not looked at.
PollOnce(t) ==
    /\ Step(t, "poll", IF op[t].kind = "read" THEN "fetch" ELSE "done")
    /\ UNCHANGED <<op, result, alone, seen, ec>>

\* VPCR(1), again and again until it is 0.
Poll(t) ==
    /\ command = NoCommand
    /\ Step(t, "poll", IF op[t].kind = "read" THEN "fetch" ELSE "done")
    /\ UNCHANGED <<op, result, alone, seen, ec>>

\* Mutant of Timeout: the loop goes on as long as the controller is busy.
PollForever(t) ==
    /\ command = NoCommand
    /\ Step(t, "poll", "failed")
    /\ UNCHANGED <<op, result, alone, seen, ec>>

\* IDEAPAD_EC_TIMEOUT is over, perhaps just before the answer.
Timeout(t) ==
    /\ Step(t, "poll", "failed")
    /\ UNCHANGED <<op, result, alone, seen, ec>>

\* Mutant of Fetch: the register that was polled is read again.
FetchCommand(t) ==
    /\ Step(t, "fetch", "done")
    /\ result' = [result EXCEPT ![t] = command.kind]
    /\ UNCHANGED <<op, alone, seen, ec>>

Fetch(t) ==
    /\ Step(t, "fetch", "done")
    /\ result' = [result EXCEPT ![t] = data]
    /\ UNCHANGED <<op, alone, seen, ec>>

Return(t) ==
    /\ pc[t] \in {"done", "failed"}
    /\ pc' = [pc EXCEPT ![t] = "idle"]
    /\ op' = [op EXCEPT ![t] = NoOp]
    /\ result' = [result EXCEPT ![t] = None]
    /\ seen' = [seen EXCEPT ![t] = {}]
    /\ alone' = [alone EXCEPT ![t] = FALSE]
    /\ UNCHANGED ec

-----------------------------------------------------------------------------
\* The controller.

thread == <<pc, op, result, alone>>

Store(c, v) ==
    /\ stored' = [stored EXCEPT ![c] = v]
    /\ seen' = [t \in Threads |->
                  IF op[t].kind = "read" /\ op[t].cell = c THEN seen[t] \cup {v}
                  ELSE seen[t]]

Take ==
    /\ running = NoCommand
    /\ command # NoCommand
    /\ running' = command
    /\ UNCHANGED <<thread, seen, command, data, stored>>

\* A command written meanwhile is lost, or is taken next.
Finish ==
    /\ running # NoCommand
    /\ running' = NoCommand
    /\ command' \in {NoCommand} \cup ({command} \ {running})
    /\ \/ /\ running.kind = "read"
          /\ data' = stored[running.cell]
          /\ UNCHANGED <<stored, seen>>
       \/ /\ running.kind = "write"
          /\ Store(running.cell, data)
          /\ UNCHANGED data
    /\ UNCHANGED thread

\* Somebody turns a switch of the machine.
Flip ==
    /\ \E c \in Switches, v \in Values : Store(c, v)
    /\ UNCHANGED <<thread, command, data, running>>

-----------------------------------------------------------------------------
Proceed(t) ==
    \/ PutData(t) \/ PutCommand(t) \/ Poll(t) \/ Timeout(t) \/ Fetch(t) \/ Return(t)

Next ==
    \/ \E t \in Threads : CallRead(t) \/ CallWrite(t) \/ MethodFails(t) \/ Proceed(t)
    \/ Take \/ Finish \/ Flip

Spec == Init /\ [][Next]_vars

\* Threads run and time passes; the controller may never answer.
FairSpec == Spec /\ \A t \in Threads : WF_vars(Proceed(t))

-----------------------------------------------------------------------------
\* Properties.

\* Every variable holds a value of its type.
TypeOK ==
    /\ pc \in [Threads -> {"idle", "data", "command", "poll", "fetch", "done", "failed"}]
    /\ op \in [Threads -> [kind : {"none", "read", "write"}, cell : Cells \cup {None},
                           value : Values \cup {None}]]
    /\ result \in [Threads -> Values \cup {None}]
    /\ alone \in [Threads -> BOOLEAN]
    /\ seen \in [Threads -> SUBSET Values]
    /\ command \in Commands \cup {NoCommand}
    /\ data \in Values
    /\ running \in Commands \cup {NoCommand}
    /\ stored \in [Cells -> Values]

\* A read that succeeds returns a value its cell had during the call, as long as
\* no other call and no command left by a timeout crossed it.
ReadRight ==
    \A t \in Threads :
        (pc[t] = "done" /\ op[t].kind = "read" /\ alone[t]) => result[t] \in seen[t]

\* A write that succeeds was executed, under the same condition.
WriteRight ==
    \A t \in Threads :
        (pc[t] = "done" /\ op[t].kind = "write" /\ alone[t])
            => stored[op[t].cell] = op[t].value

\* Every call returns, even if the controller never answers.
CallsReturn == \A t \in Threads : pc[t] # "idle" ~> pc[t] = "idle"
=============================================================================
