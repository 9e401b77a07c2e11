--------------------------- MODULE IdeapadEC_proofs ---------------------------
(****************************************************************************)
(* Proofs about IdeapadEC, for any threads, cells and values: types, and    *)
(* that a call nobody crossed gets its own answer.                          *)
(****************************************************************************)
EXTENDS IdeapadEC, TLAPS

\* The command of thread t's call.
Own(t) == [kind |-> op[t].kind, cell |-> op[t].cell]

\* While its call is under way, t is the only caller, and the registers hold what
\* it put there or what the controller made of that.
Clear == command = NoCommand /\ running = NoCommand

Working(t) ==
    \/ command = Own(t) /\ running \in {NoCommand, Own(t)}
    \/ /\ Clear
       /\ op[t].kind = "read" => data \in seen[t]
       /\ op[t].kind = "write" => stored[op[t].cell] = op[t].value

CallInv ==
    \A t \in Threads :
        /\ pc[t] = "idle" <=> op[t].kind = "none"
        /\ pc[t] # "idle" => op[t].cell \in Cells
        /\ pc[t] = "data" => op[t].kind = "write"
        /\ pc[t] = "fetch" => op[t].kind = "read"
        /\ op[t].kind = "write" => op[t].value \in Values /\ op[t].cell \notin Switches
        /\ op[t].kind = "read" => stored[op[t].cell] \in seen[t]

AloneInv ==
    \A t \in Threads : alone[t] =>
        /\ pc[t] # "idle"
        /\ \A u \in Threads \ {t} : pc[u] = "idle"
        /\ pc[t] \in {"data", "command"} => Clear
        /\ op[t].kind = "write" /\ pc[t] \in {"command", "poll"} => data = op[t].value
        /\ pc[t] = "poll" => Working(t)
        /\ pc[t] = "fetch" => Clear /\ data \in seen[t]
        /\ pc[t] = "done" => Clear

Inv == TypeOK /\ CallInv /\ AloneInv /\ ReadRight /\ WriteRight
-----------------------------------------------------------------------------
LEMMA InitInv == Init => Inv
  BY CellsAssumption, ValuesAssumption
  DEF Init, Inv, TypeOK, CallInv, AloneInv, ReadRight, WriteRight, NoOp, NoCommand,
      Commands

\* The caller's steps, one action at a time.
LEMMA CallReadInv ==
    ASSUME Inv, NEW t \in Threads, CallRead(t)
    PROVE  Inv'
<1> USE DEF Inv, TypeOK, CallInv, AloneInv, ReadRight, WriteRight, Clear, Working,
            Own, ec, Step
<1>1. PICK c \in Cells :
         /\ Call(t, "command", [kind |-> "read", cell |-> c, value |-> None])
         /\ seen' = [seen EXCEPT ![t] = {stored[c]}]
  BY DEF CallRead
<1>2. stored[c] \in Values  OBVIOUS
<1>3. TypeOK'  BY <1>1, <1>2 DEF Call
<1>4. CallInv'  BY <1>1 DEF Call
<1>5. AloneInv'
  BY <1>1 DEF Call, Quiet
<1>6. ReadRight' /\ WriteRight'  BY <1>1 DEF Call
<1> QED  BY <1>3, <1>4, <1>5, <1>6

LEMMA CallWriteInv ==
    ASSUME Inv, NEW t \in Threads, CallWrite(t)
    PROVE  Inv'
<1> USE DEF Inv, TypeOK, CallInv, AloneInv, ReadRight, WriteRight, Clear, Working,
            Own, ec, Step
<1>1. PICK c \in Cells \ Switches, v \in Values :
         /\ Call(t, "data", [kind |-> "write", cell |-> c, value |-> v])
         /\ UNCHANGED seen
  BY DEF CallWrite
<1>2. TypeOK'  BY <1>1 DEF Call
<1>3. CallInv'  BY <1>1 DEF Call
<1>4. AloneInv'  BY <1>1 DEF Call, Quiet
<1>5. ReadRight' /\ WriteRight'  BY <1>1 DEF Call
<1> QED  BY <1>2, <1>3, <1>4, <1>5

LEMMA ThreadInv ==
    ASSUME Inv, NEW t \in Threads, MethodFails(t) \/ Proceed(t)
    PROVE  Inv'
<1> USE DEF Inv, TypeOK, CallInv, AloneInv, ReadRight, WriteRight, Clear, Working,
            Own, ec, Step, Commands, NoCommand
<1>1. CASE MethodFails(t)  BY <1>1 DEF MethodFails
<1>2. CASE PutData(t)      BY <1>2 DEF PutData
<1>3. CASE PutCommand(t)   BY <1>3 DEF PutCommand
<1>4. CASE Poll(t)         BY <1>4 DEF Poll
<1>5. CASE Timeout(t)      BY <1>5 DEF Timeout
<1>6. CASE Fetch(t)        BY <1>6 DEF Fetch
<1>7. CASE Return(t)       BY <1>7 DEF Return, NoOp
<1> QED  BY <1>1, <1>2, <1>3, <1>4, <1>5, <1>6, <1>7 DEF Proceed

-----------------------------------------------------------------------------
\* The controller's steps.
LEMMA ControllerInv ==
    ASSUME Inv, Take \/ Finish \/ Flip \/ UNCHANGED vars
    PROVE  Inv'
<1> USE CellsAssumption
        DEF Inv, TypeOK, CallInv, AloneInv, ReadRight, WriteRight, Clear, Working,
            Own, ec, thread, Commands, NoCommand
<1>1. CASE Take  BY <1>1 DEF Take
<1>2. CASE Finish /\ running.kind = "read"  BY <1>2 DEF Finish
<1>3. CASE Finish /\ running.kind = "write"
  <2>1. running.cell \in Cells  BY <1>3
  <2>2. TypeOK'  BY <1>3, <2>1 DEF Finish, Store
  <2>3. CallInv'  BY <1>3, <2>1 DEF Finish, Store
  <2>4. AloneInv'  BY <1>3, <2>1 DEF Finish, Store
  <2>5. ReadRight' /\ WriteRight'  BY <1>3, <2>1 DEF Finish, Store
  <2> QED  BY <2>2, <2>3, <2>4, <2>5
<1>4. CASE Flip
  <2>1. PICK c \in Switches, v \in Values : Store(c, v)  BY <1>4 DEF Flip
  <2>2. TypeOK'  BY <1>4, <2>1 DEF Flip, Store
  <2>3. CallInv'  BY <1>4, <2>1 DEF Flip, Store
  <2>4. AloneInv'  BY <1>4, <2>1 DEF Flip, Store
  <2>5. ReadRight' /\ WriteRight'  BY <1>4, <2>1 DEF Flip, Store
  <2> QED  BY <2>2, <2>3, <2>4, <2>5
<1>5. CASE UNCHANGED vars  BY <1>5 DEF vars
<1> QED  BY <1>1, <1>2, <1>3, <1>4, <1>5 DEF Finish

LEMMA Invariance == Spec => []Inv
<1>1. Inv /\ [Next]_vars => Inv'
  BY CallReadInv, CallWriteInv, ThreadInv, ControllerInv DEF Next
<1> QED  BY InitInv, <1>1, PTL DEF Spec

-----------------------------------------------------------------------------
\* Every variable keeps its type.
THEOREM Typing == Spec => []TypeOK
<1>1. Inv => TypeOK  BY DEF Inv
<1> QED  BY Invariance, <1>1, PTL

\* A read that no other call and no old command crossed returns a value its cell
\* had, for any number of threads.
THEOREM ReadsOwnAnswer == Spec => []ReadRight
<1>1. Inv => ReadRight  BY DEF Inv
<1> QED  BY Invariance, <1>1, PTL

\* A write that nobody crossed and that succeeded was executed.
THEOREM WritesTakeEffect == Spec => []WriteRight
<1>1. Inv => WriteRight  BY DEF Inv
<1> QED  BY Invariance, <1>1, PTL
=============================================================================
