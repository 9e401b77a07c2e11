-------------------------- MODULE SensorDriver_proofs --------------------------
(****************************************************************************)
(* Proofs about SensorDriver, for any drivers, usages and reports: types,   *)
(* the hub's count of users, that a callback is not used after its driver's *)
(* removal, that scans are pushed for sensors that are on, and that a       *)
(* driver leaves nothing behind.                                            *)
(****************************************************************************)
EXTENDS SensorDriver, SequenceTheorems, FiniteSetTheorems, TLAPS

-----------------------------------------------------------------------------
\* What a driver holds, and what its trigger may be doing, at each step.
DriverInv ==
    \A d \in Drivers :
        /\ d \in listed => pc[d] = "bound"
        /\ switch[d] # "off" => pc[d] \in {"callback", "bound", "unregister", "disable"}
        /\ "device" \in owned[d] => pc[d] \in {"callback", "bound", "unregister"}
        /\ data_ready[d] =>
              switch[d] \in {"power_on", "report_on", "on", "close", "ready_off"}

HoldsInv ==
    \A d \in Drivers \ Confused :
        /\ pc[d] = "unbound" => owned[d] = {}
        /\ pc[d] = "parse" => owned[d] \subseteq {"copy"}
        /\ pc[d] = "buffer" => owned[d] \subseteq {"channels"}
        /\ pc[d] = "free" => owned[d] \subseteq {"copy", "channels"}
        /\ pc[d] \in {"trigger", "unbuffer"} => owned[d] \subseteq {"channels", "buffer"}
        /\ pc[d] \in {"register", "disable", "untrigger"} =>
              owned[d] \subseteq {"channels", "buffer", "trigger"}
        /\ pc[d] \in {"callback", "bound", "unregister"} =>
              owned[d] \subseteq {"channels", "buffer", "trigger", "device"}
        /\ left[d] \subseteq {"copy"}

\* The callback an event took is a bound driver's, and its data_ready was tested.
EventInv ==
    /\ event.at \in {"capture", "send", "push"} => event.callback # Nobody
    /\ event.at = "capture" => event.fields # << >>
    /\ CallbackAlive
    /\ (event.at = "push" /\ event.missed = {}) => data_ready[event.callback]

Inv == TypeOK /\ DriverInv /\ HoldsInv /\ EventInv

LEMMA InitInv == Init => Inv /\ OpenWhileUsed
<1> SUFFICES ASSUME Init PROVE Inv /\ OpenWhileUsed  OBVIOUS
<1>1. << >> \in Seq(Usages)  OBVIOUS
<1>2. Inv
  BY <1>1, DriversAssumption
  DEF Init, Inv, TypeOK, DriverInv, HoldsInv, EventInv, CallbackAlive, NoEvent,
      Resources, Using
<1>3. Users = {}  BY DEF Init, Users, Using
<1>4. OpenWhileUsed
  BY <1>3, FS_EmptySet DEF Init, OpenWhileUsed, Started
<1> QED  BY <1>2, <1>4

-----------------------------------------------------------------------------
\* The hub's own steps, a driver's, its trigger's, and the events'.

LEMMA HubInv ==
    ASSUME Inv, ProbeHub \/ StopHub \/ Hub \/ UNCHANGED vars
    PROVE  Inv'
<1> USE DEF Inv, TypeOK, DriverInv, HoldsInv, EventInv, CallbackAlive
<1>1. CASE ProbeHub        BY <1>1 DEF ProbeHub, device
<1>2. CASE StopHub         BY <1>2 DEF StopHub
<1>3. CASE AddDevices      BY <1>3 DEF AddDevices, device
<1>4. CASE RemoveDevices   BY <1>4 DEF RemoveDevices, device
<1>5. CASE DevicesRemoved  BY <1>5 DEF DevicesRemoved, device
<1>6. CASE UNCHANGED vars  BY <1>6 DEF vars
<1> QED  BY <1>1, <1>2, <1>3, <1>4, <1>5, <1>6 DEF Hub

LEMMA ProbeInv ==
    ASSUME Inv, NEW d \in Drivers, ProbeDriver(d) \/ Probe(d)
    PROVE  Inv'
<1> USE DEF Inv, TypeOK, DriverInv, HoldsInv, EventInv, CallbackAlive, At, GoTo,
            Gain, Lose, Resources, device
<1>1. CASE ProbeDriver(d)       BY <1>1 DEF ProbeDriver
<1>2. CASE ParseReport(d)       BY <1>2 DEF ParseReport
<1>3. CASE SetupBuffer(d)       BY <1>3 DEF SetupBuffer
<1>4. CASE SetupTrigger(d)      BY <1>4 DEF SetupTrigger
<1>5. CASE Register(d)          BY <1>5 DEF Register
<1>6. CASE RegisterCallback(d)  BY <1>6 DEF RegisterCallback
<1> QED  BY <1>1, <1>2, <1>3, <1>4, <1>5, <1>6 DEF Probe

LEMMA RemovalInv ==
    ASSUME Inv, NEW d \in Drivers, RemoveCallback(d) \/ Unwind(d)
    PROVE  Inv'
<1> USE DEF Inv, TypeOK, DriverInv, HoldsInv, EventInv, CallbackAlive, At, GoTo,
            Gain, Lose, Resources, device, Using
<1>1. CASE RemoveCallback(d)
  <2>1. d \notin listed' /\ listed' \subseteq listed
    BY <1>1 DEF RemoveCallback, Registered
  <2>2. CASE event.callback = d
    BY <1>1, <2>1, <2>2, DriversAssumption DEF RemoveCallback, Miss
  <2>3. CASE event.callback # d
    BY <1>1, <2>1, <2>3 DEF RemoveCallback, Miss
  <2> QED  BY <2>2, <2>3
<1>2. CASE Unregister(d)
  <2>1. CASE switch[d] = "on"   BY <1>2, <2>1 DEF Unregister
  <2>2. CASE switch[d] = "off"  BY <1>2, <2>2 DEF Unregister
  <2> QED  BY <1>2, <2>1, <2>2 DEF Unregister
<1>3. CASE Disabled(d)       BY <1>3 DEF Disabled
<1>4. CASE RemoveTrigger(d)  BY <1>4 DEF RemoveTrigger
<1>5. CASE CleanupBuffer(d)  BY <1>5 DEF CleanupBuffer
<1>6. CASE FreeChannels(d)   BY <1>6 DEF FreeChannels
<1> QED  BY <1>1, <1>2, <1>3, <1>4, <1>5, <1>6 DEF Unwind

LEMMA SwitchInv ==
    ASSUME Inv, OpenWhileUsed, NEW d \in Drivers,
           SwitchOn(d) \/ SwitchOff(d) \/ SetState(d)
    PROVE  Inv'
<1> USE DEF Inv, TypeOK, DriverInv, HoldsInv, EventInv, CallbackAlive, Switch,
            client, Using
<1>1. CASE SwitchOn(d)      BY <1>1 DEF SwitchOn
<1>2. CASE SwitchOff(d)     BY <1>2 DEF SwitchOff
<1>3. CASE DeviceOpen(d)
  <2>1. open' \in BOOLEAN  BY <1>3 DEF DeviceOpen
  <2>2. ref_cnt' \in Nat  BY <1>3 DEF DeviceOpen
  <2>3. switch' \in {[switch EXCEPT ![d] = "ready_on"], [switch EXCEPT ![d] = "off"]}
        /\ switch[d] = "open"
    BY <1>3 DEF DeviceOpen
  <2>4. UNCHANGED <<hub, pc, owned, left, listed, data_ready, features, event>>
    BY <1>3 DEF DeviceOpen
  <2> QED  BY <2>1, <2>2, <2>3, <2>4
<1>4. CASE DeviceClose(d)
  <2>1. d \in Users /\ IsFiniteSet(Users)
    BY <1>4, DriversAssumption, FS_Subset DEF DeviceClose, Users
  <2>2. ref_cnt # 0
    BY <2>1, FS_EmptySet DEF OpenWhileUsed
  <2>3. ref_cnt' \in Nat  BY <1>4, <2>2 DEF DeviceClose
  <2>4. open' \in BOOLEAN  BY <1>4 DEF DeviceClose
  <2> QED  BY <1>4, <2>3, <2>4 DEF DeviceClose
<1>5. CASE DataReady(d)
  <2>1. UNCHANGED <<hub, pc, owned, left, listed, features, ref_cnt, open>>
    BY <1>5 DEF DataReady
  <2>2. CASE switch[d] = "ready_on"
    <3>1. switch' = [switch EXCEPT ![d] = "power_on"] /\ event' = event
      BY <1>5, <2>2 DEF DataReady
    <3>2. data_ready' = [data_ready EXCEPT ![d] = TRUE]
      BY <1>5, <2>2 DEF DataReady
    <3>3. data_ready' \in [Drivers -> BOOLEAN] /\ data_ready'[d]
          /\ \A e \in Drivers \ {d} : data_ready'[e] = data_ready[e]
      BY <3>2
    <3> QED  BY <2>1, <2>2, <3>1, <3>3
  <2>3. CASE switch[d] = "ready_off"
    <3>1. switch' = [switch EXCEPT ![d] = "power_off"] /\ Miss(d, "off")
      BY <1>5, <2>3 DEF DataReady
    <3>2. data_ready' = [data_ready EXCEPT ![d] = FALSE]
      BY <1>5, <2>3 DEF DataReady
    <3>3. data_ready' \in [Drivers -> BOOLEAN] /\ ~data_ready'[d]
          /\ \A e \in Drivers \ {d} : data_ready'[e] = data_ready[e]
      BY <3>2
    <3>4. CASE event.callback = d
      BY <2>1, <2>3, <3>1, <3>3, <3>4, DriversAssumption DEF Miss
    <3>5. CASE event.callback # d
      <4>1. event' = event  BY <3>1, <3>5 DEF Miss
      <4>2. TypeOK' /\ DriverInv' /\ HoldsInv'
        BY <2>1, <2>3, <3>1, <3>3, <4>1
      <4>3. CallbackAlive'  BY <2>1, <4>1
      <4>4. EventInv'
        BY <4>1, <4>3, <3>3, <3>5, DriversAssumption
      <4> QED  BY <4>2, <4>4
    <3> QED  BY <3>4, <3>5
  <2> QED  BY <1>5, <2>2, <2>3 DEF DataReady
<1>6. CASE SetPower(d)      BY <1>6 DEF SetPower, Feature
<1>7. CASE SetReporting(d)  BY <1>7 DEF SetReporting, Feature
<1> QED  BY <1>1, <1>2, <1>3, <1>4, <1>5, <1>6, <1>7 DEF SetState

\* The fields of a report that are still to be looked at.
LEMMA Fields ==
    ASSUME TypeOK, event.fields # << >>
    PROVE  Head(event.fields) \in Usages /\ Tail(event.fields) \in Seq(Usages)
<1>1. event.fields \in Seq(Usages)  BY DEF TypeOK
<1> QED  BY <1>1

LEMMA RawEventInv ==
    ASSUME Inv, Report \/ RawEvent
    PROVE  Inv'
<1>0. TypeOK /\ EventInv  BY DEF Inv
<1> << >> \in Seq(Usages)  OBVIOUS
<1> USE DriversAssumption
        DEF Inv, TypeOK, DriverInv, HoldsInv, EventInv, CallbackAlive, client, device
<1>1. CASE Report  BY <1>1, ReportsAssumption DEF Report, NoEvent
<1>2. CASE Lookup
  <2>1. Tail(event.fields) \in Seq(Usages)  BY <1>0, <1>2, Fields DEF Lookup
  <2> DEFINE found == Registered(Head(event.fields))
  <2>2. found \subseteq listed  BY DEF Registered
  <2> HIDE DEF found
  <2>3. CASE \E d \in found :
               event' = [event EXCEPT !.at = "capture", !.callback = d, !.missed = {}]
    <3>1. PICK d \in found :
                 event' = [event EXCEPT !.at = "capture", !.callback = d, !.missed = {}]
      BY <2>3
    <3>2. d \in listed /\ d \in Drivers /\ pc[d] = "bound"  BY <2>2
    <3>3. TypeOK'  BY <1>2, <3>1, <3>2 DEF Lookup
    <3>4. EventInv'  BY <1>2, <3>1, <3>2 DEF Lookup
    <3>5. DriverInv' /\ HoldsInv'  BY <1>2 DEF Lookup
    <3> QED  BY <3>3, <3>4, <3>5
  <2>4. CASE event' = [NoEvent EXCEPT !.at = "lookup", !.fields = Tail(event.fields)]
    BY <1>2, <2>1, <2>4 DEF Lookup, NoEvent
  <2> QED  BY <1>2, <2>3, <2>4 DEF Lookup, found
<1>3. CASE Capture
  <2>1. Tail(event.fields) \in Seq(Usages)  BY <1>0, <1>3, Fields DEF Capture
  <2> QED  BY <1>3, <2>1 DEF Capture
<1>4. CASE LastField  BY <1>4 DEF LastField, NoEvent
<1>5. CASE SendEvent  BY <1>5 DEF SendEvent, NoEvent
<1>6. CASE PushData   BY <1>6 DEF PushData, NoEvent
<1> QED  BY <1>1, <1>2, <1>3, <1>4, <1>5, <1>6 DEF RawEvent
-----------------------------------------------------------------------------
\* The hub's count.  Only opening and closing change it, and who uses the hub.

LEMMA CountKept ==
    ASSUME OpenWhileUsed, Users' = Users, UNCHANGED <<ref_cnt, open>>,
           hub \in {"stopped", "detaching", "gone"} =>
               hub' \in {"stopped", "detaching", "gone"}
    PROVE  OpenWhileUsed'
  BY DEF OpenWhileUsed

LEMMA HubCount ==
    ASSUME OpenWhileUsed,
           ProbeHub \/ StopHub \/ Hub \/ Report \/ RawEvent \/ UNCHANGED vars
    PROVE  OpenWhileUsed'
<1>1. switch' = switch /\ ref_cnt' = ref_cnt
  BY DEF ProbeHub, StopHub, Hub, AddDevices, RemoveDevices, DevicesRemoved, Report,
         RawEvent, Lookup, Capture, LastField, SendEvent, PushData, vars, device
<1>2. Users' = Users  BY <1>1 DEF Users
<1>3. CASE StopHub
  BY <1>1, <1>2, <1>3 DEF StopHub, OpenWhileUsed
<1>4. CASE ~StopHub
  BY <1>1, <1>2, <1>4, CountKept
  DEF ProbeHub, Hub, AddDevices, RemoveDevices, DevicesRemoved, Report,
      RawEvent, Lookup, Capture, LastField, SendEvent, PushData, vars, device, client
<1> QED  BY <1>3, <1>4

LEMMA DriverCount ==
    ASSUME TypeOK, OpenWhileUsed, NEW d \in Drivers,
           ProbeDriver(d) \/ Probe(d) \/ RemoveCallback(d) \/ Unwind(d)
    PROVE  OpenWhileUsed'
<1>1. UNCHANGED <<hub, ref_cnt, open>>
  BY DEF ProbeDriver, Probe, ParseReport, SetupBuffer, SetupTrigger, Register,
         RegisterCallback, RemoveCallback, Unwind, Unregister, Disabled,
         RemoveTrigger, CleanupBuffer, FreeChannels, device
<1>2. Users' = Users
  <2>1. CASE Unregister(d)
    BY <2>1 DEF Unregister, Users, Using, TypeOK
  <2>2. CASE ~Unregister(d)
    <3>1. switch' = switch
      BY <2>2 DEF ProbeDriver, Probe, ParseReport, SetupBuffer, SetupTrigger, Register,
             RegisterCallback, RemoveCallback, Unwind, Disabled,
             RemoveTrigger, CleanupBuffer, FreeChannels, device
    <3> QED  BY <3>1 DEF Users
  <2> QED  BY <2>1, <2>2
<1> QED  BY <1>1, <1>2, CountKept

LEMMA SwitchCount ==
    ASSUME TypeOK, OpenWhileUsed, NEW d \in Drivers,
           SwitchOn(d) \/ SwitchOff(d) \/ SetState(d)
    PROVE  OpenWhileUsed'
<1>1. IsFiniteSet(Users)
  BY DriversAssumption, FS_Subset DEF Users
<1>2. CASE DeviceOpen(d) /\ switch' = [switch EXCEPT ![d] = "ready_on"]
  <2>1. d \notin Users /\ Users' = Users \cup {d}
    BY <1>2 DEF DeviceOpen, Switch, Users, Using, TypeOK
  <2>2. Cardinality(Users') = Cardinality(Users) + 1
    BY <1>1, <2>1, FS_AddElement
  <2>3. ref_cnt' = ref_cnt + 1 /\ open' = (open \/ ref_cnt = 0) /\ hub' = hub
    BY <1>2 DEF DeviceOpen, Switch, TypeOK, client
  <2>4. (open /\ ref_cnt # 0) \/ ref_cnt = 0 \/ hub \in {"stopped", "detaching", "gone"}
    BY DEF OpenWhileUsed
  <2> QED
    <3>1. ref_cnt' = Cardinality(Users') /\ ref_cnt' # 0
      BY <2>2, <2>3 DEF OpenWhileUsed, TypeOK
    <3>2. hub' \notin {"stopped", "detaching", "gone"} => open'
      BY <2>3, <2>4
    <3> QED  BY <3>1, <3>2 DEF OpenWhileUsed
<1>3. CASE DeviceClose(d)
  <2>1. d \in Users /\ Users' = Users \ {d}
    BY <1>3 DEF DeviceClose, Switch, Users, Using, TypeOK
  <2>2. Cardinality(Users') = Cardinality(Users) - 1
    BY <1>1, <2>1, FS_RemoveElement
  <2>3. Cardinality(Users) # 0
    BY <1>1, <2>1, FS_EmptySet
  <2>4. ref_cnt' = ref_cnt - 1 /\ open' = (open /\ ref_cnt' # 0) /\ hub' = hub
    BY <1>3 DEF DeviceClose, client
  <2> QED  BY <2>2, <2>3, <2>4 DEF OpenWhileUsed, TypeOK
<1>4. CASE ~DeviceClose(d) /\ ~(DeviceOpen(d) /\ switch' = [switch EXCEPT ![d] = "ready_on"])
  <2>1. UNCHANGED <<hub, ref_cnt, open>>
    BY <1>4 DEF SwitchOn, SwitchOff, SetState, DeviceOpen, DataReady, SetPower,
                SetReporting, Switch, client
  <2>2. Users' = Users
    <3>1. CASE SwitchOn(d)   BY <3>1 DEF SwitchOn, Switch, Users, Using, TypeOK
    <3>2. CASE SwitchOff(d)  BY <3>2 DEF SwitchOff, Switch, Users, Using, TypeOK
    <3>3. CASE DeviceOpen(d)
      BY <1>4, <3>3 DEF DeviceOpen, Switch, Users, Using, TypeOK
    <3>4. CASE DataReady(d)  BY <3>4 DEF DataReady, Switch, Users, Using, TypeOK
    <3>5. CASE SetPower(d)   BY <3>5 DEF SetPower, Switch, Users, Using, TypeOK
    <3>6. CASE SetReporting(d)
      BY <3>6 DEF SetReporting, Switch, Users, Using, TypeOK
    <3> QED  BY <1>4, <3>1, <3>2, <3>3, <3>4, <3>5, <3>6 DEF SetState
  <2> QED  BY <2>1, <2>2, CountKept
<1> QED  BY <1>2, <1>3, <1>4

LEMMA Invariance == Spec => [](Inv /\ OpenWhileUsed)
<1>1. Inv /\ OpenWhileUsed /\ [Next]_vars => (Inv /\ OpenWhileUsed)'
  <2> SUFFICES ASSUME Inv, OpenWhileUsed, [Next]_vars
               PROVE  Inv' /\ OpenWhileUsed'
    OBVIOUS
  <2>0. TypeOK  BY DEF Inv
  <2>1. CASE ProbeHub \/ StopHub \/ Hub \/ UNCHANGED vars
    BY <2>1, HubInv, HubCount
  <2>2. CASE Report \/ RawEvent
    BY <2>2, RawEventInv, HubCount
  <2>3. ASSUME NEW d \in Drivers, ProbeDriver(d) \/ Probe(d)
        PROVE  Inv' /\ OpenWhileUsed'
    BY <2>0, <2>3, ProbeInv, DriverCount
  <2>4. ASSUME NEW d \in Drivers, RemoveCallback(d) \/ Unwind(d)
        PROVE  Inv' /\ OpenWhileUsed'
    BY <2>0, <2>4, RemovalInv, DriverCount
  <2>5. ASSUME NEW d \in Drivers, SwitchOn(d) \/ SwitchOff(d) \/ SetState(d)
        PROVE  Inv' /\ OpenWhileUsed'
    BY <2>0, <2>5, SwitchInv, SwitchCount
  <2> QED  BY <2>1, <2>2, <2>3, <2>4, <2>5 DEF Next
<1> QED  BY InitInv, <1>1, PTL DEF Spec

-----------------------------------------------------------------------------
\* What a sensor was told at each statement of set_state, as long as the hub takes
\* requests; before the hub's probe nothing happens.

Told(at) ==
    IF at \in {"on", "close", "ready_off", "power_off"} THEN {"power", "reporting"}
    ELSE IF at = "report_on" THEN {"power"}
    ELSE IF at = "report_off" THEN {"reporting"}
    ELSE {}

PowerInv ==
    /\ hub = "absent" => \A d \in Drivers : pc[d] = "unbound" /\ switch[d] = "off"
    /\ hub = "absent" \/ Started =>
          \A d \in Drivers \ Mute : features[d] = Told(switch[d])

LEMMA HubPower ==
    ASSUME TypeOK, PowerInv,
           ProbeHub \/ StopHub \/ Hub \/ Report \/ RawEvent \/ UNCHANGED vars
    PROVE  PowerInv'
<1>1. UNCHANGED <<pc, switch, features>>
  BY DEF ProbeHub, StopHub, Hub, AddDevices, RemoveDevices, DevicesRemoved, Report,
         RawEvent, Lookup, Capture, LastField, SendEvent, PushData, vars, device, client
<1>2. hub' = "absent" => hub = "absent"
  BY DEF ProbeHub, StopHub, Hub, AddDevices, RemoveDevices, DevicesRemoved, Report,
         RawEvent, Lookup, Capture, LastField, SendEvent, PushData, vars, client
<1>3. Started' => hub = "absent" \/ Started
  BY DEF ProbeHub, StopHub, Hub, AddDevices, RemoveDevices, DevicesRemoved, Report,
         RawEvent, Lookup, Capture, LastField, SendEvent, PushData, vars, client, Started
<1> QED  BY <1>1, <1>2, <1>3 DEF PowerInv

LEMMA DriverPower ==
    ASSUME Inv, PowerInv, NEW d \in Drivers,
           ProbeDriver(d) \/ Probe(d) \/ RemoveCallback(d) \/ Unwind(d)
    PROVE  PowerInv'
<1>1. UNCHANGED <<hub, features>>
  BY DEF ProbeDriver, Probe, ParseReport, SetupBuffer, SetupTrigger, Register,
         RegisterCallback, RemoveCallback, Unwind, Unregister, Disabled,
         RemoveTrigger, CleanupBuffer, FreeChannels, device
<1>2. hub # "absent"
  <2> SUFFICES ASSUME hub = "absent" PROVE FALSE  OBVIOUS
  <2>1. pc[d] = "unbound"  BY DEF PowerInv
  <2> QED
    BY <2>1 DEF ProbeDriver, Probe, ParseReport, SetupBuffer, SetupTrigger, Register,
         RegisterCallback, RemoveCallback, Unwind, Unregister, Disabled,
         RemoveTrigger, CleanupBuffer, FreeChannels, At
<1>3. \A e \in Drivers : Told(switch'[e]) = Told(switch[e])
  <2>1. CASE Unregister(d)
    BY <2>1 DEF Unregister, Told, Inv, TypeOK
  <2>2. CASE ~Unregister(d)
    <3>1. switch' = switch
      BY <2>2 DEF ProbeDriver, Probe, ParseReport, SetupBuffer, SetupTrigger, Register,
             RegisterCallback, RemoveCallback, Unwind, Disabled,
             RemoveTrigger, CleanupBuffer, FreeChannels, device
    <3> QED  BY <3>1
  <2> QED  BY <2>1, <2>2
<1> QED  BY <1>1, <1>2, <1>3 DEF PowerInv, Started

LEMMA SwitchPower ==
    ASSUME Inv, PowerInv, NEW d \in Drivers,
           SwitchOn(d) \/ SwitchOff(d) \/ SetState(d)
    PROVE  PowerInv'
<1>1. UNCHANGED <<hub, pc>>
  BY DEF SwitchOn, SwitchOff, SetState, DeviceOpen, DeviceClose, DataReady, SetPower,
         SetReporting, client
<1>2. hub # "absent"
  <2> SUFFICES ASSUME hub = "absent" PROVE FALSE  OBVIOUS
  <2>1. pc[d] = "unbound" /\ switch[d] = "off"  BY DEF PowerInv
  <2>2. "device" \notin owned[d]  BY <2>1 DEF Inv, DriverInv
  <2> QED
    BY <2>1, <2>2 DEF SwitchOn, SwitchOff, SetState, DeviceOpen, DeviceClose,
       DataReady, SetPower, SetReporting, Switch
<1>3. ASSUME Started PROVE \A e \in Drivers \ Mute : features'[e] = Told(switch'[e])
  <2>1. \A e \in Drivers \ Mute : features[e] = Told(switch[e])
    BY <1>3 DEF PowerInv
  <2>2. \A e \in Drivers \ {d} : switch'[e] = switch[e]
    BY DEF SwitchOn, SwitchOff, SetState, DeviceOpen, DeviceClose, DataReady,
       SetPower, SetReporting, Switch, Inv, TypeOK
  <2>3. \A e \in Drivers \ {d} : features'[e] = features[e]
    BY DEF SwitchOn, SwitchOff, SetState, DeviceOpen, DeviceClose, DataReady,
       SetPower, SetReporting, Feature, Inv, TypeOK
  <2>4. SUFFICES ASSUME d \notin Mute PROVE features'[d] = Told(switch'[d])
    BY <2>1, <2>2, <2>3
  <2>5. features[d] = Told(switch[d])  BY <2>1, <2>4
  <2>6. CASE ~SetPower(d) /\ ~SetReporting(d)
    <3>1. features' = features
      BY <2>6 DEF SwitchOn, SwitchOff, SetState, DeviceOpen, DeviceClose, DataReady
    <3>2. Told(switch'[d]) = Told(switch[d])
      BY <2>6 DEF SwitchOn, SwitchOff, SetState, DeviceOpen, DeviceClose, DataReady,
         Switch, Told, Inv, TypeOK
    <3> QED  BY <2>5, <3>1, <3>2
  <2>7. CASE SetPower(d)
    BY <1>3, <2>4, <2>5, <2>7 DEF SetPower, Feature, Switch, Told, Inv, TypeOK
  <2>8. CASE SetReporting(d)
    BY <1>3, <2>4, <2>5, <2>8 DEF SetReporting, Feature, Switch, Told, Inv, TypeOK
  <2> QED  BY <2>6, <2>7, <2>8
<1> QED  BY <1>1, <1>2, <1>3 DEF PowerInv, Started

LEMMA PowerInvariance == Spec => []PowerInv
<1>1. Init => PowerInv
  BY DEF Init, PowerInv, Told
<1>2. Inv /\ PowerInv /\ [Next]_vars => PowerInv'
  <2> SUFFICES ASSUME Inv, PowerInv, [Next]_vars PROVE PowerInv'
    OBVIOUS
  <2>1. CASE ProbeHub \/ StopHub \/ Hub \/ Report \/ RawEvent \/ UNCHANGED vars
    BY <2>1, HubPower DEF Inv
  <2>2. ASSUME NEW d \in Drivers,
               ProbeDriver(d) \/ Probe(d) \/ RemoveCallback(d) \/ Unwind(d)
        PROVE  PowerInv'
    BY <2>2, DriverPower
  <2>3. ASSUME NEW d \in Drivers, SwitchOn(d) \/ SwitchOff(d) \/ SetState(d)
        PROVE  PowerInv'
    BY <2>3, SwitchPower
  <2> QED  BY <2>1, <2>2, <2>3 DEF Next
<1> QED  BY <1>1, <1>2, Invariance, PTL DEF Spec

-----------------------------------------------------------------------------
\* Every variable keeps its type; the hub's count of users is never negative.
THEOREM Typing == Spec => []TypeOK
<1>1. Inv => TypeOK  BY DEF Inv
<1> QED  BY Invariance, <1>1, PTL

\* raw_event never calls a driver whose probe failed or that was removed before
\* the event looked the callback up.
THEOREM CallbacksLive == Spec => []CallbackAlive
<1>1. Inv => CallbackAlive  BY DEF Inv, EventInv
<1> QED  BY Invariance, <1>1, PTL

\* For any number of sensors, the hub's device is open just when some sensor is
\* in use, and the count says how many are.
THEOREM CountIsRight == Spec => []OpenWhileUsed
<1> QED  BY Invariance, PTL

\* A scan is pushed for a sensor that is on, unless it was switched off or
\* removed after the event's test.
THEOREM ScansWanted == Spec => []ScanWhileOn
<1>1. Inv => ScanWhileOn
  BY DriversAssumption DEF Inv, TypeOK, DriverInv, EventInv, ScanWhileOn
<1> QED  BY Invariance, <1>1, PTL

\* Whatever opens fail and whoever else uses the hub, a sensor whose driver is gone
\* was told to stop and one that is on to report.
THEOREM SensorsFollow == Spec => []PowerFollows
<1>1. Inv /\ PowerInv => PowerFollows
  BY DEF Inv, DriverInv, PowerInv, PowerFollows, Told
<1> QED  BY Invariance, PowerInvariance, <1>1, PTL

\* A driver with the right argument in its removal leaves at most the copy of
\* its channels, whichever step of its probe failed.
THEOREM CleanRemoval == Spec => []NothingLeft
<1>1. Inv => NothingLeft
  BY DEF Inv, DriverInv, HoldsInv, NothingLeft
<1> QED  BY Invariance, <1>1, PTL
=============================================================================
