----------------------------- MODULE SensorDriver -----------------------------
(****************************************************************************)
(* The drivers of the sensors behind one hub: how they are probed, unwound  *)
(* when a step of that fails, and removed (sensors/drivers/hid-sensor-*.c,  *)
(* all of one shape); how a program switches a sensor on and off through    *)
(* its trigger (hid-sensor-trigger.c); how the hub counts the sensors that  *)
(* are on, keeps the drivers' callbacks and calls them for each report      *)
(* (hid-sensor-hub.c).  HubRead models the hub's synchronous reads.         *)
(*                                                                          *)
(* Concurrent are each driver's probe or removal, each program that writes  *)
(* buffer/enable, the hub's removal, and raw_event, which uses a driver's   *)
(* callback structure after it let go of the lock of their list.            *)
(****************************************************************************)
EXTENDS Naturals, Sequences, FiniteSets

CONSTANTS
    Drivers,   \* the platform devices the hub creates, each with its driver
    Usages,    \* the usages of sensors; two devices may have the same
    Usage,     \* the usage each driver registers its callback for
    Reports,   \* input reports of the device: the sensor each field belongs to
    Confused,  \* drivers that call hid_sensor_remove_trigger(indio_dev)
    Mute,      \* sensors without feature reports for power and reporting state
    Nobody     \* no driver

ASSUME DriversAssumption == IsFiniteSet(Drivers) /\ Nobody \notin Drivers
ASSUME UsageAssumption   == Usage \in [Drivers -> Usages]
ASSUME ReportsAssumption == Reports \subseteq Seq(Usages)
ASSUME KindsAssumption   == Confused \subseteq Drivers /\ Mute \subseteq Drivers

VARIABLES
    hub,         \* how far the hub's own probe or removal is
    pc,          \* where each driver's probe or removal is
    owned,       \* what each driver holds
    left,        \* history: what each driver left behind when it last went
    listed,      \* the drivers with an entry in dyn_callback_list
    switch,      \* where the last set_state of each driver's trigger is
    data_ready,  \* common_attributes.data_ready
    features,    \* the feature reports that say on: power, reporting
    ref_cnt,     \* hsdev->ref_cnt
    open,        \* the hub's device is open
    event        \* the call of sensor_hub_raw_event in progress

vars == <<hub, pc, owned, left, listed, switch, data_ready, features, ref_cnt,
          open, event>>
device == <<switch, data_ready, features, ref_cnt, open>>

Resources == {"copy", "channels", "buffer", "trigger", "device"}
NoEvent   == [at |-> "idle", fields |-> << >>, callback |-> Nobody, missed |-> {}]

Init ==
    /\ hub = "absent"
    /\ pc = [d \in Drivers |-> "unbound"]
    /\ owned = [d \in Drivers |-> {}]
    /\ left = [d \in Drivers |-> {}]
    /\ listed = {}
    /\ switch = [d \in Drivers |-> "off"]
    /\ data_ready = [d \in Drivers |-> FALSE]
    /\ features = [d \in Drivers |-> {}]
    /\ ref_cnt = 0
    /\ open = FALSE
    /\ event = NoEvent

-----------------------------------------------------------------------------
\* sensor_hub_probe and sensor_hub_remove.

\* The hardware is started, then the clients are added and may be probed.
ProbeHub ==
    /\ hub = "absent"
    /\ hub' = "adding"
    /\ UNCHANGED <<pc, owned, left, listed, device, event>>

\* The HID layer delivers reports once the hub's probe has returned.  When a
\* client cannot be added those that were are removed, with the hardware on.
AddDevices ==
    /\ hub = "adding"
    /\ hub' \in {"present", "failing"}
    /\ UNCHANGED <<pc, owned, left, listed, device, event>>

\* hid_hw_close, whoever has the device open, and hid_hw_stop.
StopHub ==
    /\ hub = "present"
    /\ event.at = "idle"
    /\ hub' = "stopped"
    /\ open' = FALSE
    /\ UNCHANGED <<pc, owned, left, listed, switch, data_ready, features, ref_cnt, event>>

RemoveDevices ==
    /\ hub = "stopped"
    /\ hub' = "detaching"
    /\ UNCHANGED <<pc, owned, left, listed, device, event>>

DevicesRemoved ==
    /\ hub \in {"detaching", "failing"}
    /\ \A d \in Drivers : pc[d] = "unbound"
    /\ hub' = "gone"
    /\ UNCHANGED <<pc, owned, left, listed, device, event>>

\* The hardware takes requests.
Started == hub \in {"adding", "present", "failing"}

-----------------------------------------------------------------------------
\* A driver's probe: each step succeeds, or fails and goes to its label.

At(d, from) == pc[d] = from
GoTo(d, to) == pc' = [pc EXCEPT ![d] = to]
Gain(d, what) == owned' = [owned EXCEPT ![d] = @ \cup {what}]
Lose(d, what) == owned' = [owned EXCEPT ![d] = @ \ {what}]

\* The device is allocated, the common attributes are read, the channels copied.
ProbeDriver(d) ==
    /\ At(d, "unbound")
    /\ hub \in {"adding", "present", "stopped"}
    /\ GoTo(d, "parse")
    /\ Gain(d, "copy")
    /\ left' = [left EXCEPT ![d] = {}]
    /\ UNCHANGED <<hub, listed, device, event>>

\* The copy is the device's only once the report was understood.
ParseReport(d) ==
    /\ At(d, "parse")
    /\ \/ /\ GoTo(d, "buffer")
          /\ owned' = [owned EXCEPT ![d] = (@ \ {"copy"}) \cup {"channels"}]
       \/ GoTo(d, "free") /\ UNCHANGED owned
    /\ UNCHANGED <<hub, left, listed, device, event>>

SetupBuffer(d) ==
    /\ At(d, "buffer")
    /\ \/ GoTo(d, "trigger") /\ Gain(d, "buffer")
       \/ GoTo(d, "free") /\ UNCHANGED owned
    /\ UNCHANGED <<hub, left, listed, device, event>>

\* Mutant of SetupTrigger: a failure goes to the label below its own.
SkipCleanup(d) ==
    /\ At(d, "trigger")
    /\ data_ready' = [data_ready EXCEPT ![d] = FALSE]
    /\ \/ GoTo(d, "register") /\ Gain(d, "trigger")
       \/ GoTo(d, "free") /\ UNCHANGED owned
    /\ UNCHANGED <<hub, left, listed, switch, features, ref_cnt, open, event>>

SetupTrigger(d) ==
    /\ At(d, "trigger")
    /\ data_ready' = [data_ready EXCEPT ![d] = FALSE]
    /\ \/ GoTo(d, "register") /\ Gain(d, "trigger")
       \/ GoTo(d, "unbuffer") /\ UNCHANGED owned
    /\ UNCHANGED <<hub, left, listed, switch, features, ref_cnt, open, event>>

\* From here on programs see the device, and may switch it on.
Register(d) ==
    /\ At(d, "register")
    /\ \/ GoTo(d, "callback") /\ Gain(d, "device")
       \/ GoTo(d, "untrigger") /\ UNCHANGED owned
    /\ UNCHANGED <<hub, left, listed, device, event>>

Registered(usage) == {d \in listed : Usage[d] = usage}

\* sensor_hub_register_callback: one per usage, and memory may be short.
RegisterCallback(d) ==
    /\ At(d, "callback")
    /\ \/ /\ Registered(Usage[d]) = {}
          /\ listed' = listed \cup {d}
          /\ GoTo(d, "bound")
       \/ GoTo(d, "unregister") /\ UNCHANGED listed
    /\ UNCHANGED <<hub, owned, left, device, event>>

-----------------------------------------------------------------------------
\* A driver's removal, by the hub's or by a user; a failed probe joins it.

Miss(d, what) ==
    event' = IF event.callback = d THEN [event EXCEPT !.missed = @ \cup {what}]
             ELSE event

\* Mutant of RemoveCallback: the entry stays in the list.
KeepCallback(d) ==
    /\ At(d, "bound")
    /\ GoTo(d, "unregister")
    /\ Miss(d, "removal")
    /\ UNCHANGED <<hub, owned, left, listed, device>>

\* sensor_hub_remove_callback takes the lock of the list, not that of events.
RemoveCallback(d) ==
    /\ At(d, "bound")
    /\ GoTo(d, "unregister")
    /\ listed' = listed \ Registered(Usage[d])
    /\ Miss(d, "removal")
    /\ UNCHANGED <<hub, owned, left, device>>

\* Mutants of Unregister: a sensor is closed whether it is on or not; one that is
\* on is waited for.
CloseAlways(d) ==
    /\ At(d, "unregister")
    /\ switch[d] \in {"off", "on"}
    /\ GoTo(d, "disable")
    /\ Lose(d, "device")
    /\ switch' = [switch EXCEPT ![d] = "close"]
    /\ UNCHANGED <<hub, left, listed, data_ready, features, ref_cnt, open, event>>

AwaitOff(d) ==
    /\ At(d, "unregister")
    /\ switch[d] = "off"
    /\ GoTo(d, "disable")
    /\ Lose(d, "device")
    /\ UNCHANGED <<hub, left, listed, device, event>>

\* iio_device_unregister waits for the writers of the device's files, and then
\* switches off what is on.
Unregister(d) ==
    /\ At(d, "unregister")
    /\ switch[d] \in {"off", "on"}
    /\ GoTo(d, "disable")
    /\ Lose(d, "device")
    /\ switch' = [switch EXCEPT ![d] = IF @ = "on" THEN "close" ELSE "off"]
    /\ UNCHANGED <<hub, left, listed, data_ready, features, ref_cnt, open, event>>

\* Mutant of Disabled: not waiting until the sensor is off.
NotDisabled(d) ==
    /\ At(d, "disable")
    /\ GoTo(d, "untrigger")
    /\ UNCHANGED <<hub, owned, left, listed, device, event>>

Disabled(d) ==
    /\ At(d, "disable")
    /\ switch[d] = "off"
    /\ GoTo(d, "untrigger")
    /\ UNCHANGED <<hub, owned, left, listed, device, event>>

\* A driver that passes the wrong structure has some other memory taken for a
\* trigger: the thread dies there, or goes on with its own trigger in place.
RemoveTrigger(d) ==
    /\ At(d, "untrigger")
    /\ \/ d \notin Confused /\ GoTo(d, "unbuffer") /\ Lose(d, "trigger")
       \/ d \in Confused /\ GoTo(d, "unbuffer") /\ UNCHANGED owned
       \/ d \in Confused /\ GoTo(d, "oops") /\ UNCHANGED owned
    /\ UNCHANGED <<hub, left, listed, device, event>>

CleanupBuffer(d) ==
    /\ At(d, "unbuffer")
    /\ GoTo(d, "free")
    /\ Lose(d, "buffer")
    /\ UNCHANGED <<hub, left, listed, device, event>>

\* kfree(indio_dev->channels), and the device itself once the driver is gone.
FreeChannels(d) ==
    /\ At(d, "free")
    /\ GoTo(d, "unbound")
    /\ owned' = [owned EXCEPT ![d] = {}]
    /\ left' = [left EXCEPT ![d] = owned[d] \ {"channels"}]
    /\ UNCHANGED <<hub, listed, device, event>>

-----------------------------------------------------------------------------
\* hid_sensor_data_rdy_trigger_set_state.  Opening, closing and setting a
\* feature hold data->mutex throughout and are one step each.

client == <<hub, pc, owned, left, listed>>

Switch(d, from, to) == switch[d] = from /\ switch' = [switch EXCEPT ![d] = to]

SwitchOn(d) ==
    /\ "device" \in owned[d]
    /\ Switch(d, "off", "open")
    /\ UNCHANGED <<client, data_ready, features, ref_cnt, open, event>>

SwitchOff(d) ==
    /\ "device" \in owned[d]
    /\ Switch(d, "on", "close")
    /\ UNCHANGED <<client, data_ready, features, ref_cnt, open, event>>

\* Mutant of DeviceOpen: the count is taken even when opening fails.
CountAnyway(d) ==
    \/ /\ Switch(d, "open", "ready_on")
       /\ open' = TRUE
       /\ ref_cnt' = ref_cnt + 1
       /\ UNCHANGED <<client, data_ready, features, event>>
    \/ /\ ref_cnt = 0
       /\ Switch(d, "open", "off")
       /\ ref_cnt' = ref_cnt + 1
       /\ UNCHANGED <<client, data_ready, features, open, event>>

\* Only the first user opens the device, and that may fail.
DeviceOpen(d) ==
    /\ \/ /\ Switch(d, "open", "ready_on")
          /\ open' = (open \/ ref_cnt = 0)
          /\ ref_cnt' = ref_cnt + 1
       \/ /\ ref_cnt = 0
          /\ Switch(d, "open", "off")
          /\ UNCHANGED <<ref_cnt, open>>
    /\ UNCHANGED <<client, data_ready, features, event>>

DeviceClose(d) ==
    /\ Switch(d, "close", "ready_off")
    /\ ref_cnt' = ref_cnt - 1
    /\ open' = (open /\ ref_cnt' # 0)
    /\ UNCHANGED <<client, data_ready, features, event>>

\* Mutant of DataReady: it is set when the sensor is on and never reset.
StayReady(d) ==
    /\ \/ /\ Switch(d, "ready_on", "power_on")
          /\ data_ready' = [data_ready EXCEPT ![d] = TRUE]
       \/ /\ Switch(d, "ready_off", "power_off")
          /\ UNCHANGED data_ready
    /\ UNCHANGED <<client, features, ref_cnt, open, event>>

DataReady(d) ==
    /\ \/ /\ Switch(d, "ready_on", "power_on")
          /\ data_ready' = [data_ready EXCEPT ![d] = TRUE]
          /\ UNCHANGED event
       \/ /\ Switch(d, "ready_off", "power_off")
          /\ data_ready' = [data_ready EXCEPT ![d] = FALSE]
          /\ Miss(d, "off")
    /\ UNCHANGED <<client, features, ref_cnt, open>>

\* sensor_hub_set_feature; the caller ignores its result.
Feature(d, what, on) ==
    features' = IF Started /\ d \notin Mute
                THEN [features EXCEPT ![d] = IF on THEN @ \cup {what} ELSE @ \ {what}]
                ELSE features

SetPower(d) ==
    /\ \/ Switch(d, "power_on", "report_on") /\ Feature(d, "power", TRUE)
       \/ Switch(d, "power_off", "report_off") /\ Feature(d, "power", FALSE)
    /\ UNCHANGED <<client, data_ready, ref_cnt, open, event>>

SetReporting(d) ==
    /\ \/ Switch(d, "report_on", "on") /\ Feature(d, "reporting", TRUE)
       \/ Switch(d, "report_off", "off") /\ Feature(d, "reporting", FALSE)
    /\ UNCHANGED <<client, data_ready, ref_cnt, open, event>>

-----------------------------------------------------------------------------
\* sensor_hub_raw_event, with data->lock held from its first step to its last.
\* What it does to the pending request is in HubRead.

Report ==
    /\ hub = "present"
    /\ event.at = "idle"
    /\ \E fields \in Reports :
          event' = [NoEvent EXCEPT !.at = "lookup", !.fields = fields]
    /\ UNCHANGED <<client, device>>

\* sensor_hub_get_callback for the next field: the callback, or none.
Lookup ==
    /\ event.at = "lookup"
    /\ event.fields # << >>
    /\ LET found == Registered(Head(event.fields)) IN
       \/ \E d \in found :
             event' = [event EXCEPT !.at = "capture", !.callback = d, !.missed = {}]
       \/ /\ found = {}
          /\ event' = [NoEvent EXCEPT !.at = "lookup", !.fields = Tail(event.fields)]
    /\ UNCHANGED <<client, device>>

\* capture_sample, by the driver's own structure.
Capture ==
    /\ event.at = "capture"
    /\ event' = [event EXCEPT !.at = "lookup", !.fields = Tail(@)]
    /\ UNCHANGED <<client, device>>

\* After the last field its callback, if it has one, is sent the event.
LastField ==
    /\ event.at = "lookup"
    /\ event.fields = << >>
    /\ event' = IF event.callback = Nobody THEN NoEvent ELSE [event EXCEPT !.at = "send"]
    /\ UNCHANGED <<client, device>>

\* The driver's proc_event, which tests data_ready and then pushes the scan.
SendEvent ==
    /\ event.at = "send"
    /\ event' = IF data_ready[event.callback] THEN [event EXCEPT !.at = "push"]
                ELSE NoEvent
    /\ UNCHANGED <<client, device>>

PushData ==
    /\ event.at = "push"
    /\ event' = NoEvent
    /\ UNCHANGED <<client, device>>

-----------------------------------------------------------------------------
Probe(d) ==
    \/ ParseReport(d) \/ SetupBuffer(d) \/ SetupTrigger(d) \/ Register(d)
    \/ RegisterCallback(d)

Unwind(d) ==
    \/ Unregister(d) \/ Disabled(d) \/ RemoveTrigger(d) \/ CleanupBuffer(d)
    \/ FreeChannels(d)

SetState(d) ==
    \/ DeviceOpen(d) \/ DeviceClose(d) \/ DataReady(d) \/ SetPower(d) \/ SetReporting(d)

RawEvent == Lookup \/ Capture \/ LastField \/ SendEvent \/ PushData

Hub == AddDevices \/ RemoveDevices \/ DevicesRemoved

Next ==
    \/ ProbeHub \/ StopHub \/ Hub
    \/ Report \/ RawEvent
    \/ \E d \in Drivers :
          \/ ProbeDriver(d) \/ Probe(d) \/ RemoveCallback(d) \/ Unwind(d)
          \/ SwitchOn(d) \/ SwitchOff(d) \/ SetState(d)

Spec == Init /\ [][Next]_vars

\* What was begun goes on, and the hub's removal removes every driver.  A driver's
\* removal shuts its files to new writers, so that it cannot be kept waiting for
\* ever (strong fairness).  Nothing is assumed of the device, the programs, or
\* the users who bind and unbind drivers.
Fairness ==
    /\ WF_vars(Hub) /\ WF_vars(RawEvent)
    /\ \A d \in Drivers :
          /\ WF_vars(Probe(d)) /\ WF_vars(SetState(d))
          /\ SF_vars(Unwind(d))
          /\ WF_vars(hub \in {"detaching", "failing"} /\ RemoveCallback(d))

FairSpec == Spec /\ Fairness

-----------------------------------------------------------------------------
\* Properties.

Using == {"ready_on", "power_on", "report_on", "on", "close"}
Users == {d \in Drivers : switch[d] \in Using}

\* Every variable holds a value of its type.
TypeOK ==
    /\ hub \in {"absent", "adding", "present", "failing", "stopped", "detaching", "gone"}
    /\ pc \in [Drivers -> {"unbound", "parse", "buffer", "trigger", "register",
                           "callback", "bound", "unregister", "disable",
                           "untrigger", "unbuffer", "free", "oops"}]
    /\ owned \in [Drivers -> SUBSET Resources]
    /\ left \in [Drivers -> SUBSET Resources]
    /\ listed \subseteq Drivers
    /\ switch \in [Drivers -> Using \cup {"off", "open", "ready_off", "power_off",
                                          "report_off"}]
    /\ data_ready \in [Drivers -> BOOLEAN]
    /\ features \in [Drivers -> SUBSET {"power", "reporting"}]
    /\ ref_cnt \in Nat
    /\ open \in BOOLEAN
    /\ event \in [at : {"idle", "lookup", "capture", "send", "push"},
                  fields : Seq(Usages), callback : Drivers \cup {Nobody},
                  missed : SUBSET {"removal", "off"}]

\* raw_event uses the callback of a driver only while that driver is bound, so
\* never of one whose probe failed or that was removed before the event took
\* it; the exception is a removal under the event, for which nothing waits.
CallbackAlive ==
    (event.callback # Nobody /\ "removal" \notin event.missed)
        => pc[event.callback] = "bound"

\* The hub's count is the number of sensors that are on or about to be switched
\* off, through failed opens, failed probes and removals, and its device is open
\* just when that is not 0.
OpenWhileUsed ==
    /\ ref_cnt = Cardinality(Users)
    /\ hub \notin {"stopped", "detaching", "gone"} => (open <=> ref_cnt # 0)

\* A sensor whose driver is gone was told to stop, and one that is on was told
\* to report, whoever else uses the hub.
PowerFollows ==
    Started => \A d \in Drivers \ Mute :
        /\ pc[d] \in {"unbound", "oops"} => features[d] = {}
        /\ switch[d] = "on" => features[d] = {"power", "reporting"}

\* A scan is pushed only for a sensor that is on; the exception is a sensor
\* switched off, or removed, after the event had tested that.
ScanWhileOn ==
    (event.at = "push" /\ event.missed = {})
        => switch[event.callback] \in {"power_on", "report_on", "on", "close", "ready_off"}

\* Whatever step of its probe fails, a driver leaves nothing behind but the copy
\* of the channels that was not yet the device's (line 322 of the accelerometer).
NothingLeft ==
    \A d \in Drivers \ Confused :
        /\ left[d] \subseteq {"copy"}
        /\ pc[d] = "unbound" => d \notin listed /\ switch[d] = "off"

\* "Function to deinitialize the processing for usage id", says each driver of its
\* remove (line 421 of hid-sensor-custom.c): the trigger goes with the driver.
Deinitialized == \A d \in Drivers : "trigger" \notin left[d]

\* The hub's removal ends, unless a driver's thread died in its own.
RemovalEnds ==
    hub = "stopped" ~> (hub = "gone" \/ \E d \in Drivers : pc[d] = "oops")
=============================================================================
