-------------------------------- MODULE Ideapad --------------------------------
(****************************************************************************)
(* The life of the ideapad-laptop driver (yoga_laptop/ideapad-laptop.c):    *)
(* its probe, which unwinds from the middle, its removal, and the threads   *)
(* that use what it registered: the ACPI notification, the resume from      *)
(* suspend, and the users of the backlight.  Three things of the machine    *)
(* are kept in step with what the kernel was told of them: the switch of    *)
(* the radios, the state of the touchpad, the power of the backlight.       *)
(*                                                                          *)
(* A read or a write of the controller is one step here, and may fail;      *)
(* IdeapadEC models the calls it consists of.  The loops over the radios    *)
(* are one step each: nobody else looks at their table meanwhile.           *)
(****************************************************************************)
EXTENDS Naturals

CONSTANTS
    Radios,     \* the indexes of ideapad_rfk_data
    MaxEvents   \* bound: keys, switches and settings in one behaviour

ASSUME EventsAssumption == MaxEvents \in Nat

VARIABLES
    machine,    \* its features
    pc,         \* where the driver's probe or removal is
    made,       \* what is registered with the kernel, but for the radios
    halfway,    \* history: a failure left the debugfs directory there
    rfk,        \* priv->rfk: null, an rfkill that lives, or one that was freed
    job,        \* what each thread is doing
    raised,     \* the controller's event bits
    notified,   \* an ACPI notification is queued
    cell,       \* the machine: radios allowed, touchpad on, backlight on
    hw,         \* the radios that rfkill takes for hardware-blocked
    aux, told,  \* the port of the touchpad is enabled; the last key sent says so
    power,      \* blightdev->props.power
    user,       \* the program that sets the backlight
    excused,    \* history: what may be out of step, since a read failed or two crossed
    events      \* how often something happened to the machine

vars == <<machine, pc, made, halfway, rfk, job, raised, notified, cell, hw, aux,
          told, power, user, excused, events>>
driver  == <<machine, pc, made, halfway, rfk>>
mirrors == <<hw, aux, told, power>>
outside == <<raised, notified, cell, user, events>>

\* A hardware switch for the radios, control of the touchpad, a backlight that
\* is not ACPI video's.
Features == {"switch", "touchpad", "backlight"}
Mirrors  == {"radio", "touchpad", "power"}

\* The bits of VPC1 and VPC2, in the order the notification looks at them.
Number == [buttons |-> 0, power |-> 2, novo |-> 3, brightness |-> 4, touchpad |-> 5,
           key |-> 6, radio |-> 9]
Bits    == DOMAIN Number
High    == {"radio"}
Threads == {"probe", "notify", "resume"}
NoJob   == [at |-> "idle", todo |-> {}, bit |-> "key", value |-> FALSE]

Init ==
    /\ machine \in SUBSET Features
    /\ pc = "unbound"
    /\ made = {}
    /\ halfway = FALSE
    /\ rfk = [i \in Radios |-> "null"]
    /\ job = [t \in Threads |-> NoJob]
    /\ raised = {}
    /\ notified = FALSE
    /\ cell = [m \in Mirrors |-> TRUE]
    /\ hw = {}
    /\ aux = TRUE /\ told = TRUE
    /\ power = TRUE
    /\ user = "idle"
    /\ excused = {}
    /\ events = 0

-----------------------------------------------------------------------------
\* The threads' jobs.

\* Thread t has read m, or is about to, and has not yet passed it on.
WorkingOn(t, m) == job[t].at \in {"radio", "aux", "sparse", "power"} /\ job[t].bit = m
Crossed(t, m) ==
    \/ \E u \in Threads \ {t} : WorkingOn(u, m)
    \/ m = "power" /\ (user # "idle" \/ pc \in {"props", "update"})

\* The bit thread t looks at next; the other two sync the radios first.
Rank(t, b) == IF t = "notify" \/ b # "radio" THEN Number[b] ELSE 0
First(t, b) ==
    /\ job[t].at = "next"
    /\ b \in job[t].todo
    /\ \A c \in job[t].todo : Rank(t, b) <= Rank(t, c)

Drop(t, b)     == job' = [job EXCEPT ![t].todo = @ \ {b}]
Pass(t, b, at, v) == job' = [job EXCEPT ![t] = [at |-> at, todo |-> @.todo \ {b},
                                                bit |-> b, value |-> v]]
GoOn(t, b, at) == Pass(t, b, at, FALSE)
Onward(t)      == job' = [job EXCEPT ![t] = [NoJob EXCEPT !.at = "next", !.todo = job[t].todo]]

\* read_ec_data of a mirrored cell: its value goes on to "at", or nothing does.
Read(t, m, at) ==
    \/ /\ Pass(t, m, at, cell[m])
       /\ excused' = IF Crossed(t, m) THEN excused \cup {m} ELSE excused \ {m}
    \/ /\ Drop(t, m)
       /\ excused' = excused \cup {m}

\* ideapad_sync_rfk_state: without a switch nothing is blocked.
SyncRfk(t) ==
    /\ First(t, "radio")
    /\ IF "switch" \in machine THEN Read(t, "radio", "radio")
       ELSE Pass(t, "radio", "radio", TRUE) /\ UNCHANGED excused
    /\ UNCHANGED <<driver, mirrors, outside>>

\* Mutant of SetHwState: the value is not negated.
SetHwAllowed(t) ==
    /\ job[t].at = "radio"
    /\ hw' = {i \in Radios : IF rfk[i] = "live" THEN job[t].value ELSE i \in hw}
    /\ Onward(t)
    /\ UNCHANGED <<driver, aux, told, power, outside, excused>>

\* An rfkill that was freed is used all the same: the thread dies, or not.
SetHwState(t) ==
    /\ job[t].at = "radio"
    /\ hw' = {i \in Radios : IF rfk[i] = "live" THEN ~job[t].value ELSE i \in hw}
    /\ \/ Onward(t)
       \/ /\ \E i \in Radios : rfk[i] = "freed"
          /\ job' = [job EXCEPT ![t].at = "dead"]
    /\ UNCHANGED <<driver, aux, told, power, outside, excused>>

\* ideapad_sync_touchpad_state
SyncTouchpad(t) ==
    /\ First(t, "touchpad")
    /\ IF "touchpad" \in machine THEN Read(t, "touchpad", "aux")
       ELSE Drop(t, "touchpad") /\ UNCHANGED excused
    /\ UNCHANGED <<driver, mirrors, outside>>

AuxPort(t) ==
    /\ job[t].at = "aux"
    /\ aux' = job[t].value
    /\ job' = [job EXCEPT ![t].at = "sparse"]
    /\ UNCHANGED <<driver, hw, told, power, outside, excused>>

\* Mutant of TouchpadKey: the keys are swapped.
SwapKeys(t) ==
    /\ job[t].at = "sparse"
    /\ told' = ~job[t].value
    /\ Onward(t)
    /\ UNCHANGED <<driver, hw, aux, power, outside, excused>>

TouchpadKey(t) ==
    /\ job[t].at = "sparse"
    /\ told' = job[t].value
    /\ Onward(t)
    /\ UNCHANGED <<driver, hw, aux, power, outside, excused>>

-----------------------------------------------------------------------------
\* ideapad_acpi_notify and ideapad_acpi_resume.

\* Reading VPC1 and VPC2 clears them.
Notify ==
    /\ "handler" \in made
    /\ notified
    /\ job["notify"].at = "idle"
    /\ notified' = FALSE
    /\ job' = [job EXCEPT !["notify"].at = "vpc1"]
    /\ UNCHANGED <<driver, mirrors, raised, cell, user, excused, events>>

ReadVpc1 ==
    /\ job["notify"].at = "vpc1"
    /\ \/ /\ job' = [job EXCEPT !["notify"].at = "vpc2", !["notify"].todo = raised \ High]
          /\ raised' = raised \cap High
       \/ /\ job' = [job EXCEPT !["notify"] = NoJob]
          /\ UNCHANGED raised
    /\ UNCHANGED <<driver, mirrors, notified, cell, user, excused, events>>

\* When this read fails what VPC1 said is lost.
ReadVpc2 ==
    /\ job["notify"].at = "vpc2"
    /\ \/ /\ job' = [job EXCEPT !["notify"].at = "next",
                                !["notify"].todo = @ \cup (raised \cap High)]
          /\ raised' = raised \ High
          /\ UNCHANGED excused
       \/ /\ job' = [job EXCEPT !["notify"] = NoJob]
          /\ excused' = excused \cup (job["notify"].todo \cap Mirrors)
          /\ UNCHANGED raised
    /\ UNCHANGED <<driver, mirrors, notified, cell, user, events>>

\* The driver's device is locked during a resume, and may not be removed.
Resume ==
    /\ pc = "bound"
    /\ job["resume"].at = "idle"
    /\ job' = [job EXCEPT !["resume"].at = "next",
                          !["resume"].todo = {"radio", "touchpad"}]
    /\ UNCHANGED <<driver, mirrors, outside, excused>>

JobDone(t) ==
    /\ t # "probe"
    /\ job[t].at = "next" /\ job[t].todo = {}
    /\ job' = [job EXCEPT ![t] = NoJob]
    /\ UNCHANGED <<driver, mirrors, outside, excused>>

\* ideapad_backlight_notify_power
NotifyPower ==
    /\ First("notify", "power")
    /\ IF "backlight" \in made THEN Read("notify", "power", "power")
       ELSE Drop("notify", "power") /\ UNCHANGED excused
    /\ UNCHANGED <<driver, mirrors, outside>>

\* Mutant of SetPropsPower: the value is taken for a level of blanking.
SetPropsBlank ==
    /\ job["notify"].at = "power"
    /\ power' = ~job["notify"].value
    /\ Onward("notify")
    /\ UNCHANGED <<driver, hw, aux, told, outside, excused>>

\* No lock of the backlight is held.
SetPropsPower ==
    /\ job["notify"].at = "power"
    /\ power' = job["notify"].value
    /\ Onward("notify")
    /\ UNCHANGED <<driver, hw, aux, told, outside, excused>>

\* Mutant of NotifyBrightness: the bit is not passed over without a backlight.
NeedBacklight ==
    /\ First("notify", "brightness")
    /\ "backlight" \in made
    /\ GoOn("notify", "brightness", "force")
    /\ UNCHANGED <<driver, mirrors, outside, excused>>

\* ideapad_backlight_notify_brightness: without a backlight the controller is
\* read for its own sake, and with one backlight_force_update asks for it.
NotifyBrightness ==
    /\ First("notify", "brightness")
    /\ IF "backlight" \in made THEN GoOn("notify", "brightness", "force")
       ELSE Drop("notify", "brightness")
    /\ UNCHANGED <<driver, mirrors, outside, excused>>

\* ideapad_input_novokey, ideapad_check_special_buttons, and the keys that are
\* reported as they are.  After a failed read of the special buttons the driver
\* looks at a variable it never set.
NotifyKey ==
    /\ \E b \in {"novo", "buttons", "key"} :
          /\ First("notify", b)
          /\ \/ GoOn("notify", b, "report")
             \/ b # "key" /\ Drop("notify", b)
    /\ UNCHANGED <<driver, mirrors, outside, excused>>

\* backlight_force_update, and sparse_keymap_report_event.
Deliver ==
    /\ job["notify"].at \in {"force", "report"}
    /\ Onward("notify")
    /\ UNCHANGED <<driver, mirrors, outside, excused>>

-----------------------------------------------------------------------------
\* ideapad_acpi_add: each step succeeds, or fails and goes to its label.

Step(from, to) == pc = from /\ pc' = to
others == <<job, outside, excused>>

\* The private data is allocated anew and is all zero.
SysfsInit ==
    /\ Step("unbound", "debugfs")
    /\ made' = made \cup {"sysfs"}
    /\ rfk' = [i \in Radios |-> "null"]
    /\ UNCHANGED <<machine, halfway, mirrors, others>>

\* The directory may be there from an earlier failure, or not fill.
DebugfsInit ==
    /\ pc = "debugfs"
    /\ \/ /\ "debugfs" \notin made
          /\ pc' = "input"
          /\ made' = made \cup {"debugfs"}
          /\ UNCHANGED halfway
       \/ /\ "debugfs" \notin made
          /\ pc' = "unsysfs"
          /\ made' = made \cup {"debugfs"}
          /\ halfway' = TRUE
       \/ /\ pc' = "unsysfs"
          /\ UNCHANGED <<made, halfway>>
    /\ UNCHANGED <<machine, rfk, mirrors, others>>

\* Mutant of InputInit: a failure goes to the label below its own.
SkipDebugfs ==
    /\ \/ Step("input", "rfkill") /\ made' = made \cup {"input"}
       \/ Step("input", "unsysfs") /\ UNCHANGED made
    /\ UNCHANGED <<machine, halfway, rfk, mirrors, others>>

InputInit ==
    /\ \/ Step("input", "rfkill") /\ made' = made \cup {"input"}
       \/ Step("input", "undebugfs") /\ UNCHANGED made
    /\ UNCHANGED <<machine, halfway, rfk, mirrors, others>>

\* Mutant of RegisterRfkill: the loop goes one past the end of the table.
RegisterPast ==
    /\ Step("rfkill", "sync")
    /\ rfk' \in [Radios \cup {3} -> {"null", "live", "freed"}]
    /\ job' = [job EXCEPT !["probe"].at = "next", !["probe"].todo = {"radio", "touchpad"}]
    /\ UNCHANGED <<machine, made, halfway, mirrors, outside, excused>>

\* VPCCMD_W_RF, and ideapad_register_rfkill for each radio.  A radio may be
\* absent, be left to itself (no_bt_rfkill), or fail; no result is looked at.
RegisterRfkill ==
    /\ Step("rfkill", "sync")
    /\ rfk' \in [Radios -> {"null", "live", "freed"}]
    /\ job' = [job EXCEPT !["probe"].at = "next", !["probe"].todo = {"radio", "touchpad"}]
    /\ UNCHANGED <<machine, made, halfway, mirrors, outside, excused>>

Synced ==
    /\ job["probe"].at = "next" /\ job["probe"].todo = {}
    /\ Step("sync", IF "backlight" \in machine THEN "backlight" ELSE "handler")
    /\ job' = [job EXCEPT !["probe"] = NoJob]
    /\ UNCHANGED <<machine, made, halfway, rfk, mirrors, outside, excused>>

\* A thread that dies in the probe takes it along.
ProbeDies ==
    /\ job["probe"].at = "dead"
    /\ Step("sync", "oops")
    /\ UNCHANGED <<machine, made, halfway, rfk, mirrors, others>>

\* ideapad_backlight_init reads the controller, registers the device with its
\* power 0, which means on, sets the power read, and has it written back.
BacklightInit ==
    /\ \/ /\ Step("backlight", "props")
          /\ made' = made \cup {"backlight"}
          /\ job' = [job EXCEPT !["probe"].value = cell["power"]]
          /\ power' = TRUE
       \/ /\ pc = "backlight"
          /\ pc' \in {"unrfkill", "handler"}
          /\ UNCHANGED <<made, job, power>>
    /\ UNCHANGED <<machine, halfway, rfk, hw, aux, told, outside, excused>>

BacklightProps ==
    /\ Step("props", "update")
    /\ power' = job["probe"].value
    /\ job' = [job EXCEPT !["probe"] = NoJob]
    /\ UNCHANGED <<machine, made, halfway, rfk, hw, aux, told, outside, excused>>

\* ideapad_backlight_update_status, by the probe and by a user.
UpdateStatus ==
    \/ /\ cell' = [cell EXCEPT !["power"] = power]
       /\ excused' = IF WorkingOn("notify", "power") THEN excused ELSE excused \ {"power"}
    \/ /\ excused' = excused \cup {"power"}
       /\ UNCHANGED cell

BacklightUpdate ==
    /\ Step("update", "handler")
    /\ UpdateStatus
    /\ UNCHANGED <<machine, made, halfway, rfk, mirrors, job, raised, notified, user,
                   events>>

InstallHandler ==
    /\ \/ Step("handler", "bound") /\ made' = made \cup {"handler"}
       \/ Step("handler", "unbacklight") /\ UNCHANGED made
    /\ UNCHANGED <<machine, halfway, rfk, mirrors, others>>

-----------------------------------------------------------------------------
\* ideapad_acpi_remove, which a failed probe joins at its label.

Remove ==
    /\ job["resume"].at = "idle"
    /\ Step("bound", "remove")
    /\ UNCHANGED <<machine, made, halfway, rfk, mirrors, others>>

\* Mutant of RemoveHandler: one that runs is not waited for.
RemoveAtOnce ==
    /\ Step("remove", "unbacklight")
    /\ made' = made \ {"handler"}
    /\ notified' = FALSE
    /\ UNCHANGED <<machine, halfway, rfk, mirrors, job, raised, cell, user, excused, events>>

\* acpi_remove_notify_handler lets what is queued and what runs come to an end.
RemoveHandler ==
    /\ ~notified /\ job["notify"].at = "idle"
    /\ Step("remove", "unbacklight")
    /\ made' = made \ {"handler"}
    /\ UNCHANGED <<machine, halfway, rfk, mirrors, others>>

\* backlight_device_unregister waits for the users of the device's files.
BacklightExit ==
    /\ user = "idle"
    /\ Step("unbacklight", "unrfkill")
    /\ made' = made \ {"backlight"}
    /\ power' = TRUE
    /\ UNCHANGED <<machine, halfway, rfk, hw, aux, told, others>>

\* ideapad_unregister_rfkill for each radio; one that was freed already is used
\* and freed again.
UnregisterRfkill ==
    /\ rfk' = [i \in Radios |-> IF rfk[i] = "null" THEN "null" ELSE "freed"]
    /\ \/ Step("unrfkill", "uninput")
       \/ (\E i \in Radios : rfk[i] = "freed") /\ Step("unrfkill", "oops")
    /\ hw' = {}
    /\ UNCHANGED <<machine, made, halfway, aux, told, power, others>>

InputExit ==
    /\ Step("uninput", "undebugfs")
    /\ made' = made \ {"input"}
    /\ UNCHANGED <<machine, halfway, rfk, mirrors, others>>

DebugfsExit ==
    /\ Step("undebugfs", "unsysfs")
    /\ made' = made \ {"debugfs"}
    /\ UNCHANGED <<machine, halfway, rfk, mirrors, others>>

SysfsExit ==
    /\ Step("unsysfs", "unbound")
    /\ made' = made \ {"sysfs"}
    /\ UNCHANGED <<machine, halfway, rfk, mirrors, others>>

-----------------------------------------------------------------------------
\* What happens outside.

Happens == events < MaxEvents /\ events' = events + 1

\* An event is notified of if somebody asked to be.
Raise(b) ==
    /\ raised' = raised \cup {b}
    /\ notified' = (notified \/ "handler" \in made)

\* Somebody turns a switch, or presses a key.
Flip ==
    /\ Happens
    /\ \E m \in Mirrors : Raise(m) /\ cell' = [cell EXCEPT ![m] = ~@]
    /\ UNCHANGED <<driver, mirrors, job, user, excused>>

Press ==
    /\ Happens
    /\ \E b \in Bits \ Mirrors : Raise(b)
    /\ UNCHANGED <<driver, mirrors, job, cell, user, excused>>

\* A program writes bl_power or brightness.
SetBacklight ==
    /\ Happens
    /\ "backlight" \in made
    /\ user = "idle"
    /\ user' = "update"
    /\ power' \in BOOLEAN
    /\ excused' = IF WorkingOn("notify", "power") THEN excused \cup {"power"} ELSE excused
    /\ UNCHANGED <<driver, hw, aux, told, job, raised, notified, cell>>

UserUpdate ==
    /\ user = "update"
    /\ user' = "idle"
    /\ UpdateStatus
    /\ UNCHANGED <<driver, mirrors, job, raised, notified, events>>

-----------------------------------------------------------------------------
Sync(t) == SyncRfk(t) \/ SetHwState(t) \/ SyncTouchpad(t) \/ AuxPort(t) \/ TouchpadKey(t)

NotifyJob ==
    \/ Notify \/ ReadVpc1 \/ ReadVpc2 \/ NotifyPower \/ SetPropsPower
    \/ NotifyBrightness \/ NotifyKey \/ Deliver

Probe ==
    \/ DebugfsInit \/ InputInit \/ RegisterRfkill \/ Synced \/ ProbeDies
    \/ BacklightInit \/ BacklightProps \/ BacklightUpdate \/ InstallHandler

Unwind ==
    \/ RemoveHandler \/ BacklightExit \/ UnregisterRfkill \/ InputExit \/ DebugfsExit
    \/ SysfsExit

Next ==
    \/ SysfsInit \/ Probe \/ Remove \/ Unwind
    \/ NotifyJob \/ Resume \/ (\E t \in Threads : Sync(t) \/ JobDone(t))
    \/ Flip \/ Press \/ SetBacklight \/ UserUpdate

Spec == Init /\ [][Next]_vars

\* Threads run.  Nothing is assumed of the machine or of who binds the driver.
FairSpec ==
    /\ Spec
    /\ WF_vars(Probe) /\ WF_vars(Unwind) /\ WF_vars(UserUpdate)
    /\ WF_vars(NotifyJob \/ Sync("notify") \/ JobDone("notify"))
    /\ \A t \in {"probe", "resume"} : WF_vars(Sync(t) \/ JobDone(t))

-----------------------------------------------------------------------------
\* Properties.

\* Every variable holds a value of its type.
TypeOK ==
    /\ machine \subseteq Features
    /\ pc \in {"unbound", "debugfs", "input", "rfkill", "sync", "backlight", "props",
               "update", "handler", "bound", "remove", "unbacklight", "unrfkill",
               "uninput", "undebugfs", "unsysfs", "oops"}
    /\ made \subseteq {"sysfs", "debugfs", "input", "backlight", "handler"}
    /\ halfway \in BOOLEAN
    /\ rfk \in [Radios -> {"null", "live", "freed"}]
    /\ job \in [Threads -> [at : {"idle", "vpc1", "vpc2", "next", "radio", "aux", "sparse",
                                  "power", "force", "report", "dead"},
                            todo : SUBSET Bits, bit : Bits, value : BOOLEAN]]
    /\ raised \subseteq Bits
    /\ notified \in BOOLEAN
    /\ cell \in [Mirrors -> BOOLEAN]
    /\ hw \subseteq Radios
    /\ aux \in BOOLEAN /\ told \in BOOLEAN /\ power \in BOOLEAN
    /\ user \in {"idle", "update"}
    /\ excused \subseteq Mirrors
    /\ events \in 0..MaxEvents

\* A thread uses the input device and the backlight only while they are
\* registered, whichever thread it is and however far the probe or removal is.
UsesLive ==
    /\ \A t \in Threads : job[t].at \in {"sparse", "report"} => "input" \in made
    /\ \A t \in Threads : job[t].at \in {"power", "force"} => "backlight" \in made
    /\ user # "idle" => "backlight" \in made

\* A driver that is not bound left nothing registered, whichever step of its
\* probe failed, unless debugfs filled only halfway.
Undone ==
    pc = "unbound" =>
        /\ made \subseteq (IF halfway THEN {"debugfs"} ELSE {})
        /\ \A i \in Radios : rfk[i] # "live"

\* Nobody is about to bring m up to date.
Settled(m) ==
    /\ pc = "bound"
    /\ m \notin raised
    /\ \A t \in Threads : m \notin job[t].todo /\ ~WorkingOn(t, m)
    /\ m = "power" => user = "idle"

\* When all is settled, the radios are blocked just if the switch blocks them,
\* and never on a machine that has none; excused are a failed read, and a
\* resume that crossed a notification.
RadiosFollow ==
    Settled("radio") /\ "radio" \notin excused =>
        \A i \in Radios : rfk[i] = "live" =>
            (i \in hw <=> ("switch" \in machine /\ ~cell["radio"]))

\* When all is settled, the touchpad's port and the key last sent agree with the
\* controller, under the same condition.
TouchpadFollows ==
    Settled("touchpad") /\ "touchpad" \notin excused /\ "touchpad" \in machine =>
        aux = cell["touchpad"] /\ told = cell["touchpad"]

\* When all is settled, the kernel's idea of the backlight's power is right, if no
\* user's setting crossed a notification.
BacklightFollows ==
    Settled("power") /\ "power" \notin excused /\ "backlight" \in made =>
        power = cell["power"]

\* A removal ends, whatever is being notified of, unless a thread died over a
\* freed rfkill.
RemovalEnds ==
    pc = "remove" ~>
        (pc \in {"unbound", "oops"} \/ job["notify"].at = "dead")
=============================================================================
