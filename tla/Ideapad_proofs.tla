---------------------------- MODULE Ideapad_proofs ----------------------------
(****************************************************************************)
(* Proofs about Ideapad, for any radios and any number of events: types,    *)
(* that threads use only what is registered, that a driver that is not      *)
(* bound left nothing behind, and, from the mirrors on, that when all is    *)
(* settled what the kernel was told of the radios, the touchpad and the     *)
(* backlight is what the machine does.                                      *)
(****************************************************************************)
EXTENDS Ideapad, TLAPS

Dirs == IF halfway THEN {"debugfs"} ELSE {}

\* What is registered at each step of the probe and at each label.
Building == {"rfkill", "sync", "backlight", "props", "update", "handler", "bound",
             "remove", "unbacklight", "unrfkill", "uninput", "oops"}

MadeInv ==
    /\ pc \in Building => "input" \in made
    /\ pc \in {"props", "update"} => "backlight" \in made
    /\ "handler" \in made <=> pc \in {"bound", "remove"}
    /\ pc = "unbound" => made \subseteq Dirs
    /\ pc \in {"debugfs", "unsysfs"} => made \subseteq {"sysfs"} \cup Dirs
    /\ pc \in {"input", "undebugfs"} => made \subseteq {"sysfs", "debugfs"}
    /\ "backlight" \in made =>
          pc \in {"props", "update", "handler", "bound", "remove", "unbacklight"}
    /\ (\E i \in Radios : rfk[i] = "live") => pc \in Building \ {"uninput"}

\* Who may be at work then.
JobInv ==
    /\ job["probe"].at # "idle" => pc \in {"sync", "oops"}
    /\ job["notify"].at # "idle" => pc \in {"bound", "remove"}
    /\ job["resume"].at # "idle" => pc = "bound"
    /\ \A t \in {"probe", "resume"} :
          job[t].at \notin {"vpc1", "vpc2", "power", "force", "report"}
    /\ job["notify"].at \in {"power", "force"} => "backlight" \in made
    /\ user # "idle" => "backlight" \in made

Jobs == [at : {"idle", "vpc1", "vpc2", "next", "radio", "aux", "sparse", "power",
               "force", "report", "dead"},
         todo : SUBSET Bits, bit : Bits, value : BOOLEAN]

Inv == TypeOK /\ MadeInv /\ JobInv

-----------------------------------------------------------------------------
\* A thread's steps change its job, what the kernel was told, and what is excused.

LEMMA Numbers ==
    /\ Bits = {"buttons", "power", "novo", "brightness", "touchpad", "key", "radio"}
    /\ Mirrors \subseteq Bits
    /\ \A m \in Mirrors : m \in {"radio", "touchpad", "power"}
  BY DEF Bits, Number, Mirrors

LEMMA InitInv == Init => Inv
<1> SUFFICES ASSUME Init PROVE Inv  OBVIOUS
<1>1. NoJob \in [at : {"idle"}, todo : SUBSET Bits, bit : Bits, value : BOOLEAN]
  BY Numbers DEF NoJob
<1>2. job \in [Threads -> [at : {"idle"}, todo : SUBSET Bits, bit : Bits, value : BOOLEAN]]
  BY <1>1 DEF Init
<1>3. TypeOK
  <2>1. cell \in [Mirrors -> BOOLEAN]  BY DEF Init
  <2>2. rfk \in [Radios -> {"null", "live", "freed"}]  BY DEF Init
  <2>3. events \in 0..MaxEvents  BY EventsAssumption DEF Init
  <2>4. job \in [Threads -> [at : {"idle", "vpc1", "vpc2", "next", "radio", "aux",
                                  "sparse", "power", "force", "report", "dead"},
                            todo : SUBSET Bits, bit : Bits, value : BOOLEAN]]
    BY <1>2
  <2> QED  BY <2>1, <2>2, <2>3, <2>4 DEF Init, TypeOK
<1>4. MadeInv  BY DEF Init, MadeInv, Building, Dirs
<1>5. JobInv   BY <1>2 DEF Init, JobInv, Threads
<1> QED  BY <1>3, <1>4, <1>5 DEF Inv

\* The job of thread t, which has one, is replaced by another.
LEMMA JobStep ==
    ASSUME Inv, NEW t \in Threads, NEW new \in Jobs, job' = [job EXCEPT ![t] = new],
           job[t].at # "idle",
           new.at \in {"vpc1", "vpc2", "power", "force", "report"} => t = "notify",
           new.at \in {"power", "force"} => "backlight" \in made,
           UNCHANGED <<driver, user>>
    PROVE  JobInv' /\ MadeInv' /\ job' \in [Threads -> Jobs]
<1>1. job \in [Threads -> Jobs]  BY DEF Inv, TypeOK, Jobs
<1>2. job'[t] = new /\ \A u \in Threads \ {t} : job'[u] = job[u]
  BY <1>1
<1>3. job' \in [Threads -> Jobs]  BY <1>1
<1>4. JobInv'  BY <1>2 DEF Inv, JobInv, Threads, driver
<1>5. MadeInv'  BY DEF Inv, MadeInv, Dirs, driver
<1> QED  BY <1>3, <1>4, <1>5

\* The three ways in which a job goes on.
LEMMA Moves ==
    ASSUME Inv, NEW t \in Threads, job[t].at # "idle"
    PROVE  /\ \A b : Drop(t, b) =>
                 \E new \in Jobs : /\ job' = [job EXCEPT ![t] = new]
                                    /\ new.at = job[t].at
           /\ \A b \in Bits, v \in BOOLEAN :
                 \A at \in {"radio", "aux", "sparse", "power", "force", "report"} :
                    Pass(t, b, at, v) =>
                       \E new \in Jobs : job' = [job EXCEPT ![t] = new] /\ new.at = at
           /\ Onward(t) =>
                 \E new \in Jobs : job' = [job EXCEPT ![t] = new] /\ new.at = "next"
<1>1. job \in [Threads -> Jobs]  BY DEF Inv, TypeOK, Jobs
<1>2. job[t] \in Jobs  BY <1>1
<1>3. \A b : Drop(t, b) =>
         \E new \in Jobs : job' = [job EXCEPT ![t] = new] /\ new.at = job[t].at
  <2> SUFFICES ASSUME NEW b, Drop(t, b)
               PROVE  \E new \in Jobs : job' = [job EXCEPT ![t] = new] /\ new.at = job[t].at
    OBVIOUS
  <2> DEFINE new == [job[t] EXCEPT !.todo = @ \ {b}]
  <2>1. new \in Jobs /\ new.at = job[t].at  BY <1>2 DEF Jobs
  <2>2. job' = [job EXCEPT ![t] = new]  BY <1>1, <1>2 DEF Drop, Jobs
  <2> QED  BY <2>1, <2>2
<1>4. ASSUME NEW b \in Bits, NEW v \in BOOLEAN,
             NEW at \in {"radio", "aux", "sparse", "power", "force", "report"},
             Pass(t, b, at, v)
      PROVE  \E new \in Jobs : job' = [job EXCEPT ![t] = new] /\ new.at = at
  <2> DEFINE new == [at |-> at, todo |-> job[t].todo \ {b}, bit |-> b, value |-> v]
  <2>1. new \in Jobs /\ new.at = at  BY <1>2 DEF Jobs
  <2>2. job' = [job EXCEPT ![t] = new]  BY <1>4 DEF Pass
  <2> QED  BY <2>1, <2>2
<1>5. ASSUME Onward(t)
      PROVE  \E new \in Jobs : job' = [job EXCEPT ![t] = new] /\ new.at = "next"
  <2> DEFINE new == [NoJob EXCEPT !.at = "next", !.todo = job[t].todo]
  <2>1. new \in Jobs /\ new.at = "next"  BY <1>2, Numbers DEF Jobs, NoJob
  <2>2. job' = [job EXCEPT ![t] = new]  BY <1>5 DEF Onward
  <2> QED  BY <2>1, <2>2
<1> QED  BY <1>3, <1>4, <1>5

\* A thread between two jobs, or past one, goes on with its next statement.
LEMMA Continue ==
    ASSUME Inv, NEW t \in Threads, job[t].at # "idle", UNCHANGED <<driver, user>>,
           \/ job[t].at = "next" /\ \E b : Drop(t, b)
           \/ \E b \in Bits, v \in BOOLEAN, at \in {"radio", "aux", "sparse"} :
                 Pass(t, b, at, v)
           \/ t = "notify" /\ \E b \in Bits : GoOn(t, b, "report")
           \/ /\ t = "notify" /\ "backlight" \in made
              /\ \E b \in Bits, v \in BOOLEAN, at \in {"power", "force"} : Pass(t, b, at, v)
           \/ Onward(t)
    PROVE  JobInv' /\ MadeInv' /\ job' \in [Threads -> Jobs]
<1>1. CASE job[t].at = "next" /\ \E b : Drop(t, b)
  BY <1>1, Moves, JobStep
<1>2. CASE \E b \in Bits, v \in BOOLEAN, at \in {"radio", "aux", "sparse"} : Pass(t, b, at, v)
  BY <1>2, Moves, JobStep
<1>3. CASE t = "notify" /\ \E b \in Bits : GoOn(t, b, "report")
  <2>1. PICK b \in Bits : Pass(t, b, "report", FALSE)  BY <1>3 DEF GoOn
  <2>2. PICK new \in Jobs : job' = [job EXCEPT ![t] = new] /\ new.at = "report"
    BY <2>1, Moves
  <2> QED  BY <1>3, <2>2, JobStep
<1>4. CASE /\ t = "notify" /\ "backlight" \in made
           /\ \E b \in Bits, v \in BOOLEAN, at \in {"power", "force"} : Pass(t, b, at, v)
  BY <1>4, Moves, JobStep
<1>5. CASE Onward(t)
  BY <1>5, Moves, JobStep
<1> QED  BY <1>1, <1>2, <1>3, <1>4, <1>5

-----------------------------------------------------------------------------
\* The jobs of all threads, one action at a time.

LEMMA ReadContinues ==
    ASSUME Inv, NEW t \in Threads, NEW m \in Mirrors, NEW at, Read(t, m, at), First(t, m)
    PROVE  /\ excused' \subseteq Mirrors
           /\ \/ job[t].at = "next" /\ \E b : Drop(t, b)
              \/ m \in Bits /\ cell[m] \in BOOLEAN /\ Pass(t, m, at, cell[m])
  BY Numbers DEF Read, First, Inv, TypeOK

LEMMA SyncInv ==
    ASSUME Inv, NEW t \in Threads, Sync(t) \/ JobDone(t)
    PROVE  Inv'
<1> "radio" \in Mirrors /\ "touchpad" \in Mirrors  BY DEF Mirrors
<1>1. CASE SyncRfk(t)
  <2>1. /\ excused' \subseteq Mirrors
        /\ \/ job[t].at = "next" /\ \E b : Drop(t, b)
           \/ \E b \in Bits, v \in BOOLEAN, at \in {"radio", "aux", "sparse"} : Pass(t, b, at, v)
    <3>1. CASE "switch" \in machine
      BY <1>1, <3>1, ReadContinues DEF SyncRfk
    <3>2. CASE "switch" \notin machine
      <4>1. Pass(t, "radio", "radio", TRUE) /\ excused' = excused
        BY <1>1, <3>2 DEF SyncRfk
      <4> QED  BY <4>1, Numbers DEF Inv, TypeOK
    <3> QED  BY <3>1, <3>2
  <2>2. job[t].at # "idle"  BY <1>1 DEF SyncRfk, First
  <2>3. JobInv' /\ MadeInv' /\ job' \in [Threads -> Jobs]
    BY <1>1, <2>1, <2>2, Continue DEF SyncRfk, outside
  <2> QED  BY <1>1, <2>1, <2>3 DEF SyncRfk, Inv, TypeOK, Jobs, driver, mirrors, outside
<1>2. CASE SetHwState(t)
  <2>1. job[t].at # "idle"  BY <1>2 DEF SetHwState
  <2>2. CASE Onward(t)
    <3>1. JobInv' /\ MadeInv' /\ job' \in [Threads -> Jobs]
      BY <1>2, <2>1, <2>2, Continue DEF SetHwState, outside
    <3> QED  BY <1>2, <3>1 DEF SetHwState, Inv, TypeOK, Jobs, driver, outside
  <2>3. CASE job' = [job EXCEPT ![t].at = "dead"]
    <3> DEFINE new == [job[t] EXCEPT !.at = "dead"]
    <3>1. new \in Jobs /\ new.at = "dead"  BY DEF Inv, TypeOK, Jobs
    <3>2. job' = [job EXCEPT ![t] = new]  BY <2>3 DEF Inv, TypeOK
    <3>3. JobInv' /\ MadeInv' /\ job' \in [Threads -> Jobs]
      BY <1>2, <2>1, <3>1, <3>2, JobStep DEF SetHwState, outside
    <3> QED  BY <1>2, <3>3 DEF SetHwState, Inv, TypeOK, Jobs, driver, outside
  <2> QED  BY <1>2, <2>2, <2>3 DEF SetHwState
<1>3. CASE SyncTouchpad(t)
  <2>1. /\ excused' \subseteq Mirrors
        /\ \/ job[t].at = "next" /\ \E b : Drop(t, b)
           \/ \E b \in Bits, v \in BOOLEAN, at \in {"radio", "aux", "sparse"} : Pass(t, b, at, v)
    <3>1. CASE "touchpad" \in machine
      BY <1>3, <3>1, ReadContinues DEF SyncTouchpad
    <3>2. CASE "touchpad" \notin machine
      <4>1. Drop(t, "touchpad") /\ excused' = excused /\ job[t].at = "next"
        BY <1>3, <3>2 DEF SyncTouchpad, First
      <4> QED  BY <4>1 DEF Inv, TypeOK
    <3> QED  BY <3>1, <3>2
  <2>2. job[t].at # "idle"  BY <1>3 DEF SyncTouchpad, First
  <2>3. JobInv' /\ MadeInv' /\ job' \in [Threads -> Jobs]
    BY <1>3, <2>1, <2>2, Continue DEF SyncTouchpad, outside
  <2> QED  BY <1>3, <2>1, <2>3 DEF SyncTouchpad, Inv, TypeOK, Jobs, driver, mirrors, outside
<1>4. CASE AuxPort(t)
  <2> DEFINE new == [job[t] EXCEPT !.at = "sparse"]
  <2>1. new \in Jobs /\ new.at = "sparse" /\ job[t].value \in BOOLEAN
    BY DEF Inv, TypeOK, Jobs
  <2>2. job' = [job EXCEPT ![t] = new] /\ job[t].at # "idle"
    BY <1>4 DEF AuxPort, Inv, TypeOK
  <2>3. JobInv' /\ MadeInv' /\ job' \in [Threads -> Jobs]
    BY <1>4, <2>1, <2>2, JobStep DEF AuxPort, outside
  <2>4. aux' \in BOOLEAN  BY <1>4, <2>1 DEF AuxPort
  <2> QED  BY <1>4, <2>3, <2>4 DEF AuxPort, Inv, TypeOK, Jobs, driver, outside
<1>5. CASE TouchpadKey(t)
  <2>1. job[t].at # "idle" /\ job[t].value \in BOOLEAN
    BY <1>5 DEF TouchpadKey, Inv, TypeOK
  <2>2. JobInv' /\ MadeInv' /\ job' \in [Threads -> Jobs]
    BY <1>5, <2>1, Continue DEF TouchpadKey, outside
  <2>3. told' \in BOOLEAN  BY <1>5, <2>1 DEF TouchpadKey
  <2> QED  BY <1>5, <2>2, <2>3 DEF TouchpadKey, Inv, TypeOK, Jobs, driver, outside
<1>6. CASE JobDone(t)
  <2>1. NoJob \in Jobs /\ NoJob.at = "idle"  BY Numbers DEF NoJob, Jobs
  <2>2. JobInv' /\ MadeInv' /\ job' \in [Threads -> Jobs]
    BY <1>6, <2>1, JobStep DEF JobDone, outside
  <2> QED  BY <1>6, <2>2 DEF JobDone, Inv, TypeOK, Jobs, driver, mirrors, outside
<1> QED  BY <1>1, <1>2, <1>3, <1>4, <1>5, <1>6 DEF Sync

LEMMA NotifyInv ==
    ASSUME Inv, NotifyJob \/ Resume
    PROVE  Inv'
<1> "notify" \in Threads /\ "resume" \in Threads /\ "power" \in Mirrors
  BY DEF Threads, Mirrors
<1>0. job \in [Threads -> Jobs]  BY DEF Inv, TypeOK, Jobs
<1>1. CASE Notify
  <2>1. job' \in [Threads -> Jobs] /\ \A t \in Threads \ {"notify"} : job'[t] = job[t]
    BY <1>0, <1>1 DEF Notify, Jobs
  <2>2. job'["notify"].at = "vpc1"  BY <1>0, <1>1 DEF Notify, Jobs
  <2>3. JobInv' /\ MadeInv'
    BY <1>1, <2>1, <2>2 DEF Notify, Inv, MadeInv, JobInv, Dirs, Threads, driver
  <2> QED  BY <1>1, <2>1, <2>3 DEF Notify, Inv, TypeOK, Jobs, driver, mirrors
<1>2. CASE ReadVpc1
  <2>1. \E new \in Jobs : /\ job' = [job EXCEPT !["notify"] = new]
                          /\ new.at \in {"vpc2", "idle"}
    <3> DEFINE new == [job["notify"] EXCEPT !.at = "vpc2", !.todo = raised \ High]
    <3>1. new \in Jobs /\ new.at = "vpc2"  BY <1>0 DEF Jobs, Inv, TypeOK
    <3>2. NoJob \in Jobs /\ NoJob.at = "idle"  BY Numbers DEF NoJob, Jobs
    <3> QED  BY <1>0, <1>2, <3>1, <3>2 DEF ReadVpc1, Jobs
  <2>2. JobInv' /\ MadeInv' /\ job' \in [Threads -> Jobs]
    BY <1>2, <2>1, JobStep DEF ReadVpc1
  <2>3. raised' \subseteq Bits  BY <1>2 DEF ReadVpc1, Inv, TypeOK
  <2> QED  BY <1>2, <2>2, <2>3 DEF ReadVpc1, Inv, TypeOK, Jobs, driver, mirrors
<1>3. CASE ReadVpc2
  <2>1. \E new \in Jobs : /\ job' = [job EXCEPT !["notify"] = new]
                          /\ new.at \in {"next", "idle"}
    <3> DEFINE new == [job["notify"] EXCEPT !.at = "next", !.todo = @ \cup (raised \cap High)]
    <3>1. new \in Jobs /\ new.at = "next"  BY <1>0 DEF Jobs, Inv, TypeOK
    <3>2. NoJob \in Jobs /\ NoJob.at = "idle"  BY Numbers DEF NoJob, Jobs
    <3> QED  BY <1>0, <1>3, <3>1, <3>2 DEF ReadVpc2, Jobs
  <2>2. JobInv' /\ MadeInv' /\ job' \in [Threads -> Jobs]
    BY <1>3, <2>1, JobStep DEF ReadVpc2
  <2>3. raised' \subseteq Bits /\ excused' \subseteq Mirrors
    BY <1>3 DEF ReadVpc2, Inv, TypeOK
  <2> QED  BY <1>3, <2>2, <2>3 DEF ReadVpc2, Inv, TypeOK, Jobs, driver, mirrors
<1>4. CASE NotifyPower
  <2>1. job["notify"].at = "next"  BY <1>4 DEF NotifyPower, First
  <2>2. excused' \subseteq Mirrors /\ JobInv' /\ MadeInv' /\ job' \in [Threads -> Jobs]
    <3>1. CASE "backlight" \in made
      <4>1. Read("notify", "power", "power") /\ First("notify", "power")
        BY <1>4, <3>1 DEF NotifyPower
      <4>2. excused' \subseteq Mirrors  BY <4>1, ReadContinues
      <4>3. \/ job["notify"].at = "next" /\ \E b : Drop("notify", b)
            \/ \E b \in Bits, v \in BOOLEAN, at \in {"power", "force"} :
                  Pass("notify", b, at, v)
        BY <4>1, ReadContinues
      <4> QED  BY <1>4, <2>1, <3>1, <4>2, <4>3, Continue DEF NotifyPower, outside
    <3>2. CASE "backlight" \notin made
      <4>1. Drop("notify", "power") /\ excused' = excused
        BY <1>4, <3>2 DEF NotifyPower
      <4> QED  BY <1>4, <2>1, <4>1, Continue DEF NotifyPower, outside, Inv, TypeOK
    <3> QED  BY <3>1, <3>2
  <2> QED  BY <1>4, <2>2 DEF NotifyPower, Inv, TypeOK, Jobs, driver, mirrors, outside
<1>5. CASE SetPropsPower
  <2>1. job["notify"].at # "idle" /\ job["notify"].value \in BOOLEAN
    BY <1>5 DEF SetPropsPower, Inv, TypeOK
  <2>2. JobInv' /\ MadeInv' /\ job' \in [Threads -> Jobs]
    BY <1>5, <2>1, Continue DEF SetPropsPower, outside
  <2>3. power' \in BOOLEAN  BY <1>5, <2>1 DEF SetPropsPower
  <2> QED  BY <1>5, <2>2, <2>3 DEF SetPropsPower, Inv, TypeOK, Jobs, driver, outside
<1>6. CASE NotifyBrightness
  <2>1. job["notify"].at = "next"  BY <1>6 DEF NotifyBrightness, First
  <2>2. JobInv' /\ MadeInv' /\ job' \in [Threads -> Jobs]
    BY <1>6, <2>1, Numbers, Continue DEF NotifyBrightness, GoOn, outside
  <2> QED  BY <1>6, <2>2 DEF NotifyBrightness, Inv, TypeOK, Jobs, driver, mirrors, outside
<1>7. CASE NotifyKey
  <2>1. job["notify"].at = "next"  BY <1>7 DEF NotifyKey, First
  <2>2. JobInv' /\ MadeInv' /\ job' \in [Threads -> Jobs]
    <3>1. PICK b \in {"novo", "buttons", "key"} :
             GoOn("notify", b, "report") \/ Drop("notify", b)
      BY <1>7 DEF NotifyKey
    <3>2. b \in Bits  BY Numbers
    <3> QED  BY <1>7, <2>1, <3>1, <3>2, Continue DEF NotifyKey, outside
  <2> QED  BY <1>7, <2>2 DEF NotifyKey, Inv, TypeOK, Jobs, driver, mirrors, outside
<1>8. CASE Deliver
  <2>1. job["notify"].at # "idle"  BY <1>8 DEF Deliver
  <2>2. JobInv' /\ MadeInv' /\ job' \in [Threads -> Jobs]
    BY <1>8, <2>1, Continue DEF Deliver, outside
  <2> QED  BY <1>8, <2>2 DEF Deliver, Inv, TypeOK, Jobs, driver, mirrors, outside
<1>9. CASE Resume
  <2>1. job' \in [Threads -> Jobs] /\ \A t \in Threads \ {"resume"} : job'[t] = job[t]
    <3> DEFINE new == [job["resume"] EXCEPT !.at = "next", !.todo = {"radio", "touchpad"}]
    <3>1. new \in Jobs  BY <1>0, Numbers DEF Jobs
    <3>2. job' = [job EXCEPT !["resume"] = new]  BY <1>0, <1>9 DEF Resume, Jobs
    <3> QED  BY <1>0, <3>1, <3>2
  <2>2. job'["resume"].at = "next"  BY <1>0, <1>9 DEF Resume, Jobs
  <2>3. JobInv' /\ MadeInv'
    BY <1>9, <2>1, <2>2 DEF Resume, Inv, MadeInv, JobInv, Dirs, Threads, driver, outside
  <2> QED  BY <1>9, <2>1, <2>3 DEF Resume, Inv, TypeOK, Jobs, driver, mirrors, outside
<1> QED
  BY <1>1, <1>2, <1>3, <1>4, <1>5, <1>6, <1>7, <1>8, <1>9 DEF NotifyJob

-----------------------------------------------------------------------------
\* The steps of probe and removal, and what happens outside.

LEMMA ProbeInv ==
    ASSUME Inv, SysfsInit \/ Probe
    PROVE  Inv'
<1> USE DEF Inv, MadeInv, JobInv, Dirs, Building, Threads, Step, others, mirrors, outside
<1>0. job \in [Threads -> Jobs] /\ "probe" \in Threads  BY DEF TypeOK, Jobs
<1>1. CASE SysfsInit
  <2>1. rfk' \in [Radios -> {"null"}]  BY <1>1 DEF SysfsInit
  <2>2. TypeOK'  BY <1>1, <2>1 DEF SysfsInit, TypeOK
  <2> QED  BY <1>1, <2>1, <2>2 DEF SysfsInit
<1>2. CASE DebugfsInit
  <2>1. TypeOK'  BY <1>2 DEF DebugfsInit, TypeOK
  <2> QED  BY <1>2, <2>1 DEF DebugfsInit
<1>3. CASE InputInit
  <2>1. TypeOK'  BY <1>3 DEF InputInit, TypeOK
  <2> QED  BY <1>3, <2>1 DEF InputInit
<1>4. CASE RegisterRfkill
  <2> DEFINE new == [job["probe"] EXCEPT !.at = "next", !.todo = {"radio", "touchpad"}]
  <2>1. new \in Jobs /\ new.at = "next"  BY <1>0, Numbers DEF Jobs
  <2>2. job' = [job EXCEPT !["probe"] = new]  BY <1>0, <1>4 DEF RegisterRfkill, Jobs
  <2>3. job' \in [Threads -> Jobs] /\ job'["probe"].at = "next"
        /\ \A t \in Threads \ {"probe"} : job'[t] = job[t]
    BY <1>0, <2>1, <2>2
  <2>4. TypeOK'  BY <1>4, <2>3 DEF RegisterRfkill, TypeOK, Jobs
  <2> QED  BY <1>4, <2>3, <2>4 DEF RegisterRfkill
<1>5. CASE Synced \/ BacklightProps
  <2>1. NoJob \in Jobs /\ NoJob.at = "idle"  BY Numbers DEF NoJob, Jobs
  <2>2. job' \in [Threads -> Jobs] /\ job'["probe"].at = "idle"
        /\ \A t \in Threads \ {"probe"} : job'[t] = job[t]
    BY <1>0, <1>5, <2>1 DEF Synced, BacklightProps
  <2>3. power' \in BOOLEAN
    BY <1>0, <1>5 DEF Synced, BacklightProps, TypeOK, Jobs
  <2>4. TypeOK'  BY <1>5, <2>2, <2>3 DEF Synced, BacklightProps, TypeOK, Jobs
  <2> QED  BY <1>5, <2>2, <2>4 DEF Synced, BacklightProps
<1>6. CASE ProbeDies
  <2>1. TypeOK'  BY <1>6 DEF ProbeDies, TypeOK
  <2> QED  BY <1>6, <2>1 DEF ProbeDies
<1>7. CASE BacklightInit
  <2>1. cell["power"] \in BOOLEAN  BY DEF TypeOK, Mirrors
  <2>2. job' \in [Threads -> Jobs] /\ \A t \in Threads : job'[t].at = job[t].at
    <3> DEFINE new == [job["probe"] EXCEPT !.value = cell["power"]]
    <3>1. new \in Jobs /\ new.at = job["probe"].at  BY <1>0, <2>1 DEF Jobs
    <3>2. job' = job \/ job' = [job EXCEPT !["probe"] = new]
      BY <1>0, <1>7 DEF BacklightInit, Jobs
    <3> QED  BY <1>0, <3>1, <3>2
  <2>3. TypeOK'  BY <1>7, <2>2 DEF BacklightInit, TypeOK, Jobs
  <2> QED  BY <1>7, <2>2, <2>3 DEF BacklightInit
<1>8. CASE BacklightUpdate
  <2>1. TypeOK'  BY <1>8 DEF BacklightUpdate, UpdateStatus, TypeOK, Mirrors
  <2> QED  BY <1>8, <2>1 DEF BacklightUpdate
<1>9. CASE InstallHandler
  <2>1. TypeOK'  BY <1>9 DEF InstallHandler, TypeOK
  <2> QED  BY <1>9, <2>1 DEF InstallHandler
<1> QED
  BY <1>1, <1>2, <1>3, <1>4, <1>5, <1>6, <1>7, <1>8, <1>9 DEF Probe

LEMMA UnwindInv ==
    ASSUME Inv, Remove \/ Unwind
    PROVE  Inv'
<1> USE DEF Inv, MadeInv, JobInv, Dirs, Building, Threads, Step, others, mirrors, outside
<1>1. CASE Remove
  <2>1. TypeOK'  BY <1>1 DEF Remove, TypeOK
  <2> QED  BY <1>1, <2>1 DEF Remove
<1>2. CASE RemoveHandler
  <2>1. TypeOK'  BY <1>2 DEF RemoveHandler, TypeOK
  <2> QED  BY <1>2, <2>1 DEF RemoveHandler
<1>3. CASE BacklightExit
  <2>1. TypeOK'  BY <1>3 DEF BacklightExit, TypeOK
  <2> QED  BY <1>3, <2>1 DEF BacklightExit
<1>4. CASE UnregisterRfkill
  <2>1. rfk' \in [Radios -> {"null", "freed"}]  BY <1>4 DEF UnregisterRfkill
  <2>2. TypeOK'  BY <1>4, <2>1 DEF UnregisterRfkill, TypeOK
  <2> QED  BY <1>4, <2>1, <2>2 DEF UnregisterRfkill
<1>5. CASE InputExit
  <2>1. TypeOK'  BY <1>5 DEF InputExit, TypeOK
  <2>2. made' \subseteq {"sysfs", "debugfs"}
    <3>1. "handler" \notin made /\ "backlight" \notin made  BY <1>5 DEF InputExit
    <3> QED  BY <1>5, <3>1 DEF InputExit, TypeOK
  <2>3. MadeInv'  BY <1>5, <2>2 DEF InputExit
  <2>4. JobInv'  BY <1>5, <2>2 DEF InputExit
  <2> QED  BY <2>1, <2>3, <2>4
<1>6. CASE DebugfsExit
  <2>1. TypeOK'  BY <1>6 DEF DebugfsExit, TypeOK
  <2> QED  BY <1>6, <2>1 DEF DebugfsExit
<1>7. CASE SysfsExit
  <2>1. TypeOK'  BY <1>7 DEF SysfsExit, TypeOK
  <2> QED  BY <1>7, <2>1 DEF SysfsExit
<1> QED  BY <1>1, <1>2, <1>3, <1>4, <1>5, <1>6, <1>7 DEF Unwind

LEMMA OutsideInv ==
    ASSUME Inv, Flip \/ Press \/ SetBacklight \/ UserUpdate \/ UNCHANGED vars
    PROVE  Inv'
<1> USE DEF Inv, MadeInv, JobInv, Dirs, driver, mirrors
<1>0. events < MaxEvents => events + 1 \in 0..MaxEvents
  BY EventsAssumption DEF TypeOK
<1>1. CASE Flip
  <2>1. PICK m \in Mirrors : Raise(m) /\ cell' = [cell EXCEPT ![m] = ~cell[m]]
    BY <1>1 DEF Flip
  <2>2. raised' \subseteq Bits /\ notified' \in BOOLEAN
    BY <2>1, Numbers DEF Raise, TypeOK
  <2>3. cell' \in [Mirrors -> BOOLEAN]  BY <2>1 DEF TypeOK
  <2>4. TypeOK'  BY <1>0, <1>1, <2>2, <2>3 DEF Flip, Happens, TypeOK
  <2> QED  BY <1>1, <2>4 DEF Flip
<1>2. CASE Press
  <2>1. raised' \subseteq Bits /\ notified' \in BOOLEAN
    BY <1>2 DEF Press, Raise, TypeOK
  <2>2. TypeOK'  BY <1>0, <1>2, <2>1 DEF Press, Happens, TypeOK
  <2> QED  BY <1>2, <2>2 DEF Press
<1>3. CASE SetBacklight
  <2>1. TypeOK'  BY <1>0, <1>3 DEF SetBacklight, Happens, TypeOK, Mirrors
  <2> QED  BY <1>3, <2>1 DEF SetBacklight
<1>4. CASE UserUpdate
  <2>0. cell' \in [Mirrors -> BOOLEAN] /\ excused' \subseteq Mirrors
    BY <1>4 DEF UserUpdate, UpdateStatus, TypeOK, Mirrors
  <2>1. TypeOK'  BY <1>4, <2>0 DEF UserUpdate, TypeOK
  <2> QED  BY <1>4, <2>1 DEF UserUpdate
<1>5. CASE UNCHANGED vars  BY <1>5 DEF vars, TypeOK
<1> QED  BY <1>1, <1>2, <1>3, <1>4, <1>5

LEMMA Invariance == Spec => []Inv
<1>1. Inv /\ [Next]_vars => Inv'
  BY SyncInv, NotifyInv, ProbeInv, UnwindInv, OutsideInv DEF Next
<1> QED  BY InitInv, <1>1, PTL DEF Spec

-----------------------------------------------------------------------------
\* Every variable keeps its type.
THEOREM Typing == Spec => []TypeOK
<1>1. Inv => TypeOK  BY DEF Inv
<1> QED  BY Invariance, <1>1, PTL

\* No thread uses the input device or the backlight before it is registered or
\* after it is gone, for any radios and any events.
THEOREM OnlyWhatLives == Spec => []UsesLive
<1>1. Inv => UsesLive
  BY DEF Inv, MadeInv, JobInv, UsesLive, Threads, Building
<1> QED  BY Invariance, <1>1, PTL

\* A driver that is not bound left nothing registered, whichever step of its
\* probe failed, but for a debugfs directory that filled only halfway.
THEOREM NothingRegistered == Spec => []Undone
<1>1. Inv => Undone  BY DEF Inv, MadeInv, Undone, Dirs, Building
<1> QED  BY Invariance, <1>1, PTL

-----------------------------------------------------------------------------
\* The mirrors.

\* Who still has m before it, and which value is being passed on.
Planned(m) == \E t \in Threads : m \in job[t].todo
Pending(m) == m \in excused \/ m \in raised \/ Planned(m)
Active     == pc \in {"sync", "backlight", "props", "update", "handler", "bound"}
Allowed    == "switch" \in machine => cell["radio"]

\* What a thread is at says what it has read, and one without a job has no plans.
StepInv ==
    \A t \in Threads :
        /\ job[t].at = "radio" => job[t].bit = "radio"
        /\ job[t].at \in {"aux", "sparse"} => job[t].bit = "touchpad" /\ "touchpad" \in machine
        /\ job[t].at = "power" => job[t].bit = "power"
        /\ job[t].at \in {"idle", "vpc1"} => job[t].todo = {}

\* Two threads that pass m on are excused, but where there is nothing to read.
Alone(m) ==
    \A t, u \in Threads :
        t # u /\ WorkingOn(t, m) /\ WorkingOn(u, m) =>
            m \in excused \/ (m = "radio" /\ "switch" \notin machine)

\* Without a switch every value that is passed on is the right one.
NoSwitchInv ==
    "switch" \notin machine =>
        \A t \in Threads : WorkingOn(t, "radio") => job[t].value = Allowed

\* Unless something is pending, the value being passed on is the machine's, and
\* if none is, the kernel was told.
RadioInv ==
    Active /\ ~Pending("radio") =>
        /\ \A t \in Threads : WorkingOn(t, "radio") => job[t].value = Allowed
        /\ (\A t \in Threads : ~WorkingOn(t, "radio")) =>
              \A i \in Radios : rfk[i] = "live" => (i \in hw <=> ~Allowed)

\* Between its two keys the port is set.
TouchpadInv ==
    Active /\ "touchpad" \in machine /\ ~Pending("touchpad") =>
        /\ \A t \in Threads : WorkingOn(t, "touchpad") =>
              /\ job[t].value = cell["touchpad"]
              /\ job[t].at = "sparse" => aux = cell["touchpad"]
        /\ (\A t \in Threads : ~WorkingOn(t, "touchpad")) =>
              aux = cell["touchpad"] /\ told = cell["touchpad"]

\* The same of the backlight, once the probe has set it up.
Ready == "backlight" \in made /\ pc \in {"handler", "bound"}

BacklightInv ==
    /\ WorkingOn("notify", "power") /\ user # "idle" => "power" \in excused
    /\ Ready /\ ~Pending("power") /\ user = "idle" =>
          IF WorkingOn("notify", "power") THEN job["notify"].value = cell["power"]
          ELSE power = cell["power"]

-----------------------------------------------------------------------------
\* What a step does to one job, field by field, and that it leaves the others.

Now(t, at, bit, value, todo) ==
    /\ \A u \in Threads \ {t} : job'[u] = job[u]
    /\ job'[t].at = at /\ job'[t].bit = bit /\ job'[t].value = value /\ job'[t].todo = todo

LEMMA Fields ==
    ASSUME Inv, NEW t \in Threads
    PROVE  /\ \A b : Drop(t, b) =>
                 Now(t, job[t].at, job[t].bit, job[t].value, job[t].todo \ {b})
           /\ \A b, at, v : Pass(t, b, at, v) => Now(t, at, b, v, job[t].todo \ {b})
           /\ Onward(t) => Now(t, "next", "key", FALSE, job[t].todo)
           /\ job' = [job EXCEPT ![t] = NoJob] => Now(t, "idle", "key", FALSE, {})
<1>0. job \in [Threads -> Jobs] /\ job[t] \in Jobs  BY DEF Inv, TypeOK, Jobs
<1>1. \A b : Drop(t, b) =>
         Now(t, job[t].at, job[t].bit, job[t].value, job[t].todo \ {b})
  BY <1>0 DEF Drop, Jobs, Now
<1>2. \A b, at, v : Pass(t, b, at, v) => Now(t, at, b, v, job[t].todo \ {b})
  BY <1>0 DEF Pass, Jobs, Now
<1>3. Onward(t) => Now(t, "next", "key", FALSE, job[t].todo)
  BY <1>0 DEF Onward, NoJob, Jobs, Now
<1>4. job' = [job EXCEPT ![t] = NoJob] => Now(t, "idle", "key", FALSE, {})
  BY <1>0 DEF NoJob, Now
<1> QED  BY <1>1, <1>2, <1>3, <1>4

\* How the job of thread t is after each of its actions.
LEMMA SyncEffects ==
    ASSUME Inv, NEW t \in Threads
    PROVE  /\ SyncRfk(t) =>
                 \/ Now(t, "radio", "radio", Allowed, job[t].todo \ {"radio"})
                 \/ /\ Now(t, "next", job[t].bit, job[t].value, job[t].todo \ {"radio"})
                    /\ "radio" \in excused'
           /\ SetHwState(t) =>
                 \/ Now(t, "next", "key", FALSE, job[t].todo)
                 \/ Now(t, "dead", job[t].bit, job[t].value, job[t].todo)
           /\ SyncTouchpad(t) =>
                 \/ /\ Now(t, "aux", "touchpad", cell["touchpad"], job[t].todo \ {"touchpad"})
                    /\ "touchpad" \in machine
                 \/ /\ Now(t, "next", job[t].bit, job[t].value, job[t].todo \ {"touchpad"})
                    /\ "touchpad" \in machine => "touchpad" \in excused'
           /\ AuxPort(t) => Now(t, "sparse", job[t].bit, job[t].value, job[t].todo)
           /\ TouchpadKey(t) => Now(t, "next", "key", FALSE, job[t].todo)
           /\ JobDone(t) => job[t].todo = {} /\ Now(t, "idle", "key", FALSE, {})
<1>0. job \in [Threads -> Jobs] /\ job[t] \in Jobs  BY DEF Inv, TypeOK, Jobs
<1>1. SyncRfk(t) =>
         \/ Now(t, "radio", "radio", Allowed, job[t].todo \ {"radio"})
         \/ /\ Now(t, "next", job[t].bit, job[t].value, job[t].todo \ {"radio"})
            /\ "radio" \in excused'
  <2>1. CASE "switch" \in machine
    <3>1. Allowed = cell["radio"]  BY <2>1 DEF Allowed, Inv, TypeOK, Mirrors
    <3> QED  BY <2>1, <3>1, Fields DEF SyncRfk, Read, First
  <2>2. CASE "switch" \notin machine
    <3>1. Allowed = TRUE  BY <2>2 DEF Allowed
    <3> QED  BY <2>2, <3>1, Fields DEF SyncRfk
  <2> QED  BY <2>1, <2>2
<1>2. SetHwState(t) =>
         \/ Now(t, "next", "key", FALSE, job[t].todo)
         \/ Now(t, "dead", job[t].bit, job[t].value, job[t].todo)
  <2>1. job' = [job EXCEPT ![t].at = "dead"] =>
           Now(t, "dead", job[t].bit, job[t].value, job[t].todo)
    BY <1>0 DEF Jobs, Now
  <2> QED  BY <2>1, Fields DEF SetHwState
<1>3. SyncTouchpad(t) =>
         \/ /\ Now(t, "aux", "touchpad", cell["touchpad"], job[t].todo \ {"touchpad"})
            /\ "touchpad" \in machine
         \/ /\ Now(t, "next", job[t].bit, job[t].value, job[t].todo \ {"touchpad"})
            /\ "touchpad" \in machine => "touchpad" \in excused'
  BY Fields DEF SyncTouchpad, Read, First
<1>4. AuxPort(t) => Now(t, "sparse", job[t].bit, job[t].value, job[t].todo)
  BY <1>0 DEF AuxPort, Jobs, Now
<1>5. TouchpadKey(t) => Now(t, "next", "key", FALSE, job[t].todo)
  BY Fields DEF TouchpadKey
<1>6. JobDone(t) => job[t].todo = {} /\ Now(t, "idle", "key", FALSE, {})
  BY Fields DEF JobDone
<1> QED  BY <1>1, <1>2, <1>3, <1>4, <1>5, <1>6

LEMMA NotifyEffects ==
    ASSUME Inv
    PROVE  LET j == job["notify"] IN
           /\ Notify => Now("notify", "vpc1", j.bit, j.value, j.todo)
           /\ ReadVpc1 =>
                 \/ /\ Now("notify", "vpc2", j.bit, j.value, raised \ High)
                    /\ raised' = raised \cap High
                 \/ Now("notify", "idle", "key", FALSE, {}) /\ UNCHANGED raised
           /\ ReadVpc2 =>
                 \/ /\ Now("notify", "next", j.bit, j.value, j.todo \cup (raised \cap High))
                    /\ raised' = raised \ High
                    /\ UNCHANGED excused
                 \/ /\ Now("notify", "idle", "key", FALSE, {})
                    /\ UNCHANGED raised
                    /\ excused' = excused \cup (j.todo \cap Mirrors)
           /\ NotifyPower =>
                 \/ /\ Now("notify", "power", "power", cell["power"], j.todo \ {"power"})
                    /\ user # "idle" => "power" \in excused'
                 \/ /\ Now("notify", "next", j.bit, j.value, j.todo \ {"power"})
                    /\ "backlight" \in made => "power" \in excused'
           /\ SetPropsPower => Now("notify", "next", "key", FALSE, j.todo)
           /\ NotifyBrightness \/ NotifyKey =>
                 \E b \in Bits \ Mirrors :
                    \/ \E at \in {"force", "report"} :
                          Now("notify", at, b, FALSE, j.todo \ {b})
                    \/ Now("notify", "next", j.bit, j.value, j.todo \ {b})
           /\ Deliver => Now("notify", "next", "key", FALSE, j.todo)
<1> DEFINE j == job["notify"]
<1>0. "notify" \in Threads /\ job \in [Threads -> Jobs] /\ j \in Jobs
  BY DEF Inv, TypeOK, Jobs, Threads
<1>1. Notify => Now("notify", "vpc1", j.bit, j.value, j.todo)
  BY <1>0 DEF Notify, Jobs, Now
<1>2. ReadVpc1 =>
         \/ /\ Now("notify", "vpc2", j.bit, j.value, raised \ High)
            /\ raised' = raised \cap High
         \/ Now("notify", "idle", "key", FALSE, {}) /\ UNCHANGED raised
  <2>1. job' = [job EXCEPT !["notify"].at = "vpc2", !["notify"].todo = raised \ High] =>
           Now("notify", "vpc2", j.bit, j.value, raised \ High)
    BY <1>0 DEF Jobs, Now
  <2> QED  BY <1>0, <2>1, Fields DEF ReadVpc1
<1>3. ReadVpc2 =>
         \/ /\ Now("notify", "next", j.bit, j.value, j.todo \cup (raised \cap High))
            /\ raised' = raised \ High
            /\ UNCHANGED excused
         \/ /\ Now("notify", "idle", "key", FALSE, {})
            /\ UNCHANGED raised
            /\ excused' = excused \cup (j.todo \cap Mirrors)
  <2>1. job' = [job EXCEPT !["notify"].at = "next",
                           !["notify"].todo = @ \cup (raised \cap High)] =>
           Now("notify", "next", j.bit, j.value, j.todo \cup (raised \cap High))
    BY <1>0 DEF Jobs, Now
  <2> QED  BY <1>0, <2>1, Fields DEF ReadVpc2
<1>4. NotifyPower =>
         \/ /\ Now("notify", "power", "power", cell["power"], j.todo \ {"power"})
            /\ user # "idle" => "power" \in excused'
         \/ /\ Now("notify", "next", j.bit, j.value, j.todo \ {"power"})
            /\ "backlight" \in made => "power" \in excused'
  BY <1>0, Fields DEF NotifyPower, Read, First, Crossed
<1>5. SetPropsPower => Now("notify", "next", "key", FALSE, j.todo)
  BY <1>0, Fields DEF SetPropsPower
<1>6. NotifyBrightness \/ NotifyKey =>
         \E b \in Bits \ Mirrors :
            \/ \E at \in {"force", "report"} : Now("notify", at, b, FALSE, j.todo \ {b})
            \/ Now("notify", "next", j.bit, j.value, j.todo \ {b})
  <2>1. \A b \in {"novo", "buttons", "key", "brightness"} : b \in Bits \ Mirrors
    BY Numbers DEF Mirrors
  <2>2. ASSUME NEW b \in {"novo", "buttons", "key", "brightness"}, First("notify", b),
               \/ GoOn("notify", b, "report") \/ GoOn("notify", b, "force")
               \/ Drop("notify", b)
        PROVE  \/ \E at \in {"force", "report"} : Now("notify", at, b, FALSE, j.todo \ {b})
               \/ Now("notify", "next", j.bit, j.value, j.todo \ {b})
    <3>1. \A at : GoOn("notify", b, at) => Now("notify", at, b, FALSE, j.todo \ {b})
      BY <1>0, Fields DEF GoOn
    <3>2. Drop("notify", b) => Now("notify", "next", j.bit, j.value, j.todo \ {b})
      BY <1>0, <2>2, Fields DEF First
    <3> QED  BY <2>2, <3>1, <3>2
  <2> QED  BY <2>1, <2>2 DEF NotifyBrightness, NotifyKey
<1>7. Deliver => Now("notify", "next", "key", FALSE, j.todo)
  BY <1>0, Fields DEF Deliver
<1> QED  BY <1>1, <1>2, <1>3, <1>4, <1>5, <1>6, <1>7

LEMMA OtherEffects ==
    ASSUME Inv
    PROVE  /\ Resume =>
                 Now("resume", "next", job["resume"].bit, job["resume"].value,
                     {"radio", "touchpad"})
           /\ RegisterRfkill =>
                 Now("probe", "next", job["probe"].bit, job["probe"].value,
                     {"radio", "touchpad"})
           /\ Synced \/ BacklightProps => Now("probe", "idle", "key", FALSE, {})
           /\ BacklightInit =>
                 \/ Now("probe", job["probe"].at, job["probe"].bit, cell["power"],
                        job["probe"].todo)
                 \/ UNCHANGED job
<1>0. /\ "resume" \in Threads /\ "probe" \in Threads /\ job \in [Threads -> Jobs]
      /\ job["resume"] \in Jobs /\ job["probe"] \in Jobs
  BY DEF Inv, TypeOK, Jobs, Threads
<1>1. Resume => Now("resume", "next", job["resume"].bit, job["resume"].value,
                    {"radio", "touchpad"})
  BY <1>0 DEF Resume, Jobs, Now
<1>2. RegisterRfkill => Now("probe", "next", job["probe"].bit, job["probe"].value,
                            {"radio", "touchpad"})
  BY <1>0 DEF RegisterRfkill, Jobs, Now
<1>3. Synced \/ BacklightProps => Now("probe", "idle", "key", FALSE, {})
  BY <1>0, Fields DEF Synced, BacklightProps
<1>4. BacklightInit => \/ Now("probe", job["probe"].at, job["probe"].bit, cell["power"],
                              job["probe"].todo)
                       \/ UNCHANGED job
  BY <1>0 DEF BacklightInit, Jobs, Now
<1> QED  BY <1>1, <1>2, <1>3, <1>4

-----------------------------------------------------------------------------
\* StepInv, one action at a time.

LEMMA MachineStays == Next => UNCHANGED machine
  BY DEF Next, SysfsInit, Probe, DebugfsInit, InputInit, RegisterRfkill, Synced, ProbeDies,
         BacklightInit, BacklightProps, BacklightUpdate, InstallHandler, Remove, Unwind,
         RemoveHandler, BacklightExit, UnregisterRfkill, InputExit, DebugfsExit, SysfsExit,
         NotifyJob, Notify, ReadVpc1, ReadVpc2, NotifyPower, SetPropsPower,
         NotifyBrightness, NotifyKey, Deliver, Resume, Sync, SyncRfk, SetHwState,
         SyncTouchpad, AuxPort, TouchpadKey, JobDone, Flip, Press, SetBacklight,
         UserUpdate, driver

LEMMA OneFits ==
    ASSUME StepInv, UNCHANGED machine, NEW t \in Threads,
           \A u \in Threads \ {t} : job'[u] = job[u],
           job'[t].at = "radio" => job'[t].bit = "radio",
           job'[t].at \in {"aux", "sparse"} =>
              job'[t].bit = "touchpad" /\ "touchpad" \in machine,
           job'[t].at = "power" => job'[t].bit = "power",
           job'[t].at \in {"idle", "vpc1"} => job'[t].todo = {}
    PROVE  StepInv'
  BY DEF StepInv

LEMMA SyncSteps ==
    ASSUME Inv, StepInv, UNCHANGED machine, NEW t \in Threads, Sync(t) \/ JobDone(t)
    PROVE  StepInv'
<1>1. CASE SyncRfk(t)      BY <1>1, SyncEffects, OneFits DEF Now
<1>2. CASE SetHwState(t)   BY <1>2, SyncEffects, OneFits DEF Now
<1>3. CASE SyncTouchpad(t) BY <1>3, SyncEffects, OneFits DEF Now
<1>4. CASE AuxPort(t)
  <2>1. job[t].bit = "touchpad" /\ "touchpad" \in machine  BY <1>4 DEF AuxPort, StepInv
  <2> QED  BY <1>4, <2>1, SyncEffects, OneFits DEF Now
<1>5. CASE TouchpadKey(t)  BY <1>5, SyncEffects, OneFits DEF Now
<1>6. CASE JobDone(t)      BY <1>6, SyncEffects, OneFits DEF Now
<1> QED  BY <1>1, <1>2, <1>3, <1>4, <1>5, <1>6 DEF Sync

LEMMA NotifySteps ==
    ASSUME Inv, StepInv, UNCHANGED machine, NotifyJob \/ Resume
    PROVE  StepInv'
<1>0. "notify" \in Threads /\ "resume" \in Threads  BY DEF Threads
<1>1. CASE Notify
  <2>1. job["notify"].todo = {}  BY <1>0, <1>1 DEF Notify, StepInv
  <2> QED  BY <1>0, <1>1, <2>1, NotifyEffects, OneFits DEF Now
<1>2. CASE ReadVpc1       BY <1>0, <1>2, NotifyEffects, OneFits DEF Now
<1>3. CASE ReadVpc2       BY <1>0, <1>3, NotifyEffects, OneFits DEF Now
<1>4. CASE NotifyPower    BY <1>0, <1>4, NotifyEffects, OneFits DEF Now
<1>5. CASE SetPropsPower  BY <1>0, <1>5, NotifyEffects, OneFits DEF Now
<1>6. CASE NotifyBrightness \/ NotifyKey
  BY <1>0, <1>6, NotifyEffects, OneFits DEF Now
<1>7. CASE Deliver        BY <1>0, <1>7, NotifyEffects, OneFits DEF Now
<1>8. CASE Resume         BY <1>0, <1>8, OtherEffects, OneFits DEF Now
<1> QED
  BY <1>1, <1>2, <1>3, <1>4, <1>5, <1>6, <1>7, <1>8 DEF NotifyJob

\* The other actions leave the jobs alone, but for three steps of the probe.
LEMMA JobStays ==
    ASSUME \/ SysfsInit \/ Probe \/ Remove \/ Unwind
           \/ Flip \/ Press \/ SetBacklight \/ UserUpdate \/ UNCHANGED vars,
           ~(RegisterRfkill \/ Synced \/ BacklightProps \/ BacklightInit)
    PROVE  UNCHANGED job
  BY DEF SysfsInit, Probe, DebugfsInit, InputInit, ProbeDies, BacklightUpdate,
         InstallHandler, Remove, Unwind, RemoveHandler, BacklightExit, UnregisterRfkill,
         InputExit, DebugfsExit, SysfsExit, Flip, Press, SetBacklight, UserUpdate,
         others, vars

LEMMA OtherSteps ==
    ASSUME Inv, StepInv, UNCHANGED machine,
           \/ SysfsInit \/ Probe \/ Remove \/ Unwind
           \/ Flip \/ Press \/ SetBacklight \/ UserUpdate \/ UNCHANGED vars
    PROVE  StepInv'
<1>0. "probe" \in Threads  BY DEF Threads
<1>1. CASE UNCHANGED job  BY <1>1 DEF StepInv
<1>2. CASE RegisterRfkill  BY <1>0, <1>2, OtherEffects, OneFits DEF Now
<1>3. CASE Synced \/ BacklightProps  BY <1>0, <1>3, OtherEffects, OneFits DEF Now
<1>4. CASE BacklightInit
  <2>1. job["probe"].at = "idle" /\ job["probe"].todo = {}
    BY <1>0, <1>4 DEF BacklightInit, Step, Inv, JobInv, StepInv
  <2> QED  BY <1>0, <1>1, <1>4, <2>1, OtherEffects, OneFits DEF Now
<1> QED  BY <1>1, <1>2, <1>3, <1>4, JobStays

-----------------------------------------------------------------------------
\* A step that concerns neither m nor a thread that passes m on.
Frame(m) ==
    /\ m \in excused => m \in excused'
    /\ \A t \in Threads : WorkingOn(t, m)' =>
          WorkingOn(t, m) /\ job'[t].value = job[t].value /\ job'[t].at = job[t].at
    /\ Active' /\ ~Pending(m)' =>
          /\ Active /\ ~Pending(m)
          /\ cell'[m] = cell[m] /\ rfk' = rfk
          /\ \A t \in Threads : WorkingOn(t, m) => WorkingOn(t, m)'
          /\ m = "radio" => hw' = hw
          /\ m = "touchpad" => aux' = aux /\ told' = told

LEMMA FrameKeeps ==
    ASSUME UNCHANGED machine
    PROVE  /\ \A m : Frame(m) /\ Alone(m) => Alone(m)'
           /\ Frame("radio") /\ NoSwitchInv => NoSwitchInv'
           /\ Frame("radio") /\ RadioInv => RadioInv'
           /\ Frame("touchpad") /\ TouchpadInv => TouchpadInv'
<1>1. ASSUME NEW m, Frame(m), Alone(m) PROVE Alone(m)'
  BY <1>1 DEF Frame, Alone
<1>2. ASSUME Frame("radio"), RadioInv PROVE RadioInv'
  <2> SUFFICES ASSUME Active', ~Pending("radio")'
               PROVE  /\ \A t \in Threads : WorkingOn(t, "radio")' => job'[t].value = Allowed'
                      /\ (\A t \in Threads : ~WorkingOn(t, "radio")') =>
                            \A i \in Radios : rfk'[i] = "live" => (i \in hw' <=> ~Allowed')
    BY DEF RadioInv
  <2>1. Allowed' = Allowed  BY <1>2 DEF Frame, Allowed
  <2> QED  BY <1>2, <2>1 DEF Frame, RadioInv
<1>3. ASSUME Frame("touchpad"), TouchpadInv PROVE TouchpadInv'
  BY <1>3 DEF Frame, TouchpadInv
<1>4. ASSUME Frame("radio"), NoSwitchInv PROVE NoSwitchInv'
  <2> SUFFICES ASSUME "switch" \notin machine, NEW t \in Threads, WorkingOn(t, "radio")'
               PROVE  job'[t].value = Allowed'
    BY DEF NoSwitchInv
  <2>1. Allowed' = Allowed  BY DEF Allowed
  <2> QED  BY <1>4, <2>1 DEF Frame, NoSwitchInv
<1> QED  BY <1>1, <1>2, <1>3, <1>4

\* A step of thread t, which does not pass m on, before or after.
LEMMA ThreadFrame ==
    ASSUME NEW m, NEW t \in Threads,
           \A u \in Threads \ {t} : job'[u] = job[u],
           ~WorkingOn(t, m), ~WorkingOn(t, m)',
           m \in excused => m \in excused',
           m \in raised => m \in raised' \/ m \in job'[t].todo,
           m \in job[t].todo => m \in job'[t].todo \/ m \in excused',
           Active' => Active \/ m \in job'[t].todo,
           rfk' = rfk \/ m \in job'[t].todo,
           cell' = cell,
           m = "radio" => hw' = hw,
           m = "touchpad" => aux' = aux /\ told' = told
    PROVE  Frame(m)
<1>1. \A u \in Threads : WorkingOn(u, m)' <=> WorkingOn(u, m)
  BY DEF WorkingOn
<1>2. \A u \in Threads : WorkingOn(u, m)' =>
         job'[u].value = job[u].value /\ job'[u].at = job[u].at
  OBVIOUS
<1>3. ~Pending(m)' => ~Pending(m) /\ m \notin job'[t].todo
  BY DEF Pending, Planned
<1> QED  BY <1>1, <1>2, <1>3 DEF Frame

\* A step that leaves the jobs as they are.
LEMMA StillFrame ==
    ASSUME NEW m, UNCHANGED job,
           m \in excused => m \in excused',
           m \in raised => m \in raised',
           Active' /\ m \notin raised' =>
              /\ Active
              /\ cell'[m] = cell[m] /\ rfk' = rfk
              /\ m = "radio" => hw' = hw
              /\ m = "touchpad" => aux' = aux /\ told' = told
    PROVE  Frame(m)
<1>1. \A u \in Threads : WorkingOn(u, m)' <=> WorkingOn(u, m)  BY DEF WorkingOn
<1>2. ~Pending(m)' => ~Pending(m) /\ m \notin raised'  BY DEF Pending, Planned
<1> QED  BY <1>1, <1>2 DEF Frame

LEMMA SyncFrames ==
    ASSUME Inv, StepInv, NEW t \in Threads
    PROVE  /\ SyncRfk(t) \/ SetHwState(t) \/ JobDone(t) => Frame("touchpad")
           /\ SyncTouchpad(t) \/ AuxPort(t) \/ TouchpadKey(t) \/ JobDone(t) => Frame("radio")
<1> USE DEF driver, mirrors, outside, Active
<1>1. ASSUME SyncRfk(t) PROVE Frame("touchpad")
  <2>1. excused' \in {excused, excused \cup {"radio"}, excused \ {"radio"}}
    BY <1>1 DEF SyncRfk, Read
  <2> QED  BY <1>1, <2>1, SyncEffects, ThreadFrame DEF SyncRfk, First, Now, WorkingOn
<1>2. ASSUME SetHwState(t) PROVE Frame("touchpad")
  <2>1. job[t].bit = "radio"  BY <1>2 DEF SetHwState, StepInv
  <2> QED  BY <1>2, <2>1, SyncEffects, ThreadFrame DEF SetHwState, Now, WorkingOn
<1>3. ASSUME SyncTouchpad(t) PROVE Frame("radio")
  <2>1. excused' \in {excused, excused \cup {"touchpad"}, excused \ {"touchpad"}}
    BY <1>3 DEF SyncTouchpad, Read
  <2> QED  BY <1>3, <2>1, SyncEffects, ThreadFrame DEF SyncTouchpad, First, Now, WorkingOn
<1>4. ASSUME AuxPort(t) \/ TouchpadKey(t) PROVE Frame("radio")
  <2>1. job[t].bit = "touchpad"  BY <1>4 DEF AuxPort, TouchpadKey, StepInv
  <2> QED  BY <1>4, <2>1, SyncEffects, ThreadFrame DEF AuxPort, TouchpadKey, Now, WorkingOn
<1>5. ASSUME JobDone(t), NEW m PROVE Frame(m)
  BY <1>5, SyncEffects, ThreadFrame DEF JobDone, Now, WorkingOn
<1> QED  BY <1>1, <1>2, <1>3, <1>4, <1>5

LEMMA NotifyFrames ==
    ASSUME Inv, StepInv, NEW m \in {"radio", "touchpad"}, NotifyJob \/ Resume
    PROVE  Frame(m)
<1> USE DEF driver, mirrors, outside, Active
<1>0. "notify" \in Threads /\ "resume" \in Threads /\ m \in Mirrors
  BY DEF Threads, Mirrors
<1>1. CASE Notify
  BY <1>0, <1>1, NotifyEffects, ThreadFrame DEF Notify, Now, WorkingOn
<1>2. CASE ReadVpc1
  <2>1. job["notify"].todo = {}  BY <1>0, <1>2 DEF ReadVpc1, StepInv
  <2> QED  BY <1>0, <1>2, <2>1, NotifyEffects, ThreadFrame DEF ReadVpc1, Now, WorkingOn
<1>3. CASE ReadVpc2
  BY <1>0, <1>3, NotifyEffects, ThreadFrame DEF ReadVpc2, Now, WorkingOn
<1>4. CASE NotifyPower
  <2>1. excused' \in {excused, excused \cup {"power"}, excused \ {"power"}}
    BY <1>4 DEF NotifyPower, Read
  <2> QED  BY <1>0, <1>4, <2>1, NotifyEffects, ThreadFrame DEF NotifyPower, First, Now, WorkingOn
<1>5. CASE SetPropsPower
  <2>1. job["notify"].bit = "power"  BY <1>0, <1>5 DEF SetPropsPower, StepInv
  <2> QED  BY <1>0, <1>5, <2>1, NotifyEffects, ThreadFrame DEF SetPropsPower, Now, WorkingOn
<1>6. CASE NotifyBrightness \/ NotifyKey
  <2>1. job["notify"].at = "next"
    BY <1>6 DEF NotifyBrightness, NotifyKey, First
  <2>2. UNCHANGED <<driver, mirrors, outside, excused>>
    BY <1>6 DEF NotifyBrightness, NotifyKey
  <2> QED  BY <1>0, <1>6, <2>1, <2>2, NotifyEffects, ThreadFrame DEF Now, WorkingOn
<1>7. CASE Deliver
  BY <1>0, <1>7, NotifyEffects, ThreadFrame DEF Deliver, Now, WorkingOn
<1>8. CASE Resume
  BY <1>0, <1>8, OtherEffects, ThreadFrame DEF Resume, Now, WorkingOn, StepInv
<1> QED
  BY <1>1, <1>2, <1>3, <1>4, <1>5, <1>6, <1>7, <1>8 DEF NotifyJob

LEMMA OtherFrames ==
    ASSUME Inv, StepInv, NEW m \in {"radio", "touchpad"},
           \/ SysfsInit \/ Probe \/ Remove \/ Unwind
           \/ Flip \/ Press \/ SetBacklight \/ UserUpdate \/ UNCHANGED vars
    PROVE  Frame(m)
<1> USE DEF driver, mirrors, outside, others, Step, Active
<1>0. "probe" \in Threads /\ m \in Mirrors  BY DEF Threads, Mirrors
<1>1. CASE SysfsInit \/ DebugfsInit \/ InputInit \/ ProbeDies \/ InstallHandler
  BY <1>1, StillFrame DEF SysfsInit, DebugfsInit, InputInit, ProbeDies, InstallHandler
<1>2. CASE RegisterRfkill
  <2>1. job["probe"].at = "idle"
    BY <1>2 DEF RegisterRfkill, Inv, JobInv
  <2> QED  BY <1>0, <1>2, <2>1, OtherEffects, ThreadFrame DEF RegisterRfkill, Now, WorkingOn
<1>3. CASE Synced
  BY <1>0, <1>3, OtherEffects, ThreadFrame DEF Synced, Now, WorkingOn
<1>4. CASE BacklightProps
  <2>1. job["probe"].at = "idle" /\ job["probe"].todo = {}
    BY <1>0, <1>4 DEF BacklightProps, Inv, JobInv, StepInv
  <2> QED  BY <1>0, <1>4, <2>1, OtherEffects, ThreadFrame DEF BacklightProps, Now, WorkingOn
<1>5. CASE BacklightInit
  <2>1. job["probe"].at = "idle"
    BY <1>5 DEF BacklightInit, Inv, JobInv
  <2>2. CASE UNCHANGED job
    BY <1>5, <2>2, StillFrame DEF BacklightInit
  <2>3. CASE Now("probe", job["probe"].at, job["probe"].bit, cell["power"], job["probe"].todo)
    BY <1>0, <1>5, <2>1, <2>3, ThreadFrame DEF BacklightInit, Now, WorkingOn
  <2> QED  BY <1>5, <2>2, <2>3, OtherEffects
<1>6. CASE BacklightUpdate \/ UserUpdate
  <2>1. cell' = [cell EXCEPT !["power"] = power] \/ cell' = cell
    BY <1>6 DEF BacklightUpdate, UserUpdate, UpdateStatus
  <2>2. cell'[m] = cell[m]  BY <1>0, <2>1 DEF Inv, TypeOK
  <2>3. m \in excused => m \in excused'
    BY <1>6 DEF BacklightUpdate, UserUpdate, UpdateStatus
  <2> QED  BY <1>6, <2>2, <2>3, StillFrame DEF BacklightUpdate, UserUpdate
<1>7. CASE Remove \/ Unwind
  BY <1>7, StillFrame DEF Remove, Unwind, RemoveHandler, BacklightExit, UnregisterRfkill,
     InputExit, DebugfsExit, SysfsExit
<1>8. CASE Flip
  <2>1. PICK n \in Mirrors : Raise(n) /\ cell' = [cell EXCEPT ![n] = ~cell[n]]
    BY <1>8 DEF Flip
  <2>2. m = n \/ cell'[m] = cell[m]  BY <1>0, <2>1 DEF Inv, TypeOK
  <2> QED  BY <1>8, <2>1, <2>2, StillFrame DEF Flip, Raise
<1>9. CASE Press \/ UNCHANGED vars
  BY <1>9, StillFrame DEF Press, Raise, vars
<1>10. CASE SetBacklight
  BY <1>10, StillFrame DEF SetBacklight
<1> QED
  BY <1>1, <1>2, <1>3, <1>4, <1>5, <1>6, <1>7, <1>8, <1>9, <1>10 DEF Probe

-----------------------------------------------------------------------------
\* The steps that pass m on.

\* A thread that has read m is the only one that passes it on, or is excused.
LEMMA ReadAlone ==
    ASSUME NEW t \in Threads, NEW m, NEW at, Read(t, m, at), NEW u \in Threads \ {t},
           WorkingOn(u, m)
    PROVE  m \in excused'
  BY DEF Read, Crossed

LEMMA RadioStep ==
    ASSUME Inv, StepInv, Alone("radio"), NoSwitchInv, RadioInv,
           NEW t \in Threads, SyncRfk(t) \/ SetHwState(t)
    PROVE  Alone("radio")' /\ NoSwitchInv' /\ RadioInv'
<1>0. /\ machine' = machine /\ cell' = cell /\ rfk' = rfk /\ pc' = pc /\ raised' = raised
      /\ Allowed' = Allowed
  BY DEF SyncRfk, SetHwState, driver, mirrors, outside, Allowed
<1>1. CASE SyncRfk(t)
  <2>1. \A u \in Threads \ {t} : job'[u] = job[u]
    BY <1>1, SyncEffects DEF Now
  <2>2. WorkingOn(t, "radio")' => job'[t].value = Allowed
    BY <1>1, SyncEffects DEF Now, WorkingOn
  <2>3. ~WorkingOn(t, "radio")' => "radio" \in excused'
    BY <1>1, SyncEffects DEF Now, WorkingOn
  <2>4. \A u \in Threads \ {t} : WorkingOn(u, "radio")' =>
           WorkingOn(u, "radio") /\ ("switch" \notin machine \/ "radio" \in excused')
    BY <1>1, <2>1, ReadAlone DEF SyncRfk, WorkingOn
  <2>5. "switch" \notin machine => \A u \in Threads : WorkingOn(u, "radio")' =>
           job'[u].value = Allowed
    BY <2>1, <2>2, <2>4 DEF NoSwitchInv
  <2>6. "switch" \in machine => Alone("radio")'
    BY <1>0, <2>3, <2>4 DEF Alone
  <2>7. "switch" \notin machine => Alone("radio")'
    BY <1>0 DEF Alone
  <2>8. NoSwitchInv'  BY <1>0, <2>5 DEF NoSwitchInv
  <2>9. RadioInv'
    BY <1>0, <2>2, <2>3, <2>4, <2>5 DEF RadioInv, Pending
  <2> QED  BY <2>6, <2>7, <2>8, <2>9
<1>2. CASE SetHwState(t)
  <2>0. WorkingOn(t, "radio") /\ excused' = excused
    BY <1>2 DEF SetHwState, StepInv, WorkingOn
  <2>1. \A u \in Threads \ {t} : job'[u] = job[u]
    BY <1>2, SyncEffects DEF Now
  <2>2. ~WorkingOn(t, "radio")' /\ job'[t].todo = job[t].todo
    BY <1>2, SyncEffects DEF Now, WorkingOn
  <2>3. \A u \in Threads : WorkingOn(u, "radio")' =>
           u # t /\ WorkingOn(u, "radio") /\ job'[u].value = job[u].value
    BY <2>1, <2>2 DEF WorkingOn
  <2>4. Alone("radio")'  BY <1>0, <2>0, <2>3 DEF Alone
  <2>5. NoSwitchInv'  BY <1>0, <2>3 DEF NoSwitchInv
  <2>6. RadioInv'
    <3> SUFFICES ASSUME Active', ~Pending("radio")' PROVE RadioInv'
      BY DEF RadioInv
    <3>1. Active /\ ~Pending("radio")
      BY <1>0, <2>0, <2>1, <2>2 DEF Active, Pending, Planned
    <3>2. \A u \in Threads : WorkingOn(u, "radio") => job[u].value = Allowed
      BY <3>1 DEF RadioInv
    <3>3. \A i \in Radios : rfk[i] = "live" => (i \in hw' <=> ~Allowed)
      BY <1>2, <2>0, <3>2 DEF SetHwState
    <3> QED  BY <1>0, <2>3, <3>2, <3>3 DEF RadioInv
  <2> QED  BY <2>4, <2>5, <2>6
<1> QED  BY <1>1, <1>2

LEMMA TouchpadStep ==
    ASSUME Inv, StepInv, Alone("touchpad"), TouchpadInv,
           NEW t \in Threads, SyncTouchpad(t) \/ AuxPort(t) \/ TouchpadKey(t)
    PROVE  Alone("touchpad")' /\ TouchpadInv'
<1>0. machine' = machine /\ cell' = cell /\ pc' = pc /\ raised' = raised
  BY DEF SyncTouchpad, AuxPort, TouchpadKey, driver, mirrors, outside
<1>1. CASE SyncTouchpad(t)
  <2>1. \A u \in Threads \ {t} : job'[u] = job[u]
    BY <1>1, SyncEffects DEF Now
  <2>2. WorkingOn(t, "touchpad")' =>
           job'[t].at = "aux" /\ job'[t].value = cell["touchpad"] /\ "touchpad" \in machine
    BY <1>1, SyncEffects DEF Now, WorkingOn
  <2>3. ~WorkingOn(t, "touchpad")' /\ "touchpad" \in machine => "touchpad" \in excused'
    BY <1>1, SyncEffects DEF Now, WorkingOn
  <2>4. \A u \in Threads \ {t} : WorkingOn(u, "touchpad")' =>
           "touchpad" \in machine /\ "touchpad" \in excused'
    <3>1. \A u \in Threads \ {t} : WorkingOn(u, "touchpad")' => WorkingOn(u, "touchpad")
      BY <2>1 DEF WorkingOn
    <3>2. \A u \in Threads : WorkingOn(u, "touchpad") => "touchpad" \in machine
      BY DEF WorkingOn, StepInv
    <3> QED  BY <1>1, <3>1, <3>2, ReadAlone DEF SyncTouchpad
  <2>5. Alone("touchpad")'  BY <2>4 DEF Alone
  <2>6. TouchpadInv'
    BY <1>0, <2>2, <2>3, <2>4 DEF TouchpadInv, Pending
  <2> QED  BY <2>5, <2>6
<1>2. CASE AuxPort(t) \/ TouchpadKey(t)
  <2>0. WorkingOn(t, "touchpad") /\ excused' = excused
    BY <1>2 DEF AuxPort, TouchpadKey, StepInv, WorkingOn
  <2>1. \A u \in Threads \ {t} : job'[u] = job[u]
    BY <1>2, SyncEffects DEF Now
  <2>2. /\ job'[t].todo = job[t].todo
        /\ AuxPort(t) => job'[t].value = job[t].value
        /\ TouchpadKey(t) => ~WorkingOn(t, "touchpad")'
    BY <1>2, SyncEffects DEF Now, WorkingOn
  <2>3. \A u \in Threads : WorkingOn(u, "touchpad")' => WorkingOn(u, "touchpad")
    BY <2>0, <2>1 DEF WorkingOn
  <2>4. Alone("touchpad")'  BY <2>0, <2>3 DEF Alone
  <2>5. TouchpadInv'
    <3> SUFFICES ASSUME Active', "touchpad" \in machine, ~Pending("touchpad")'
                 PROVE  TouchpadInv'
      BY <1>0 DEF TouchpadInv
    <3>1. Active /\ ~Pending("touchpad")
      BY <1>0, <2>0, <2>1, <2>2 DEF Active, Pending, Planned
    <3>2. \A u \in Threads \ {t} : ~WorkingOn(u, "touchpad")'
      BY <2>0, <2>3, <3>1 DEF Alone, Pending
    <3>3. /\ job[t].value = cell["touchpad"]
          /\ job[t].at = "sparse" => aux = cell["touchpad"]
      BY <2>0, <3>1 DEF TouchpadInv
    <3>4. CASE AuxPort(t)
      <4>1. aux' = cell["touchpad"]  BY <3>3, <3>4 DEF AuxPort
      <4>2. WorkingOn(t, "touchpad")'
        BY <2>0, <3>4, SyncEffects DEF Now, WorkingOn
      <4> QED  BY <1>0, <2>2, <3>2, <3>3, <3>4, <4>1, <4>2 DEF TouchpadInv
    <3>5. CASE TouchpadKey(t)
      <4>1. aux' = cell["touchpad"] /\ told' = cell["touchpad"]
        BY <3>3, <3>5 DEF TouchpadKey
      <4> QED  BY <1>0, <2>2, <3>2, <3>5, <4>1 DEF TouchpadInv
    <3> QED  BY <1>2, <3>4, <3>5
  <2> QED  BY <2>4, <2>5
<1> QED  BY <1>1, <1>2

-----------------------------------------------------------------------------
\* The backlight.  Only the notification reads its power, and users write it.

\* A step of thread t, which does not pass the power on, before or after.
LEMMA PowerThread ==
    ASSUME BacklightInv, NEW t \in Threads,
           \A u \in Threads \ {t} : job'[u] = job[u],
           ~WorkingOn(t, "power"), ~WorkingOn(t, "power")',
           "power" \in excused => "power" \in excused',
           "power" \in raised => "power" \in raised' \/ "power" \in job'[t].todo,
           "power" \in job[t].todo => "power" \in job'[t].todo \/ "power" \in excused',
           Ready' => Ready \/ "power" \in job'[t].todo,
           cell' = cell, power' = power \/ ~Ready', user' = user
    PROVE  BacklightInv'
<1>0. "notify" \in Threads  BY DEF Threads
<1>1. WorkingOn("notify", "power")' <=> WorkingOn("notify", "power")
  BY <1>0 DEF WorkingOn
<1>2. WorkingOn("notify", "power")' => job'["notify"].value = job["notify"].value
  BY <1>0
<1>3. ~Pending("power")' => ~Pending("power") /\ "power" \notin job'[t].todo
  BY DEF Pending, Planned
<1> QED  BY <1>1, <1>2, <1>3 DEF BacklightInv

\* A step that leaves the jobs as they are.
LEMMA PowerStill ==
    ASSUME BacklightInv, UNCHANGED job,
           "power" \in excused => "power" \in excused',
           "power" \in raised => "power" \in raised',
           user' = user,
           Ready' /\ "power" \notin raised' =>
              Ready /\ cell'["power"] = cell["power"] /\ power' = power
    PROVE  BacklightInv'
<1>1. WorkingOn("notify", "power")' <=> WorkingOn("notify", "power")  BY DEF WorkingOn
<1>2. ~Pending("power")' => ~Pending("power") /\ "power" \notin raised'
  BY DEF Pending, Planned
<1> QED  BY <1>1, <1>2 DEF BacklightInv

LEMMA SyncPower ==
    ASSUME Inv, StepInv, BacklightInv, NEW t \in Threads, Sync(t) \/ JobDone(t)
    PROVE  BacklightInv'
<1> USE DEF driver, mirrors, outside, Ready
<1>1. CASE SyncRfk(t)
  <2>1. excused' \in {excused, excused \cup {"radio"}, excused \ {"radio"}}
    BY <1>1 DEF SyncRfk, Read
  <2> QED  BY <1>1, <2>1, SyncEffects, PowerThread DEF SyncRfk, First, Now, WorkingOn
<1>2. CASE SetHwState(t)
  <2>1. job[t].bit = "radio"  BY <1>2 DEF SetHwState, StepInv
  <2> QED  BY <1>2, <2>1, SyncEffects, PowerThread DEF SetHwState, Now, WorkingOn
<1>3. CASE SyncTouchpad(t)
  <2>1. excused' \in {excused, excused \cup {"touchpad"}, excused \ {"touchpad"}}
    BY <1>3 DEF SyncTouchpad, Read
  <2> QED  BY <1>3, <2>1, SyncEffects, PowerThread DEF SyncTouchpad, First, Now, WorkingOn
<1>4. CASE AuxPort(t) \/ TouchpadKey(t)
  <2>1. job[t].bit = "touchpad"  BY <1>4 DEF AuxPort, TouchpadKey, StepInv
  <2> QED  BY <1>4, <2>1, SyncEffects, PowerThread DEF AuxPort, TouchpadKey, Now, WorkingOn
<1>5. CASE JobDone(t)
  BY <1>5, SyncEffects, PowerThread DEF JobDone, Now, WorkingOn
<1> QED  BY <1>1, <1>2, <1>3, <1>4, <1>5 DEF Sync

LEMMA NotifyPowers ==
    ASSUME Inv, StepInv, BacklightInv, NotifyJob \/ Resume
    PROVE  BacklightInv'
<1> USE DEF driver, mirrors, outside, Ready
<1>0. "notify" \in Threads /\ "resume" \in Threads /\ "power" \in Mirrors
  BY DEF Threads, Mirrors
<1>1. CASE Notify
  BY <1>0, <1>1, NotifyEffects, PowerThread DEF Notify, Now, WorkingOn
<1>2. CASE ReadVpc1
  <2>1. job["notify"].todo = {}  BY <1>0, <1>2 DEF ReadVpc1, StepInv
  <2>2. "power" \notin High  BY DEF High
  <2> QED
    BY <1>0, <1>2, <2>1, <2>2, NotifyEffects, PowerThread DEF ReadVpc1, Now, WorkingOn
<1>3. CASE ReadVpc2
  BY <1>0, <1>3, NotifyEffects, PowerThread DEF ReadVpc2, Now, WorkingOn
<1>4. CASE NotifyPower
  <2>1. job["notify"].at = "next" /\ UNCHANGED <<machine, pc, made, user, cell, raised>>
    BY <1>4 DEF NotifyPower, First
  <2>2. \/ /\ Now("notify", "power", "power", cell["power"], job["notify"].todo \ {"power"})
           /\ user # "idle" => "power" \in excused'
        \/ /\ Now("notify", "next", job["notify"].bit, job["notify"].value,
                  job["notify"].todo \ {"power"})
           /\ "backlight" \in made => "power" \in excused'
    BY <1>4, NotifyEffects
  <2> QED  BY <2>1, <2>2 DEF Now, BacklightInv, WorkingOn, Pending
<1>5. CASE SetPropsPower
  <2>1. job["notify"].bit = "power"  BY <1>0, <1>5 DEF SetPropsPower, StepInv
  <2>2. Now("notify", "next", "key", FALSE, job["notify"].todo)
    BY <1>5, NotifyEffects
  <2>3. WorkingOn("notify", "power") /\ ~WorkingOn("notify", "power")'
    BY <1>5, <2>1, <2>2 DEF SetPropsPower, WorkingOn, Now
  <2>4. \A u \in Threads : job'[u].todo = job[u].todo  BY <2>2 DEF Now
  <2>5. Pending("power")' <=> Pending("power")
    BY <1>5, <2>4 DEF SetPropsPower, Pending, Planned
  <2> QED  BY <1>5, <2>3, <2>5 DEF SetPropsPower, BacklightInv
<1>6. CASE NotifyBrightness \/ NotifyKey
  <2>1. job["notify"].at = "next"
    BY <1>6 DEF NotifyBrightness, NotifyKey, First
  <2>2. UNCHANGED <<driver, mirrors, outside, excused>>
    BY <1>6 DEF NotifyBrightness, NotifyKey
  <2> QED  BY <1>0, <1>6, <2>1, <2>2, NotifyEffects, PowerThread DEF Now, WorkingOn
<1>7. CASE Deliver
  BY <1>0, <1>7, NotifyEffects, PowerThread DEF Deliver, Now, WorkingOn
<1>8. CASE Resume
  BY <1>0, <1>8, OtherEffects, PowerThread DEF Resume, Now, WorkingOn, StepInv
<1> QED
  BY <1>1, <1>2, <1>3, <1>4, <1>5, <1>6, <1>7, <1>8 DEF NotifyJob

LEMMA OtherPower ==
    ASSUME Inv, StepInv, BacklightInv,
           \/ SysfsInit \/ Probe \/ Remove \/ Unwind
           \/ Flip \/ Press \/ SetBacklight \/ UserUpdate \/ UNCHANGED vars
    PROVE  BacklightInv'
<1> USE DEF driver, mirrors, outside, others, Step, Ready
<1>0. "probe" \in Threads /\ "notify" \in Threads /\ "power" \in Mirrors
  BY DEF Threads, Mirrors
<1>1. CASE SysfsInit \/ DebugfsInit \/ InputInit \/ ProbeDies
  BY <1>1, PowerStill DEF SysfsInit, DebugfsInit, InputInit, ProbeDies
<1>2. CASE InstallHandler
  BY <1>2, PowerStill DEF InstallHandler
<1>3. CASE RegisterRfkill
  <2>1. job["probe"].at = "idle" /\ job["probe"].todo = {}
    BY <1>0, <1>3 DEF RegisterRfkill, Inv, JobInv, StepInv
  <2> QED  BY <1>0, <1>3, <2>1, OtherEffects, PowerThread DEF RegisterRfkill, Now, WorkingOn
<1>4. CASE Synced
  <2>1. "backlight" \notin made  BY <1>4 DEF Synced, Inv, MadeInv
  <2> QED  BY <1>0, <1>4, <2>1, OtherEffects, PowerThread DEF Synced, Now, WorkingOn
<1>5. CASE BacklightProps
  <2>1. job["probe"].at = "idle" /\ job["probe"].todo = {}
    BY <1>0, <1>5 DEF BacklightProps, Inv, JobInv, StepInv
  <2> QED  BY <1>0, <1>5, <2>1, OtherEffects, PowerThread DEF BacklightProps, Now, WorkingOn
<1>6. CASE BacklightInit
  <2>0. "backlight" \notin made /\ job["probe"].at = "idle"
    BY <1>6 DEF BacklightInit, Inv, MadeInv, JobInv
  <2>1. CASE UNCHANGED job
    BY <1>6, <2>0, <2>1, PowerStill DEF BacklightInit
  <2>2. CASE Now("probe", job["probe"].at, job["probe"].bit, cell["power"], job["probe"].todo)
    BY <1>0, <1>6, <2>0, <2>2, PowerThread DEF BacklightInit, Now, WorkingOn
  <2> QED  BY <1>6, <2>1, <2>2, OtherEffects
<1>7. CASE BacklightUpdate
  <2>1. ~WorkingOn("notify", "power")
    BY <1>7 DEF BacklightUpdate, Inv, JobInv, WorkingOn
  <2>2. ~WorkingOn("notify", "power")'  BY <1>7, <2>1 DEF BacklightUpdate, WorkingOn
  <2>3. cell' = [cell EXCEPT !["power"] = power] => cell'["power"] = power
    BY <1>0 DEF Inv, TypeOK
  <2> QED
    BY <1>7, <2>2, <2>3 DEF BacklightUpdate, UpdateStatus, BacklightInv, Pending
<1>8. CASE UserUpdate
  <2>1. WorkingOn("notify", "power")' <=> WorkingOn("notify", "power")
    BY <1>8 DEF UserUpdate, WorkingOn
  <2>2. cell' = [cell EXCEPT !["power"] = power] => cell'["power"] = power
    BY <1>0 DEF Inv, TypeOK
  <2> QED
    BY <1>8, <2>1, <2>2 DEF UserUpdate, UpdateStatus, BacklightInv, Pending
<1>9. CASE SetBacklight
  <2>1. WorkingOn("notify", "power")' <=> WorkingOn("notify", "power")
    BY <1>9 DEF SetBacklight, WorkingOn
  <2> QED  BY <1>9, <2>1 DEF SetBacklight, BacklightInv
<1>10. CASE Remove \/ Unwind
  BY <1>10, PowerStill DEF Remove, Unwind, RemoveHandler, BacklightExit, UnregisterRfkill,
     InputExit, DebugfsExit, SysfsExit
<1>11. CASE Flip
  <2>1. PICK n \in Mirrors : Raise(n) /\ cell' = [cell EXCEPT ![n] = ~cell[n]]
    BY <1>11 DEF Flip
  <2>2. n = "power" \/ cell'["power"] = cell["power"]  BY <1>0, <2>1 DEF Inv, TypeOK
  <2> QED  BY <1>11, <2>1, <2>2, PowerStill DEF Flip, Raise
<1>12. CASE Press \/ UNCHANGED vars
  BY <1>12, PowerStill DEF Press, Raise, vars
<1> QED
  BY <1>1, <1>2, <1>3, <1>4, <1>5, <1>6, <1>7, <1>8, <1>9, <1>10, <1>11, <1>12 DEF Probe

-----------------------------------------------------------------------------
MirrorInv ==
    /\ StepInv /\ Alone("radio") /\ Alone("touchpad")
    /\ NoSwitchInv /\ RadioInv /\ TouchpadInv /\ BacklightInv

LEMMA InitMirrors == Init => MirrorInv
<1> SUFFICES ASSUME Init PROVE MirrorInv  OBVIOUS
<1>1. \A t \in Threads : job[t].at = "idle" /\ job[t].todo = {}
  BY DEF Init, NoJob
<1>2. pc = "unbound" /\ "notify" \in Threads  BY DEF Init, Threads
<1> QED
  BY <1>1, <1>2 DEF MirrorInv, StepInv, Alone, NoSwitchInv, RadioInv, TouchpadInv,
     BacklightInv, WorkingOn, Active, Ready

LEMMA MirrorStep ==
    ASSUME Inv, MirrorInv, [Next]_vars
    PROVE  MirrorInv'
<1> USE DEF MirrorInv
<1>0. UNCHANGED machine  BY MachineStays DEF vars
<1>1. ASSUME NEW t \in Threads, Sync(t) \/ JobDone(t) PROVE MirrorInv'
  <2>1. StepInv' /\ BacklightInv'  BY <1>0, <1>1, SyncSteps, SyncPower
  <2>2. Alone("radio")' /\ NoSwitchInv' /\ RadioInv'
    BY <1>0, <1>1, SyncFrames, FrameKeeps, RadioStep DEF Sync
  <2>3. Alone("touchpad")' /\ TouchpadInv'
    BY <1>0, <1>1, SyncFrames, FrameKeeps, TouchpadStep DEF Sync
  <2> QED  BY <2>1, <2>2, <2>3
<1>2. CASE NotifyJob \/ Resume
  <2>1. StepInv' /\ BacklightInv'  BY <1>0, <1>2, NotifySteps, NotifyPowers
  <2>2. Frame("radio") /\ Frame("touchpad")  BY <1>2, NotifyFrames
  <2> QED  BY <1>0, <2>1, <2>2, FrameKeeps
<1>3. CASE \/ SysfsInit \/ Probe \/ Remove \/ Unwind
           \/ Flip \/ Press \/ SetBacklight \/ UserUpdate \/ UNCHANGED vars
  <2>1. StepInv' /\ BacklightInv'  BY <1>0, <1>3, OtherSteps, OtherPower
  <2>2. Frame("radio") /\ Frame("touchpad")  BY <1>3, OtherFrames
  <2> QED  BY <1>0, <2>1, <2>2, FrameKeeps
<1> QED  BY <1>1, <1>2, <1>3 DEF Next

LEMMA MirrorInvariance == Spec => []MirrorInv
<1>1. Spec => []Inv  BY Invariance
<1>2. Inv /\ MirrorInv /\ [Next]_vars => MirrorInv'  BY MirrorStep
<1> QED  BY InitMirrors, <1>1, <1>2, PTL DEF Spec

\* When all is settled the radios are blocked just if a switch blocks them, for
\* any radios and events, unless a read failed or two crossed.
THEOREM RadiosRight == Spec => []RadiosFollow
<1>1. MirrorInv => RadiosFollow
  BY DEF MirrorInv, RadioInv, RadiosFollow, Settled, Active, Pending, Planned, Allowed
<1> QED  BY MirrorInvariance, <1>1, PTL

\* When all is settled the touchpad's port and the key last sent agree with the
\* controller, under the same condition.
THEOREM TouchpadRight == Spec => []TouchpadFollows
<1>1. MirrorInv => TouchpadFollows
  BY DEF MirrorInv, TouchpadInv, TouchpadFollows, Settled, Active, Pending, Planned
<1> QED  BY MirrorInvariance, <1>1, PTL

\* When all is settled the kernel's idea of the backlight's power is right, unless
\* a setting crossed a notification or a write failed.
THEOREM BacklightRight == Spec => []BacklightFollows
<1>1. MirrorInv => BacklightFollows
  BY DEF MirrorInv, BacklightInv, BacklightFollows, Settled, Ready, Pending, Planned, Threads
<1> QED  BY MirrorInvariance, <1>1, PTL
=============================================================================
