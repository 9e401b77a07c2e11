-------------------------------- MODULE Scan --------------------------------
(****************************************************************************)
(* One program on one sensor, from the search for the device to what it      *)
(* makes of a reading: orientation, light, generic_buffer or hinge.  The     *)
(* program enables the channels file by file, counts the enabled ones in one *)
(* pass over the directory and reads them in a second, sorts them, lays them *)
(* out in a scan, and decodes what it then reads.  Meanwhile another actor   *)
(* (a second program, a user at sysfs) may switch a channel, and files may   *)
(* fail.  What a call does to the trigger and the buffer in full is module   *)
(* Acquisition.                                                              *)
(*                                                                           *)
(* The kernel's IIO core is external: it refuses to switch a channel while   *)
(* the buffer is on, or to turn a buffer without channels on; it gives the   *)
(* fifo one datum of the enabled channels' size.  It hands on the first      *)
(* bytes of what a HID driver pushes; for a driver of its own ("foreign")    *)
(* it picks the enabled channels and aligns each.                            *)
(****************************************************************************)
EXTENDS SensorReports

CONSTANTS
    Setups,        \* the initial situations (SetupType)
    Readings(_),   \* the readings in a situation, from channels to numbers
    MaxScans,      \* bound: scans that the fifo holds
    Faults,        \* the faults that may happen (FaultKinds)
    MaxFaults,     \* bound: number of different faults in one behaviour
    MaxSwitches,   \* bound: number of steps at which others switch a channel
    AmbientMax,    \* light_ambient_max
    BacklightMax   \* light_backlight_max

Programs   == {"orientation", "light", "generic_buffer", "hinge"}
FaultKinds == {"unreadable", "unwritable", "typeless", "untriggered", "refused",
               "unread", "uncounted", "unflagged", "reset"}

IsHID(s)    == s.device \in Drivers
Names(s)    == IF IsHID(s) THEN ChannelsOf(s.device)
               ELSE <<<<"in", "temp">>, <<"in", "accel", "x">>,
                      <<"in", "accel", "y">>, <<"in", "accel", "z">>,
                      <<"in", "timestamp">>>>
Positions(s) == DOMAIN Names(s)

\* device is a driver of SensorReports or "foreign"; fields is its report; up
\* whether directories list the channels in order; enabled the channels an
\* earlier program left enabled, and left whether it left the buffer on.
SetupType(s) ==
    /\ s.program \in Programs
    /\ s.device \in Drivers \cup {"foreign"}
    /\ s.fields \in Seq([usage : Nat, size : Nat \ {0}])
    /\ \A i, j \in DOMAIN s.fields :
          s.fields[i].usage = s.fields[j].usage => i = j
    /\ s.up \in BOOLEAN /\ s.poll \in BOOLEAN /\ s.left \in BOOLEAN
    /\ s.enabled \subseteq Positions(s)
    /\ s.left => s.enabled # {}

ASSUME SetupsAssumption == \A s \in Setups : SetupType(s)
ASSUME ReadingsAssumption ==
    \A s \in Setups : Readings(s) \subseteq [Positions(s) -> Int]
ASSUME BoundsAssumption ==
    /\ Faults \subseteq FaultKinds
    /\ MaxScans \in Nat \ {0} /\ MaxFaults \in Nat /\ MaxSwitches \in Nat
    /\ AmbientMax \in Nat \ {0} /\ BacklightMax \in Nat \ {0}

VARIABLES
    setup,     \* the situation, fixed
    pc,        \* where the program is
    number,    \* the number of the device; its trigger carries it in its name
    trigger,   \* the number in the trigger's name as the program built it
    enabled,   \* the channels whose _en file reads 1
    buffer,    \* buffer/enable is 1
    dir,       \* the files still to come in the current pass
    counter,   \* *counter of build_channel_array
    array,     \* the entries of *ci_array filled so far
    fifo,      \* the readings in the kernel's buffer
    scans,     \* how many scans the last read gave, -1 if it failed
    kept,      \* the values decoded last, from channels to numbers
    out,       \* what the program shows: an edge, a backlight level
    faults,    \* the faults that happened
    meddled,   \* history: the steps at which another actor switched a channel
    broken     \* history: the undefined things the program did

device  == <<number, enabled, buffer>>
pass    == <<dir, counter, array>>
result  == <<fifo, scans, kept, out>>
history == <<faults, meddled, broken>>
vars == <<setup, pc, trigger, device, pass, result, history>>

Labels == {"find", "enable", "trigger", "count", "fill", "sort", "acquire",
           "layout", "wait", "stop", "gone", "crashed"}
Mishaps == {"stray", "overrun", "unfilled", "null", "division", "dangling",
            "unset"}

-----------------------------------------------------------------------------
\* The device's directory (external).

\* In the foreign device: be:s12/16>>4, le:s24/32>>8, le:u24/32>>8,
\* le:s32/32>>0 and le:s64/64>>0, in bytes of eight bits.
ForeignTypes ==
    LET b(n) == n * ByteBits
    IN  <<TypeRecord(TRUE, TRUE, b(2) - ByteBits \div 2, b(2), ByteBits \div 2),
          TypeRecord(FALSE, TRUE, b(3), b(4), ByteBits),
          TypeRecord(FALSE, FALSE, b(3), b(4), ByteBits),
          TypeRecord(FALSE, TRUE, b(4), b(4), 0),
          TypeRecord(FALSE, TRUE, b(8), b(8), 0)>>

Types(s) == IF IsHID(s) THEN ParseReport(s.device, s.fields).types
            ELSE ForeignTypes

Listing(s) ==
    LET n == Len(Names(s))
    IN  [i \in 1..n |-> IF s.up THEN i ELSE n + 1 - i]

TypeFiles(s) ==
    [i \in DOMAIN Listing(s) |->
        LET c == Listing(s)[i]
        IN  [file |-> Append(Names(s)[c], "type"), value |-> Types(s)[c]]]

\* The HID drivers' scale is shared by type, in_accel_scale; the foreign
\* thermometer has a scale of its own.
Scale == 3
ParamFiles(s) ==
    <<[file |-> IF IsHID(s) THEN <<"in", Names(s)[1][2], "scale">>
                ELSE <<"in", "temp", "scale">>, value |-> Scale]>>

\* What is in /sys/bus/iio/devices: another device, this one and its trigger.
Devices(s, n) ==
    <<[type |-> "iio:device", number |-> 0, name |-> "other", suffix |-> 0],
      [type |-> "trigger", number |-> 0, name |-> s.device, suffix |-> n]>>
    \o IF IsHID(s) /\ ParseReport(s.device, s.fields).ret < 0 THEN <<>>
       ELSE <<[type |-> "iio:device", number |-> n, name |-> s.device,
               suffix |-> 0]>>

\* The first entry of the type whose name file holds the name; a trigger's name
\* ends in the number of its device.
FindTypeByName(entries, type, name, suffix) ==
    LET fits == {i \in DOMAIN entries :
                    /\ entries[i].type = type
                    /\ entries[i].name = name
                    /\ entries[i].suffix = suffix}
    IN  IF fits = {} THEN -1
        ELSE entries[CHOOSE i \in fits : \A j \in fits : i <= j].number

-----------------------------------------------------------------------------
Init ==
    /\ setup \in Setups
    /\ pc = "find"
    /\ number = 1 /\ trigger = 0
    /\ enabled = setup.enabled
    /\ buffer = setup.left
    /\ dir = <<>> /\ counter = 0 /\ array = <<>>
    /\ fifo = <<>> /\ scans = 0 /\ kept = <<>> /\ out = <<>>
    /\ faults = {} /\ meddled = {} /\ broken = {}

Goto(label) == pc' = label /\ UNCHANGED setup

Fault(kind) ==
    /\ kind \in Faults
    /\ Cardinality(faults \cup {kind}) <= MaxFaults
    /\ faults' = faults \cup {kind}

Break(mishap) == broken' = broken \cup {mishap}

\* The end of the pass over the directory, or its next file.
Advance(next) ==
    /\ dir' = IF Tail(dir) = <<>> /\ next # "sort" THEN Listing(setup)
              ELSE Tail(dir)
    /\ Goto(IF Tail(dir) = <<>> THEN next ELSE pc)

-----------------------------------------------------------------------------
\* Set-up.

\* What a set-up that fails comes to: main returns, but hinge ignores what
\* setup_device returns and goes on with names that are null or freed.
MainReturns ==
    /\ setup.program # "hinge"
    /\ Goto("gone")
    /\ UNCHANGED broken

HingeGoesOn ==
    /\ setup.program = "hinge"
    /\ Goto("crashed")
    /\ Break("dangling")

SetupFails == MainReturns \/ HingeGoesOn

FindDevice ==
    /\ pc = "find"
    /\ FindTypeByName(Devices(setup, number), "iio:device", setup.device, 0) >= 0
    /\ Goto("enable")
    /\ dir' = Listing(setup)
    /\ UNCHANGED <<trigger, device, counter, array, result, history>>

NoDevice ==
    /\ pc = "find"
    /\ FindTypeByName(Devices(setup, number), "iio:device", setup.device, 0) < 0
    /\ SetupFails
    /\ UNCHANGED <<trigger, device, pass, result, faults, meddled>>

\* setup_device tests ret before anything was assigned to it: it may return with
\* nothing but the directory's name set, and the first call compares what it
\* reads back with a null name.
HingeReturnsEarly ==
    /\ pc = "find"
    /\ setup.program = "hinge"
    /\ Goto("crashed")
    /\ Break("unset")
    /\ UNCHANGED <<trigger, device, pass, result, faults, meddled>>

\* One _en file of enable_sensors: a 0 is overwritten, which the kernel refuses
\* while the buffer is on; nobody looks at what the write returns.
EnableNext ==
    /\ pc = "enable"
    /\ enabled' = IF buffer THEN enabled ELSE enabled \cup {Head(dir)}
    /\ Advance("trigger")
    /\ UNCHANGED <<trigger, number, buffer, counter, array, result, history>>

\* A write that fails is not noticed.  Nor is a 0 that cannot be read from a file
\* that opens: ret keeps what asprintf gave, and the 1 is not written.
EnableWriteFails ==
    /\ pc = "enable"
    /\ Head(dir) \notin enabled
    /\ Fault("unwritable")
    /\ Advance("trigger")
    /\ UNCHANGED <<trigger, device, counter, array, result, meddled, broken>>

\* A file that cannot be read ends the pass; nobody looks at what it returns.
EnableReadFails ==
    /\ pc = "enable"
    /\ Fault("unreadable")
    /\ Goto("trigger")
    /\ dir' = Listing(setup)
    /\ UNCHANGED <<trigger, device, counter, array, result, meddled, broken>>

\* The trigger's name is built once and kept when orientation starts over.
TriggerName == IF trigger = 0 THEN number ELSE trigger

\* Mutant of FindTrigger: *counter is not set to zero first.
FindTriggerOnly ==
    /\ pc = "trigger"
    /\ trigger' = TriggerName
    /\ FindTypeByName(Devices(setup, number), "trigger", setup.device,
                      TriggerName) >= 0
    /\ Goto("count")
    /\ array' = <<>>
    /\ UNCHANGED <<counter, device, dir, result, history>>

\* The trigger is there: the passes of build_channel_array begin.
FindTrigger ==
    /\ pc = "trigger"
    /\ trigger' = TriggerName
    /\ FindTypeByName(Devices(setup, number), "trigger", setup.device,
                      TriggerName) >= 0
    /\ Goto("count")
    /\ counter' = 0 /\ array' = <<>>
    /\ UNCHANGED <<device, dir, result, history>>

\* The device has no trigger of that name, or its driver failed to register it.
NoTrigger ==
    /\ pc = "trigger"
    /\ trigger' = TriggerName
    /\ \/ /\ FindTypeByName(Devices(setup, number), "trigger", setup.device,
                            TriggerName) < 0
          /\ UNCHANGED faults
       \/ Fault("untriggered")
    /\ SetupFails
    /\ UNCHANGED <<device, pass, result, meddled>>

-----------------------------------------------------------------------------
\* build_channel_array.

\* Mutant of CountNext: the last file of the directory is not counted.
CountNextButLast ==
    /\ pc = "count"
    /\ counter' = counter + (IF Head(dir) \in enabled /\ Tail(dir) # <<>>
                             THEN 1 ELSE 0)
    /\ Advance("fill")
    /\ UNCHANGED <<trigger, device, array, result, history>>

\* The first pass: how many channels are enabled.
CountNext ==
    /\ pc = "count"
    /\ counter' = counter + (IF Head(dir) \in enabled THEN 1 ELSE 0)
    /\ Advance("fill")
    /\ UNCHANGED <<trigger, device, array, result, history>>

\* The file opens and cannot be read, and nobody looks at what fscanf returns: ret
\* keeps what asprintf gave, and a channel that is off is counted.
CountUnread ==
    /\ pc = "count"
    /\ Head(dir) \notin enabled
    /\ Fault("uncounted")
    /\ counter' = counter + 1
    /\ Advance("fill")
    /\ UNCHANGED <<trigger, device, array, result, meddled, broken>>

\* No memory, or a file that cannot be opened, of those whose opening is checked:
\* the directory, a flag, a scale or an offset.
BuildFails ==
    /\ pc \in {"count", "fill"}
    /\ Fault("unreadable")
    /\ SetupFails
    /\ UNCHANGED <<trigger, device, pass, result, meddled>>

Info(c, type) ==
    ChannelInfo(Names(setup)[c], c - 1,
                ParamFloat(ParamFiles(setup), Names(setup)[c], "scale", 1),
                ParamFloat(ParamFiles(setup), Names(setup)[c], "offset", 0),
                type)

\* What malloc left in an entry whose type file cannot be read: nobody looks at
\* what iioutils_get_type returns.
JunkTypes == {TypeRecord(FALSE, FALSE, 0, 0, 0),
              TypeRecord(FALSE, FALSE, WordBits, WordBits, 1)}

\* The next entry is filled, past the end too.
TakeEntry(type) ==
    /\ array' = Append(array, Info(Head(dir), type))
    /\ IF Len(array) < counter THEN UNCHANGED broken ELSE Break("overrun")
    /\ Advance("sort")
    /\ UNCHANGED <<trigger, device, counter, result, meddled>>

\* The flag went into the next entry, although there may be none left, and stays
\* there until another channel takes it.
PassOver ==
    /\ IF Len(array) < counter THEN UNCHANGED broken ELSE Break("stray")
    /\ Advance("sort")
    /\ UNCHANGED <<trigger, device, counter, array, result, meddled>>

TypeRead(c) == TypeOf(TypeFiles(setup), Names(setup)[c])

FillNext ==
    /\ pc = "fill"
    /\ Head(dir) \in enabled
    /\ \/ TakeEntry(TypeRead(Head(dir))) /\ UNCHANGED faults
       \/ Fault("typeless") /\ \E type \in JunkTypes : TakeEntry(type)

\* Mutant of SkipNext: the entry of a channel that is off is kept.
SkipNextKept ==
    /\ pc = "fill"
    /\ Head(dir) \notin enabled
    /\ array' = Append(array, Info(Head(dir), TypeRecord(FALSE, FALSE, 0, 0, 0)))
    /\ Advance("sort")
    /\ UNCHANGED <<trigger, device, counter, result, history>>

SkipNext ==
    /\ pc = "fill"
    /\ Head(dir) \notin enabled
    /\ PassOver
    /\ UNCHANGED faults

\* A flag that cannot be read is what was in the entry's memory.
FlagUnread ==
    /\ pc = "fill"
    /\ Fault("unflagged")
    /\ TakeEntry(TypeRead(Head(dir))) \/ PassOver

\* The _index file is read without a look at whether it opened.
IndexMissing ==
    /\ pc = "fill"
    /\ Head(dir) \in enabled
    /\ Fault("unreadable")
    /\ Break("null")
    /\ Goto("crashed")
    /\ UNCHANGED <<trigger, device, pass, result, meddled>>

\* The device goes away during the passes and comes back, its channels off.  The
\* program has the old directory open: a pass goes on with the names it has read,
\* whose flags are 0 now, so that what is left of the first counts nothing more;
\* the second, rewound, finds the directory empty.
DeviceReset ==
    /\ pc \in {"count", "fill"}
    /\ Fault("reset")
    /\ enabled' = {} /\ buffer' = FALSE
    /\ IF pc = "fill" /\ dir # Listing(setup) THEN Goto(pc) /\ UNCHANGED dir
       ELSE Goto("sort") /\ dir' = <<>>
    /\ UNCHANGED <<trigger, number, counter, array, result, meddled, broken>>

\* The sort goes over counter entries, unfilled ones included, and main takes
\* counter for the number of channels.
Sort ==
    /\ pc = "sort"
    /\ IF Len(array) < counter
       THEN Break("unfilled") /\ Goto("crashed") /\ UNCHANGED array
       ELSE /\ array' = SortedByIndex(SubSeq(array, 1, counter))
            /\ Goto(IF "overrun" \in broken THEN "crashed" ELSE "acquire")
            /\ UNCHANGED broken
    /\ UNCHANGED <<trigger, device, dir, counter, result, faults, meddled>>

-----------------------------------------------------------------------------
\* A call: trigger and buffer on, lay out, wait, read, process, off.

TurnOn ==
    /\ pc = "acquire"
    /\ enabled # {}
    /\ buffer' = TRUE
    /\ Goto("layout")
    /\ UNCHANGED <<trigger, number, enabled, pass, result, history>>

\* What a refused trigger or buffer comes to: a daemon finds the file to differ
\* from what it wrote; orientation then starts over, light and hinge call again.
DaemonRefused ==
    /\ setup.program # "generic_buffer"
    /\ Goto(IF setup.program = "orientation" THEN "find" ELSE "acquire")

\* generic_buffer reads back the trigger alone: a refused trigger ends it, with a
\* refused buffer it goes on.
GenericRefused ==
    /\ setup.program = "generic_buffer"
    /\ Goto("layout") \/ (enabled # {} /\ Goto("gone"))

\* Without channels the kernel refuses the buffer; else another user of the
\* device has the trigger or the buffer.
Refused ==
    /\ pc = "acquire"
    /\ IF enabled = {} THEN UNCHANGED faults ELSE Fault("refused")
    /\ DaemonRefused \/ GenericRefused
    /\ UNCHANGED <<trigger, device, pass, result, meddled, broken>>

\* size_from_channelarray divides by every channel's size.
Layout ==
    /\ pc = "layout"
    /\ IF LayoutDivides(array)
       THEN Goto("wait") /\ UNCHANGED broken
       ELSE Goto("crashed") /\ Break("division")
    /\ UNCHANGED <<trigger, device, pass, result, faults, meddled>>

\* A reading as the kernel's datum.  The driver captures every channel from the
\* report and pushes all of them; the fifo takes the first bytes.  In a field of
\* another usage all bits are set.
CapturedReading(s, reading) ==
    LET usages == AddressesOf(s.device)
        value  == [u \in Nat |->
                      IF u \in {usages[i] : i \in DOMAIN usages}
                      THEN reading[CHOOSE i \in DOMAIN usages : usages[i] = u]
                      ELSE -1]
        none   == [i \in DOMAIN usages |-> 0]
    IN  RawEvent(s.device, s.fields, RawData(s.fields, value), none, TRUE)[1]

HIDDatum(s, on, reading) ==
    LET words == CapturedReading(s, reading)
    IN  FlattenSeq([i \in 1..Cardinality(on) |-> ToBytes(words[i], 4)])

StoredBytes(value, type) ==
    LET stored == ToBytes(Unsigned(value, type.bits) * Pow2[type.shift], type.bytes)
    IN  IF type.be THEN Reverse(stored) ELSE stored

PaddedTo(bytes, size) ==
    bytes \o [i \in 1..((size - Len(bytes)) % size) |-> 0]

ForeignDatum(on, reading) ==
    LET upto[c \in 0..Len(ForeignTypes)] ==
            IF c = 0 THEN <<>>
            ELSE IF c \notin on THEN upto[c - 1]
            ELSE PaddedTo(upto[c - 1], ForeignTypes[c].bytes)
                    \o StoredBytes(reading[c], ForeignTypes[c])
    IN  upto[Len(ForeignTypes)]

Datum(reading) ==
    IF IsHID(setup) THEN HIDDatum(setup, enabled, reading)
    ELSE ForeignDatum(enabled, reading)

\* The trigger fires and the driver pushes a reading.
Sample ==
    /\ pc = "wait" /\ buffer
    /\ Len(fifo) < MaxScans
    /\ \E reading \in Readings(setup) : fifo' = Append(fifo, reading)
    /\ UNCHANGED <<setup, pc, trigger, device, pass, scans, kept, out, history>>

\* What read puts into the program's memory, and how many scans it takes it for.
Data == FlattenSeq([i \in DOMAIN fifo |-> Datum(fifo[i])])

\* The read that ends the wait: poll has seen data, or the program slept for a
\* while (-e).  A read that fails reports -1 bytes.
ReadNow(ok) ==
    /\ pc = "wait"
    /\ IF ok THEN (fifo # <<>> \/ ~setup.poll) /\ UNCHANGED faults
       ELSE Fault("unread")

ScansRead(ok) == IF ok THEN Len(Data) \div ScanSize(array) ELSE -1

\* No channel was counted, so that a scan has no bytes: the number of scans is a
\* division by zero, in every program but light.
ReadDivides ==
    /\ \E ok \in BOOLEAN : ReadNow(ok)
    /\ array = <<>>
    /\ setup.program # "light"
    /\ Goto("crashed")
    /\ Break("division")
    /\ UNCHANGED <<trigger, device, pass, result, meddled>>

Reads(program, ok) ==
    /\ setup.program = program
    /\ ReadNow(ok)
    /\ Goto("stop")
    /\ UNCHANGED <<trigger, device, pass, fifo, meddled, broken>>

-----------------------------------------------------------------------------
\* orientation and hinge: process_scan_1 to process_scan_3.

AxisNames == XYZ("accel")

\* One entry of the array in one scan: only values of four bytes are taken.
FourBytes(entry) == entry.bytes = 4

ValueAt(data, scan, i) ==
    LET word == Number(data, (scan - 1) * ScanSize(array) + LocationOf(array, i), 4)
    IN  IF array[i].signed THEN DecodeSigned(word, array[i])
        ELSE DecodeUnsigned(word, array[i])

\* The axes that a scan has a value for, each at the axis's place in AxisNames,
\* as numbered among the device's channels.
ProcessScan3(data, scan) ==
    LET taken == {i \in DOMAIN array :
                    /\ FourBytes(array[i])
                    /\ \E a \in DOMAIN AxisNames : array[i].name = AxisNames[a]}
        entry(c) == CHOOSE i \in taken : array[i].index + 1 = c
    IN  [c \in {array[i].index + 1 : i \in taken} |-> ValueAt(data, scan, entry(c))]

Edges == {"FLAT", "TOP", "BOTTOM", "LEFT", "RIGHT"}

\* Mutant of EdgeOf: the sides are told apart by the wrong sign.
EdgeOfMirrored(x, y, z) ==
    IF AbsInt(z) > Times(4, AbsInt(x)) /\ AbsInt(z) > Times(4, AbsInt(y))
    THEN "FLAT"
    ELSE IF Times(3, AbsInt(y)) > Times(2, AbsInt(x))
         THEN IF y > 0 THEN "BOTTOM" ELSE "TOP"
         ELSE IF x < 0 THEN "LEFT" ELSE "RIGHT"

EdgeOf(x, y, z) ==
    IF AbsInt(z) > Times(4, AbsInt(x)) /\ AbsInt(z) > Times(4, AbsInt(y))
    THEN "FLAT"
    ELSE IF Times(3, AbsInt(y)) > Times(2, AbsInt(x))
         THEN IF y > 0 THEN "BOTTOM" ELSE "TOP"
         ELSE IF x > 0 THEN "LEFT" ELSE "RIGHT"

\* The device's channel that has the axis.
AxisChannel(a) == CHOOSE c \in Positions(setup) : Names(setup)[c] = AxisNames[a]

\* The last scan decides; an axis without a value is a variable never assigned.
EdgesOf(values) ==
    IF \A a \in DOMAIN AxisNames :
          AxisNames[a] \in {Names(setup)[c] : c \in DOMAIN values}
    THEN {EdgeOf(values[AxisChannel(1)], values[AxisChannel(2)],
                 values[AxisChannel(3)])}
    ELSE Edges

OrientationReads ==
    \E ok \in BOOLEAN :
        /\ array # <<>>
        /\ Reads("orientation", ok)
        /\ scans' = ScansRead(ok)
        /\ kept' = IF scans' < 1 THEN <<>> ELSE ProcessScan3(Data, scans')
        /\ \E edge \in IF scans' < 1 THEN {"FLAT"} ELSE EdgesOf(kept') :
              out' = <<edge>>

\* hinge keeps the values of earlier calls where a call finds none.
Over(old, new) ==
    [c \in DOMAIN old \cup DOMAIN new |->
        IF c \in DOMAIN new THEN new[c] ELSE old[c]]

HingeReads ==
    \E ok \in BOOLEAN :
        /\ array # <<>>
        /\ Reads("hinge", ok)
        /\ scans' = ScansRead(ok)
        /\ kept' = IF scans' < 1 THEN kept
                   ELSE Over(kept, ProcessScan3(Data, scans'))
        /\ UNCHANGED out

-----------------------------------------------------------------------------
\* light: the first scan, whether or not a whole value was read.

\* The product is computed in unsigned, the quotient taken for an int.
BacklightFor(value) ==
    LimitInterval(1, BacklightMax,
        Signed(Unsigned(value * BacklightMax, WordBits) \div AmbientMax, WordBits))

JunkWords == {0, Pow2[WordBits - 2] + 1}

LightReads ==
    \E ok \in BOOLEAN :
        /\ Reads("light", ok)
        /\ scans' = IF ~ok THEN -1 ELSE IF Len(Data) < 4 THEN 0 ELSE 1
        /\ IF Len(array) # 1 \/ ~FourBytes(array[1]) \/ ~array[1].signed
           THEN UNCHANGED <<kept, out>>
           ELSE \E word \in IF scans' < 1 THEN JunkWords
                            ELSE {Number(Data, 0, 4)} :
                   LET value == DecodeSigned(word, array[1])
                   IN  /\ kept' = [c \in {array[1].index + 1} |-> value]
                       /\ out' = <<BacklightFor(value)>>

-----------------------------------------------------------------------------
\* generic_buffer: every channel of every scan.

\* Only values of two, four and, if signed, eight bytes are printed.
Printed(entry) ==
    entry.bytes \in {2, 4} \cup (IF entry.signed THEN {8} ELSE {})

\* Eight bytes: all of them are used, so that there is no sign to extend.
PrintedNumber(data, at, entry) ==
    CASE entry.bytes = 2 -> Print2Byte(Number(data, at, 2), entry)
      [] entry.bytes = 4 /\ entry.signed -> DecodeSigned(Number(data, at, 4), entry)
      [] entry.bytes = 4 /\ ~entry.signed -> Number(data, at, 4)
      [] entry.bytes = 8 -> Signed(Number(data, at, 8), 2 * WordBits)

PrintScan(data, scan) ==
    LET shown == {i \in DOMAIN array : Printed(array[i])}
        entry(c) == CHOOSE i \in shown : array[i].index + 1 = c
        value(i) ==
            (PrintedNumber(data, (scan - 1) * ScanSize(array) + LocationOf(array, i),
                           array[i]) + array[i].offset) * array[i].scale
    IN  [c \in {array[i].index + 1 : i \in shown} |-> value(entry(c))]

GenericReads ==
    \E ok \in BOOLEAN :
        /\ array # <<>>
        /\ Reads("generic_buffer", ok)
        /\ scans' = ScansRead(ok)
        /\ kept' = IF scans' < 1 THEN <<>> ELSE PrintScan(Data, scans')
        /\ UNCHANGED out

\* The loop goes on with the buffer on ...
GenericLoops ==
    /\ pc = "stop"
    /\ setup.program = "generic_buffer"
    /\ Goto("wait")
    /\ fifo' = IF scans < 0 THEN fifo ELSE <<>>
    /\ scans' = 0 /\ kept' = <<>>
    /\ UNCHANGED <<trigger, device, pass, out, history>>

\* ... and at its end, as after every call of the others, the buffer is stopped.
\* Only hinge keeps what it decoded.
TurnOff ==
    /\ pc = "stop"
    /\ buffer' = FALSE
    /\ fifo' = <<>> /\ scans' = 0 /\ out' = <<>>
    /\ kept' = IF setup.program = "hinge" THEN kept ELSE <<>>
    /\ Goto(IF setup.program = "generic_buffer" THEN "gone" ELSE "acquire")
    /\ UNCHANGED <<trigger, number, enabled, pass, history>>

-----------------------------------------------------------------------------
\* Others.

\* Another actor writes an _en file: refused while the buffer is on.
Switch ==
    /\ pc \notin {"gone", "crashed"}
    /\ ~buffer
    /\ Cardinality(meddled) < MaxSwitches
    /\ \E c \in Positions(setup) :
          enabled' = IF c \in enabled THEN enabled \ {c} ELSE enabled \cup {c}
    /\ meddled' = meddled \cup {pc}
    /\ UNCHANGED <<setup, pc, trigger, number, buffer, pass, result, faults,
                   broken>>

\* While orientation sleeps before it starts over, the device goes away and
\* comes back under another number.
Renumber ==
    /\ pc = "find" /\ trigger # 0
    /\ number = 1
    /\ number' = 2
    /\ enabled' = {} /\ buffer' = FALSE
    /\ UNCHANGED <<setup, pc, trigger, pass, result, history>>

Next ==
    \/ FindDevice \/ NoDevice \/ HingeReturnsEarly
    \/ EnableNext \/ EnableWriteFails \/ EnableReadFails
    \/ FindTrigger \/ NoTrigger
    \/ CountNext \/ CountUnread \/ FillNext \/ SkipNext \/ FlagUnread \/ Sort
    \/ BuildFails \/ IndexMissing \/ DeviceReset
    \/ TurnOn \/ Refused \/ Layout \/ Sample \/ ReadDivides
    \/ OrientationReads \/ HingeReads \/ LightReads \/ GenericReads
    \/ GenericLoops \/ TurnOff
    \/ Switch \/ Renumber

Spec == Init /\ [][Next]_vars

-----------------------------------------------------------------------------
\* Properties.

\* Every variable holds a value of its type; the passes keep to their bounds and
\* only programs that run have something to read.
TypeOK ==
    /\ setup \in Setups
    /\ pc \in Labels
    /\ number \in {1, 2} /\ trigger \in {0, 1, 2}
    /\ enabled \subseteq Positions(setup)
    /\ buffer \in BOOLEAN
    /\ \A i \in DOMAIN dir : dir[i] \in Positions(setup)
    /\ pc \in {"enable", "trigger", "count", "fill"} => dir # <<>>
    /\ counter \in 0..Len(Names(setup))
    /\ Len(array) <= Len(Names(setup))
    /\ Len(fifo) <= MaxScans /\ scans >= -1
    /\ DOMAIN kept \subseteq Positions(setup)
    /\ Len(out) <= 1
    /\ faults \subseteq FaultKinds /\ meddled \subseteq Labels
    /\ broken \subseteq Mishaps

\* The reading that a program shows: the oldest in the buffer for light.
Shown == IF setup.program = "light" THEN fifo[1] ELSE fifo[scans]

Fits(v, type) ==
    IF type.signed THEN Signed(v, type.bits) = v ELSE Unsigned(v, type.bits) = v

\* Nothing stands between channel c and its value: the array has the channels
\* that are on, with their types, and the value fits its type and a word.  A HID
\* driver's channel needs all channels before it on as well.
Intact(c) ==
    /\ {array[i].index + 1 : i \in DOMAIN array} = enabled
    /\ "typeless" \notin faults
    /\ IsHID(setup) => /\ 1..c \subseteq enabled
                       /\ Types(setup)[c].bits <= WordBits
    /\ Fits(Shown[c], Types(setup)[c])

HasScans == pc = "stop" /\ scans > 0

\* What should be shown is the number the sensor measured, in generic_buffer times
\* the channel's own scale, if it has one.  The scale that a HID driver's channels
\* share generic_buffer never finds, contrary to its comment that it prints SI units.
Expected(c) ==
    IF setup.program = "generic_buffer" /\ Names(setup)[c] = <<"in", "temp">>
    THEN Shown[c] * Scale ELSE Shown[c]

\* generic_buffer prints unsigned values of four bytes as they are stored, neither
\* shifted nor masked: those it gets wrong.
Converted(c) ==
    setup.program = "generic_buffer" =>
        Types(setup)[c].signed \/ Types(setup)[c].bytes # 4

\* Every value a program decodes is the number the sensor measured, through report,
\* capture, fifo, array and decoding: whatever the order of the directory, of
\* the report's fields and their sizes, whatever was left enabled and whatever
\* other actors switched, if in the end the array has the channels that are on
\* and for a HID sensor no channel before it is off, and if generic_buffer
\* converts values of the channel's type.
ValuesRight ==
    HasScans =>
        \A c \in DOMAIN kept : Intact(c) /\ Converted(c) => kept[c] = Expected(c)

\* The reading is small enough for orientation's products.
Small(v) == 4 * v < Pow2[WordBits - 1] /\ -4 * v < Pow2[WordBits - 1]

Pull(edge, x, y) ==
    CASE edge = "TOP" -> -y [] edge = "BOTTOM" -> y
      [] edge = "LEFT" -> x [] edge = "RIGHT" -> -x

\* The edge that orientation reports is one that gravity pulls at, hardly less
\* than at any other, and it reports flat only when the pull is at the screen.
EdgeIsPulled ==
    LET x == Shown[AxisChannel(1)] y == Shown[AxisChannel(2)]
        z == Shown[AxisChannel(3)]
    IN  (\A v \in {x, y, z} : Small(v)) /\ {x, y, z} # {0} =>
        \E edge \in Edges :
            /\ out = <<edge>>
            /\ edge = "FLAT" => z # 0 /\ \A v \in {x, -x, y, -y} :
                                    4 * v < z \/ 4 * v < -z
            /\ edge # "FLAT" =>
                  /\ Pull(edge, x, y) > 0
                  /\ \A other \in Edges \ {"FLAT"} :
                        2 * Pull(other, x, y) <= 3 * Pull(edge, x, y)

\* The backlight is set between 1 and its maximum, and as far as that allows to
\* the proportion, rounded down, that the oldest reading in the buffer has to the
\* ambient maximum, as long as product and quotient fit.
BacklightFollows ==
    /\ out # <<>> => out[1] \in 1..BacklightMax
    /\ HasScans /\ 1 \in DOMAIN kept /\ Intact(1) =>
          LET v == Shown[1]
          IN  (/\ v >= 0
               /\ v * BacklightMax < Pow2[WordBits]
               /\ v * BacklightMax < AmbientMax * Pow2[WordBits - 1]) =>
                  /\ v >= AmbientMax => out = <<BacklightMax>>
                  /\ v < AmbientMax =>
                        /\ AmbientMax * out[1] <= v * BacklightMax \/ out = <<1>>
                        /\ v * BacklightMax < AmbientMax * (out[1] + 1)

\* What the daemons make of a reading is what the sensor's user would.
CallbacksRight ==
    /\ setup.program = "light" => BacklightFollows
    /\ (setup.program = "orientation" /\ HasScans
        /\ \A a \in DOMAIN AxisNames :
              AxisChannel(a) \in DOMAIN kept /\ Intact(AxisChannel(a)))
            => EdgeIsPulled

\* A channel may be off in spite of enable_sensors.
SomeChannelOff ==
    setup.left \/ faults \cap {"unreadable", "unwritable", "reset"} # {}
    \/ meddled # {}

SwitchedInPass == meddled \cap {"count", "fill"} # {}

\* The array is overrun only if a channel was switched after the counting began, or
\* a flag could not be read in the second pass; it is left with holes only for
\* these reasons, or if a flag could not be read in the first, or the device went
\* away; and no flag strays behind it unless a channel was off.
ArrayFits ==
    /\ "overrun" \in broken => SwitchedInPass \/ "unflagged" \in faults
    /\ "unfilled" \in broken =>
          SwitchedInPass \/ faults \cap {"uncounted", "unflagged", "reset"} # {}
    /\ "stray" \in broken => SomeChannelOff

NoSuchDevice ==
    FindTypeByName(Devices(setup, number), "iio:device", setup.device, 0) < 0

\* A program ends or crashes for a reason: a division by zero takes a type that
\* could not be read or an array without channels, a null file an _index file that
\* could not be opened, null or freed names take hinge and a set-up that failed,
\* and a daemon gives up only if the device is
\* missing, a file or the trigger failed, or the device changed its number.
EndsWithCause ==
    /\ "division" \in broken =>
          "typeless" \in faults \/ (array = <<>> /\ SomeChannelOff)
    /\ "null" \in broken => "unreadable" \in faults
    /\ "dangling" \in broken =>
          /\ setup.program = "hinge"
          /\ NoSuchDevice \/ faults \cap {"unreadable", "untriggered"} # {}
    /\ pc = "gone" /\ setup.program \in {"orientation", "light"} =>
          \/ NoSuchDevice \/ faults \cap {"unreadable", "untriggered"} # {}
          \/ number # trigger
=============================================================================
