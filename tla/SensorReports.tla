---------------------------- MODULE SensorReports ----------------------------
(****************************************************************************)
(* What the HID sensor drivers make of a sensor's reports: the channels each *)
(* driver offers, how it finds their fields in the report descriptor, takes  *)
(* their values out of a report and hands them to the IIO buffer (the files  *)
(* sensors/drivers/hid-sensor-*.c), and how hid-sensor-hub.c walks a report. *)
(* Every driver is its own copy of the same functions; the definitions below *)
(* that carry a driver's name stand for that driver's copy.                  *)
(*                                                                           *)
(* A descriptor is a sequence of fields, each with a usage and a size in     *)
(* bytes; the usages are the constants of the drivers, less 0x200000.  A     *)
(* report holds the fields' bytes one after the other.  A driver's array of  *)
(* captured words is a sequence of numbers of four bytes each.               *)
(****************************************************************************)
EXTENDS Channels

Drivers == {"accel_3d", "gyro_3d", "magn_3d", "als", "incli_3d", "custom",
            "generic", "orientation"}

ACCEL_X_AXIS           == 1107   \* 0x453
ANGL_VELOCITY_X_AXIS   == 1111   \* 0x457
ORIENT_TILT_X          == 1151   \* 0x47F
QUATERNION             == 1155   \* 0x483
ORIENT_MAGN_FLUX_X     == 1157   \* 0x485
LIGHT_ILLUM            == 1233   \* 0x4D1
CUSTOM_VALUE_1         == 1348   \* 0x544
GENERIC_DATAFIELD_KEY  == 1382   \* 0x566

XYZ(type) == <<<<"in", type, "x">>, <<"in", type, "y">>, <<"in", type, "z">>>>
Three(first) == <<first, first + 1, first + 2>>

-----------------------------------------------------------------------------
\* What the copies have in common.

\* The field of the descriptor that has the usage: there is one at most.
NoField == [usage |-> 0, size |-> 0]
AttributeInfo(fields, usage) ==
    LET having == {fields[i] : i \in {j \in DOMAIN fields :
                                         fields[j].usage = usage}}
    IN  IF having = {} THEN NoField ELSE CHOOSE f \in having : TRUE

\* The type that sysfs shows: signed, as wide as the field, stored in a u32.
ScanType(size) == TypeRecord(FALSE, TRUE, size * ByteBits, WordBits, 0)
ScanTypes(sizes) == [i \in DOMAIN sizes |-> ScanType(sizes[i])]

\* The size of each usage's field.
FieldSizes(fields, usages) ==
    [i \in DOMAIN usages |-> AttributeInfo(fields, usages[i]).size]

\* The types of the channels; a driver that does not find every field does not
\* probe.
ParseFields(fields, usages, types) ==
    LET present(i) == AttributeInfo(fields, usages[i]) # NoField
    IN  [ret   |-> IF \A i \in DOMAIN usages : present(i) THEN 0 ELSE -1,
         types |-> types]

\* A usage in the channels' range selects the word by its distance.
CaptureAt(vals, offset, word) ==
    IF offset \in 0..Len(vals) - 1
    THEN [vals EXCEPT ![offset + 1] = word] ELSE vals

\* iio_push_to_buffers is given the whole array once data are ready.
PushVals(vals, ready) == IF ready THEN <<vals>> ELSE <<>>

-----------------------------------------------------------------------------
\* hid-sensor-accel-3d.c

AccelChannels  == XYZ("accel")
AccelAddresses == Three(ACCEL_X_AXIS)
AccelAdjust(sizes) == ScanTypes(sizes)
AccelParse(fields) ==
    ParseFields(fields, AccelAddresses,
                AccelAdjust(FieldSizes(fields, AccelAddresses)))
AccelCapture(vals, usage, word) == CaptureAt(vals, usage - ACCEL_X_AXIS, word)
AccelEvent(vals, ready) == PushVals(vals, ready)

\* hid-sensor-gyro-3d.c

GyroChannels  == XYZ("anglvel")
GyroAddresses == Three(ANGL_VELOCITY_X_AXIS)
GyroAdjust(sizes) == ScanTypes(sizes)
GyroParse(fields) ==
    ParseFields(fields, GyroAddresses,
                GyroAdjust(FieldSizes(fields, GyroAddresses)))
GyroCapture(vals, usage, word) ==
    CaptureAt(vals, usage - ANGL_VELOCITY_X_AXIS, word)
GyroEvent(vals, ready) == PushVals(vals, ready)

\* hid-sensor-magn-3d.c

MagnChannels  == XYZ("magn")
MagnAddresses == Three(ORIENT_MAGN_FLUX_X)
MagnAdjust(sizes) == ScanTypes(sizes)
MagnParse(fields) ==
    ParseFields(fields, MagnAddresses,
                MagnAdjust(FieldSizes(fields, MagnAddresses)))
MagnCapture(vals, usage, word) ==
    CaptureAt(vals, usage - ORIENT_MAGN_FLUX_X, word)
MagnEvent(vals, ready) == PushVals(vals, ready)

\* hid-sensor-als.c

AlsChannels == <<<<"in", "intensity", "both">>>>
AlsAdjust(sizes) == ScanTypes(sizes)
AlsParse(fields) ==
    ParseFields(fields, <<LIGHT_ILLUM>>,
                AlsAdjust(FieldSizes(fields, <<LIGHT_ILLUM>>)))
AlsCapture(vals, usage, word) == IF usage = LIGHT_ILLUM THEN <<word>> ELSE vals
AlsEvent(vals, ready) == PushVals(vals, ready)

\* hid-sensor-incl-3d.c

InclChannels  == XYZ("incli")
InclAddresses == Three(ORIENT_TILT_X)
InclAdjust(sizes) == ScanTypes(sizes)
InclParse(fields) ==
    ParseFields(fields, InclAddresses,
                InclAdjust(FieldSizes(fields, InclAddresses)))

InclCapture(vals, usage, word) ==
    CASE usage = ORIENT_TILT_X     -> [vals EXCEPT ![1] = word]
      [] usage = ORIENT_TILT_X + 1 -> [vals EXCEPT ![2] = word]
      [] usage = ORIENT_TILT_X + 2 -> [vals EXCEPT ![3] = word]
      [] OTHER                     -> vals

InclEvent(vals, ready) == PushVals(vals, ready)

\* hid-sensor-custom.c

CustomChannels == XYZ("accel") \o XYZ("voltage")
                    \o <<<<"in", "illuminance", "both">>>>
CustomAddresses == [i \in 1..7 |-> CUSTOM_VALUE_1 + i - 1]
CustomAdjust(sizes) == ScanTypes(sizes)
CustomParse(fields) ==
    ParseFields(fields, CustomAddresses,
                CustomAdjust(FieldSizes(fields, CustomAddresses)))
CustomCapture(vals, usage, word) ==
    CaptureAt(vals, usage - CUSTOM_VALUE_1, word)
CustomEvent(vals, ready) == PushVals(vals, ready)

\* hid-sensor-generic.c

GenericChannels == <<<<"in", "current", "z">>>>
GenericAdjust(sizes) == ScanTypes(sizes)
GenericParse(fields) ==
    ParseFields(fields, <<GENERIC_DATAFIELD_KEY>>,
                GenericAdjust(FieldSizes(fields, <<GENERIC_DATAFIELD_KEY>>)))
GenericCapture(vals, usage, word) ==
    IF usage = GENERIC_DATAFIELD_KEY THEN <<word>> ELSE vals
GenericEvent(vals, ready) == PushVals(vals, ready)

\* hid-sensor-orient.c

OrientChannels == <<<<"in", "voltage", "none">>>>
OrientAdjust(sizes) == ScanTypes(sizes)
OrientParse(fields) ==
    ParseFields(fields, <<QUATERNION>>,
                OrientAdjust(FieldSizes(fields, <<QUATERNION>>)))
OrientCapture(vals, usage, word) ==
    IF usage = QUATERNION THEN [vals EXCEPT ![usage - QUATERNION + 1] = word]
    ELSE vals
OrientEvent(vals, ready) == PushVals(vals, ready)

-----------------------------------------------------------------------------
\* The driver of a device by its name.

ChannelsOf(driver) ==
    CASE driver = "accel_3d"    -> AccelChannels
      [] driver = "gyro_3d"     -> GyroChannels
      [] driver = "magn_3d"     -> MagnChannels
      [] driver = "als"         -> AlsChannels
      [] driver = "incli_3d"    -> InclChannels
      [] driver = "custom"      -> CustomChannels
      [] driver = "generic"     -> GenericChannels
      [] driver = "orientation" -> OrientChannels

AddressesOf(driver) ==
    CASE driver = "accel_3d"    -> AccelAddresses
      [] driver = "gyro_3d"     -> GyroAddresses
      [] driver = "magn_3d"     -> MagnAddresses
      [] driver = "als"         -> <<LIGHT_ILLUM>>
      [] driver = "incli_3d"    -> InclAddresses
      [] driver = "custom"      -> CustomAddresses
      [] driver = "generic"     -> <<GENERIC_DATAFIELD_KEY>>
      [] driver = "orientation" -> <<QUATERNION>>

ParseReport(driver, fields) ==
    CASE driver = "accel_3d"    -> AccelParse(fields)
      [] driver = "gyro_3d"     -> GyroParse(fields)
      [] driver = "magn_3d"     -> MagnParse(fields)
      [] driver = "als"         -> AlsParse(fields)
      [] driver = "incli_3d"    -> InclParse(fields)
      [] driver = "custom"      -> CustomParse(fields)
      [] driver = "generic"     -> GenericParse(fields)
      [] driver = "orientation" -> OrientParse(fields)

CaptureSample(driver, vals, usage, word) ==
    CASE driver = "accel_3d"    -> AccelCapture(vals, usage, word)
      [] driver = "gyro_3d"     -> GyroCapture(vals, usage, word)
      [] driver = "magn_3d"     -> MagnCapture(vals, usage, word)
      [] driver = "als"         -> AlsCapture(vals, usage, word)
      [] driver = "incli_3d"    -> InclCapture(vals, usage, word)
      [] driver = "custom"      -> CustomCapture(vals, usage, word)
      [] driver = "generic"     -> GenericCapture(vals, usage, word)
      [] driver = "orientation" -> OrientCapture(vals, usage, word)

ProcEvent(driver, vals, ready) ==
    CASE driver = "accel_3d"    -> AccelEvent(vals, ready)
      [] driver = "gyro_3d"     -> GyroEvent(vals, ready)
      [] driver = "magn_3d"     -> MagnEvent(vals, ready)
      [] driver = "als"         -> AlsEvent(vals, ready)
      [] driver = "incli_3d"    -> InclEvent(vals, ready)
      [] driver = "custom"      -> CustomEvent(vals, ready)
      [] driver = "generic"     -> GenericEvent(vals, ready)
      [] driver = "orientation" -> OrientEvent(vals, ready)

-----------------------------------------------------------------------------
\* hid-sensor-hub.c: the walk over a report.

\* The bytes on the wire: the fields' values in the descriptor's order, and the
\* bytes that follow the report in memory, which a read of a whole word at a
\* short last field takes in.
Beyond == [i \in 1..3 |-> Byte - 1]
RawData(fields, value) ==
    FlattenSeq([i \in DOMAIN fields |->
                   ToBytes(value[fields[i].usage], fields[i].size)]) \o Beyond

\* ptr when the walk reaches field i: it moved by the size of each before.
FieldAt(fields, i) ==
    LET at[k \in 1..Len(fields)] ==
            IF k = 1 THEN 0 ELSE at[k - 1] + fields[k - 1].size
    IN  at[i]

\* Each field's word goes to capture_sample; send_event comes after the last.
\* The read is of a word, whatever the field's size.
RawEvent(driver, fields, raw, vals, ready) ==
    LET after[i \in 0..Len(fields)] ==
            IF i = 0 THEN vals
            ELSE CaptureSample(driver, after[i - 1], fields[i].usage,
                               Number(raw, FieldAt(fields, i), 4))
    IN  ProcEvent(driver, after[Len(fields)], ready)
=============================================================================
