----------------------------- MODULE Scan_proofs -----------------------------
(****************************************************************************)
(* Proofs about Scan, for any situations, readings, faults and bounds: how   *)
(* the array of channels may come to be overrun or left with holes, why a    *)
(* program ends, that every variable keeps to its type, that a decoded value *)
(* is the one the sensor measured, and what the daemons make of it.          *)
(*                                                                           *)
(* The inductive invariant is AllInv.  Its parts are PassInv (the passes     *)
(* over the directory), BasicInv (the device and the program's place),       *)
(* ArrayInv and SomeOn (the array's entries), EndsWithCause itself and       *)
(* ResultInv (the buffer, and what was decoded from it).                     *)
(****************************************************************************)
EXTENDS Scan, Values_proofs

Total == Len(Names(setup))
Seen  == Total - Len(dir)

\* The first k files whose channels are enabled.
Done(k) == {i \in 1..k : Listing(setup)[i] \in enabled}

Passes == {"enable", "trigger", "count", "fill"}

\* dir is what is left of the listing.
DirInv ==
    /\ dir \in Seq(Int) /\ Len(dir) <= Total
    /\ \A j \in 1..Len(dir) : dir[j] = Listing(setup)[Seen + j]
    /\ pc \in Passes => dir # <<>>
    /\ pc = "trigger" => Seen = 0

\* Whatever happened, the array has at most one entry for each file read.
FilledInv ==
    /\ pc \in {"count", "fill"} => counter \in Nat /\ \E S : array \in Seq(S)
    /\ pc = "count" => array = <<>>
    /\ pc = "fill" => Len(array) <= Seen

\* Unless a channel was switched or a flag in the second pass could not be read,
\* there is room for the enabled channels in the files still to be read.
RoomInv ==
    ~SwitchedInPass /\ "unflagged" \notin faults =>
        /\ pc = "count" => counter >= Cardinality(Done(Seen))
        /\ pc = "fill" => counter + Cardinality(Done(Seen))
                             >= Len(array) + Cardinality(Done(Total))

Misread == {"uncounted", "unflagged", "reset"}

\* Unless a channel was switched since, a flag could not be read or the device was
\* reset, the counter is the number of enabled channels in the files counted, and
\* the array has as many entries as there are in the files read.
CountInv ==
    ~SwitchedInPass /\ faults \cap Misread = {} =>
        /\ pc = "count" => counter = Cardinality(Done(Seen))
        /\ pc = "fill" => /\ Len(array) = Cardinality(Done(Seen))
                          /\ counter = Cardinality(Done(Total))
        /\ pc = "sort" => counter \in Nat /\ Len(array) = counter

\* Unless something kept a channel off, those whose files were seen are on ...
OnInv ==
    ~SomeChannelOff =>
        /\ buffer => pc \in {"layout", "wait", "stop", "gone", "crashed"}
        /\ pc = "enable" => \A i \in 1..Seen : Listing(setup)[i] \in enabled
        /\ pc \in {"trigger", "count", "fill"} =>
              \A i \in 1..Total : Listing(setup)[i] \in enabled

\* ... and were counted.
CountedInv ==
    ~SomeChannelOff => /\ pc = "count" => counter >= Seen
                       /\ pc = "fill" => counter >= Total

PassInv ==
    /\ setup \in Setups /\ DirInv /\ OnInv /\ ArrayFits
    /\ FilledInv /\ RoomInv /\ CountInv /\ CountedInv

-----------------------------------------------------------------------------
\* The directory.

LEMMA NamesLength ==
    ASSUME NEW s \in Setups
    PROVE  /\ Len(Names(s)) \in Nat \ {0}
           /\ Positions(s) = 1..Len(Names(s))
<1>1. s.device \in Drivers \cup {"foreign"}
  BY SetupsAssumption DEF SetupType
<1>2. CASE s.device \in Drivers
  <2>1. Names(s) = ChannelsOf(s.device)
    BY <1>2 DEF Names, IsHID
  <2>2. ChannelCount(s.device) \in Nat \ {0}
    BY <1>2, Addresses
  <2> QED  BY <1>2, <2>1, <2>2, ChannelNames DEF Positions
<1>3. CASE s.device \notin Drivers
  BY <1>3 DEF Names, IsHID, Positions
<1> QED  BY <1>2, <1>3

LEMMA ListingSeq ==
    ASSUME setup \in Setups
    PROVE  /\ Total \in Nat \ {0}
           /\ Listing(setup) \in Seq(Int) /\ Len(Listing(setup)) = Total
  BY NamesLength DEF Listing, Total

\* One file more.
LEMMA DoneGrows ==
    ASSUME NEW k \in Nat
    PROVE  /\ Cardinality(Done(k)) \in Nat
           /\ Listing(setup)[k + 1] \in enabled =>
                 Cardinality(Done(k + 1)) = Cardinality(Done(k)) + 1
           /\ Listing(setup)[k + 1] \notin enabled => Done(k + 1) = Done(k)
           /\ \A n \in Nat : k <= n => Cardinality(Done(k)) <= Cardinality(Done(n))
<1>1. \A n \in Nat : IsFiniteSet(Done(n))
  <2> TAKE n \in Nat
  <2>1. IsFiniteSet(1..n)  BY FS_Interval
  <2>2. Done(n) \subseteq 1..n  BY DEF Done
  <2> QED  BY <2>1, <2>2, FS_Subset
<1>2. Cardinality(Done(k)) \in Nat  BY <1>1, FS_CardinalityType
<1>3. Listing(setup)[k + 1] \in enabled =>
         Cardinality(Done(k + 1)) = Cardinality(Done(k)) + 1
  <2> SUFFICES ASSUME Listing(setup)[k + 1] \in enabled
               PROVE  Cardinality(Done(k + 1)) = Cardinality(Done(k)) + 1
    OBVIOUS
  <2>1. Done(k + 1) = Done(k) \cup {k + 1}  BY DEF Done
  <2>2. k + 1 \notin Done(k)  BY DEF Done
  <2>3. Cardinality(Done(k) \cup {k + 1}) = Cardinality(Done(k)) + 1
    BY <1>1, <2>2, FS_AddElement
  <2> QED  BY <2>1, <2>3
<1>4. Listing(setup)[k + 1] \notin enabled => Done(k + 1) = Done(k)
  BY DEF Done
<1>5. \A n \in Nat : k <= n => Cardinality(Done(k)) <= Cardinality(Done(n))
  <2> SUFFICES ASSUME NEW n \in Nat, k <= n
               PROVE  Cardinality(Done(k)) <= Cardinality(Done(n))
    OBVIOUS
  <2>1. Done(k) \subseteq Done(n)  BY DEF Done
  <2> QED  BY <1>1, <2>1, FS_Subset
<1> QED  BY <1>2, <1>3, <1>4, <1>5

LEMMA DoneNone == Cardinality(Done(0)) = 0
<1>1. Done(0) = {}  BY DEF Done
<1> QED  BY <1>1, FS_EmptySet

\* The next file is the one after those seen.
LEMMA NextFile ==
    ASSUME setup \in Setups, DirInv, pc \in Passes
    PROVE  Seen \in Nat /\ Seen < Total /\ Head(dir) = Listing(setup)[Seen + 1]
<1>1. Total \in Nat  BY ListingSeq
<1>2. dir # <<>> /\ dir \in Seq(Int)  BY DEF DirInv
<1>3. Len(dir) \in Nat \ {0} /\ Head(dir) = dir[1]  BY <1>2
<1> QED  BY <1>1, <1>2, <1>3 DEF DirInv, Seen

LEMMA Advances ==
    ASSUME setup \in Setups, DirInv, pc \in {"enable", "count", "fill"},
           NEW next \in {"trigger", "fill", "sort"}, Advance(next)
    PROVE  /\ setup' = setup /\ DirInv' /\ Total' = Total
           /\ \/ pc' = pc /\ Seen' = Seen + 1
              \/ pc' = next /\ Seen + 1 = Total /\ (next # "sort" => Seen' = 0)
<1>0. setup' = setup  BY DEF Advance, Goto
<1>1. Total' = Total /\ Listing(setup)' = Listing(setup)  BY <1>0 DEF Total, Listing
<1>2. Total \in Nat \ {0} /\ Listing(setup) \in Seq(Int) /\ Len(Listing(setup)) = Total
  BY ListingSeq
<1>3. /\ dir \in Seq(Int) /\ dir # <<>> /\ Len(dir) \in Nat \ {0} /\ Len(dir) <= Total
      /\ \A j \in 1..Len(dir) : dir[j] = Listing(setup)[Seen + j]
  BY DEF DirInv, Passes
<1>4. /\ Tail(dir) \in Seq(Int) /\ Len(Tail(dir)) = Len(dir) - 1
      /\ \A j \in 1..Len(dir) - 1 : Tail(dir)[j] = dir[j + 1]
  BY <1>3
<1>5. CASE Tail(dir) # <<>>
  <2>1. dir' = Tail(dir) /\ pc' = pc  BY <1>5 DEF Advance, Goto
  <2>2. Seen' = Seen + 1  BY <1>1, <1>2, <1>3, <1>4, <2>1 DEF Seen
  <2>3. \A j \in 1..Len(dir)' : dir'[j] = Listing(setup)[Seen + 1 + j]
    BY <1>2, <1>3, <1>4, <2>1 DEF Seen
  <2>4. DirInv'
    BY <1>0, <1>1, <1>2, <1>3, <1>4, <1>5, <2>1, <2>2, <2>3 DEF DirInv, Passes
  <2> QED  BY <1>0, <1>1, <2>1, <2>2, <2>4
<1>6. CASE Tail(dir) = <<>>
  <2>1. Len(dir) = 1 /\ Seen + 1 = Total
    <3>1. Len(Tail(dir)) = 0
      BY <1>6, EmptySeq
    <3>2. Len(dir) \in Nat /\ 0 = Len(dir) - 1
      BY <1>3, <1>4, <3>1
    <3>3. Len(dir) = 1
      BY <3>2
    <3> QED  BY <1>2, <3>3 DEF Seen
  <2>2. pc' = next  BY <1>6 DEF Advance, Goto
  <2>3. CASE next = "sort"
    <3>1. dir' = <<>>  BY <1>6, <2>3 DEF Advance
    <3>2. DirInv'  BY <1>1, <1>2, <2>2, <2>3, <3>1 DEF DirInv, Passes
    <3> QED  BY <1>0, <1>1, <2>1, <2>2, <2>3, <3>2
  <2>4. CASE next # "sort"
    <3>1. dir' = Listing(setup)  BY <1>6, <2>4 DEF Advance
    <3>2. Seen' = 0  BY <1>1, <1>2, <3>1 DEF Seen
    <3>3. DirInv'  BY <1>0, <1>1, <1>2, <3>1, <3>2 DEF DirInv, Passes
    <3> QED  BY <1>0, <1>1, <2>1, <2>2, <3>2, <3>3
  <2> QED  BY <2>3, <2>4
<1> QED  BY <1>5, <1>6

\* A pass begins at the first file.
LEMMA Restarts ==
    ASSUME setup \in Setups, setup' = setup, dir' = Listing(setup)
    PROVE  DirInv' /\ Seen' = 0 /\ Total' = Total
<1>1. Total \in Nat \ {0} /\ Listing(setup) \in Seq(Int) /\ Len(Listing(setup)) = Total
  BY ListingSeq
<1>2. Total' = Total /\ Listing(setup)' = Listing(setup)  BY DEF Total, Listing
<1>3. Seen' = 0  BY <1>1, <1>2 DEF Seen
<1>4. \A j \in 1..Len(dir)' : dir'[j] = Listing(setup)[0 + j]  BY <1>1
<1>5. dir' # <<>>  BY <1>1, EmptySeq
<1> QED  BY <1>1, <1>2, <1>3, <1>4, <1>5 DEF DirInv

-----------------------------------------------------------------------------
\* Steps outside of the passes.

LEMMA Harmless ==
    ASSUME ArrayFits, setup' = setup, faults \subseteq faults',
           meddled \subseteq meddled',
           broken' \subseteq broken \cup {"null", "division", "dangling", "unset"}
    PROVE  ArrayFits'
  BY DEF ArrayFits, SwitchedInPass, SomeChannelOff

\* Outside of the passes of build_channel_array nothing is claimed of the array.
LEMMA OutsideHolds ==
    ASSUME pc' \notin {"count", "fill", "sort"}
    PROVE  FilledInv' /\ RoomInv' /\ CountInv' /\ CountedInv'
  BY DEF FilledInv, RoomInv, CountInv, CountedInv

LEMMA Outside ==
    ASSUME PassInv, setup' = setup, dir' = dir, pc' \notin Passes \cup {"sort"},
           faults \subseteq faults', meddled \subseteq meddled', ArrayFits',
           buffer' => \/ pc' \in {"layout", "wait", "stop", "gone", "crashed"}
                      \/ buffer /\ pc \notin {"layout", "wait", "stop", "gone", "crashed"}
    PROVE  PassInv'
<1>1. DirInv'
  <2>1. Total' = Total /\ Listing(setup)' = Listing(setup) /\ Seen' = Seen
    BY DEF Total, Seen, Listing
  <2> QED  BY <2>1 DEF PassInv, DirInv, Passes
<1>2. OnInv'  BY DEF PassInv, OnInv, Passes, SomeChannelOff
<1> QED  BY <1>1, <1>2, OutsideHolds DEF PassInv, Passes

LEMMA SortFits ==
    ASSUME PassInv, Sort
    PROVE  PassInv'
<1>1. /\ setup' = setup /\ dir' = dir /\ pc' \in {"crashed", "acquire"}
      /\ faults' = faults /\ meddled' = meddled /\ buffer' = buffer /\ pc = "sort"
  BY DEF Sort, Goto, device
<1>2. ArrayFits'
  <2>1. CASE Len(array) < counter
    <3>1. SwitchedInPass \/ faults \cap Misread # {}
      BY <1>1, <2>1 DEF PassInv, CountInv
    <3>2. broken' = broken \cup {"unfilled"}  BY <2>1 DEF Sort, Break
    <3> QED  BY <1>1, <3>1, <3>2 DEF PassInv, ArrayFits, SwitchedInPass, Misread,
                SomeChannelOff
  <2>2. CASE ~(Len(array) < counter)
    <3>1. broken' = broken  BY <2>2 DEF Sort
    <3> QED  BY <1>1, <3>1 DEF PassInv, ArrayFits, SwitchedInPass, SomeChannelOff
  <2> QED  BY <2>1, <2>2
<1> QED  BY <1>1, <1>2, Outside DEF Passes

LEMMA SwitchFits ==
    ASSUME PassInv, Switch
    PROVE  PassInv'
<1>1. /\ setup' = setup /\ pc' = pc /\ dir' = dir /\ counter' = counter
      /\ array' = array /\ broken' = broken /\ faults' = faults
      /\ meddled' = meddled \cup {pc} /\ buffer' = buffer
  BY DEF Switch, pass
<1>2. DirInv'
  <2>1. Total' = Total /\ Listing(setup)' = Listing(setup) /\ Seen' = Seen
    BY <1>1 DEF Total, Seen, Listing
  <2> QED  BY <1>1, <2>1 DEF PassInv, DirInv
<1>3. FilledInv'
  <2>1. Seen' = Seen  BY <1>1 DEF Total, Seen
  <2> QED  BY <1>1, <2>1 DEF PassInv, FilledInv
<1>4. RoomInv' /\ CountInv'
  BY <1>1 DEF PassInv, RoomInv, CountInv, SwitchedInPass
<1>5. OnInv' /\ CountedInv'  BY <1>1 DEF OnInv, CountedInv, SomeChannelOff
<1>6. ArrayFits'  BY <1>1 DEF PassInv, ArrayFits, SwitchedInPass, SomeChannelOff
<1> QED  BY <1>1, <1>2, <1>3, <1>4, <1>5, <1>6 DEF PassInv

-----------------------------------------------------------------------------
\* Steps of the passes.

LEMMA EnableFits ==
    ASSUME PassInv, EnableNext \/ EnableWriteFails \/ EnableReadFails
    PROVE  PassInv'
<1>1. /\ pc = "enable" /\ pc' \in {"enable", "trigger"} /\ setup' = setup
      /\ meddled' = meddled /\ broken' = broken /\ faults \subseteq faults'
      /\ buffer' = buffer
  BY DEF EnableNext, EnableWriteFails, EnableReadFails, Advance, Goto, Fault,
     device, history
<1>2. ArrayFits'  BY <1>1, Harmless DEF PassInv
<1>3. FilledInv' /\ RoomInv' /\ CountInv' /\ CountedInv'  BY <1>1, OutsideHolds
<1>4. setup \in Setups /\ DirInv /\ OnInv  BY DEF PassInv
<1>5. CASE EnableNext
  <2>1. Advance("trigger") /\ faults' = faults
    BY <1>5 DEF EnableNext, history
  <2>2. /\ DirInv' /\ Total' = Total
        /\ \/ pc' = pc /\ Seen' = Seen + 1
           \/ pc' = "trigger" /\ Seen + 1 = Total /\ Seen' = 0
    BY <1>1, <1>4, <2>1, Advances
  <2>3. Seen \in Nat /\ Seen < Total /\ Head(dir) = Listing(setup)[Seen + 1]
    BY <1>1, <1>4, NextFile DEF Passes
  <2>4. OnInv'
    <3>1. SUFFICES ASSUME ~SomeChannelOff'  PROVE  OnInv'
      BY DEF OnInv
    <3>2. ~SomeChannelOff  BY <1>1, <2>1, <3>1 DEF SomeChannelOff
    <3>3. ~buffer /\ \A i \in 1..Seen : Listing(setup)[i] \in enabled
      BY <1>1, <1>4, <3>2 DEF OnInv
    <3>4. enabled' = enabled \cup {Head(dir)}  BY <1>5, <3>3 DEF EnableNext
    <3>5. \A i \in 1..Seen + 1 : Listing(setup)[i] \in enabled'
      BY <2>3, <3>3, <3>4
    <3>6. Listing(setup)' = Listing(setup)  BY <1>1 DEF Listing
    <3> QED  BY <1>1, <2>2, <3>3, <3>5, <3>6 DEF OnInv
  <2> QED  BY <1>1, <1>2, <1>3, <1>4, <2>2, <2>4 DEF PassInv
<1>6. CASE EnableWriteFails \/ EnableReadFails
  <2>1. SomeChannelOff'
    BY <1>6 DEF EnableWriteFails, EnableReadFails, Fault, SomeChannelOff
  <2>2. DirInv'
    <3>1. CASE EnableWriteFails
      <4>1. Advance("trigger")  BY <3>1 DEF EnableWriteFails
      <4> QED  BY <1>1, <1>4, <4>1, Advances
    <3>2. CASE EnableReadFails
      <4>1. dir' = Listing(setup)  BY <3>2 DEF EnableReadFails
      <4> QED  BY <1>1, <1>4, <4>1, Restarts
    <3> QED  BY <1>6, <3>1, <3>2
  <2> QED  BY <1>1, <1>2, <1>3, <1>4, <2>1, <2>2 DEF PassInv, OnInv
<1> QED  BY <1>5, <1>6

LEMMA TriggerFits ==
    ASSUME PassInv, FindTrigger
    PROVE  PassInv'
<1>1. /\ pc = "trigger" /\ pc' = "count" /\ counter' = 0 /\ array' = <<>>
      /\ setup' = setup /\ dir' = dir /\ enabled' = enabled /\ buffer' = buffer
      /\ faults' = faults /\ meddled' = meddled /\ broken' = broken
  BY DEF FindTrigger, Goto, device, history
<1>2. Total' = Total /\ Listing(setup)' = Listing(setup) /\ Seen' = Seen
  BY <1>1 DEF Total, Seen, Listing
<1>3. Seen = 0  BY <1>1 DEF PassInv, DirInv
<1>4. DirInv'  BY <1>1, <1>2 DEF PassInv, DirInv, Passes
<1>5. Cardinality(Done(Seen)') = 0
  <2>1. Done(Seen)' = {}  BY <1>2, <1>3 DEF Done
  <2> QED  BY <2>1, FS_EmptySet
<1>6. FilledInv'  BY <1>1, EmptySeq DEF FilledInv
<1>7. RoomInv' /\ CountInv'  BY <1>1, <1>5 DEF RoomInv, CountInv
<1>8. CountedInv'  BY <1>1, <1>2, <1>3 DEF CountedInv
<1>9. OnInv'  BY <1>1, <1>2 DEF PassInv, OnInv, SomeChannelOff
<1>10. ArrayFits'  BY <1>1, Harmless DEF PassInv
<1> QED  BY <1>1, <1>4, <1>6, <1>7, <1>8, <1>9, <1>10 DEF PassInv

\* What the two passes of build_channel_array share.
LEMMA PassesOn ==
    ASSUME PassInv, pc \in {"count", "fill"}, NEW next \in {"fill", "sort"},
           Advance(next), pc = "count" => next = "fill",
           pc = "fill" => next = "sort", enabled' = enabled, buffer' = buffer,
           faults \subseteq faults', meddled' = meddled
    PROVE  /\ setup' = setup /\ DirInv' /\ OnInv'
           /\ \A k : Done(k)' = Done(k)
           /\ Total \in Nat /\ Total' = Total
           /\ Seen \in Nat /\ Seen + 1 <= Total
           /\ Head(dir) = Listing(setup)[Seen + 1]
           /\ \/ pc' = pc /\ Seen' = Seen + 1
              \/ pc' = next /\ Seen + 1 = Total /\ (next # "sort" => Seen' = 0)
<1>1. setup \in Setups /\ DirInv /\ OnInv  BY DEF PassInv
<1>2. /\ setup' = setup /\ DirInv' /\ Total' = Total
      /\ \/ pc' = pc /\ Seen' = Seen + 1
         \/ pc' = next /\ Seen + 1 = Total /\ (next # "sort" => Seen' = 0)
  BY <1>1, Advances
<1>3. Seen \in Nat /\ Seen < Total /\ Head(dir) = Listing(setup)[Seen + 1]
  BY <1>1, NextFile DEF Passes
<1>4. Total \in Nat  BY <1>1, ListingSeq
<1>5. Listing(setup)' = Listing(setup)  BY <1>2 DEF Listing
<1>6. \A k : Done(k)' = Done(k)  BY <1>5 DEF Done
<1>7. OnInv'
  BY <1>1, <1>2, <1>5 DEF OnInv, SomeChannelOff
<1> QED  BY <1>2, <1>3, <1>4, <1>6, <1>7

LEMMA CountFits ==
    ASSUME PassInv, CountNext \/ CountUnread
    PROVE  PassInv'
<1>1. /\ pc = "count" /\ Advance("fill") /\ array' = array
      /\ enabled' = enabled /\ buffer' = buffer
      /\ faults \subseteq faults' /\ meddled' = meddled /\ broken' = broken
  BY DEF CountNext, CountUnread, Fault, device, history
<1>2. /\ setup' = setup /\ DirInv' /\ OnInv'
      /\ \A k : Done(k)' = Done(k)
      /\ Total \in Nat /\ Total' = Total
      /\ Seen \in Nat /\ Seen + 1 <= Total
      /\ Head(dir) = Listing(setup)[Seen + 1]
      /\ \/ pc' = pc /\ Seen' = Seen + 1
         \/ pc' = "fill" /\ Seen + 1 = Total /\ Seen' = 0
  BY <1>1, PassesOn
<1>3. /\ counter \in Nat /\ array = <<>>
      /\ counter' \in {counter, counter + 1}
      /\ Head(dir) \in enabled => counter' = counter + 1
      /\ Head(dir) \notin enabled /\ faults' \cap Misread = {} => counter' = counter
  BY <1>1 DEF CountNext, CountUnread, Fault, Misread, PassInv, FilledInv
<1>4. /\ Cardinality(Done(Seen)) \in Nat /\ Cardinality(Done(Seen + 1)) \in Nat
      /\ Head(dir) \in enabled =>
            Cardinality(Done(Seen + 1)) = Cardinality(Done(Seen)) + 1
      /\ Head(dir) \notin enabled =>
            Cardinality(Done(Seen + 1)) = Cardinality(Done(Seen))
  <2>1. Seen + 1 \in Nat  BY <1>2
  <2> QED  BY <1>2, <2>1, DoneGrows
<1>5. /\ pc' = pc => Done(Seen)' = Done(Seen + 1)
      /\ pc' = "fill" => /\ Cardinality(Done(Seen)') = 0
                         /\ Done(Total)' = Done(Seen + 1)
  <2>1. pc' = pc => Done(Seen)' = Done(Seen + 1)  BY <1>1, <1>2 DEF Done
  <2>2. pc' = "fill" => Done(Seen)' = Done(0) /\ Done(Total)' = Done(Seen + 1)
    BY <1>1, <1>2 DEF Done
  <2> QED  BY <2>1, <2>2, DoneNone
<1>6. FilledInv'
  <2>1. array' = <<>> /\ Len(array') = 0 /\ \E S : array' \in Seq(S)
    BY <1>1, <1>3, EmptySeq
  <2> QED  BY <1>2, <1>3, <2>1 DEF FilledInv
<1>7. RoomInv'
  <2> SUFFICES ASSUME ~SwitchedInPass', "unflagged" \notin faults'  PROVE  RoomInv'
    BY DEF RoomInv
  <2>1. counter >= Cardinality(Done(Seen))
    BY <1>1 DEF PassInv, RoomInv, SwitchedInPass
  <2>2. counter' >= Cardinality(Done(Seen + 1))
    BY <1>3, <1>4, <2>1
  <2>3. Len(array') = 0  BY <1>1, <1>3, EmptySeq
  <2> QED  BY <1>1, <1>2, <1>3, <1>4, <1>5, <2>2, <2>3 DEF RoomInv
<1>8. CountInv'
  <2> SUFFICES ASSUME ~SwitchedInPass', faults' \cap Misread = {}  PROVE  CountInv'
    BY DEF CountInv
  <2>1. counter = Cardinality(Done(Seen))
    BY <1>1 DEF PassInv, CountInv, SwitchedInPass
  <2>2. counter' = Cardinality(Done(Seen + 1))
    BY <1>3, <1>4, <2>1
  <2>3. Len(array') = 0  BY <1>1, <1>3, EmptySeq
  <2> QED  BY <1>1, <1>2, <1>5, <2>2, <2>3 DEF CountInv
<1>9. CountedInv'
  <2> SUFFICES ASSUME ~SomeChannelOff'  PROVE  CountedInv'
    BY DEF CountedInv
  <2>1. ~SomeChannelOff  BY <1>1, <1>2 DEF SomeChannelOff
  <2>2. Seen + 1 \in 1..Total  BY <1>2
  <2>3. counter >= Seen /\ Head(dir) \in enabled
    BY <1>1, <1>2, <2>1, <2>2 DEF PassInv, OnInv, CountedInv
  <2> QED  BY <1>1, <1>2, <1>3, <2>3 DEF CountedInv
<1>10. ArrayFits'  BY <1>1, <1>2, Harmless DEF PassInv
<1> QED  BY <1>2, <1>6, <1>7, <1>8, <1>9, <1>10 DEF PassInv

LEMMA FillFits ==
    ASSUME PassInv, FillNext \/ SkipNext \/ FlagUnread
    PROVE  PassInv'
<1>1. /\ pc = "fill" /\ Advance("sort") /\ counter' = counter
      /\ enabled' = enabled /\ buffer' = buffer
      /\ faults \subseteq faults' /\ meddled' = meddled
  BY DEF FillNext, SkipNext, FlagUnread, TakeEntry, PassOver, Fault, device
<1>2. /\ setup' = setup /\ DirInv' /\ OnInv'
      /\ \A k : Done(k)' = Done(k)
      /\ Total \in Nat /\ Total' = Total
      /\ Seen \in Nat /\ Seen + 1 <= Total
      /\ Head(dir) = Listing(setup)[Seen + 1]
      /\ \/ pc' = pc /\ Seen' = Seen + 1
         \/ pc' = "sort" /\ Seen + 1 = Total
  BY <1>1, PassesOn
<1>3. PICK S : array \in Seq(S)
  BY <1>1 DEF PassInv, FilledInv
<1>4. counter \in Nat /\ Len(array) \in Nat /\ Len(array) <= Seen
  BY <1>1, <1>3 DEF PassInv, FilledInv
\* A channel was read, or one was skipped.
<1>5. CASE \E type : TakeEntry(type)
  <2>1. PICK e : array' = Append(array, e)  BY <1>5 DEF TakeEntry
  <2>2. array \in Seq(S \cup {e})  BY <1>3, SeqMonotonic
  <2>3. array' \in Seq(S \cup {e}) /\ Len(array') = Len(array) + 1
    BY <2>1, <2>2, AppendProperties
  <2>4. broken' = broken \/ (broken' = broken \cup {"overrun"} /\ ~(Len(array) < counter))
    BY <1>5 DEF TakeEntry, Break
  <2>5. \/ "unflagged" \in faults'
        \/ Head(dir) \in enabled
    <3>1. CASE SkipNext
      <4>1. array' = array  BY <3>1 DEF SkipNext, PassOver
      <4> QED  BY <1>4, <2>3, <4>1
    <3> QED  BY <3>1 DEF FillNext, FlagUnread, Fault
  <2>6. /\ Cardinality(Done(Seen)) \in Nat /\ Cardinality(Done(Total)) \in Nat
        /\ Head(dir) \in enabled =>
              /\ Cardinality(Done(Seen + 1)) = Cardinality(Done(Seen)) + 1
              /\ Cardinality(Done(Seen + 1)) <= Cardinality(Done(Total))
    <3>1. Seen + 1 \in Nat  BY <1>2
    <3> QED  BY <1>2, <3>1, DoneGrows
  <2>7. FilledInv'
    BY <1>1, <1>2, <1>4, <2>3 DEF FilledInv
  <2>8. pc' = "fill" => Done(Seen)' = Done(Seen + 1) /\ Done(Total)' = Done(Total)
    BY <1>1, <1>2 DEF Done
  <2>9. ASSUME ~SwitchedInPass', "unflagged" \notin faults'
        PROVE  /\ counter + Cardinality(Done(Seen)) >= Len(array) + Cardinality(Done(Total))
               /\ Head(dir) \in enabled
    BY <1>1, <2>5, <2>9 DEF PassInv, RoomInv, SwitchedInPass
  <2>10. RoomInv'
    BY <1>1, <1>2, <1>4, <2>3, <2>6, <2>8, <2>9 DEF RoomInv
  <2>11. CountInv'
    <3> SUFFICES ASSUME ~SwitchedInPass', faults' \cap Misread = {}  PROVE  CountInv'
      BY DEF CountInv
    <3>1. Len(array) = Cardinality(Done(Seen)) /\ counter = Cardinality(Done(Total))
      BY <1>1 DEF PassInv, CountInv, SwitchedInPass
    <3>2. Head(dir) \in enabled  BY <2>5 DEF Misread
    <3>3. Len(array') = Cardinality(Done(Seen + 1))
      BY <2>3, <2>6, <3>1, <3>2
    <3> QED  BY <1>1, <1>2, <1>4, <2>8, <3>1, <3>3 DEF CountInv
  <2>12. CountedInv'
    BY <1>1, <1>2 DEF PassInv, CountedInv, SomeChannelOff
  <2>13. ArrayFits'
    <3>1. "overrun" \in broken' => \/ "overrun" \in broken
                                   \/ SwitchedInPass' \/ "unflagged" \in faults'
      BY <1>4, <2>4, <2>6, <2>9
    <3> QED  BY <1>1, <1>2, <2>4, <3>1 DEF PassInv, ArrayFits, SwitchedInPass, SomeChannelOff
  <2> QED  BY <1>2, <2>7, <2>10, <2>11, <2>12, <2>13 DEF PassInv
<1>6. CASE PassOver
  <2>1. array' = array
        /\ (broken' = broken \/ (broken' = broken \cup {"stray"} /\ ~(Len(array) < counter)))
    BY <1>6 DEF PassOver, Break
  <2>2. \/ "unflagged" \in faults'
        \/ Head(dir) \notin enabled
    <3>1. ASSUME NEW type, TakeEntry(type)  PROVE  FALSE
      <4>1. PICK e : array' = Append(array, e)  BY <3>1 DEF TakeEntry
      <4>2. array \in Seq(S \cup {e})  BY <1>3, SeqMonotonic
      <4>3. Len(array') = Len(array) + 1  BY <4>1, <4>2, AppendProperties
      <4> QED  BY <1>4, <2>1, <4>3
    <3> QED  BY <3>1 DEF FillNext, SkipNext, FlagUnread, Fault
  <2>3. Head(dir) \notin enabled => Done(Seen + 1) = Done(Seen)
    BY <1>2, DoneGrows
  <2>4. FilledInv'
    BY <1>1, <1>2, <1>3, <1>4, <2>1 DEF FilledInv
  <2>5. pc' = "fill" => Done(Seen)' = Done(Seen + 1) /\ Done(Total)' = Done(Total)
    BY <1>1, <1>2 DEF Done
  <2>6. RoomInv'
    BY <1>1, <1>2, <2>1, <2>2, <2>3, <2>5 DEF PassInv, RoomInv, SwitchedInPass
  <2>7. CountInv'
    <3> SUFFICES ASSUME ~SwitchedInPass', faults' \cap Misread = {}  PROVE  CountInv'
      BY DEF CountInv
    <3>1. Len(array) = Cardinality(Done(Seen)) /\ counter = Cardinality(Done(Total))
      BY <1>1 DEF PassInv, CountInv, SwitchedInPass
    <3>2. Done(Seen + 1) = Done(Seen)  BY <2>2, <2>3 DEF Misread
    <3> QED  BY <1>1, <1>2, <1>4, <2>1, <2>5, <3>1, <3>2 DEF CountInv
  <2>8. CountedInv'
    BY <1>1, <1>2 DEF PassInv, CountedInv, SomeChannelOff
  <2>9. ArrayFits'
    <3>1. SomeChannelOff \/ Len(array) < counter
      BY <1>1, <1>2, <1>4 DEF PassInv, CountedInv
    <3> QED  BY <1>1, <1>2, <2>1, <3>1 DEF PassInv, ArrayFits, SwitchedInPass, SomeChannelOff
  <2> QED  BY <1>2, <2>4, <2>6, <2>7, <2>8, <2>9 DEF PassInv
<1> QED  BY <1>5, <1>6 DEF FillNext, SkipNext, FlagUnread

LEMMA ResetFits ==
    ASSUME PassInv, DeviceReset
    PROVE  PassInv'
<1>1. /\ setup' = setup /\ array' = array /\ counter' = counter /\ enabled' = {}
      /\ "reset" \in faults' /\ faults \subseteq faults' /\ meddled' = meddled
      /\ broken' = broken
      /\ \/ pc = "fill" /\ pc' = "fill" /\ dir' = dir
         \/ pc' = "sort" /\ dir' = <<>>
  BY DEF DeviceReset, Goto, Fault
<1>2. Total' = Total /\ Listing(setup)' = Listing(setup) /\ Total \in Nat
  BY <1>1, ListingSeq DEF PassInv, Total, Listing
\* The second pass goes on, or there is nothing left of it.
<1>3. ASSUME pc = "fill", pc' = "fill", dir' = dir
      PROVE  DirInv' /\ FilledInv' /\ RoomInv'
  <2>1. Seen' = Seen  BY <1>2, <1>3 DEF Seen
  <2>2. DirInv' /\ FilledInv'
    BY <1>1, <1>2, <1>3, <2>1 DEF PassInv, DirInv, FilledInv
  <2>3. RoomInv'
    <3> SUFFICES ASSUME ~SwitchedInPass, "unflagged" \notin faults  PROVE  RoomInv'
      BY <1>1 DEF RoomInv, SwitchedInPass
    <3>1. counter + Cardinality(Done(Seen)) >= Len(array) + Cardinality(Done(Total))
      BY <1>3 DEF PassInv, RoomInv
    <3>2. PICK S : array \in Seq(S)
      BY <1>3 DEF PassInv, FilledInv
    <3>3. counter \in Nat /\ Len(array) \in Nat
      BY <1>3, <3>2 DEF PassInv, FilledInv
    <3>4. Seen \in Nat /\ Seen <= Total
      <4>1. setup \in Setups /\ DirInv  BY DEF PassInv
      <4>2. pc \in Passes  BY <1>3 DEF Passes
      <4>3. Seen \in Nat /\ Seen < Total  BY <4>1, <4>2, NextFile
      <4> QED  BY <1>2, <4>3
    <3>5. /\ Cardinality(Done(Seen)) \in Nat /\ Cardinality(Done(Total)) \in Nat
          /\ Cardinality(Done(Seen)) <= Cardinality(Done(Total))
      BY <1>2, <3>4, DoneGrows
    <3>6. Done(Seen)' = {} /\ Done(Total)' = {}
      BY <1>1 DEF Done
    <3>7. Cardinality(Done(Seen)') = 0 /\ Cardinality(Done(Total)') = 0
      BY <3>6, FS_EmptySet
    <3> QED  BY <1>1, <1>3, <3>1, <3>3, <3>5, <3>7 DEF RoomInv
  <2> QED  BY <2>2, <2>3
<1>4. ASSUME pc' = "sort", dir' = <<>>
      PROVE  DirInv' /\ FilledInv' /\ RoomInv'
  <2>1. dir' \in Seq(Int) /\ Len(dir') = 0  BY <1>4, EmptySeq
  <2>2. DirInv'  BY <1>2, <1>4, <2>1 DEF DirInv, Passes
  <2> QED  BY <1>4, <2>2 DEF FilledInv, RoomInv
<1>5. CountInv' /\ CountedInv' /\ OnInv'
  BY <1>1 DEF CountInv, Misread, CountedInv, OnInv, SomeChannelOff
<1>6. ArrayFits'  BY <1>1, Harmless DEF PassInv
<1> QED  BY <1>1, <1>3, <1>4, <1>5, <1>6 DEF PassInv

-----------------------------------------------------------------------------
\* The other steps leave the passes alone.

LEMMA InitFits == Init => PassInv
<1> SUFFICES ASSUME Init  PROVE  PassInv
  OBVIOUS
<1>1. /\ setup \in Setups /\ pc = "find" /\ dir = <<>> /\ buffer = setup.left
      /\ broken = {} /\ meddled = {} /\ faults = {}
  BY DEF Init
<1>2. DirInv
  <2>1. Total \in Nat  BY <1>1, ListingSeq
  <2>2. dir \in Seq(Int) /\ Len(dir) = 0  BY <1>1, EmptySeq
  <2> QED  BY <1>1, <2>1, <2>2 DEF DirInv, Passes
<1>3. OnInv  BY <1>1 DEF OnInv, SomeChannelOff
<1> QED  BY <1>1, <1>2, <1>3 DEF PassInv, FilledInv, RoomInv, CountInv, CountedInv, ArrayFits

LEMMA EndFits ==
    ASSUME PassInv, \/ NoDevice \/ HingeReturnsEarly \/ NoTrigger \/ BuildFails
                    \/ IndexMissing \/ Layout \/ ReadDivides
    PROVE  PassInv'
<1>1. /\ setup' = setup /\ dir' = dir /\ buffer' = buffer
      /\ pc' \in {"gone", "crashed", "wait"}
      /\ faults \subseteq faults' /\ meddled \subseteq meddled'
      /\ broken' \subseteq broken \cup {"null", "division", "dangling", "unset"}
  <2>1. CASE NoDevice \/ HingeReturnsEarly
    BY <2>1 DEF NoDevice, HingeReturnsEarly, SetupFails, MainReturns, HingeGoesOn,
       Break, Goto, device, pass
  <2>2. CASE NoTrigger
    BY <2>2 DEF NoTrigger, SetupFails, MainReturns, HingeGoesOn, Break, Goto,
       Fault, device, pass
  <2>3. CASE BuildFails
    BY <2>3 DEF BuildFails, SetupFails, MainReturns, HingeGoesOn, Break, Goto,
       Fault, device, pass
  <2>4. CASE Layout
    BY <2>4 DEF Layout, Break, Goto, device, pass
  <2>5. CASE ReadDivides
    BY <2>5 DEF ReadDivides, ReadNow, Break, Goto, Fault, device, pass
  <2>6. CASE IndexMissing
    BY <2>6 DEF IndexMissing, Break, Goto, Fault, device, pass
  <2> QED  BY <2>1, <2>2, <2>3, <2>4, <2>5, <2>6
<1>2. ArrayFits'  BY <1>1, Harmless DEF PassInv
<1> QED  BY <1>1, <1>2, Outside DEF Passes

LEMMA CallFits ==
    ASSUME PassInv, \/ TurnOn \/ Refused \/ Sample \/ OrientationReads
                    \/ HingeReads \/ LightReads \/ GenericReads
                    \/ GenericLoops \/ TurnOff \/ Renumber
    PROVE  PassInv'
<1>1. /\ setup' = setup /\ dir' = dir
      /\ pc' \notin Passes \cup {"sort"}
      /\ faults \subseteq faults' /\ meddled' = meddled /\ broken' = broken
      /\ buffer' => \/ pc' \in {"layout", "wait", "stop", "gone", "crashed"}
                    \/ buffer /\ pc \notin {"layout", "wait", "stop", "gone", "crashed"}
  <2>1. CASE TurnOn
    BY <2>1 DEF TurnOn, Goto, pass, history, Passes
  <2>2. CASE Refused
    <3>1. /\ pc = "acquire" /\ pc' \in {"find", "acquire", "layout", "gone"}
          /\ setup' = setup /\ dir' = dir /\ buffer' = buffer
          /\ meddled' = meddled /\ broken' = broken
      BY <2>2 DEF Refused, DaemonRefused, GenericRefused, Goto, device, pass
    <3>2. faults \subseteq faults'  BY <2>2 DEF Refused, Fault
    <3> QED  BY <3>1, <3>2 DEF Passes
  <2>3. CASE Sample
    <3>1. /\ pc = "wait" /\ pc' = pc /\ setup' = setup /\ dir' = dir
          /\ faults' = faults /\ meddled' = meddled /\ broken' = broken
      BY <2>3 DEF Sample, pass, history
    <3> QED  BY <3>1 DEF Passes
  <2>4. ASSUME NEW program, NEW ok \in BOOLEAN, Reads(program, ok)
        PROVE  /\ setup' = setup /\ dir' = dir
               /\ pc' \notin Passes \cup {"sort"}
               /\ buffer' => pc' \in {"layout", "wait", "stop", "gone", "crashed"}
               /\ faults \subseteq faults' /\ meddled' = meddled
               /\ broken' = broken
    <3>1. /\ setup' = setup /\ dir' = dir /\ pc' = "stop"
          /\ meddled' = meddled /\ broken' = broken
      BY <2>4 DEF Reads, Goto, pass
    <3>2. faults \subseteq faults'  BY <2>4 DEF Reads, ReadNow, Fault
    <3> QED  BY <3>1, <3>2 DEF Passes
  <2>5. CASE OrientationReads \/ HingeReads \/ LightReads \/ GenericReads
    <3>1. CASE OrientationReads
      <4>1. PICK ok \in BOOLEAN : Reads("orientation", ok)
        BY <3>1 DEF OrientationReads
      <4> QED  BY <2>4, <4>1
    <3>2. CASE HingeReads
      <4>1. PICK ok \in BOOLEAN : Reads("hinge", ok)
        BY <3>2 DEF HingeReads
      <4> QED  BY <2>4, <4>1
    <3>3. CASE LightReads
      <4>1. PICK ok \in BOOLEAN : Reads("light", ok)
        BY <3>3 DEF LightReads
      <4> QED  BY <2>4, <4>1
    <3>4. CASE GenericReads
      <4>1. PICK ok \in BOOLEAN : Reads("generic_buffer", ok)
        BY <3>4 DEF GenericReads
      <4> QED  BY <2>4, <4>1
    <3> QED  BY <2>5, <3>1, <3>2, <3>3, <3>4
  <2>6. CASE GenericLoops
    BY <2>6 DEF GenericLoops, Goto, device, pass, history, Passes
  <2>7. CASE TurnOff
    <3>1. pc' \in {"gone", "acquire"}  BY <2>7 DEF TurnOff, Goto
    <3>2. buffer' = FALSE /\ setup' = setup /\ dir' = dir
          /\ faults' = faults /\ meddled' = meddled /\ broken' = broken
      BY <2>7 DEF TurnOff, Goto, pass, history
    <3> QED  BY <3>1, <3>2 DEF Passes
  <2>8. CASE Renumber
    BY <2>8 DEF Renumber, pass, history, Passes
  <2> QED  BY <2>1, <2>2, <2>3, <2>5, <2>6, <2>7, <2>8
<1>2. ArrayFits'  BY <1>1, Harmless DEF PassInv
<1> QED  BY <1>1, <1>2, Outside

LEMMA FindFits ==
    ASSUME PassInv, FindDevice
    PROVE  PassInv'
<1>1. /\ pc = "find" /\ pc' = "enable" /\ setup' = setup
      /\ dir' = Listing(setup) /\ buffer' = buffer
      /\ faults' = faults /\ meddled' = meddled /\ broken' = broken
  BY DEF FindDevice, Goto, device, history
<1>2. DirInv' /\ Seen' = 0  BY <1>1, Restarts DEF PassInv
<1>3. FilledInv' /\ RoomInv' /\ CountInv' /\ CountedInv'  BY <1>1, OutsideHolds
<1>4. OnInv'  BY <1>1, <1>2 DEF PassInv, OnInv, SomeChannelOff
<1>5. ArrayFits'  BY <1>1, Harmless DEF PassInv
<1> QED  BY <1>1, <1>2, <1>3, <1>4, <1>5 DEF PassInv

LEMMA NextFits == PassInv /\ [Next]_vars => PassInv'
<1> SUFFICES ASSUME PassInv, [Next]_vars  PROVE  PassInv'
  OBVIOUS
<1>1. CASE UNCHANGED vars
  <2>1. /\ setup' = setup /\ pc' = pc /\ enabled' = enabled /\ buffer' = buffer
        /\ dir' = dir /\ counter' = counter /\ array' = array
        /\ faults' = faults /\ meddled' = meddled /\ broken' = broken
    BY <1>1 DEF vars, device, pass, history
  <2>2. Total' = Total /\ Seen' = Seen /\ Listing(setup)' = Listing(setup)
    BY <2>1 DEF Total, Seen, Listing
  <2>3. Done(Seen)' = Done(Seen) /\ Done(Total)' = Done(Total)
    BY <2>1, <2>2 DEF Done
  <2>4. DirInv'  BY <2>1, <2>2 DEF PassInv, DirInv
  <2>5. RoomInv' /\ CountInv'
    BY <2>1, <2>3 DEF PassInv, RoomInv, CountInv, SwitchedInPass
  <2>6. FilledInv' /\ CountedInv' /\ OnInv'
    BY <2>1, <2>2 DEF PassInv, FilledInv, CountedInv, OnInv, SomeChannelOff
  <2>7. ArrayFits'  BY <2>1, Harmless DEF PassInv
  <2> QED  BY <2>1, <2>4, <2>5, <2>6, <2>7 DEF PassInv
<1>2. CASE Next
  BY <1>2, FindFits, EnableFits, TriggerFits, CountFits, FillFits, ResetFits,
     SortFits, EndFits, CallFits, SwitchFits DEF Next
<1> QED  BY <1>1, <1>2

\* The entries that build_channel_array reads in its second pass are no more than
\* it counted in the first, unless a channel is switched between the two or a flag
\* is not read in the second, and no fewer, unless a flag is not read in either or
\* the device is reset; and a flag that strays behind the array takes a channel
\* that was off.
THEOREM ArrayHolds == Spec => []ArrayFits
<1>1. PassInv => ArrayFits  BY DEF PassInv
<1> QED  BY <1>1, InitFits, NextFits, PTL DEF Spec

-----------------------------------------------------------------------------
\* The device, its channels and the program's place.

Runs == {"acquire", "layout", "wait", "stop"}   \* there is an array

BasicInv ==
    /\ setup \in Setups /\ pc \in Labels
    /\ number \in {1, 2} /\ trigger \in {0, 1, 2}
    /\ enabled \subseteq Positions(setup) /\ buffer \in BOOLEAN
    /\ faults \subseteq FaultKinds /\ meddled \subseteq Labels
    /\ broken \subseteq Mishaps
    /\ setup.program # "orientation" /\ pc \in {"find", "enable", "trigger"} =>
          trigger = 0
    /\ IsHID(setup) /\ pc \notin {"find", "gone", "crashed"} =>
          ParseReport(setup.device, setup.fields).ret = 0
    /\ broken \cap {"null", "division", "dangling"} # {} => pc = "crashed"

\* What no step takes back.
LEMMA StepKeeps ==
    ASSUME [Next]_vars
    PROVE  /\ setup' = setup
           /\ faults \subseteq faults' /\ meddled \subseteq meddled'
           /\ broken \subseteq broken'
<1>1. CASE UNCHANGED vars
  BY <1>1 DEF vars, history
<1>2. CASE FindDevice \/ NoDevice \/ HingeReturnsEarly
  BY <1>2 DEF FindDevice, NoDevice, HingeReturnsEarly, SetupFails, MainReturns,
     HingeGoesOn, Goto, Break, history
<1>3. CASE EnableNext \/ EnableWriteFails \/ EnableReadFails
  BY <1>3 DEF EnableNext, EnableWriteFails, EnableReadFails, Advance, Goto, Fault,
     history
<1>4. CASE FindTrigger \/ NoTrigger
  BY <1>4 DEF FindTrigger, NoTrigger, SetupFails, MainReturns, HingeGoesOn, Goto,
     Break, Fault, history
<1>5. CASE CountNext \/ CountUnread \/ BuildFails \/ DeviceReset
  BY <1>5 DEF CountNext, CountUnread, BuildFails, DeviceReset, SetupFails, MainReturns,
     HingeGoesOn, Advance, Goto, Break, Fault, history
<1>6. CASE FillNext \/ SkipNext \/ FlagUnread \/ IndexMissing
  BY <1>6 DEF FillNext, SkipNext, FlagUnread, IndexMissing, TakeEntry, PassOver, Advance,
     Goto, Break, Fault, history
<1>7. CASE Sort
  BY <1>7 DEF Sort, Goto, Break
<1>8. CASE TurnOn \/ Refused \/ Layout
  BY <1>8 DEF TurnOn, Refused, DaemonRefused, GenericRefused, Layout, Goto, Break,
     Fault, history
<1>9. CASE Sample \/ ReadDivides
  BY <1>9 DEF Sample, ReadDivides, ReadNow, Goto, Break, Fault, history
<1>10. CASE OrientationReads \/ HingeReads \/ LightReads \/ GenericReads
  BY <1>10 DEF OrientationReads, HingeReads, LightReads, GenericReads, Reads,
     ReadNow, Goto, Fault, history
<1>11. CASE GenericLoops \/ TurnOff \/ Switch \/ Renumber
  BY <1>11 DEF GenericLoops, TurnOff, Switch, Renumber, Goto, history
<1> QED  BY <1>1, <1>2, <1>3, <1>4, <1>5, <1>6, <1>7, <1>8, <1>9, <1>10, <1>11
         DEF Next

\* A device that is found has a driver that probed.
LEMMA FoundParsed ==
    ASSUME setup \in Setups, number \in {1, 2}, IsHID(setup),
           FindTypeByName(Devices(setup, number), "iio:device", setup.device, 0) >= 0
    PROVE  ParseReport(setup.device, setup.fields).ret = 0
<1> DEFINE other   == [type |-> "iio:device", number |-> 0, name |-> "other", suffix |-> 0]
           carries == [type |-> "trigger", number |-> 0, name |-> setup.device,
                       suffix |-> number]
<1>1. setup.device \in Drivers /\ setup.device # "other"
  BY DEF IsHID, Drivers
<1>2. FieldsOK(setup.fields)
  BY SetupsAssumption DEF SetupType, FieldsOK
<1>3. ParseReport(setup.device, setup.fields).ret \in {0, -1}
  BY <1>1, <1>2, ChannelTypes
<1>4. SUFFICES ASSUME ParseReport(setup.device, setup.fields).ret = -1  PROVE  FALSE
  BY <1>3
<1>5. Devices(setup, number) = <<other, carries>> \o <<>>
  BY <1>4 DEF Devices
<1>6. <<other, carries>> \in Seq({other, carries})
  OBVIOUS
<1>7. <<other, carries>> \o <<>> = <<other, carries>>
  BY <1>6, ConcatEmptySeq
<1>8. {i \in DOMAIN Devices(setup, number) :
          /\ Devices(setup, number)[i].type = "iio:device"
          /\ Devices(setup, number)[i].name = setup.device
          /\ Devices(setup, number)[i].suffix = 0} = {}
  BY <1>1, <1>5, <1>7
<1> QED  BY <1>8 DEF FindTypeByName

\* The trigger of the device's own number is there.
LEMMA OwnTrigger ==
    ASSUME setup \in Setups, number \in {1, 2}
    PROVE  FindTypeByName(Devices(setup, number), "trigger", setup.device, number) = 0
<1> DEFINE other   == [type |-> "iio:device", number |-> 0, name |-> "other", suffix |-> 0]
           carries == [type |-> "trigger", number |-> 0, name |-> setup.device,
                       suffix |-> number]
           own     == [type |-> "iio:device", number |-> number, name |-> setup.device,
                       suffix |-> 0]
           fits(entries) == {i \in DOMAIN entries :
                                /\ entries[i].type = "trigger"
                                /\ entries[i].name = setup.device
                                /\ entries[i].suffix = number}
<1>1. PICK entries : entries = Devices(setup, number)
                     /\ fits(entries) = {2} /\ entries[2].number = 0
  <2>1. CASE Devices(setup, number) = <<other, carries>> \o <<>>
    <3>1. <<other, carries>> \in Seq({other, carries})
      OBVIOUS
    <3>2. <<other, carries>> \o <<>> = <<other, carries>>
      BY <3>1, ConcatEmptySeq
    <3>3. fits(<<other, carries>>) = {2}
      OBVIOUS
    <3> QED  BY <2>1, <3>2, <3>3
  <2>2. CASE Devices(setup, number) = <<other, carries>> \o <<own>>
    <3> DEFINE two == <<other, carries>>  one == <<own>>  S == {other, carries, own}
               three == two \o one
    <3>1. /\ two \in Seq(S) /\ one \in Seq(S) /\ Len(two) = 2 /\ Len(one) = 1
          /\ two[1] = other /\ two[2] = carries /\ one[1] = own
      OBVIOUS
    <3>2. /\ three \in Seq(S) /\ Len(three) = Len(two) + Len(one)
          /\ \A i \in 1..(Len(two) + Len(one)) :
                three[i] = IF i <= Len(two) THEN two[i] ELSE one[i - Len(two)]
      BY <3>1, ConcatProperties
    <3>3. DOMAIN three = 1..3 /\ three[1] = other /\ three[2] = carries /\ three[3] = own
      <4> HIDE DEF two, one, S, three
      <4> QED  BY <3>1, <3>2
    <3>4. other.type # "trigger" /\ own.type # "trigger" /\ carries.type = "trigger"
          /\ carries.name = setup.device /\ carries.suffix = number
      OBVIOUS
    <3>5. fits(three) = {2}
      <4> HIDE DEF three, two, one, S, other, carries, own
      <4> QED  BY <3>3, <3>4
    <3> QED  BY <2>2, <3>3, <3>5
  <2> QED  BY <2>1, <2>2 DEF Devices
<1>2. (CHOOSE i \in {2} : \A j \in {2} : i <= j) = 2
  OBVIOUS
<1> QED  BY <1>1, <1>2 DEF FindTypeByName

LEMMA BasicInit == Init => BasicInv
<1> SUFFICES ASSUME Init  PROVE  BasicInv
  OBVIOUS
<1>1. SetupType(setup) /\ setup \in Setups
  BY SetupsAssumption DEF Init
<1> QED  BY <1>1 DEF Init, BasicInv, SetupType, Labels, FaultKinds, Mishaps

\* The next file is a channel's.
LEMMA NextChannel ==
    ASSUME setup \in Setups, DirInv, pc \in Passes
    PROVE  Head(dir) \in Positions(setup)
<1>1. Seen \in Nat /\ Seen < Total /\ Head(dir) = Listing(setup)[Seen + 1]
  BY NextFile
<1>2. Total \in Nat \ {0} /\ Positions(setup) = 1..Total
  BY NamesLength DEF Total
<1>3. Seen + 1 \in 1..Total
  BY <1>1, <1>2
<1>4. Listing(setup)[Seen + 1] = IF setup.up THEN Seen + 1 ELSE Total + 1 - (Seen + 1)
  BY <1>3 DEF Listing, Total
<1> QED  BY <1>1, <1>2, <1>3, <1>4

\* The steps of the set-up ...
LEMMA BasicSetup ==
    ASSUME BasicInv, PassInv,
           \/ FindDevice \/ NoDevice \/ HingeReturnsEarly
           \/ EnableNext \/ EnableWriteFails \/ EnableReadFails
           \/ FindTrigger \/ NoTrigger
    PROVE  BasicInv'
<1>1. setup \in Setups /\ DirInv
  BY DEF PassInv
<1>2. CASE FindDevice
  <2>1. IsHID(setup) => ParseReport(setup.device, setup.fields).ret = 0
    BY <1>1, <1>2, FoundParsed DEF BasicInv, FindDevice
  <2> QED  BY <1>2, <2>1 DEF BasicInv, FindDevice, Goto, device, history, Labels
<1>3. CASE NoDevice \/ HingeReturnsEarly
  BY <1>3 DEF BasicInv, NoDevice, HingeReturnsEarly, SetupFails, MainReturns, HingeGoesOn,
     Goto, Break, device, Labels, Mishaps
<1>4. CASE EnableNext \/ EnableWriteFails \/ EnableReadFails
  <2>1. Head(dir) \in Positions(setup)
    BY <1>1, <1>4, NextChannel DEF EnableNext, EnableWriteFails, EnableReadFails, Passes
  <2> QED  BY <1>4, <2>1 DEF BasicInv, EnableNext, EnableWriteFails, EnableReadFails,
              Advance, Goto, Fault, device, history, Labels, FaultKinds
<1>5. CASE FindTrigger
  BY <1>5 DEF BasicInv, FindTrigger, TriggerName, Goto, device, history, Labels
<1>6. CASE NoTrigger
  <2>1. /\ trigger' = TriggerName /\ number' = number /\ enabled' = enabled
        /\ buffer' = buffer /\ meddled' = meddled /\ pc = "trigger"
    BY <1>6 DEF NoTrigger, device
  <2>2. faults' \subseteq FaultKinds
    BY <1>6, BoundsAssumption DEF BasicInv, NoTrigger, Fault
  <2>3. trigger' \in {0, 1, 2}
    BY <2>1 DEF BasicInv, TriggerName
  <2>4. CASE MainReturns
    BY <2>1, <2>2, <2>3, <2>4 DEF BasicInv, MainReturns, Goto, Labels
  <2>5. CASE HingeGoesOn
    BY <2>1, <2>2, <2>3, <2>5 DEF BasicInv, HingeGoesOn, Goto, Break, Labels, Mishaps
  <2> QED  BY <1>6, <2>4, <2>5 DEF NoTrigger, SetupFails
<1> QED  BY <1>2, <1>3, <1>4, <1>5, <1>6

\* ... and the others.
LEMMA BasicCall ==
    ASSUME BasicInv,
           \/ CountNext \/ CountUnread \/ FillNext \/ SkipNext \/ FlagUnread \/ Sort
           \/ BuildFails \/ IndexMissing \/ DeviceReset
           \/ TurnOn \/ Refused \/ Layout \/ Sample \/ ReadDivides
           \/ OrientationReads \/ HingeReads \/ LightReads \/ GenericReads
           \/ GenericLoops \/ TurnOff \/ Switch \/ Renumber
    PROVE  BasicInv'
<1>1. CASE CountNext \/ CountUnread
  BY <1>1, BoundsAssumption DEF BasicInv, CountNext, CountUnread, Advance, Goto, Fault,
     device, history, Labels
<1>2. CASE BuildFails
  <2>1. /\ UNCHANGED <<trigger, number, enabled, buffer, meddled>>
        /\ faults' \subseteq FaultKinds /\ pc \in {"count", "fill"}
    BY <1>2, BoundsAssumption DEF BasicInv, BuildFails, Fault, device
  <2>2. CASE MainReturns
    BY <2>1, <2>2 DEF BasicInv, MainReturns, Goto, Labels
  <2>3. CASE HingeGoesOn
    BY <2>1, <2>3 DEF BasicInv, HingeGoesOn, Goto, Break, Labels, Mishaps
  <2> QED  BY <1>2, <2>2, <2>3 DEF BuildFails, SetupFails
<1>3. CASE FillNext \/ SkipNext \/ FlagUnread
  <2>1. /\ UNCHANGED <<trigger, number, enabled, buffer, meddled>>
        /\ pc = "fill" /\ Advance("sort")
    BY <1>3 DEF FillNext, SkipNext, FlagUnread, TakeEntry, PassOver, device
  <2>2. faults' \subseteq FaultKinds
    BY <1>3, BoundsAssumption DEF BasicInv, FillNext, SkipNext, FlagUnread, Fault
  <2>3. broken' \subseteq broken \cup {"overrun", "stray"}
    BY <1>3 DEF FillNext, SkipNext, FlagUnread, TakeEntry, PassOver, Break
  <2> QED  BY <2>1, <2>2, <2>3 DEF BasicInv, Advance, Goto, Labels, Mishaps
<1>4. CASE Sort
  BY <1>4 DEF BasicInv, Sort, Goto, Break, device, Labels, Mishaps
<1>5. CASE TurnOn \/ Layout
  BY <1>5 DEF BasicInv, TurnOn, Layout, Goto, Break, device, history, Labels, Mishaps
<1>6. CASE Refused
  <2>1. UNCHANGED <<trigger, number, enabled, buffer, meddled, broken>> /\ pc = "acquire"
    BY <1>6 DEF Refused, device
  <2>2. faults' \subseteq FaultKinds
    BY <1>6, BoundsAssumption DEF BasicInv, Refused, Fault
  <2>3. CASE DaemonRefused
    BY <2>1, <2>2, <2>3 DEF BasicInv, DaemonRefused, Goto, Labels
  <2>4. CASE GenericRefused
    BY <2>1, <2>2, <2>4 DEF BasicInv, GenericRefused, Goto, Labels
  <2> QED  BY <1>6, <2>3, <2>4 DEF Refused
<1>7. CASE Sample
  BY <1>7 DEF BasicInv, Sample, device, history
<1>8. CASE ReadDivides
  BY <1>8, BoundsAssumption DEF BasicInv, ReadDivides, ReadNow, Goto, Break, Fault, device,
     Labels, Mishaps
<1>9. ASSUME NEW program, NEW ok \in BOOLEAN, Reads(program, ok)
      PROVE  BasicInv'
  BY <1>9, BoundsAssumption DEF BasicInv, Reads, ReadNow, Goto, Fault, device, Labels
<1>10. CASE OrientationReads \/ HingeReads \/ LightReads \/ GenericReads
  BY <1>9, <1>10 DEF OrientationReads, HingeReads, LightReads, GenericReads
<1>11. CASE GenericLoops \/ TurnOff
  BY <1>11 DEF BasicInv, GenericLoops, TurnOff, Goto, device, history, Labels
<1>12. CASE Switch \/ Renumber
  BY <1>12 DEF BasicInv, Switch, Renumber, history, Labels
<1>13. CASE IndexMissing
  BY <1>13, BoundsAssumption DEF BasicInv, IndexMissing, Goto, Break, Fault, device, Labels,
     Mishaps
<1>14. CASE DeviceReset
  BY <1>14, BoundsAssumption DEF BasicInv, DeviceReset, Goto, Fault, Labels
<1> QED  BY <1>1, <1>2, <1>3, <1>4, <1>5, <1>6, <1>7, <1>8, <1>10, <1>11, <1>12, <1>13, <1>14

LEMMA BasicNext == BasicInv /\ PassInv /\ [Next]_vars => BasicInv'
<1>1. CASE UNCHANGED vars
  BY <1>1 DEF BasicInv, vars, device, history
<1>2. CASE Next
  BY <1>2, BasicSetup, BasicCall DEF Next
<1> QED  BY <1>1, <1>2

-----------------------------------------------------------------------------
\* Names, types and scales of the channels.

TwoParts(name)   == \E t : name = <<"in", t>>
ThreeParts(name) == \E t, x : name = <<"in", t, x>>

LEMMA NamesAre ==
    ASSUME NEW s \in Setups
    PROVE  /\ \A c \in Positions(s) :
                 /\ TwoParts(Names(s)[c]) \/ ThreeParts(Names(s)[c])
                 /\ IsHID(s) => ThreeParts(Names(s)[c])
           /\ \A c, d \in Positions(s) : Names(s)[c] = Names(s)[d] => c = d
<1>1. CASE IsHID(s)
  <2>1. s.device \in Drivers /\ Names(s) = ChannelsOf(s.device)
        /\ Positions(s) = 1..ChannelCount(s.device)
    BY <1>1, ChannelNames DEF IsHID, Names, Positions
  <2>2. \A c \in Positions(s) : ThreeParts(Names(s)[c])
    BY <2>1, ChannelNames DEF ThreeParts
  <2>3. \A c, d \in Positions(s) : Names(s)[c] = Names(s)[d] => c = d
    BY <2>1, NamesApart
  <2> QED  BY <2>2, <2>3
<1>2. CASE ~IsHID(s)
  <2> DEFINE n == Names(s)
  <2>1. /\ n[1] = <<"in", "temp">> /\ n[2] = <<"in", "accel", "x">>
        /\ n[3] = <<"in", "accel", "y">> /\ n[4] = <<"in", "accel", "z">>
        /\ n[5] = <<"in", "timestamp">> /\ DOMAIN n = 1..5
    BY <1>2 DEF Names
  <2> HIDE DEF n
  <2>2. ThreeParts(n[2]) /\ ThreeParts(n[3]) /\ ThreeParts(n[4])
    BY <2>1 DEF ThreeParts
  <2>3. TwoParts(n[1]) /\ TwoParts(n[5])
    BY <2>1 DEF TwoParts
  <2>4. \A c \in 1..5 : c = 1 \/ c = 2 \/ c = 3 \/ c = 4 \/ c = 5
    OBVIOUS
  <2>5. \A c \in Positions(s) : TwoParts(n[c]) \/ ThreeParts(n[c])
    BY <2>1, <2>2, <2>3, <2>4 DEF Positions, n
  <2>6. \A c, d \in Positions(s) : n[c] = n[d] => c = d
    <3>1. /\ \A t, u : <<"in", t>> = <<"in", u>> => t = u
          /\ \A t, u, x, y : <<"in", t, x>> = <<"in", u, y>> => x = y
          /\ \A t, u, x : <<"in", t>> # <<"in", u, x>>
      OBVIOUS
    <3>2. /\ n[1] # n[2] /\ n[1] # n[3] /\ n[1] # n[4] /\ n[1] # n[5]
          /\ n[2] # n[3] /\ n[2] # n[4] /\ n[2] # n[5]
          /\ n[3] # n[4] /\ n[3] # n[5] /\ n[4] # n[5]
      BY <2>1, <3>1
    <3>3. Positions(s) = 1..5
      BY <2>1 DEF Positions, n
    <3> QED  BY <2>4, <3>2, <3>3
  <2> QED  BY <1>2, <2>5, <2>6 DEF n
<1> QED  BY <1>1, <1>2

\* A part behind a name.
LEMMA Appended ==
    ASSUME NEW a, TwoParts(a) \/ ThreeParts(a), NEW p
    PROVE  /\ GenericName(a) = <<"in">>
           /\ Append(GenericName(a), p) = <<"in", p>>
           /\ \A t : a = <<"in", t>> => Append(a, p) = <<"in", t, p>>
           /\ \A t, x : a = <<"in", t, x>> => Append(a, p) = <<"in", t, x, p>>
<1>1. GenericName(a) = <<"in">>
  BY DEF GenericName, TwoParts, ThreeParts
<1>2. ASSUME NEW S, NEW b \in Seq(S), NEW c \in Seq(S), p \in S, Len(c) = Len(b) + 1,
             \A i \in 1..Len(b) : c[i] = b[i], c[Len(b) + 1] = p
      PROVE  Append(b, p) = c
  <2>1. /\ Append(b, p) \in Seq(S) /\ Len(Append(b, p)) = Len(b) + 1
        /\ \A i \in 1..Len(b) : Append(b, p)[i] = b[i]
        /\ Append(b, p)[Len(b) + 1] = p
    BY <1>2, AppendProperties
  <2>2. Len(b) \in Nat
    BY <1>2
  <2> DEFINE d == Append(b, p)
  <2> HIDE DEF d
  <2>3. \A i \in 1..Len(d) : d[i] = c[i]
    BY <1>2, <2>1, <2>2 DEF d
  <2> QED  BY <1>2, <2>1, <2>3, SeqEqual DEF d
<1>3. Append(<<"in">>, p) = <<"in", p>>
  <2> DEFINE S == {"in", p}  b == <<"in">>  c == <<"in", p>>
  <2>1. b \in Seq(S) /\ c \in Seq(S) /\ Len(b) = 1 /\ Len(c) = 2 /\ p \in S
        /\ c[1] = b[1] /\ c[2] = p
    OBVIOUS
  <2> HIDE DEF S, b, c
  <2> SUFFICES Append(b, p) = c
    BY DEF b, c
  <2>2. /\ Len(c) = Len(b) + 1 /\ c[Len(b) + 1] = p
        /\ \A i \in 1..Len(b) : c[i] = b[i]
    BY <2>1
  <2> QED  BY <1>2, <2>1, <2>2
<1>4. ASSUME NEW t  PROVE  Append(<<"in", t>>, p) = <<"in", t, p>>
  <2> DEFINE S == {"in", t, p}  b == <<"in", t>>  c == <<"in", t, p>>
  <2>1. b \in Seq(S) /\ c \in Seq(S) /\ Len(b) = 2 /\ Len(c) = 3 /\ p \in S
        /\ c[1] = b[1] /\ c[2] = b[2] /\ c[3] = p
    OBVIOUS
  <2> HIDE DEF S, b, c
  <2> SUFFICES Append(b, p) = c
    BY DEF b, c
  <2>2. /\ Len(c) = Len(b) + 1 /\ c[Len(b) + 1] = p
        /\ \A i \in 1..Len(b) : c[i] = b[i]
    BY <2>1
  <2> QED  BY <1>2, <2>1, <2>2
<1>5. ASSUME NEW t, NEW x  PROVE  Append(<<"in", t, x>>, p) = <<"in", t, x, p>>
  <2> DEFINE S == {"in", t, x, p}  b == <<"in", t, x>>  c == <<"in", t, x, p>>
  <2>1. b \in Seq(S) /\ c \in Seq(S) /\ Len(b) = 3 /\ Len(c) = 4 /\ p \in S
        /\ c[1] = b[1] /\ c[2] = b[2] /\ c[3] = b[3] /\ c[4] = p
    OBVIOUS
  <2> HIDE DEF S, b, c
  <2> SUFFICES Append(b, p) = c
    BY DEF b, c
  <2>2. /\ Len(c) = Len(b) + 1 /\ c[Len(b) + 1] = p
        /\ \A i \in 1..Len(b) : c[i] = b[i]
    BY <2>1
  <2> QED  BY <1>2, <2>1, <2>2
<1> QED  BY <1>1, <1>3, <1>4, <1>5

\* A channel's type is found among the files of all.
LEMMA OwnType ==
    ASSUME setup \in Setups, NEW c \in Positions(setup)
    PROVE  TypeOf(TypeFiles(setup), Names(setup)[c]) = Types(setup)[c]
<1> DEFINE n == Names(setup)  files == TypeFiles(setup)  list == Listing(setup)
           fits == {i \in DOMAIN files : HasAttribute(files[i].file, n[c], "type")}
           p == IF setup.up THEN c ELSE Total + 1 - c
<1>1. Total \in Nat \ {0} /\ Positions(setup) = 1..Total /\ DOMAIN list = 1..Total
      /\ \A i \in 1..Total : list[i] = IF setup.up THEN i ELSE Total + 1 - i
  BY NamesLength DEF Total, Listing
<1>2. /\ DOMAIN files = 1..Total
      /\ \A i \in 1..Total : /\ files[i].file = Append(n[list[i]], "type")
                             /\ files[i].value = Types(setup)[list[i]]
  BY <1>1 DEF TypeFiles
<1>3. p \in 1..Total /\ list[p] = c
  BY <1>1
<1>4. ASSUME NEW i \in 1..Total, HasAttribute(files[i].file, n[c], "type")
      PROVE  i = p
  <2>1. list[i] \in Positions(setup)
    BY <1>1
  <2>2. /\ TwoParts(n[c]) \/ ThreeParts(n[c])
        /\ TwoParts(n[list[i]]) \/ ThreeParts(n[list[i]])
    BY <2>1, NamesAre
  <2>3. Append(n[list[i]], "type") \in {Append(n[c], "type"), <<"in", "type">>}
    BY <1>2, <1>4, <2>2, Appended DEF HasAttribute
  <2>4. n[list[i]] = n[c]
    <3>1. /\ \A t, u, q : <<"in", t, q>> = <<"in", u, q>> => t = u
          /\ \A t, u, x, y, q : <<"in", t, x, q>> = <<"in", u, y, q>> => t = u /\ x = y
          /\ \A t, u, x, q : <<"in", t, q>> # <<"in", u, x, q>>
          /\ \A t, q : <<"in", t, q>> # <<"in", q>>
          /\ \A t, x, q : <<"in", t, x, q>> # <<"in", q>>
      OBVIOUS
    <3> HIDE DEF n, list
    <3> DEFINE a == n[c]  b == n[list[i]]
    <3>2. Append(b, "type") \in {Append(a, "type"), <<"in", "type">>}
          /\ (TwoParts(a) \/ ThreeParts(a)) /\ (TwoParts(b) \/ ThreeParts(b))
      BY <2>2, <2>3
    <3> HIDE DEF a, b
    <3>3. CASE TwoParts(b)
      <4>1. PICK t : b = <<"in", t>>
        BY <3>3 DEF TwoParts
      <4>2. Append(b, "type") = <<"in", t, "type">>
        BY <3>2, <4>1, Appended
      <4>3. Append(b, "type") = Append(a, "type")
        BY <3>1, <3>2, <4>2
      <4>4. CASE TwoParts(a)
        <5>1. PICK u : a = <<"in", u>>
          BY <4>4 DEF TwoParts
        <5>2. Append(a, "type") = <<"in", u, "type">>
          BY <3>2, <5>1, Appended
        <5> QED  BY <3>1, <4>1, <4>2, <4>3, <5>1, <5>2 DEF a, b
      <4>5. CASE ThreeParts(a)
        <5>1. PICK u, x : a = <<"in", u, x>>
          BY <4>5 DEF ThreeParts
        <5>2. Append(a, "type") = <<"in", u, x, "type">>
          BY <3>2, <5>1, Appended
        <5>3. <<"in", t, "type">> # <<"in", u, x, "type">>
          BY <3>1
        <5> QED  BY <4>2, <4>3, <5>2, <5>3, Zenon
      <4> QED  BY <3>2, <4>4, <4>5
    <3>4. CASE ThreeParts(b)
      <4>1. PICK t, x : b = <<"in", t, x>>
        BY <3>4 DEF ThreeParts
      <4>2. Append(b, "type") = <<"in", t, x, "type">>
        BY <3>2, <4>1, Appended
      <4>3. Append(b, "type") = Append(a, "type")
        BY <3>1, <3>2, <4>2
      <4>4. CASE TwoParts(a)
        <5>1. PICK u : a = <<"in", u>>
          BY <4>4 DEF TwoParts
        <5>2. Append(a, "type") = <<"in", u, "type">>
          BY <3>2, <5>1, Appended
        <5>3. <<"in", u, "type">> # <<"in", t, x, "type">>
          BY <3>1
        <5> QED  BY <4>2, <4>3, <5>2, <5>3, Zenon
      <4>5. CASE ThreeParts(a)
        <5>1. PICK u, y : a = <<"in", u, y>>
          BY <4>5 DEF ThreeParts
        <5>2. Append(a, "type") = <<"in", u, y, "type">>
          BY <3>2, <5>1, Appended
        <5> QED  BY <3>1, <4>1, <4>2, <4>3, <5>1, <5>2 DEF a, b
      <4> QED  BY <3>2, <4>4, <4>5
    <3> QED  BY <3>2, <3>3, <3>4
  <2>5. list[i] = c
    BY <2>1, <2>4, NamesAre
  <2> QED  BY <1>1, <2>5
<1>5. HasAttribute(files[p].file, n[c], "type")
  BY <1>2, <1>3 DEF HasAttribute
<1>6. fits = {p}
  BY <1>2, <1>3, <1>4, <1>5
<1>7. (CHOOSE i \in {p} : \A j \in {p} : j <= i) = p
  BY <1>1, <1>3
<1>8. TypeOf(files, n[c]) = files[CHOOSE i \in fits : \A j \in fits : j <= i].value
  BY DEF TypeOf
<1> HIDE DEF fits, p, files
<1> QED  BY <1>2, <1>3, <1>6, <1>7, <1>8 DEF files

\* A driver's channel has its field's size, in a word.
LEMMA HIDType ==
    ASSUME NEW s \in Setups, IsHID(s), ParseReport(s.device, s.fields).ret = 0,
           NEW c \in Positions(s)
    PROVE  \E k \in 1..Len(s.fields) :
              /\ s.fields[k].usage = FirstUsage(s.device) + c - 1
              /\ Types(s)[c] = ScanType(s.fields[k].size)
              /\ s.fields[k].size \in Nat \ {0}
              /\ Types(s)[c].bytes = 4 /\ Types(s)[c].shift = 0
              /\ Types(s)[c].bits = s.fields[k].size * ByteBits
              /\ Types(s)[c].bits \in Nat \ {0}
              /\ Types(s)[c].signed = TRUE /\ Types(s)[c].be = FALSE
<1>1. s.device \in Drivers /\ Positions(s) = 1..ChannelCount(s.device)
  BY ChannelNames DEF IsHID, Names, Positions
<1>2. FieldsOK(s.fields)
  BY SetupsAssumption DEF SetupType, FieldsOK
<1>3. PICK k \in 1..Len(s.fields) :
         /\ s.fields[k].usage = FirstUsage(s.device) + c - 1
         /\ ParseReport(s.device, s.fields).types[c] = ScanType(s.fields[k].size)
  BY <1>1, <1>2, ChannelTypes
<1>4. s.fields[k].size \in Nat \ {0}
  BY <1>2, FieldTypes
<1>5. Types(s)[c] = ScanType(s.fields[k].size)
  BY <1>3 DEF Types
<1>6. WordBits \div ByteBits = 4
  BY Widths, DivUnique DEF WordBits
<1>7. s.fields[k].size * ByteBits \in Nat \ {0}
  BY <1>4, Widths
<1>8. /\ Types(s)[c].bytes = 4 /\ Types(s)[c].shift = 0
      /\ Types(s)[c].bits = s.fields[k].size * ByteBits
      /\ Types(s)[c].signed = TRUE /\ Types(s)[c].be = FALSE
  BY <1>5, <1>6 DEF ScanType, TypeRecord
<1> QED  BY <1>3, <1>4, <1>5, <1>7, <1>8

LEMMA ForeignTypesAre ==
    LET t == ForeignTypes
    IN  /\ DOMAIN t = 1..5 /\ Len(t) = 5
        /\ t[1].be = TRUE /\ t[1].signed = TRUE /\ t[1].bytes = 2
        /\ t[1].bits = 2 * ByteBits - ByteBits \div 2 /\ t[1].shift = ByteBits \div 2
        /\ \A c \in 2..5 : t[c].be = FALSE
        /\ t[2].signed = TRUE /\ t[2].bytes = 4 /\ t[2].bits = 3 * ByteBits
        /\ t[2].shift = ByteBits
        /\ t[3].signed = FALSE /\ t[3].bytes = 4 /\ t[3].bits = 3 * ByteBits
        /\ t[3].shift = ByteBits
        /\ t[4].signed = TRUE /\ t[4].bytes = 4 /\ t[4].bits = WordBits
        /\ t[4].shift = 0
        /\ t[5].signed = TRUE /\ t[5].bytes = 8 /\ t[5].bits = 2 * WordBits
        /\ t[5].shift = 0
        /\ ByteBits \div 2 \in Nat /\ ByteBits \div 2 < ByteBits
<1>1. \A k \in Nat : (k * ByteBits) \div ByteBits = k
  <2> TAKE k \in Nat
  <2>1. k * ByteBits = ByteBits * k + 0 /\ k * ByteBits \in Int
    BY Widths
  <2> QED  BY <2>1, Widths, DivUnique
<1>2. (2 * ByteBits) \div ByteBits = 2 /\ (4 * ByteBits) \div ByteBits = 4
      /\ (8 * ByteBits) \div ByteBits = 8
  BY <1>1
<1>3. ByteBits \div 2 \in Nat /\ ByteBits \div 2 < ByteBits
  BY Widths
<1>4. \A c \in 2..5 : c = 2 \/ c = 3 \/ c = 4 \/ c = 5
  OBVIOUS
<1>5. 8 * ByteBits = 2 * WordBits /\ 4 * ByteBits = WordBits
  BY Widths DEF WordBits
<1> QED  BY <1>2, <1>3, <1>4, <1>5 DEF ForeignTypes, TypeRecord

LEMMA TypeFacts ==
    ASSUME NEW s \in Setups,
           IsHID(s) => ParseReport(s.device, s.fields).ret = 0,
           NEW c \in Positions(s)
    PROVE  /\ Types(s)[c].bytes \in Nat \ {0}
           /\ Types(s)[c].bits \in Nat \ {0} /\ Types(s)[c].shift \in Nat
           /\ Types(s)[c].signed \in BOOLEAN
<1>1. CASE IsHID(s)
  <2>1. PICK k \in 1..Len(s.fields) :
           /\ Types(s)[c].bytes = 4 /\ Types(s)[c].shift = 0
           /\ Types(s)[c].bits \in Nat \ {0} /\ Types(s)[c].signed = TRUE
    BY <1>1, HIDType
  <2>2. Types(s)[c].signed \in BOOLEAN
    BY <2>1, Zenon
  <2> QED  BY <2>1, <2>2
<1>2. CASE ~IsHID(s)
  <2>1. Types(s) = ForeignTypes /\ Positions(s) = 1..5
    BY <1>2 DEF Types, Positions, Names
  <2>2. c = 1 \/ c = 2 \/ c = 3 \/ c = 4 \/ c = 5
    BY <2>1
  <2>3. WordBits \in Nat \ {0} /\ ByteBits \in Nat \ {0}
    BY Widths
  <2>4. 2 * ByteBits - ByteBits \div 2 \in Nat \ {0} /\ 2 * WordBits \in Nat \ {0}
        /\ 3 * ByteBits \in Nat \ {0}
    BY <2>3, ForeignTypesAre
  <2> DEFINE t == ForeignTypes
  <2> HIDE DEF t
  <2>5. /\ t[1].signed \in BOOLEAN /\ t[2].signed \in BOOLEAN /\ t[3].signed \in BOOLEAN
        /\ t[4].signed \in BOOLEAN /\ t[5].signed \in BOOLEAN
    BY ForeignTypesAre, Zenon DEF t
  <2>6. /\ t[1].bytes \in Nat \ {0} /\ t[1].bits \in Nat \ {0} /\ t[1].shift \in Nat
        /\ t[2].bytes \in Nat \ {0} /\ t[2].bits \in Nat \ {0} /\ t[2].shift \in Nat
        /\ t[3].bytes \in Nat \ {0} /\ t[3].bits \in Nat \ {0} /\ t[3].shift \in Nat
        /\ t[4].bytes \in Nat \ {0} /\ t[4].bits \in Nat \ {0} /\ t[4].shift \in Nat
        /\ t[5].bytes \in Nat \ {0} /\ t[5].bits \in Nat \ {0} /\ t[5].shift \in Nat
    BY <2>3, <2>4, ForeignTypesAre DEF t
  <2>7. Types(s) = t
    BY <2>1 DEF t
  <2> QED  BY <2>2, <2>5, <2>6, <2>7
<1> QED  BY <1>1, <1>2

\* A scale shared by type is not found, one of the channel's own is.
LEMMA ScaleFound ==
    ASSUME setup \in Setups, NEW c \in Positions(setup)
    PROVE  /\ ParamFloat(ParamFiles(setup), Names(setup)[c], "offset", 0) = 0
           /\ ParamFloat(ParamFiles(setup), Names(setup)[c], "scale", 1)
                 = IF Names(setup)[c] = <<"in", "temp">> THEN Scale ELSE 1
<1> DEFINE n == Names(setup)[c]  files == ParamFiles(setup)
<1>1. (TwoParts(n) \/ ThreeParts(n)) /\ (IsHID(setup) => ThreeParts(n))
  BY NamesAre
<1>2. PICK u : /\ files = <<[file |-> <<"in", u, "scale">>, value |-> Scale]>>
               /\ ~IsHID(setup) => u = "temp"
  BY DEF ParamFiles
<1>3. DOMAIN files = {1} /\ files[1].file = <<"in", u, "scale">> /\ files[1].value = Scale
  BY <1>2
<1> HIDE DEF n, files
<1>4. \A p : HasAttribute(files[1].file, n, p) <=>
                <<"in", u, "scale">> \in {Append(n, p), <<"in", p>>}
  BY <1>1, <1>3, Appended DEF HasAttribute
<1>5. /\ \A t, q, v, w : <<"in", t, q>> = <<"in", v, w>> => t = v /\ q = w
      /\ \A t, q, v, w, x : <<"in", t, q>> # <<"in", v, w, x>>
      /\ \A t, q, v : <<"in", t, q>> # <<"in", v>>
      /\ "offset" # "scale"
  OBVIOUS
<1>6. ~HasAttribute(files[1].file, n, "offset")
  <2>1. CASE TwoParts(n)
    <3>1. PICK t : n = <<"in", t>>
      BY <2>1 DEF TwoParts
    <3>2. Append(n, "offset") = <<"in", t, "offset">>
      BY <1>1, <3>1, Appended
    <3> QED  BY <1>4, <1>5, <3>2
  <2>2. CASE ThreeParts(n)
    <3>1. PICK t, x : n = <<"in", t, x>>
      BY <2>2 DEF ThreeParts
    <3>2. Append(n, "offset") = <<"in", t, x, "offset">>
      BY <1>1, <3>1, Appended
    <3>3. <<"in", u, "scale">> # <<"in", t, x, "offset">>
          /\ <<"in", u, "scale">> # <<"in", "offset">>
      BY <1>5
    <3> QED  BY <1>4, <3>2, <3>3
  <2> QED  BY <1>1, <2>1, <2>2
<1>7. HasAttribute(files[1].file, n, "scale") <=> n = <<"in", "temp">>
  <2>1. CASE ThreeParts(n)
    <3>1. PICK t, x : n = <<"in", t, x>>
      BY <2>1 DEF ThreeParts
    <3>2. Append(n, "scale") = <<"in", t, x, "scale">>
      BY <1>1, <3>1, Appended
    <3>3. /\ <<"in", u, "scale">> # <<"in", t, x, "scale">>
          /\ <<"in", u, "scale">> # <<"in", "scale">>
          /\ <<"in", t, x>> # <<"in", "temp">>
      BY <1>5
    <3> QED  BY <1>4, <3>1, <3>2, <3>3
  <2>2. CASE ~ThreeParts(n)
    <3>1. PICK t : n = <<"in", t>>
      BY <1>1, <2>2 DEF TwoParts
    <3>2. Append(n, "scale") = <<"in", t, "scale">>
      BY <1>1, <3>1, Appended
    <3>3. u = "temp"
      BY <1>1, <1>2, <2>2
    <3>4. <<"in", u, "scale">> # <<"in", "scale">>
      BY <1>5
    <3>5. <<"in", u, "scale">> = <<"in", t, "scale">> <=> n = <<"in", "temp">>
      BY <1>5, <3>1, <3>3
    <3> QED  BY <1>4, <3>2, <3>4, <3>5
  <2> QED  BY <2>1, <2>2
<1>8. ASSUME NEW p, NEW default
      PROVE  ParamFloat(files, n, p, default)
                = IF HasAttribute(files[1].file, n, p) THEN Scale ELSE default
  <2> DEFINE fits == {i \in DOMAIN files : HasAttribute(files[i].file, n, p)}
  <2>1. fits = IF HasAttribute(files[1].file, n, p) THEN {1} ELSE {}
    BY <1>3
  <2>2. (CHOOSE i \in {1} : \A j \in {1} : i <= j) = 1
    OBVIOUS
  <2> QED  BY <1>3, <2>1, <2>2 DEF ParamFloat
<1> QED  BY <1>6, <1>7, <1>8 DEF n, files

-----------------------------------------------------------------------------
\* The array.

\* Every entry is a channel's, and its type is the channel's or what was in memory
\* where a type could not be read.
Entries ==
    {Info(c, Types(setup)[c]) : c \in Positions(setup)}
    \cup (IF "typeless" \in faults
          THEN {Info(c, type) : c \in Positions(setup), type \in JunkTypes} ELSE {})

ArrayInv ==
    /\ array \in Seq(Entries) /\ Len(array) <= Total /\ counter \in 0..Total
    /\ pc = "count" => array = <<>> /\ counter <= Seen
    /\ pc = "fill" =>
          /\ Len(array) <= Seen
          /\ \A i \in 1..Len(array) :
                IF setup.up THEN array[i].index < Seen ELSE array[i].index >= Total - Seen
    /\ pc \in {"fill", "sort"} =>
          /\ "overrun" \notin broken => Len(array) <= counter
          /\ IF setup.up THEN Rising(array) ELSE Falling(array)
    /\ pc \in Runs => Rising(array)

\* Unless something kept a channel off, there is one in the array.
SomeOn ==
    ~SomeChannelOff =>
        /\ pc = "sort" => counter # 0
        /\ pc \in Runs => array # <<>>

LEMMA EntryFacts ==
    ASSUME setup \in Setups, NEW e \in Entries
    PROVE  \E c \in Positions(setup) :
              /\ c \in 1..Total /\ e.index = c - 1 /\ e.name = Names(setup)[c]
              /\ "typeless" \notin faults => e = Info(c, Types(setup)[c])
              /\ \/ e = Info(c, Types(setup)[c])
                 \/ \E type \in JunkTypes : e = Info(c, type)
<1>1. Positions(setup) = 1..Total
  BY NamesLength DEF Total
<1>2. PICK c \in Positions(setup) :
         /\ "typeless" \notin faults => e = Info(c, Types(setup)[c])
         /\ \/ e = Info(c, Types(setup)[c])
            \/ \E type \in JunkTypes : e = Info(c, type)
  BY DEF Entries
<1>3. \A type : Info(c, type).index = c - 1 /\ Info(c, type).name = Names(setup)[c]
  BY DEF Info, ChannelInfo
<1> QED  BY <1>1, <1>2, <1>3

\* Steps that leave the array alone.
LEMMA ArrayKept ==
    ASSUME BasicInv, ArrayInv, SomeOn, [Next]_vars,
           array' = array, counter' = counter,
           pc' \notin {"count", "fill", "sort"} \/ (pc' = pc /\ dir' = dir /\ broken' = broken),
           pc' \in Runs => pc \in Runs
    PROVE  ArrayInv' /\ SomeOn'
<1>1. setup' = setup /\ faults \subseteq faults' /\ meddled \subseteq meddled'
  BY StepKeeps
<1>2. Entries \subseteq Entries'
  BY <1>1 DEF Entries, Info
<1>3. array \in Seq(Entries')
  BY <1>2, SeqMonotonic DEF ArrayInv
<1>4. Total' = Total
  BY <1>1 DEF Total
<1>5. SomeChannelOff => SomeChannelOff'
  BY <1>1 DEF SomeChannelOff
<1>6. CASE pc' \notin {"count", "fill", "sort"}
  <2>1. ArrayInv'
    <3> HIDE DEF Entries
    <3> QED  BY <1>3, <1>4, <1>6 DEF ArrayInv, Rising
  <2>2. SomeOn'
    BY <1>5, <1>6 DEF SomeOn
  <2> QED  BY <2>1, <2>2
<1>7. CASE pc' = pc /\ dir' = dir /\ broken' = broken
  <2>1. Seen' = Seen
    BY <1>4, <1>7 DEF Seen
  <2>2. ArrayInv'
    BY <1>1, <1>3, <1>4, <1>7, <2>1 DEF ArrayInv, Rising, Falling
  <2>3. SomeOn'
    BY <1>5, <1>7 DEF SomeOn
  <2> QED  BY <2>2, <2>3
<1> QED  BY <1>6, <1>7

LEMMA ArrayTrigger ==
    ASSUME BasicInv, PassInv, ArrayInv, FindTrigger
    PROVE  ArrayInv' /\ SomeOn'
<1>1. /\ setup' = setup /\ pc' = "count" /\ counter' = 0 /\ array' = <<>>
      /\ dir' = dir /\ pc = "trigger"
  BY DEF FindTrigger, Goto
<1>2. Total' = Total /\ Seen' = Seen
  BY <1>1 DEF Total, Seen
<1>3. Seen = 0 /\ Total \in Nat \ {0}
  BY <1>1, ListingSeq DEF PassInv, DirInv
<1>4. array' \in Seq(Entries') /\ Len(array') = 0
  BY <1>1, EmptySeq
<1> QED  BY <1>1, <1>2, <1>3, <1>4 DEF ArrayInv, SomeOn, Runs

LEMMA ArrayCount ==
    ASSUME BasicInv, PassInv, ArrayInv, CountNext \/ CountUnread
    PROVE  ArrayInv' /\ SomeOn'
<1>1. /\ pc = "count" /\ Advance("fill") /\ array' = array /\ enabled' = enabled
      /\ buffer' = buffer /\ faults \subseteq faults' /\ meddled' = meddled
      /\ counter' \in {counter + 0, counter + 1}
  BY DEF CountNext, CountUnread, Fault, device, history
<1>2. /\ setup' = setup /\ Total \in Nat /\ Total' = Total
      /\ Seen \in Nat /\ Seen + 1 <= Total
      /\ \/ pc' = pc /\ Seen' = Seen + 1
         \/ pc' = "fill" /\ Seen + 1 = Total /\ Seen' = 0
  BY <1>1, PassesOn
<1>3. array = <<>> /\ counter \in 0..Total /\ counter <= Seen
  BY <1>1 DEF ArrayInv
<1>4. counter' \in 0..Total /\ counter' <= Seen + 1
  BY <1>1, <1>2, <1>3
<1>5. array' = <<>> /\ array' \in Seq(Entries') /\ Len(array') = 0
  BY <1>1, <1>3, EmptySeq
<1> QED  BY <1>1, <1>2, <1>4, <1>5 DEF ArrayInv, SomeOn, Runs, Rising, Falling

\* A channel's entry goes behind those of the files before.
LEMMA ArrayFill ==
    ASSUME BasicInv, PassInv, ArrayInv, SomeOn, FillNext \/ SkipNext \/ FlagUnread
    PROVE  ArrayInv' /\ SomeOn'
<1>1. /\ pc = "fill" /\ Advance("sort") /\ enabled' = enabled /\ buffer' = buffer
      /\ faults \subseteq faults' /\ meddled' = meddled /\ counter' = counter
  BY DEF FillNext, SkipNext, FlagUnread, TakeEntry, PassOver, Fault, device
<1>2. /\ setup' = setup /\ Total \in Nat /\ Total' = Total
      /\ Seen \in Nat /\ Seen + 1 <= Total
      /\ Head(dir) = Listing(setup)[Seen + 1]
      /\ \/ pc' = pc /\ Seen' = Seen + 1
         \/ pc' = "sort" /\ Seen + 1 = Total
  BY <1>1, PassesOn
<1>3. /\ array \in Seq(Entries) /\ Len(array) <= Seen /\ counter \in 0..Total
      /\ \A i \in 1..Len(array) :
            IF setup.up THEN array[i].index < Seen ELSE array[i].index >= Total - Seen
      /\ "overrun" \notin broken => Len(array) <= counter
      /\ IF setup.up THEN Rising(array) ELSE Falling(array)
  BY <1>1 DEF ArrayInv
<1>4. Entries \subseteq Entries'
  BY <1>1, <1>2 DEF Entries, Info
<1>5. array \in Seq(Entries') /\ Len(array) \in Nat
  BY <1>3, <1>4, SeqMonotonic
<1>6. \A i \in 1..Len(array) : array[i].index \in Int
  <2> TAKE i \in 1..Len(array)
  <2>1. array[i] \in Entries
    BY <1>3
  <2> QED  BY <2>1, EntryFacts DEF BasicInv
\* The entries of the files seen, this one's included.
<1>7. /\ array' \in Seq(Entries') /\ Len(array') <= Seen + 1
      /\ \A i \in 1..Len(array') :
            IF setup.up THEN array'[i].index < Seen + 1
            ELSE array'[i].index >= Total - (Seen + 1)
      /\ "overrun" \notin broken' => Len(array') <= counter
      /\ IF setup.up THEN Rising(array') ELSE Falling(array')
  <2>1. ASSUME NEW type, TakeEntry(type),
               \/ type = TypeRead(Head(dir))
               \/ "typeless" \in faults' /\ type \in JunkTypes
        PROVE  /\ array' \in Seq(Entries') /\ Len(array') <= Seen + 1
               /\ \A i \in 1..Len(array') :
                     IF setup.up THEN array'[i].index < Seen + 1
                     ELSE array'[i].index >= Total - (Seen + 1)
               /\ "overrun" \notin broken' => Len(array') <= counter
               /\ IF setup.up THEN Rising(array') ELSE Falling(array')
    <3>1. Head(dir) \in Positions(setup)
      BY <1>1, NextChannel DEF PassInv, Passes
    <3>2. PICK e : /\ array' = Append(array, e)
                   /\ \/ e = Info(Head(dir), Types(setup)[Head(dir)])
                      \/ "typeless" \in faults' /\ \E junk \in JunkTypes :
                                                      e = Info(Head(dir), junk)
      BY <2>1, <3>1, OwnType DEF TakeEntry, TypeRead, BasicInv
    <3>3. e \in Entries'
      BY <1>2, <3>1, <3>2 DEF Entries, Info
    <3>4. e.index = Head(dir) - 1
      BY <3>2 DEF Info, ChannelInfo
    <3>5. e.index = IF setup.up THEN Seen ELSE Total - Seen - 1
      <4>1. Seen + 1 \in 1..Total
        BY <1>2
      <4>2. Listing(setup)[Seen + 1] = IF setup.up THEN Seen + 1 ELSE Total + 1 - (Seen + 1)
        BY <4>1 DEF Listing, Total
      <4> QED  BY <1>2, <3>4, <4>2
    <3>6. /\ array' \in Seq(Entries') /\ Len(array') = Len(array) + 1
          /\ \A i \in 1..Len(array) : array'[i] = array[i]
          /\ array'[Len(array) + 1] = e
      <4> HIDE DEF Entries
      <4> QED  BY <1>5, <3>2, <3>3, AppendProperties
    <3> HIDE DEF Entries
    <3>7. "overrun" \notin broken' => Len(array') <= counter
      <4>1. CASE Len(array) < counter
        BY <1>3, <1>5, <3>6, <4>1
      <4>2. CASE ~(Len(array) < counter)
        BY <2>1, <4>2 DEF TakeEntry, Break
      <4> QED  BY <4>1, <4>2
    <3>8. CASE setup.up
      <4>1. Rising(array) /\ \A i \in 1..Len(array) : array[i].index < Seen
        BY <1>3, <3>8
      <4>2. Rising(array')
        <5>1. SUFFICES ASSUME NEW i \in 1..Len(array'), NEW j \in 1..Len(array'), i < j
                       PROVE  array'[i].index < array'[j].index
          BY DEF Rising
        <5>2. i \in 1..Len(array) /\ (j \in 1..Len(array) \/ j = Len(array) + 1)
          BY <1>5, <3>6, <5>1
        <5>3. CASE j \in 1..Len(array)
          BY <3>6, <4>1, <5>1, <5>2, <5>3 DEF Rising
        <5>4. CASE j = Len(array) + 1
          BY <1>2, <1>6, <3>5, <3>6, <3>8, <4>1, <5>2, <5>4
        <5> QED  BY <5>2, <5>3, <5>4
      <4>3. \A i \in 1..Len(array') : array'[i].index < Seen + 1
        BY <1>2, <1>5, <1>6, <3>5, <3>6, <3>8, <4>1
      <4> QED  BY <1>2, <1>3, <1>5, <3>6, <3>7, <3>8, <4>2, <4>3
    <3>9. CASE ~setup.up
      <4>1. Falling(array) /\ \A i \in 1..Len(array) : array[i].index >= Total - Seen
        BY <1>3, <3>9
      <4>2. Falling(array')
        <5>1. SUFFICES ASSUME NEW i \in 1..Len(array'), NEW j \in 1..Len(array'), i < j
                       PROVE  array'[j].index < array'[i].index
          BY DEF Falling
        <5>2. i \in 1..Len(array) /\ (j \in 1..Len(array) \/ j = Len(array) + 1)
          BY <1>5, <3>6, <5>1
        <5>3. CASE j \in 1..Len(array)
          BY <3>6, <4>1, <5>1, <5>2, <5>3 DEF Falling
        <5>4. CASE j = Len(array) + 1
          BY <1>2, <1>6, <3>5, <3>6, <3>9, <4>1, <5>2, <5>4
        <5> QED  BY <5>2, <5>3, <5>4
      <4>3. \A i \in 1..Len(array') : array'[i].index >= Total - (Seen + 1)
        BY <1>2, <1>5, <1>6, <3>5, <3>6, <3>9, <4>1
      <4> QED  BY <1>2, <1>3, <1>5, <3>6, <3>7, <3>9, <4>2, <4>3
    <3> QED  BY <3>8, <3>9
  <2>2. CASE PassOver
    <3>1. array' = array /\ broken \subseteq broken'
      BY <2>2 DEF PassOver, Break
    <3> HIDE DEF Entries
    <3>2. CASE setup.up
      BY <1>2, <1>3, <1>5, <1>6, <3>1, <3>2
    <3>3. CASE ~setup.up
      BY <1>2, <1>3, <1>5, <1>6, <3>1, <3>3
    <3> QED  BY <3>2, <3>3
  <2>3. \/ PassOver
        \/ \E type : /\ TakeEntry(type)
                     /\ \/ type = TypeRead(Head(dir))
                        \/ "typeless" \in faults' /\ type \in JunkTypes
    <3> HIDE DEF JunkTypes
    <3> QED  BY DEF FillNext, SkipNext, FlagUnread, Fault
  <2> QED  BY <2>1, <2>2, <2>3
<1>8. ArrayInv'
  <2> HIDE DEF Entries
  <2> QED  BY <1>1, <1>2, <1>3, <1>5, <1>7 DEF ArrayInv, Rising, Falling, Runs
<1>9. SomeOn'
  <2> SUFFICES ASSUME ~SomeChannelOff', pc' = "sort"  PROVE  counter # 0
    BY <1>1, <1>2 DEF SomeOn, Runs
  <2>1. ~SomeChannelOff
    BY <1>1, <1>2 DEF SomeChannelOff
  <2> QED  BY <1>1, <1>2, <2>1 DEF PassInv, CountedInv
<1> QED  BY <1>8, <1>9

\* The sort leaves the entries of channels with rising indices.
LEMMA ArraySort ==
    ASSUME BasicInv, PassInv, ArrayInv, SomeOn, Sort
    PROVE  ArrayInv' /\ SomeOn'
<1>1. /\ pc = "sort" /\ setup' = setup /\ counter' = counter /\ faults' = faults
      /\ meddled' = meddled /\ pc' \in {"crashed", "acquire"}
  BY DEF Sort, Goto
<1>2. Total' = Total /\ Entries' = Entries /\ (SomeChannelOff' <=> SomeChannelOff)
  BY <1>1 DEF Total, Entries, Info, SomeChannelOff
<1>3. /\ array \in Seq(Entries) /\ Len(array) <= Total /\ counter \in 0..Total
      /\ Total \in Nat /\ Len(array) \in Nat
      /\ "overrun" \notin broken => Len(array) <= counter
      /\ IF setup.up THEN Rising(array) ELSE Falling(array)
  BY <1>1, ListingSeq DEF ArrayInv, BasicInv
<1> HIDE DEF Entries
<1>4. CASE Len(array) < counter
  <2>1. array' = array /\ pc' = "crashed"
    BY <1>4 DEF Sort, Goto
  <2> QED  BY <1>1, <1>2, <1>3, <2>1 DEF ArrayInv, SomeOn, Runs
<1>5. CASE ~(Len(array) < counter)
  <2> DEFINE part == SubSeq(array, 1, counter)
  <2>1. array' = SortedByIndex(part)
        /\ pc' = (IF "overrun" \in broken THEN "crashed" ELSE "acquire")
    BY <1>5 DEF Sort, Goto
  <2>2. /\ part \in Seq(Entries) /\ Len(part) = counter
        /\ \A i \in 1..counter : part[i] = array[i]
    BY <1>3, <1>5
  <2> HIDE DEF part
  <2>3. \A i \in 1..Len(part) : part[i].index \in Int
    <3> TAKE i \in 1..Len(part)
    <3>1. part[i] \in Entries
      BY <2>2
    <3> QED  BY <3>1, EntryFacts DEF BasicInv
  <2>4. /\ array' \in Seq(Entries) /\ Len(array') = counter /\ Rising(array')
    <3>1. CASE setup.up
      <4>1. Rising(part)
        BY <1>3, <1>5, <2>2, <3>1 DEF Rising
      <4>2. SortedByIndex(part) = part
        BY <2>2, <2>3, <4>1, SortRising
      <4> QED  BY <2>1, <2>2, <4>1, <4>2
    <3>2. CASE ~setup.up
      <4>1. Falling(part)
        BY <1>3, <1>5, <2>2, <3>2 DEF Falling
      <4>2. /\ SortedByIndex(part) \in Seq(Entries)
            /\ Len(SortedByIndex(part)) = Len(part)
            /\ \A i \in 1..Len(part) :
                  SortedByIndex(part)[i] = part[Len(part) + 1 - i]
        BY <2>2, <2>3, <4>1, SortFalling
      <4> DEFINE sorted == SortedByIndex(part)
      <4> HIDE DEF sorted
      <4>3. Rising(sorted)
        <5>1. SUFFICES ASSUME NEW i \in 1..counter, NEW j \in 1..counter, i < j
                       PROVE  sorted[i].index < sorted[j].index
          BY <2>2, <4>2 DEF Rising, sorted
        <5>2. /\ counter + 1 - i \in 1..counter /\ counter + 1 - j \in 1..counter
              /\ counter + 1 - j < counter + 1 - i
          BY <1>3, <5>1
        <5>3. sorted[i] = part[counter + 1 - i] /\ sorted[j] = part[counter + 1 - j]
          BY <2>2, <4>2 DEF sorted
        <5>4. \A k, l \in 1..counter : k < l => part[l].index < part[k].index
          BY <2>2, <4>1 DEF Falling
        <5> QED  BY <5>2, <5>3, <5>4
      <4> QED  BY <2>1, <2>2, <4>2, <4>3 DEF sorted
    <3> QED  BY <3>1, <3>2
  <2>5. ArrayInv'
    BY <1>1, <1>2, <1>3, <2>4 DEF ArrayInv, Rising, Runs
  <2>6. SomeOn'
    <3>1. Len(array') = 0 <=> array' = <<>>
      BY <2>4, EmptySeq
    <3> QED  BY <1>1, <1>2, <2>4, <3>1 DEF SomeOn, Runs
  <2> QED  BY <2>5, <2>6
<1> QED  BY <1>4, <1>5

\* A device that is reset leaves what was read.
LEMMA ArrayReset ==
    ASSUME BasicInv, PassInv, ArrayInv, DeviceReset
    PROVE  ArrayInv' /\ SomeOn'
<1>1. /\ setup' = setup /\ array' = array /\ counter' = counter /\ broken' = broken
      /\ faults \subseteq faults' /\ "reset" \in faults'
      /\ \/ pc = "fill" /\ pc' = "fill" /\ dir' = dir
         \/ pc \in {"count", "fill"} /\ pc' = "sort"
  BY DEF DeviceReset, Goto, Fault
<1>2. Entries \subseteq Entries'
  BY <1>1 DEF Entries, Info
<1>3. array' \in Seq(Entries')
  BY <1>1, <1>2, SeqMonotonic DEF ArrayInv
<1>4. Total' = Total /\ (dir' = dir => Seen' = Seen)
  BY <1>1 DEF Total, Seen
<1>5. pc = "count" => Len(array) = 0 /\ counter \in Nat
  BY EmptySeq DEF ArrayInv
<1>6. SomeOn'
  BY <1>1 DEF SomeOn, SomeChannelOff
<1>7. ArrayInv'
  <2> HIDE DEF Entries
  <2> QED  BY <1>1, <1>3, <1>4, <1>5 DEF ArrayInv, Rising, Falling, Runs
<1> QED  BY <1>6, <1>7

LEMMA ArrayRest ==
    ASSUME BasicInv, ArrayInv, SomeOn, [Next]_vars,
           \/ UNCHANGED vars
           \/ FindDevice \/ NoDevice \/ HingeReturnsEarly
           \/ EnableNext \/ EnableWriteFails \/ EnableReadFails
           \/ NoTrigger \/ BuildFails \/ IndexMissing
           \/ TurnOn \/ Refused \/ Layout \/ Sample \/ ReadDivides
           \/ OrientationReads \/ HingeReads \/ LightReads \/ GenericReads
           \/ GenericLoops \/ TurnOff \/ Switch \/ Renumber
    PROVE  ArrayInv' /\ SomeOn'
<1> SUFFICES /\ array' = array /\ counter' = counter
             /\ \/ pc' \notin {"count", "fill", "sort"}
                \/ pc' = pc /\ dir' = dir /\ broken' = broken
             /\ pc' \in Runs => pc \in Runs
  BY ArrayKept
<1>1. CASE \/ UNCHANGED vars \/ Sample \/ Switch \/ Renumber
  BY <1>1 DEF vars, Sample, Switch, Renumber, pass, history
<1>2. CASE FindDevice \/ NoDevice \/ HingeReturnsEarly
  BY <1>2 DEF FindDevice, NoDevice, HingeReturnsEarly, SetupFails, MainReturns, HingeGoesOn,
     Goto, pass, Runs
<1>3. CASE EnableNext \/ EnableWriteFails \/ EnableReadFails
  BY <1>3 DEF EnableNext, EnableWriteFails, EnableReadFails, Advance, Goto, Runs
<1>4. CASE NoTrigger \/ BuildFails \/ IndexMissing
  BY <1>4 DEF NoTrigger, BuildFails, IndexMissing, SetupFails, MainReturns, HingeGoesOn,
     Goto, pass, Runs
<1>5. CASE TurnOn \/ Refused \/ Layout \/ ReadDivides
  BY <1>5 DEF TurnOn, Refused, DaemonRefused, GenericRefused, Layout, ReadDivides, ReadNow,
     Goto, pass, Runs
<1>6. CASE OrientationReads \/ HingeReads \/ LightReads \/ GenericReads
  BY <1>6 DEF OrientationReads, HingeReads, LightReads, GenericReads, Reads, ReadNow, Goto,
     pass, Runs
<1>7. CASE GenericLoops \/ TurnOff
  BY <1>7 DEF GenericLoops, TurnOff, Goto, pass, Runs
<1> QED  BY <1>1, <1>2, <1>3, <1>4, <1>5, <1>6, <1>7

LEMMA ArrayInit == Init => ArrayInv /\ SomeOn
<1> SUFFICES ASSUME Init  PROVE  ArrayInv /\ SomeOn
  OBVIOUS
<1>1. Total \in Nat
  BY ListingSeq DEF Init
<1>2. array \in Seq(Entries) /\ Len(array) = 0
  BY EmptySeq DEF Init
<1> QED  BY <1>1, <1>2 DEF Init, ArrayInv, SomeOn, Runs

LEMMA ArrayNext ==
    ASSUME BasicInv, PassInv, ArrayInv, SomeOn, [Next]_vars
    PROVE  ArrayInv' /\ SomeOn'
  BY ArrayTrigger, ArrayCount, ArrayFill, ArrayReset, ArraySort, ArrayRest DEF Next

-----------------------------------------------------------------------------
\* The end of a program.

\* Types that were read have sizes.
LEMMA SizesRead ==
    ASSUME BasicInv, ArrayInv, pc \in Runs, "typeless" \notin faults
    PROVE  HaveBytes(array)
<1>1. array \in Seq(Entries)
  BY DEF ArrayInv
<1>2. ASSUME NEW i \in 1..Len(array)  PROVE  array[i].bytes \in Nat \ {0}
  <2>1. array[i] \in Entries
    BY <1>1
  <2>2. PICK c \in Positions(setup) : array[i] = Info(c, Types(setup)[c])
    BY <2>1, EntryFacts DEF BasicInv
  <2>3. Types(setup)[c].bytes \in Nat \ {0}
    BY TypeFacts DEF BasicInv, Runs
  <2> QED  BY <2>2, <2>3 DEF Info, ChannelInfo
<1>3. Len(array) \in Nat
  BY <1>1
<1> QED  BY <1>2, <1>3 DEF HaveBytes

\* Steps from before the end that do not end the program.
LEMMA CauseKept ==
    ASSUME BasicInv, pc \notin {"gone", "crashed"}, setup' = setup,
           pc' = "gone" => setup.program \notin {"orientation", "light"},
           broken' \cap {"null", "division", "dangling"} \subseteq broken
    PROVE  EndsWithCause'
<1>1. broken' \cap {"null", "division", "dangling"} = {}
  BY DEF BasicInv
<1> QED  BY <1>1 DEF EndsWithCause

LEMMA CauseNext ==
    ASSUME BasicInv, PassInv, ArrayInv, SomeOn, EndsWithCause, [Next]_vars
    PROVE  EndsWithCause'
<1>1. setup' = setup
  BY StepKeeps
<1>2. CASE UNCHANGED vars
  BY <1>2 DEF vars, device, pass, history, EndsWithCause, SomeChannelOff, NoSuchDevice
<1>3. CASE NoDevice
  <2>1. /\ pc = "find" /\ NoSuchDevice /\ number' = number
        /\ broken' \subseteq broken \cup {"dangling"}
        /\ "dangling" \in broken' => "dangling" \in broken \/ setup.program = "hinge"
    BY <1>3 DEF NoDevice, NoSuchDevice, SetupFails, MainReturns, HingeGoesOn, Break, device
  <2>2. NoSuchDevice'
    BY <1>1, <2>1 DEF NoSuchDevice
  <2> QED  BY <1>1, <2>1, <2>2 DEF BasicInv, EndsWithCause
<1>4. CASE NoTrigger
  <2>1. /\ pc = "trigger" /\ number' = number /\ trigger' = TriggerName
        /\ broken' \subseteq broken \cup {"dangling"}
        /\ "dangling" \in broken' => "dangling" \in broken \/ setup.program = "hinge"
    BY <1>4 DEF NoTrigger, SetupFails, MainReturns, HingeGoesOn, Break, device
  <2>2. "untriggered" \in faults' \/ number # TriggerName
    <3>1. SUFFICES ASSUME "untriggered" \notin faults'  PROVE  number # TriggerName
      OBVIOUS
    <3>2. FindTypeByName(Devices(setup, number), "trigger", setup.device, TriggerName) < 0
      BY <1>4, <3>1 DEF NoTrigger, Fault
    <3>3. FindTypeByName(Devices(setup, number), "trigger", setup.device, number) = 0
      BY OwnTrigger DEF BasicInv
    <3> QED  BY <3>2, <3>3
  <2>3. setup.program = "hinge" => TriggerName = number
    BY <2>1 DEF BasicInv, TriggerName
  <2> QED  BY <1>1, <2>1, <2>2, <2>3 DEF BasicInv, EndsWithCause
<1>5. CASE BuildFails
  <2>1. /\ pc \in {"count", "fill"} /\ "unreadable" \in faults'
        /\ broken' \subseteq broken \cup {"dangling"}
        /\ "dangling" \in broken' => "dangling" \in broken \/ setup.program = "hinge"
    BY <1>5 DEF BuildFails, SetupFails, MainReturns, HingeGoesOn, Break, Fault
  <2> QED  BY <1>1, <2>1 DEF BasicInv, EndsWithCause
<1>6. CASE Layout
  <2>1. CASE LayoutDivides(array)
    <3>1. pc = "layout" /\ pc' = "wait" /\ broken' = broken
      BY <1>6, <2>1 DEF Layout, Goto
    <3> QED  BY <1>1, <3>1, CauseKept
  <2>2. CASE ~LayoutDivides(array)
    <3>1. pc = "layout" /\ pc' = "crashed" /\ broken' = broken \cup {"division"}
          /\ faults' = faults
      BY <1>6, <2>2 DEF Layout, Goto, Break
    <3>2. "typeless" \in faults
      <4>1. SUFFICES ASSUME "typeless" \notin faults  PROVE  FALSE
        OBVIOUS
      <4>2. HaveBytes(array)
        BY <3>1, <4>1, SizesRead DEF Runs
      <4>3. DOMAIN array = 1..Len(array)
        BY DEF ArrayInv
      <4> QED  BY <2>2, <4>2, <4>3 DEF HaveBytes, LayoutDivides
    <3> QED  BY <1>1, <3>1, <3>2 DEF BasicInv, EndsWithCause
  <2> QED  BY <2>1, <2>2
<1>7. CASE ReadDivides
  <2>1. /\ pc = "wait" /\ array' = array /\ array = <<>> /\ broken' = broken \cup {"division"}
        /\ faults \subseteq faults' /\ meddled' = meddled /\ pc' = "crashed"
    BY <1>7 DEF ReadDivides, ReadNow, Fault, Break, Goto, pass
  <2>2. SomeChannelOff
    BY <2>1 DEF SomeOn, Runs
  <2>3. SomeChannelOff'
    BY <1>1, <2>1, <2>2 DEF SomeChannelOff
  <2> QED  BY <1>1, <2>1, <2>3 DEF BasicInv, EndsWithCause
<1>8. CASE \/ FindDevice \/ HingeReturnsEarly
           \/ EnableNext \/ EnableWriteFails \/ EnableReadFails \/ FindTrigger
  <2>1. /\ pc \in {"find", "enable", "trigger"}
        /\ pc' \in {"enable", "trigger", "count", "crashed"}
        /\ broken' \subseteq broken \cup {"unset"}
    BY <1>8 DEF FindDevice, HingeReturnsEarly, EnableNext, EnableWriteFails,
       EnableReadFails, FindTrigger, Advance, Goto, Break, history
  <2> QED  BY <1>1, <2>1, CauseKept
<1>9. CASE \/ CountNext \/ CountUnread \/ FillNext \/ SkipNext \/ FlagUnread \/ Sort
           \/ DeviceReset
  <2>1. /\ pc \in {"count", "fill", "sort"}
        /\ pc' \in {"count", "fill", "sort", "acquire", "crashed"}
        /\ broken' \subseteq broken \cup {"overrun", "stray", "unfilled"}
    BY <1>9 DEF CountNext, CountUnread, FillNext, SkipNext, FlagUnread, TakeEntry, PassOver,
       Sort, DeviceReset, Advance, Goto, Break, history
  <2> QED  BY <1>1, <2>1, CauseKept
<1>10. CASE TurnOn \/ Refused \/ Sample
  <2>1. /\ pc \in {"acquire", "wait"} /\ broken' = broken
        /\ pc' = "gone" => setup.program = "generic_buffer"
    BY <1>10 DEF TurnOn, Refused, DaemonRefused, GenericRefused, Sample, Goto, history
  <2> QED  BY <1>1, <2>1, CauseKept
<1>11. CASE OrientationReads \/ HingeReads \/ LightReads \/ GenericReads
  <2>1. pc = "wait" /\ pc' = "stop" /\ broken' = broken
    BY <1>11 DEF OrientationReads, HingeReads, LightReads, GenericReads, Reads, ReadNow, Goto
  <2> QED  BY <1>1, <2>1, CauseKept
<1>12. CASE GenericLoops \/ TurnOff
  <2>1. pc = "stop" /\ broken' = broken /\ (pc' = "gone" => setup.program = "generic_buffer")
    BY <1>12 DEF GenericLoops, TurnOff, Goto, history
  <2> QED  BY <1>1, <2>1, CauseKept
<1>13. CASE Switch \/ Renumber
  <2>1. pc \notin {"gone", "crashed"} /\ pc' = pc /\ broken' = broken
    BY <1>13 DEF Switch, Renumber, history
  <2> QED  BY <1>1, <2>1, CauseKept
<1>14. CASE IndexMissing
  <2>1. /\ pc = "fill" /\ pc' = "crashed" /\ "unreadable" \in faults'
        /\ broken' = broken \cup {"null"}
    BY <1>14 DEF IndexMissing, Goto, Break, Fault
  <2> QED  BY <1>1, <2>1 DEF BasicInv, EndsWithCause
<1> QED  BY <1>2, <1>3, <1>4, <1>5, <1>6, <1>7, <1>8, <1>9, <1>10, <1>11, <1>12, <1>13, <1>14
         DEF Next

EndInv == BasicInv /\ PassInv /\ ArrayInv /\ SomeOn /\ EndsWithCause

LEMMA EndInit == Init => EndInv
<1>1. Init => EndsWithCause
  BY DEF Init, EndsWithCause
<1> QED  BY <1>1, BasicInit, InitFits, ArrayInit DEF EndInv

LEMMA EndNext == EndInv /\ [Next]_vars => EndInv'
  BY BasicNext, NextFits, ArrayNext, CauseNext DEF EndInv

\* A program ends or crashes for a reason: a division by zero takes a type that
\* could not be read or an array that is empty because a channel was off, a null
\* file takes an _index file that could not be opened, a null or freed name takes hinge and a set-up that failed, and a daemon gives up
\* only if the device is missing, a file or the trigger failed, or the device
\* came back under another number.
THEOREM EndHasCause == Spec => []EndsWithCause
<1>1. EndInv => EndsWithCause
  BY DEF EndInv
<1> QED  BY <1>1, EndInit, EndNext, PTL DEF Spec

-----------------------------------------------------------------------------
\* What the kernel's buffer gives.

Bytes == 0..(Byte - 1)

\* The driver's array holds each channel's word; its low bytes are the reading's.
THEOREM HIDWords ==
    ASSUME NEW s \in Setups, IsHID(s), NEW reading \in [Positions(s) -> Int]
    PROVE  LET n == ChannelCount(s.device)
               words == CapturedReading(s, reading)
           IN  /\ words \in [1..n -> Int] /\ Positions(s) = 1..n
               /\ \A k \in 1..Len(s.fields), c \in 1..n :
                     s.fields[k].usage = FirstUsage(s.device) + c - 1 =>
                        /\ words[c] \in 0..(Pow2[WordBits] - 1)
                        /\ s.fields[k].size <= 4 =>
                              words[c] % Pow2[s.fields[k].size * ByteBits]
                                 = Unsigned(reading[c], s.fields[k].size * ByteBits)
<1> DEFINE n == ChannelCount(s.device)  first == FirstUsage(s.device)
           usages == AddressesOf(s.device)
           value  == [u \in Nat |->
                         IF u \in {usages[i] : i \in DOMAIN usages}
                         THEN reading[CHOOSE i \in DOMAIN usages : usages[i] = u]
                         ELSE -1]
           none   == [i \in DOMAIN usages |-> 0]
           words  == CapturedReading(s, reading)
           F      == Len(s.fields)
<1>1. s.device \in Drivers /\ Positions(s) = 1..n
  BY ChannelNames DEF IsHID, Names, Positions
<1>2. FieldsOK(s.fields)
  BY SetupsAssumption DEF SetupType, FieldsOK
<1>3. /\ n \in Nat \ {0} /\ first \in Nat \ {0}
      /\ usages = [i \in 1..n |-> first + i - 1]
  BY <1>1, Addresses
<1>4. DOMAIN usages = 1..n /\ \A i \in 1..n : usages[i] = first + i - 1
  BY <1>3
<1>5. none \in [1..n -> Int]
  BY <1>4
<1>6. ASSUME NEW c \in 1..n  PROVE  value[first + c - 1] = reading[c]
  <2>1. first + c - 1 \in Nat
    BY <1>3
  <2>2. usages[c] = first + c - 1 /\ c \in DOMAIN usages
    BY <1>4
  <2>3. \A i \in DOMAIN usages : usages[i] = first + c - 1 => i = c
    <3> HIDE DEF usages, n, first
    <3> QED  BY <1>3, <1>4
  <2>4. (CHOOSE i \in DOMAIN usages : usages[i] = first + c - 1) = c
    <3> HIDE DEF usages, first
    <3> QED  BY <2>2, <2>3
  <2> HIDE DEF usages, first, n
  <2> QED  BY <2>1, <2>2, <2>4
<1>7. value \in [Nat -> Int]
  <2>1. ASSUME NEW u \in Nat  PROVE  value[u] \in Int
    <3>1. CASE u \in {usages[i] : i \in DOMAIN usages}
      <4>1. PICK c \in 1..n : u = first + c - 1
        <5> HIDE DEF usages, n, first
        <5> QED  BY <1>4, <3>1
      <4>2. value[u] = reading[c]
        BY <1>6, <4>1
      <4>3. reading[c] \in Int
        BY <1>1
      <4> QED  BY <4>2, <4>3
    <3>2. CASE u \notin {usages[i] : i \in DOMAIN usages}
      <4> HIDE DEF usages
      <4> QED  BY <3>2
    <3> QED  BY <3>1, <3>2
  <2>2. value = [u \in Nat |-> value[u]]
    OBVIOUS
  <2> HIDE DEF value
  <2> QED  BY <2>1, <2>2
<1> HIDE DEF value, none, usages
<1>8. PICK raw, vals : /\ raw = RawData(s.fields, value) /\ vals = none
                       /\ words = RawEvent(s.device, s.fields, raw, vals, TRUE)[1]
  BY DEF CapturedReading, value, none, usages
<1> HIDE DEF words
<1>9. ASSUME NEW k \in 1..F
      PROVE  /\ Number(raw, FieldAt(s.fields, k), 4) \in 0..(Pow2[WordBits] - 1)
             /\ s.fields[k].size <= 4 =>
                   Number(raw, FieldAt(s.fields, k), 4) % Pow2[s.fields[k].size * ByteBits]
                      = Unsigned(value[s.fields[k].usage], s.fields[k].size * ByteBits)
  BY <1>2, <1>7, <1>8, FieldWord DEF WordBits
<1>10. \A k \in 1..F : Number(raw, FieldAt(s.fields, k), 4) \in Int
  BY <1>9
<1>11. /\ words \in [1..n -> Int]
       /\ \A k \in 1..F, c \in 1..n :
             s.fields[k].usage = first + c - 1 =>
                words[c] = Number(raw, FieldAt(s.fields, k), 4)
  <2>1. s.device \in Drivers /\ vals \in [1..n -> Int]
    BY <1>1, <1>5, <1>8
  <2>2. HasWords(RawEvent(s.device, s.fields, raw, vals, TRUE)[1], s.device, s.fields, raw)
    BY <1>2, <1>10, <2>1, Walk, Zenon
  <2>3. HasWords(words, s.device, s.fields, raw)
    BY <1>8, <2>2, Zenon
  <2> QED  BY <2>3 DEF HasWords
<1>12. ASSUME NEW k \in 1..F, NEW c \in 1..n, s.fields[k].usage = first + c - 1
       PROVE  /\ words[c] \in 0..(Pow2[WordBits] - 1)
              /\ s.fields[k].size <= 4 =>
                    words[c] % Pow2[s.fields[k].size * ByteBits]
                       = Unsigned(reading[c], s.fields[k].size * ByteBits)
  <2>1. words[c] = Number(raw, FieldAt(s.fields, k), 4)
    BY <1>11, <1>12
  <2>2. value[s.fields[k].usage] = reading[c]
    BY <1>6, <1>12
  <2> QED  BY <1>9, <2>1, <2>2
<1> QED  BY <1>1, <1>11, <1>12 DEF words

\* Sequences of one length, one behind the other.
LEMMA EvenParts ==
    ASSUME NEW seqs \in Seq(Seq(Bytes)), NEW l \in Nat,
           \A i \in 1..Len(seqs) : Len(seqs[i]) = l
    PROVE  /\ FlattenSeq(seqs) \in Seq(Bytes)
           /\ Len(FlattenSeq(seqs)) = Len(seqs) * l
           /\ \A i \in 1..Len(seqs) : LiesAt(seqs[i], (i - 1) * l, FlattenSeq(seqs))
<1>1. PICK upto : Flattens(upto, seqs, Bytes) /\ FlattenSeq(seqs) = upto[Len(seqs)]
  BY FlattenUpto
<1>2. Len(seqs) \in Nat /\ Len(seqs) \in 0..Len(seqs)
  OBVIOUS
<1>3. \A k \in 0..Len(seqs) : Len(upto[k]) = k * l
  BY <1>1, FlattenEven
<1>4. upto[Len(seqs)] \in Seq(Bytes)
  BY <1>1, <1>2 DEF Flattens
<1>5. ASSUME NEW i \in 1..Len(seqs)
      PROVE  LiesAt(seqs[i], (i - 1) * l, upto[Len(seqs)])
  <2>1. i - 1 \in 0..Len(seqs) /\ i <= Len(seqs)
    BY <1>2
  <2>2. LiesAt(seqs[i], Len(upto[i - 1]), upto[Len(seqs)])
    BY <1>1, <1>2, <2>1, FlattenPart, Zenon
  <2>3. Len(upto[i - 1]) = (i - 1) * l
    BY <1>3, <2>1
  <2> QED  BY <2>2, <2>3
<1> QED  BY <1>1, <1>2, <1>3, <1>4, <1>5

\* The datum has the first words.
LEMMA HIDDatumIs ==
    ASSUME NEW s \in Setups, IsHID(s), NEW reading \in [Positions(s) -> Int],
           NEW on \in SUBSET Positions(s)
    PROVE  /\ HIDDatum(s, on, reading) \in Seq(Bytes)
           /\ Len(HIDDatum(s, on, reading)) = 4 * Cardinality(on)
           /\ Cardinality(on) \in Nat
           /\ \A i \in 1..Cardinality(on) :
                 LiesAt(ToBytes(CapturedReading(s, reading)[i], 4), 4 * (i - 1),
                        HIDDatum(s, on, reading))
<1> DEFINE n == ChannelCount(s.device)  words == CapturedReading(s, reading)
           m == Cardinality(on)  seqs == [i \in 1..m |-> ToBytes(words[i], 4)]
           datum == HIDDatum(s, on, reading)
<1>1. words \in [1..n -> Int] /\ Positions(s) = 1..n
  BY HIDWords
<1>2. n \in Nat
  BY Addresses DEF IsHID
<1>3. m \in Nat /\ m <= n
  <2> HIDE DEF n
  <2>1. IsFiniteSet(1..n) /\ Cardinality(1..n) = n
    BY <1>2, FS_Interval
  <2> QED  BY <1>1, <1>2, <2>1, FS_Subset, FS_CardinalityType
<1> HIDE DEF m, n, words
<1>4. \A i \in 1..m : /\ words[i] \in Int /\ seqs[i] = ToBytes(words[i], 4)
                      /\ seqs[i] \in Seq(Bytes) /\ Len(seqs[i]) = 4
  <2> TAKE i \in 1..m
  <2>1. words[i] \in Int
    BY <1>1, <1>2, <1>3
  <2>2. seqs[i] = ToBytes(words[i], 4)
    OBVIOUS
  <2> HIDE DEF seqs
  <2> QED  BY <2>1, <2>2, NumberOfBytes DEF Bytes
<1>5. seqs \in Seq(Seq(Bytes)) /\ Len(seqs) = m
  <2>1. seqs = [i \in 1..m |-> seqs[i]]
    OBVIOUS
  <2> HIDE DEF seqs
  <2>2. seqs \in [1..m -> Seq(Bytes)]
    BY <1>4, <2>1
  <2> QED  BY <1>3, <2>2, FunctionSeq
<1>6. datum = FlattenSeq(seqs)
  BY DEF HIDDatum, m, words
<1> HIDE DEF seqs, datum
<1>7. \A i \in 1..Len(seqs) : Len(seqs[i]) = 4
  BY <1>4, <1>5
<1>8. /\ datum \in Seq(Bytes) /\ Len(datum) = m * 4
      /\ \A i \in 1..m : LiesAt(seqs[i], (i - 1) * 4, datum)
  BY <1>5, <1>6, <1>7, EvenParts
<1>9. Len(datum) = 4 * m /\ \A i \in 1..m : LiesAt(ToBytes(words[i], 4), 4 * (i - 1), datum)
  <2>1. \A i \in 1..m : (i - 1) * 4 = 4 * (i - 1)
    BY <1>3
  <2> QED  BY <1>3, <1>4, <1>8, <2>1
<1> QED  BY <1>3, <1>8, <1>9 DEF m, words, datum

LEMMA UnsignedNat ==
    ASSUME NEW v \in Int, NEW n \in Nat
    PROVE  Unsigned(v, n) \in Nat /\ Pow2[n] \in Nat \ {0}
<1>1. Pow2[n] \in Nat \ {0}
  BY Pow2Positive
<1>2. Unsigned(v, n) \in 0..(Pow2[n] - 1)
  BY UnsignedType
<1> QED  BY <1>1, <1>2

\* A value stored in its type's bytes.
LEMMA StoredIs ==
    ASSUME NEW v \in Int, NEW type, type.bits \in Nat, type.shift \in Nat, type.bytes \in Nat
    PROVE  LET word   == Unsigned(v, type.bits) * Pow2[type.shift]
               stored == ToBytes(word, type.bytes)
           IN  /\ word \in Nat
               /\ stored \in Seq(Bytes) /\ Len(stored) = type.bytes
               /\ StoredBytes(v, type) \in Seq(Bytes) /\ Len(StoredBytes(v, type)) = type.bytes
               /\ \A j \in 1..type.bytes :
                     StoredBytes(v, type)[j]
                        = stored[IF type.be THEN (type.bytes - j) + 1 ELSE j]
<1> DEFINE word   == Unsigned(v, type.bits) * Pow2[type.shift]
           stored == ToBytes(word, type.bytes)
           n == type.bytes
<1>1. word \in Nat
  <2> DEFINE b == type.bits  c == type.shift
  <2>0. b \in Nat /\ c \in Nat
    OBVIOUS
  <2> HIDE DEF b, c
  <2>1. Unsigned(v, b) \in Nat
    BY <2>0, UnsignedNat
  <2>2. Pow2[c] \in Nat
    BY <2>0, Pow2Positive
  <2>3. Unsigned(v, b) * Pow2[c] \in Nat
    BY <2>1, <2>2
  <2> QED  BY <2>3 DEF b, c
<1> HIDE DEF word
<1>2. stored \in Seq(Bytes) /\ Len(stored) = n
  BY <1>1, NumberOfBytes DEF Bytes
<1>3. StoredBytes(v, type) = IF type.be THEN Reverse(stored) ELSE stored
  BY DEF StoredBytes, word
<1> HIDE DEF stored
<1>4. /\ Reverse(stored) \in Seq(Bytes) /\ Len(Reverse(stored)) = n
      /\ \A j \in 1..n : Reverse(stored)[j] = stored[(n - j) + 1]
  <2>1. Reverse(stored) = [j \in 1..n |-> stored[(n - j) + 1]]
    BY <1>2 DEF Reverse
  <2>2. \A j \in 1..n : (n - j) + 1 \in 1..n
    OBVIOUS
  <2>3. Reverse(stored) \in [1..n -> Bytes]
    <3> HIDE DEF n
    <3> QED  BY <1>2, <2>1, <2>2
  <2>4. n \in Nat
    OBVIOUS
  <2> HIDE DEF n
  <2> QED  BY <2>1, <2>3, <2>4, FunctionSeq
<1> QED  BY <1>1, <1>2, <1>3, <1>4 DEF word, stored

\* Zeros up to the next place for a value.
LEMMA PaddedIs ==
    ASSUME NEW bytes \in Seq(Bytes), NEW size \in Nat \ {0}
    PROVE  /\ PaddedTo(bytes, size) \in Seq(Bytes)
           /\ Len(PaddedTo(bytes, size)) = Location(Len(bytes), size)
           /\ Begins(bytes, PaddedTo(bytes, size))
<1> DEFINE k == (size - Len(bytes)) % size  pad == [i \in 1..k |-> 0]
<1>1. Len(bytes) \in Nat
  OBVIOUS
<1>2. k \in Nat
  BY <1>1
<1>3. 0 \in Bytes
  BY Widths DEF Bytes
<1>4. pad \in [1..k -> Bytes]
  BY <1>3
<1> HIDE DEF k
<1>5. pad \in Seq(Bytes) /\ Len(pad) = k
  BY <1>2, <1>4, FunctionSeq
<1>6. PaddedTo(bytes, size) = bytes \o pad
  BY DEF PaddedTo, k
<1> HIDE DEF pad
<1>7. /\ bytes \o pad \in Seq(Bytes) /\ Len(bytes \o pad) = Len(bytes) + Len(pad)
      /\ \A p \in 1..Len(bytes) : (bytes \o pad)[p] = bytes[p]
  BY <1>5, Behind
<1>8. Location(Len(bytes), size) = Len(bytes) + k
  BY <1>1, LocationIs DEF k
<1> QED  BY <1>1, <1>2, <1>5, <1>6, <1>7, <1>8 DEF Begins

\* The kernel's aligned copy of the channels that are on.
WithChannel(bytes, c, on, reading) ==
    IF c \notin on THEN bytes
    ELSE PaddedTo(bytes, ForeignTypes[c].bytes) \o StoredBytes(reading[c], ForeignTypes[c])

ForeignParts(upto, on, reading) ==
    /\ upto \in [0..5 -> Seq(Bytes)]
    /\ upto[0] = <<>>
    /\ \A c \in 1..5 : upto[c] = WithChannel(upto[c - 1], c, on, reading)

LEMMA ForeignStored ==
    ASSUME NEW reading \in [1..5 -> Int], NEW c \in 1..5
    PROVE  /\ ForeignTypes[c].bytes \in Nat \ {0} /\ ForeignTypes[c].bits \in Nat \ {0}
           /\ ForeignTypes[c].shift \in Nat
           /\ StoredBytes(reading[c], ForeignTypes[c]) \in Seq(Bytes)
           /\ Len(StoredBytes(reading[c], ForeignTypes[c])) = ForeignTypes[c].bytes
<1>1. c = 1 \/ c = 2 \/ c = 3 \/ c = 4 \/ c = 5
  OBVIOUS
<1>2. WordBits \in Nat \ {0} /\ ByteBits \in Nat \ {0}
  BY Widths
<1>3. 2 * ByteBits - ByteBits \div 2 \in Nat \ {0} /\ 2 * WordBits \in Nat \ {0}
      /\ 3 * ByteBits \in Nat \ {0}
  BY <1>2, ForeignTypesAre
<1> DEFINE t == ForeignTypes
<1> HIDE DEF t
<1>4. t[c].bytes \in Nat \ {0} /\ t[c].bits \in Nat \ {0} /\ t[c].shift \in Nat
  BY <1>1, <1>2, <1>3, ForeignTypesAre DEF t
<1>5. reading[c] \in Int
  OBVIOUS
<1> DEFINE v == reading[c]  type == t[c]
<1>6. v \in Int /\ type.bits \in Nat /\ type.shift \in Nat /\ type.bytes \in Nat
  BY <1>4, <1>5
<1> HIDE DEF v, type
<1>7. StoredBytes(v, type) \in Seq(Bytes) /\ Len(StoredBytes(v, type)) = type.bytes
  BY <1>6, StoredIs
<1> QED  BY <1>4, <1>7 DEF v, type, t

LEMMA PartsBehind ==
    ASSUME NEW S, NEW a \in Seq(S), NEW b \in Seq(S), NEW first \in Seq(S), Begins(first, a)
    PROVE  /\ a \o b \in Seq(S)
           /\ Len(a \o b) = Len(a) + Len(b)
           /\ Begins(first, a \o b)
           /\ LiesAt(b, Len(a), a \o b)
<1>1. /\ a \o b \in Seq(S) /\ Len(a) \in Nat /\ Len(b) \in Nat
      /\ Len(a \o b) = Len(a) + Len(b)
      /\ \A p \in 1..Len(a) : (a \o b)[p] = a[p]
      /\ \A j \in 1..Len(b) : (a \o b)[Len(a) + j] = b[j]
  BY Behind
<1> DEFINE all == a \o b
<1> HIDE DEF all
<1>2. Len(first) \in Nat
  OBVIOUS
<1>3. Begins(first, all)
  BY <1>1, <1>2 DEF Begins, all
<1>4. LiesAt(b, Len(a), all)
  BY <1>1 DEF LiesAt, all
<1> QED  BY <1>1, <1>3, <1>4 DEF all

LEMMA WithChannelType ==
    ASSUME NEW on, NEW reading \in [1..5 -> Int], NEW c \in 1..5, NEW bytes \in Seq(Bytes)
    PROVE  /\ WithChannel(bytes, c, on, reading) \in Seq(Bytes)
           /\ Begins(bytes, WithChannel(bytes, c, on, reading))
           /\ Len(WithChannel(bytes, c, on, reading))
                 = IF c \notin on THEN Len(bytes)
                   ELSE Location(Len(bytes), ForeignTypes[c].bytes) + ForeignTypes[c].bytes
           /\ c \in on => LiesAt(StoredBytes(reading[c], ForeignTypes[c]),
                                 Location(Len(bytes), ForeignTypes[c].bytes),
                                 WithChannel(bytes, c, on, reading))
<1>1. CASE c \notin on
  BY <1>1 DEF WithChannel, Begins
<1>2. CASE c \in on
  <2> DEFINE size == ForeignTypes[c].bytes  stored == StoredBytes(reading[c], ForeignTypes[c])
             padded == PaddedTo(bytes, size)
  <2>1. size \in Nat \ {0} /\ stored \in Seq(Bytes) /\ Len(stored) = size
    BY ForeignStored
  <2>2. WithChannel(bytes, c, on, reading) = padded \o stored
    BY <1>2 DEF WithChannel
  <2> HIDE DEF size, stored
  <2>3. /\ padded \in Seq(Bytes) /\ Len(padded) = Location(Len(bytes), size)
        /\ Begins(bytes, padded)
    BY <2>1, PaddedIs
  <2> HIDE DEF padded
  <2>4. /\ padded \o stored \in Seq(Bytes)
        /\ Len(padded \o stored) = Len(padded) + Len(stored)
        /\ Begins(bytes, padded \o stored)
        /\ LiesAt(stored, Len(padded), padded \o stored)
    BY <2>1, <2>3, PartsBehind, Zenon
  <2> QED  BY <1>2, <2>1, <2>2, <2>3, <2>4 DEF size, stored
<1> QED  BY <1>1, <1>2

LEMMA ForeignUpto ==
    ASSUME NEW on, NEW reading \in [1..5 -> Int]
    PROVE  \E upto : ForeignParts(upto, on, reading) /\ ForeignDatum(on, reading) = upto[5]
<1> DEFINE B == Seq(Bytes)
           step == [p \in (1..5) \X B |-> WithChannel(p[2], p[1], on, reading)]
           body(h) == [c \in 0..Len(ForeignTypes) |->
                          IF c = 0 THEN <<>>
                          ELSE IF c \notin on THEN h[c - 1]
                          ELSE PaddedTo(h[c - 1], ForeignTypes[c].bytes)
                                  \o StoredBytes(reading[c], ForeignTypes[c])]
           g == CHOOSE upto : upto = body(upto)
<1>1. Len(ForeignTypes) = 5
  BY ForeignTypesAre
<1>2. <<>> \in B
  BY EmptySeq
<1> HIDE DEF B
<1>3. \A c \in 1..5, v \in B : step[<<c, v>>] = WithChannel(v, c, on, reading)
  OBVIOUS
<1>4. \A c \in 1..5, v \in B : WithChannel(v, c, on, reading) \in B
  BY WithChannelType DEF B
<1>5. \A c \in 1..5, v \in B : step[<<c, v>>] \in B
  BY <1>3, <1>4
<1> HIDE DEF step
<1>6. PICK f : Recurs(f, 5, B, <<>>, step)
  BY <1>2, <1>5, Recursion
<1>7. /\ f = [i \in 0..5 |-> IF i = 0 THEN <<>> ELSE step[<<i, f[i - 1]>>]]
      /\ \A i \in 1..5 : f[i - 1] \in B
  BY <1>6, RecursEquation
<1>8. \A h : body(h) = [c \in 0..5 |-> IF c = 0 THEN <<>>
                                      ELSE WithChannel(h[c - 1], c, on, reading)]
  BY <1>1 DEF WithChannel
<1>9. f = body(f)
  <2>1. \A i \in 0..5 : i # 0 => i \in 1..5
    OBVIOUS
  <2>2. \A i \in 0..5 : f[i] = IF i = 0 THEN <<>> ELSE WithChannel(f[i - 1], i, on, reading)
    BY <1>3, <1>7, <2>1
  <2>3. f = [i \in 0..5 |-> f[i]]
    BY <1>6 DEF Recurs
  <2>4. body(f) = [c \in 0..5 |-> IF c = 0 THEN <<>>
                                  ELSE WithChannel(f[c - 1], c, on, reading)]
    BY <1>8
  <2> HIDE DEF body
  <2> QED  BY <2>2, <2>3, <2>4
<1>10. g = body(g)
  <2>1. \E upto : upto = body(upto)
    BY <1>9
  <2> HIDE DEF body
  <2> QED  BY <2>1
<1>11. ForeignDatum(on, reading) = g[5]
  <2>1. ForeignDatum(on, reading) = g[Len(ForeignTypes)]
    BY Zenon DEF ForeignDatum
  <2> QED  BY <1>1, <2>1
<1>12. g = [c \in 0..5 |-> IF c = 0 THEN <<>> ELSE WithChannel(g[c - 1], c, on, reading)]
  BY <1>8, <1>10
<1> HIDE DEF g, body
<1>13. g = [c \in 0..5 |-> g[c]] /\ g[0] = <<>>
  BY <1>12
<1>14. \A c \in 1..5 : g[c] = WithChannel(g[c - 1], c, on, reading)
  BY <1>12
<1>15. Recurs(g, 5, B, <<>>, step)
  <2>1. \A c \in 1..5 : g[c - 1] \in B => g[c] = step[<<c, g[c - 1]>>]
    BY <1>3, <1>14
  <2> QED  BY <1>2, <1>5, <1>13, <2>1, RecursFrom
<1>16. g \in [0..5 -> B]
  BY <1>15 DEF Recurs
<1> QED  BY <1>11, <1>13, <1>14, <1>16 DEF ForeignParts, B

NextPart(upto, c, on, reading) ==
    /\ upto[c] \in Seq(Bytes) /\ upto[c - 1] \in Seq(Bytes)
    /\ Begins(upto[c - 1], upto[c])
    /\ c \notin on => Len(upto[c]) = Len(upto[c - 1])
    /\ c \in on => /\ Len(upto[c]) = Location(Len(upto[c - 1]), ForeignTypes[c].bytes)
                                         + ForeignTypes[c].bytes
                   /\ LiesAt(StoredBytes(reading[c], ForeignTypes[c]),
                             Location(Len(upto[c - 1]), ForeignTypes[c].bytes), upto[c])

LEMMA ForeignNext ==
    ASSUME NEW on, NEW reading \in [1..5 -> Int], NEW upto, ForeignParts(upto, on, reading),
           NEW c \in 1..5
    PROVE  NextPart(upto, c, on, reading)
<1>1. c \in 0..5 /\ c - 1 \in 0..5
  OBVIOUS
<1>2. upto[c] \in Seq(Bytes) /\ upto[c - 1] \in Seq(Bytes)
  BY <1>1 DEF ForeignParts
<1>3. PICK bytes \in Seq(Bytes) : bytes = upto[c - 1]
  BY <1>2
<1>4. upto[c] = WithChannel(bytes, c, on, reading)
  BY <1>3 DEF ForeignParts
<1>5. /\ Begins(bytes, WithChannel(bytes, c, on, reading))
      /\ Len(WithChannel(bytes, c, on, reading))
            = IF c \notin on THEN Len(bytes)
              ELSE Location(Len(bytes), ForeignTypes[c].bytes) + ForeignTypes[c].bytes
      /\ c \in on => LiesAt(StoredBytes(reading[c], ForeignTypes[c]),
                            Location(Len(bytes), ForeignTypes[c].bytes),
                            WithChannel(bytes, c, on, reading))
  BY WithChannelType, Zenon
<1> QED  BY <1>2, <1>3, <1>4, <1>5 DEF NextPart

\* What lies in the first parts lies in the whole.
LEMMA BeginsLies ==
    ASSUME NEW S, NEW part \in Seq(S), NEW first \in Seq(S), NEW all \in Seq(S), NEW at \in Nat,
           LiesAt(part, at, first), Begins(first, all)
    PROVE  LiesAt(part, at, all)
<1>1. Len(part) \in Nat /\ Len(first) \in Nat /\ Len(all) \in Nat
  OBVIOUS
<1>2. \A j \in 1..Len(part) : at + j \in 1..Len(first)
  BY <1>1 DEF LiesAt
<1> QED  BY <1>1, <1>2 DEF LiesAt, Begins

LEMMA BeginsBegins ==
    ASSUME NEW S, NEW a \in Seq(S), NEW b \in Seq(S), NEW c \in Seq(S),
           Begins(a, b), Begins(b, c)
    PROVE  Begins(a, c)
<1>1. Len(a) \in Nat /\ Len(b) \in Nat /\ Len(c) \in Nat
  OBVIOUS
<1> QED  BY <1>1 DEF Begins

LEMMA ForeignBegins ==
    ASSUME NEW on, NEW reading \in [1..5 -> Int], NEW upto, ForeignParts(upto, on, reading)
    PROVE  \A c \in 1..5 : Begins(upto[c], upto[5])
<1>1. \A c \in 1..5 : upto[c] \in Seq(Bytes)
  BY DEF ForeignParts
<1>2. /\ Begins(upto[1], upto[2]) /\ Begins(upto[2], upto[3])
      /\ Begins(upto[3], upto[4]) /\ Begins(upto[4], upto[5])
  <2>1. \A c \in 1..5 : Begins(upto[c - 1], upto[c])
    <3>1. \A c \in 1..5 : NextPart(upto, c, on, reading)
      BY ForeignNext, Zenon
    <3> QED  BY <3>1 DEF NextPart
  <2>2. Begins(upto[2 - 1], upto[2]) /\ Begins(upto[3 - 1], upto[3])
        /\ Begins(upto[4 - 1], upto[4]) /\ Begins(upto[5 - 1], upto[5])
    BY <2>1
  <2> QED  BY <2>2
<1>3. upto[1] \in Seq(Bytes) /\ upto[2] \in Seq(Bytes) /\ upto[3] \in Seq(Bytes)
      /\ upto[4] \in Seq(Bytes) /\ upto[5] \in Seq(Bytes)
  BY <1>1
<1>4. Begins(upto[3], upto[5])
  BY <1>2, <1>3, BeginsBegins, Zenon
<1>5. Begins(upto[2], upto[5])
  BY <1>2, <1>3, <1>4, BeginsBegins, Zenon
<1>6. Begins(upto[1], upto[5])
  BY <1>2, <1>3, <1>5, BeginsBegins, Zenon
<1>7. Begins(upto[5], upto[5])
  BY <1>3 DEF Begins
<1>8. \A c \in 1..5 : c = 1 \/ c = 2 \/ c = 3 \/ c = 4 \/ c = 5
  OBVIOUS
<1> QED  BY <1>2, <1>4, <1>5, <1>6, <1>7, <1>8

\* The array's entries are the channels on that a set names, in order and with sizes.
Matches(channels, on) ==
    /\ HaveBytes(channels) /\ Rising(channels)
    /\ \A i \in 1..Len(channels) : channels[i].index \in Int /\ channels[i].index + 1 \in on
    /\ \A c \in on : \E i \in 1..Len(channels) : channels[i].index + 1 = c

LEMMA MatchOnce ==
    ASSUME NEW channels, NEW on, Matches(channels, on),
           NEW i \in 1..Len(channels), NEW j \in 1..Len(channels),
           channels[i].index <= channels[j].index
    PROVE  i <= j
<1>1. channels[i].index \in Int /\ channels[j].index \in Int
  BY DEF Matches
<1>2. Len(channels) \in Nat
  BY DEF Matches, HaveBytes
<1>3. j < i => channels[j].index < channels[i].index
  BY DEF Matches, Rising
<1> QED  BY <1>1, <1>2, <1>3

\* The entries up to m are the channels up to c, and they end together.
Placed(channels, upto, m, c) ==
    /\ m \in 0..Len(channels)
    /\ \A i \in 1..Len(channels) : i <= m <=> channels[i].index + 1 <= c
    /\ Len(upto[c]) = Ends(channels)[m]

LEMMA PlacedNext ==
    ASSUME NEW on \in SUBSET (1..5), NEW reading \in [1..5 -> Int], NEW upto,
           ForeignParts(upto, on, reading),
           NEW channels, Matches(channels, on),
           \A i \in 1..Len(channels) :
              channels[i].bytes = ForeignTypes[channels[i].index + 1].bytes,
           NEW c \in 1..5, NEW m, Placed(channels, upto, m, c - 1)
    PROVE  /\ c \notin on => Placed(channels, upto, m, c)
           /\ c \in on => /\ m + 1 \in 1..Len(channels)
                          /\ Placed(channels, upto, m + 1, c)
                          /\ channels[m + 1].index + 1 = c
                          /\ LiesAt(StoredBytes(reading[c], ForeignTypes[c]),
                                    LocationOf(channels, m + 1), upto[c])
<1> DEFINE n == Len(channels)
<1>1. n \in Nat /\ m \in 0..n /\ m \in Nat
  BY DEF Matches, HaveBytes, Placed
<1>2. \A i \in 1..n : channels[i].index \in Int /\ channels[i].index + 1 \in on
  BY DEF Matches
<1>3. \A i \in 1..n : i <= m <=> channels[i].index + 1 <= c - 1
  BY DEF Placed
<1>4. NextPart(upto, c, on, reading)
  BY ForeignNext, Zenon
<1>5. Len(upto[c - 1]) = Ends(channels)[m]
  BY DEF Placed
<1>6. CASE c \notin on
  <2>1. \A i \in 1..n : channels[i].index + 1 # c
    BY <1>2, <1>6
  <2>2. \A i \in 1..n : i <= m <=> channels[i].index + 1 <= c
    <3> HIDE DEF n
    <3> QED  BY <1>2, <1>3, <2>1
  <2>3. Len(upto[c]) = Ends(channels)[m]
    BY <1>4, <1>5, <1>6 DEF NextPart
  <2> QED  BY <1>1, <1>6, <2>2, <2>3 DEF Placed
<1>7. CASE c \in on
  <2>1. PICK j \in 1..n : channels[j].index + 1 = c
    BY <1>7 DEF Matches
  <2>2. j = m + 1
    <3>1. j > m
      <4> HIDE DEF n
      <4> QED  BY <1>1, <1>2, <1>3, <2>1
    <3>2. m + 1 \in 1..n
      <4> HIDE DEF n
      <4> QED  BY <1>1, <2>1, <3>1
    <3>3. channels[m + 1].index \in Int /\ channels[m + 1].index + 1 > c - 1
      <4> HIDE DEF n
      <4>1. ~(m + 1 <= m)
        BY <1>1
      <4>2. channels[m + 1].index \in Int
        BY <1>2, <3>2
      <4>3. ~(channels[m + 1].index + 1 <= c - 1)
        BY <1>3, <3>2, <4>1
      <4> QED  BY <4>2, <4>3
    <3>4. channels[j].index <= channels[m + 1].index
      BY <1>2, <2>1, <3>3
    <3>5. j <= m + 1
      BY <2>1, <3>2, <3>4, MatchOnce
    <3> QED  BY <1>1, <3>1, <3>5
  <2>3. /\ Ends(channels)[m] \in Nat /\ Ends(channels)[m + 1] \in Nat
        /\ Ends(channels)[m + 1] = Location(Ends(channels)[m], channels[m + 1].bytes)
                                      + channels[m + 1].bytes
    <3>1. m + 1 <= Len(channels) /\ HaveBytes(channels)
      BY <2>1, <2>2 DEF Matches
    <3> QED  BY <1>1, <3>1, EndsNext
  <2>4. channels[m + 1].bytes = ForeignTypes[c].bytes /\ channels[m + 1].bytes \in Nat
    BY <2>1, <2>2 DEF Matches, HaveBytes
  <2>5. LocationOf(channels, m + 1) = Location(Len(upto[c - 1]), ForeignTypes[c].bytes)
    <3>1. Location(Ends(channels)[m], channels[m + 1].bytes) \in Nat
      <4>1. channels[m + 1].bytes \in Nat \ {0}
        BY <2>1, <2>2 DEF Matches, HaveBytes
      <4> QED  BY <2>3, <4>1, LocationIs
    <3> QED  BY <1>5, <2>3, <2>4, <3>1 DEF LocationOf
  <2>6. Len(upto[c]) = Ends(channels)[m + 1]
    BY <1>4, <1>5, <1>7, <2>3, <2>4 DEF NextPart
  <2>7. ASSUME NEW i \in 1..n
        PROVE  i <= m + 1 <=> channels[i].index + 1 <= c
    <3> HIDE DEF n
    <3>1. i <= m => channels[i].index + 1 <= c - 1
      BY <1>3
    <3>2. channels[i].index \in Int /\ channels[m + 1].index \in Int
      BY <1>2, <2>1, <2>2
    <3>3. i = m + 1 \/ i <= m \/ i > m + 1
      BY <1>1
    <3>4. i > m + 1 => ~(channels[i].index <= channels[m + 1].index)
      <4> SUFFICES ASSUME channels[i].index <= channels[m + 1].index  PROVE  i <= m + 1
        BY <1>1
      <4> QED  BY <2>1, <2>2, MatchOnce DEF n
    <3>5. CASE i = m + 1
      <4>1. i <= m + 1
        BY <1>1, <3>5
      <4>2. channels[i].index + 1 <= c
        BY <2>1, <2>2, <3>2, <3>5
      <4> QED  BY <4>1, <4>2
    <3>6. CASE i <= m
      BY <1>1, <3>1, <3>2, <3>6
    <3>7. CASE i > m + 1
      <4>1. channels[i].index > channels[m + 1].index
        BY <3>2, <3>4, <3>7
      <4>2. channels[m + 1].index + 1 = c
        BY <2>1, <2>2
      <4> QED  BY <1>1, <3>2, <3>7, <4>1, <4>2
    <3> QED  BY <3>3, <3>5, <3>6, <3>7
  <2>8. m + 1 \in 1..n /\ m + 1 \in 0..n
    BY <1>1, <2>1, <2>2
  <2>9. Placed(channels, upto, m + 1, c)
    BY <2>6, <2>7, <2>8 DEF Placed
  <2> QED  BY <1>4, <1>7, <2>1, <2>2, <2>5, <2>8, <2>9 DEF NextPart
<1> QED  BY <1>6, <1>7

\* The kernel's layout of a datum is the program's.
LEMMA ForeignDatumIs ==
    ASSUME NEW on \in SUBSET (1..5), NEW reading \in [1..5 -> Int],
           NEW channels, Matches(channels, on),
           \A i \in 1..Len(channels) :
              channels[i].bytes = ForeignTypes[channels[i].index + 1].bytes
    PROVE  /\ ForeignDatum(on, reading) \in Seq(Bytes)
           /\ Len(ForeignDatum(on, reading)) = ScanSize(channels)
           /\ \A i \in 1..Len(channels) :
                 LiesAt(StoredBytes(reading[channels[i].index + 1],
                                    ForeignTypes[channels[i].index + 1]),
                        LocationOf(channels, i), ForeignDatum(on, reading))
<1>1. PICK upto : ForeignParts(upto, on, reading) /\ ForeignDatum(on, reading) = upto[5]
  BY ForeignUpto
<1>2. \A c \in 0..5 : upto[c] \in Seq(Bytes)
  BY <1>1 DEF ForeignParts
<1> DEFINE n == Len(channels)
           P(c) == \E m : Placed(channels, upto, m, c)
<1>3. n \in Nat /\ \A i \in 1..n : channels[i].index \in Int /\ channels[i].index + 1 \in on
  BY DEF Matches, HaveBytes
<1>4. P(0)
  <2>1. Ends(channels)[0] = 0
    BY EndsDef DEF Matches
  <2>2. Len(upto[0]) = 0
    BY <1>1 DEF ForeignParts
  <2>3. \A i \in 1..n : i <= 0 <=> channels[i].index + 1 <= 0
    <3> TAKE i \in 1..n
    <3>1. channels[i].index + 1 \in 1..5
      BY <1>3
    <3> QED  BY <3>1
  <2>4. Placed(channels, upto, 0, 0)
    BY <1>3, <2>1, <2>2, <2>3 DEF Placed
  <2> QED  BY <2>4
<1>5. ASSUME NEW c \in 1..5, P(c - 1)  PROVE  P(c)
  <2>1. PICK m : Placed(channels, upto, m, c - 1)
    BY <1>5
  <2>2. Placed(channels, upto, m, c) \/ Placed(channels, upto, m + 1, c)
    BY <1>1, <2>1, PlacedNext, Zenon
  <2> QED  BY <2>2
<1> HIDE DEF P
<1>6. P(0) /\ P(1) /\ P(2) /\ P(3) /\ P(4) /\ P(5)
  <2>1. P(1 - 1) => P(1)  BY <1>5
  <2>2. P(2 - 1) => P(2)  BY <1>5
  <2>3. P(3 - 1) => P(3)  BY <1>5
  <2>4. P(4 - 1) => P(4)  BY <1>5
  <2>5. P(5 - 1) => P(5)  BY <1>5
  <2> QED  BY <1>4, <2>1, <2>2, <2>3, <2>4, <2>5
<1>7. Len(upto[5]) = ScanSize(channels)
  <2>1. PICK m : Placed(channels, upto, m, 5)
    BY <1>6 DEF P
  <2>2. m = n
    <3>1. m \in 0..n
      BY <2>1 DEF Placed
    <3>2. n # 0 => n <= m
      <4> SUFFICES ASSUME n # 0  PROVE  n <= m
        OBVIOUS
      <4>1. n \in 1..n
        BY <1>3
      <4>2. channels[n].index + 1 \in 1..5
        BY <1>3, <4>1
      <4>3. channels[n].index + 1 <= 5
        BY <4>2
      <4> QED  BY <2>1, <4>1, <4>3 DEF Placed
    <3> QED  BY <1>3, <3>1, <3>2
  <2> QED  BY <2>1, <2>2 DEF Placed, ScanSize
<1>8. ASSUME NEW i \in 1..n
      PROVE  LiesAt(StoredBytes(reading[channels[i].index + 1],
                                ForeignTypes[channels[i].index + 1]),
                    LocationOf(channels, i), upto[5])
  <2>1. PICK c \in on : c = channels[i].index + 1
    BY <1>3
  <2>2. c \in 1..5
    OBVIOUS
  <2>3. P(c - 1)
    <3>1. c - 1 = 0 \/ c - 1 = 1 \/ c - 1 = 2 \/ c - 1 = 3 \/ c - 1 = 4
      BY <2>2
    <3> QED  BY <1>6, <3>1
  <2>4. PICK m : Placed(channels, upto, m, c - 1)
    BY <2>3 DEF P
  <2>5. /\ m + 1 \in 1..n
        /\ channels[m + 1].index + 1 = c
        /\ LiesAt(StoredBytes(reading[c], ForeignTypes[c]),
                  LocationOf(channels, m + 1), upto[c])
    <3>1. c \in on => /\ m + 1 \in 1..Len(channels)
                      /\ Placed(channels, upto, m + 1, c)
                      /\ channels[m + 1].index + 1 = c
                      /\ LiesAt(StoredBytes(reading[c], ForeignTypes[c]),
                                LocationOf(channels, m + 1), upto[c])
      BY <1>1, <2>2, <2>4, PlacedNext
    <3> QED  BY <3>1
  <2>6. i = m + 1
    <3>1. channels[i].index = channels[m + 1].index /\ channels[i].index \in Int
      BY <1>3, <2>1, <2>5
    <3>2. i <= m + 1
      BY <2>5, <3>1, MatchOnce
    <3>3. m + 1 <= i
      BY <2>5, <3>1, MatchOnce
    <3> QED  BY <1>3, <2>5, <3>2, <3>3
  <2>7. LocationOf(channels, i) \in Nat
    BY LayoutHolds DEF Matches
  <2>8. Begins(upto[c], upto[5]) /\ upto[c] \in Seq(Bytes) /\ upto[5] \in Seq(Bytes)
    BY <1>1, <1>2, <2>2, ForeignBegins
  <2>9. StoredBytes(reading[c], ForeignTypes[c]) \in Seq(Bytes)
    BY <2>2, ForeignStored
  <2>10. LiesAt(StoredBytes(reading[c], ForeignTypes[c]), LocationOf(channels, i), upto[5])
    BY <2>5, <2>6, <2>7, <2>8, <2>9, BeginsLies
  <2> QED  BY <2>1, <2>10
<1> QED  BY <1>1, <1>2, <1>7, <1>8

LEMMA MatchCount ==
    ASSUME NEW channels, NEW on, Matches(channels, on)
    PROVE  Cardinality(on) = Len(channels)
<1> DEFINE n == Len(channels)  f == [i \in 1..n |-> channels[i].index + 1]
<1>1. n \in Nat
  BY DEF Matches, HaveBytes
<1>2. \A i \in 1..n : f[i] = channels[i].index + 1 /\ channels[i].index \in Int /\ f[i] \in on
  BY DEF Matches
<1>3. f = [i \in 1..n |-> f[i]]
  OBVIOUS
<1>4. ASSUME NEW i \in 1..n, NEW j \in 1..n, f[i] = f[j]
      PROVE  i = j
  <2>1. channels[i].index = channels[j].index /\ channels[i].index \in Int
    BY <1>2, <1>4
  <2>2. i <= j /\ j <= i
    BY <2>1, MatchOnce
  <2> QED  BY <1>1, <2>2
<1>5. \A c \in on : \E i \in 1..n : f[i] = c
  BY <1>2 DEF Matches
<1> HIDE DEF f, n
<1>6. f \in [1..n -> on]
  BY <1>2, <1>3
<1>7. f \in Injection(1..n, on)
  BY <1>4, <1>6 DEF Injection, IsInjective
<1>8. f \in Surjection(1..n, on)
  BY <1>5, <1>6 DEF Surjection
<1>9. ExistsBijection(1..n, on)
  BY <1>7, <1>8 DEF ExistsBijection, Bijection
<1> QED  BY <1>1, <1>9, FS_CountingElements DEF n

\* If all channels up to one are on, its entry is at its own place.
LEMMA MatchFirst ==
    ASSUME NEW channels, NEW on \in SUBSET Nat, Matches(channels, on), 0 \notin on,
           NEW c \in Nat, 1..c \subseteq on
    PROVE  \A i \in 1..Len(channels) : channels[i].index + 1 = c => i = c
<1> DEFINE n == Len(channels)
<1>1. n \in Nat /\ \A i \in 1..n : channels[i].index \in Int /\ channels[i].index + 1 \in on
  BY DEF Matches, HaveBytes
<1> HIDE DEF n
<1> DEFINE F == {k \in Nat : k + 1 <= n => channels[k + 1].index >= k}
<1>2. F = Nat
  <2>1. 0 \in F
    <3> SUFFICES ASSUME 1 <= n  PROVE  channels[1].index >= 0
      OBVIOUS
    <3>1. 1 \in 1..n
      BY <1>1
    <3>2. channels[1].index + 1 \in Nat /\ channels[1].index + 1 # 0
      BY <1>1, <3>1
    <3> QED  BY <1>1, <3>1, <3>2
  <2>2. ASSUME NEW k \in F  PROVE  k + 1 \in F
    <3> SUFFICES ASSUME (k + 1) + 1 <= n  PROVE  channels[(k + 1) + 1].index >= k + 1
      OBVIOUS
    <3>1. k \in Nat /\ k + 1 \in 1..n /\ (k + 1) + 1 \in 1..n /\ k + 1 < (k + 1) + 1
      BY <1>1
    <3>2. channels[k + 1].index >= k
      BY <3>1
    <3>3. channels[k + 1].index < channels[(k + 1) + 1].index
      BY <3>1 DEF Matches, Rising, n
    <3>4. channels[k + 1].index \in Int /\ channels[(k + 1) + 1].index \in Int
      BY <1>1, <3>1
    <3> QED  BY <3>1, <3>2, <3>3, <3>4
  <2> HIDE DEF F
  <2>3. F \subseteq Nat
    BY DEF F
  <2> QED  BY <2>1, <2>2, <2>3, Induction
<1> HIDE DEF F
<1>3. \A i \in 1..n : channels[i].index + 1 >= i
  <2> TAKE i \in 1..n
  <2>1. i - 1 \in Nat /\ (i - 1) + 1 = i /\ i <= n /\ channels[i].index \in Int
    BY <1>1
  <2>2. PICK k \in F : k = i - 1
    BY <1>2, <2>1
  <2>3. channels[k + 1].index >= k
    BY <2>1, <2>2 DEF F
  <2> QED  BY <2>1, <2>2, <2>3
<1> DEFINE G == {k \in Nat : k <= c => \A i \in 1..n : channels[i].index + 1 = k => i = k}
<1>4. 0 \in G
  <2>1. \A i \in 1..n : channels[i].index + 1 # 0
    BY <1>1
  <2> QED  BY <2>1
<1>5. ASSUME NEW k \in G  PROVE  k + 1 \in G
  <2> SUFFICES ASSUME k + 1 <= c, NEW i \in 1..n, channels[i].index + 1 = k + 1
               PROVE  i = k + 1
    OBVIOUS
  <2>1. k \in Nat /\ channels[i].index \in Int /\ channels[i].index = k /\ i <= k + 1
    BY <1>1, <1>3
  <2>2. CASE k = 0
    BY <2>1, <2>2
  <2>3. CASE k # 0
    <3>1. k \in 1..c
      BY <2>1, <2>3
    <3>2. PICK j \in 1..n : channels[j].index + 1 = k
      BY <3>1 DEF Matches, n
    <3>3. j = k
      BY <2>1, <3>2
    <3>4. channels[j].index \in Int
      BY <1>1
    <3>5. ~(i <= j)
      <4> SUFFICES ASSUME i <= j  PROVE  FALSE
        OBVIOUS
      <4>1. i = j => channels[i].index = channels[j].index
        OBVIOUS
      <4>2. i < j => channels[i].index < channels[j].index
        BY DEF Matches, Rising, n
      <4> QED  BY <1>1, <2>1, <3>2, <3>4, <4>1, <4>2
    <3> QED  BY <1>1, <2>1, <3>3, <3>5
  <2> QED  BY <2>2, <2>3
<1>6. G = Nat
  <2> HIDE DEF G
  <2>1. G \subseteq Nat
    BY DEF G
  <2> QED  BY <1>4, <1>5, <2>1, Induction
<1>7. c \in G
  BY <1>6
<1> QED  BY <1>7 DEF n

-----------------------------------------------------------------------------
\* The data of a whole array.

\* What stands for channel c's value in the kernel's datum.
Stored(c, reading) ==
    IF IsHID(setup) THEN ToBytes(CapturedReading(setup, reading)[c], 4)
    ELSE StoredBytes(reading[c], ForeignTypes[c])

\* The array has the channels that are on, with their types.
Tidy ==
    /\ {array[i].index + 1 : i \in DOMAIN array} = enabled
    /\ "typeless" \notin faults

LEMMA TidyMatches ==
    ASSUME BasicInv, ArrayInv, pc \in Runs, Tidy
    PROVE  /\ Matches(array, enabled) /\ DOMAIN array = 1..Len(array)
           /\ \A i \in 1..Len(array) :
                 /\ array[i].index + 1 \in Positions(setup)
                 /\ array[i] = Info(array[i].index + 1, Types(setup)[array[i].index + 1])
<1>1. array \in Seq(Entries) /\ Rising(array)
  BY DEF ArrayInv
<1>2. DOMAIN array = 1..Len(array) /\ \A i \in 1..Len(array) : array[i] \in Entries
  BY <1>1
<1>3. HaveBytes(array)
  BY SizesRead DEF Tidy
<1>4. ASSUME NEW i \in 1..Len(array)
      PROVE  /\ array[i].index \in Int
             /\ array[i].index + 1 \in Positions(setup)
             /\ array[i] = Info(array[i].index + 1, Types(setup)[array[i].index + 1])
  <2>1. array[i] \in Entries
    BY <1>2
  <2>2. PICK c \in Positions(setup) :
           /\ c \in 1..Total /\ array[i].index = c - 1
           /\ array[i] = Info(c, Types(setup)[c])
    BY <2>1, EntryFacts DEF BasicInv, Tidy
  <2>3. c \in Int
    BY <2>2
  <2>4. array[i].index \in Int /\ array[i].index + 1 = c
    BY <2>2, <2>3
  <2> QED  BY <2>2, <2>4
<1>5. \A i \in 1..Len(array) : array[i].index + 1 \in enabled
  BY <1>2 DEF Tidy
<1>6. \A c \in enabled : \E i \in 1..Len(array) : array[i].index + 1 = c
  BY <1>2 DEF Tidy
<1> QED  BY <1>1, <1>2, <1>3, <1>4, <1>5, <1>6 DEF Matches

LEMMA DatumType ==
    ASSUME BasicInv, NEW reading \in [Positions(setup) -> Int]
    PROVE  Datum(reading) \in Seq(Bytes)
<1>1. CASE IsHID(setup)
  BY <1>1, HIDDatumIs DEF BasicInv, Datum
<1>2. CASE ~IsHID(setup)
  <2>1. Positions(setup) = 1..5
    BY <1>2 DEF Positions, Names
  <2>2. PICK r \in [1..5 -> Int] : r = reading
    BY <2>1
  <2>3. PICK upto : ForeignParts(upto, enabled, r) /\ ForeignDatum(enabled, r) = upto[5]
    BY ForeignUpto, Zenon
  <2>4. upto[5] \in Seq(Bytes)
    BY <2>3 DEF ForeignParts
  <2> QED  BY <1>2, <2>2, <2>3, <2>4 DEF Datum
<1> QED  BY <1>1, <1>2

\* The kernel lays a datum out as the program does, and each value is at the place
\* where the program looks for it.
LEMMA DatumHolds ==
    ASSUME BasicInv, ArrayInv, pc \in Runs, Tidy,
           NEW reading \in [Positions(setup) -> Int]
    PROVE  /\ Len(Datum(reading)) = ScanSize(array)
           /\ \A i \in 1..Len(array) :
                 (IsHID(setup) => 1..(array[i].index + 1) \subseteq enabled) =>
                    LiesAt(Stored(array[i].index + 1, reading), LocationOf(array, i),
                           Datum(reading))
<1>1. /\ Matches(array, enabled) /\ HaveBytes(array) /\ Len(array) \in Nat
      /\ \A i \in 1..Len(array) :
            /\ array[i].index + 1 \in Positions(setup)
            /\ array[i].index + 1 \in enabled /\ array[i].index \in Int
            /\ array[i].bytes = Types(setup)[array[i].index + 1].bytes
  BY TidyMatches DEF Matches, HaveBytes, Info, ChannelInfo
<1>2. CASE IsHID(setup)
  <2>1. /\ Len(Datum(reading)) = 4 * Cardinality(enabled)
        /\ \A i \in 1..Cardinality(enabled) :
              LiesAt(ToBytes(CapturedReading(setup, reading)[i], 4), 4 * (i - 1),
                     Datum(reading))
    BY <1>2, HIDDatumIs DEF BasicInv, Datum
  <2>2. Cardinality(enabled) = Len(array)
    BY <1>1, MatchCount
  <2>3. \A i \in 1..Len(array) : array[i].bytes = 4
    <3> TAKE i \in 1..Len(array)
    <3>1. Types(setup)[array[i].index + 1].bytes = 4
      <4>1. ParseReport(setup.device, setup.fields).ret = 0
        BY <1>2 DEF BasicInv, Runs
      <4> QED  BY <1>1, <1>2, <4>1, HIDType DEF BasicInv
    <3> QED  BY <1>1, <3>1
  <2>4. \A i \in 0..Len(array) : Ends(array)[i] = 4 * i
    BY <1>1, <2>3, EndsWords
  <2>5. ScanSize(array) = 4 * Len(array)
    BY <1>1, <2>4 DEF ScanSize
  <2>6. ASSUME NEW i \in 1..Len(array), 1..(array[i].index + 1) \subseteq enabled
        PROVE  LiesAt(Stored(array[i].index + 1, reading), LocationOf(array, i),
                      Datum(reading))
    <3>1. Positions(setup) = 1..Total /\ enabled \subseteq Positions(setup)
      BY NamesLength DEF BasicInv, Total
    <3>2. PICK c \in Nat : c = array[i].index + 1
      BY <1>1, <3>1
    <3>3. enabled \in SUBSET Nat /\ 0 \notin enabled
      BY <3>1
    <3>4. i = c
      BY <1>1, <2>6, <3>2, <3>3, MatchFirst
    <3>5. LocationOf(array, i) = 4 * (i - 1)
      BY <1>1, <2>3, <2>4 DEF LocationOf
    <3>6. Stored(c, reading) = ToBytes(CapturedReading(setup, reading)[c], 4)
      BY <1>2 DEF Stored
    <3>7. LiesAt(ToBytes(CapturedReading(setup, reading)[i], 4), 4 * (i - 1),
                 Datum(reading))
      BY <2>1, <2>2
    <3> QED  BY <3>2, <3>4, <3>5, <3>6, <3>7
  <2> QED  BY <1>2, <2>1, <2>2, <2>5, <2>6
<1>3. CASE ~IsHID(setup)
  <2>1. Positions(setup) = 1..5 /\ Types(setup) = ForeignTypes
    BY <1>3 DEF Positions, Names, Types
  <2>2. PICK r \in [1..5 -> Int], on \in SUBSET (1..5), channels \in {array} :
           r = reading /\ on = enabled
    BY <2>1 DEF BasicInv
  <2>3. Matches(channels, on)
        /\ \A i \in 1..Len(channels) :
              channels[i].bytes = ForeignTypes[channels[i].index + 1].bytes
    BY <1>1, <2>1, <2>2
  <2>4. /\ Len(ForeignDatum(on, r)) = ScanSize(channels)
        /\ \A i \in 1..Len(channels) :
              LiesAt(StoredBytes(r[channels[i].index + 1],
                                 ForeignTypes[channels[i].index + 1]),
                     LocationOf(channels, i), ForeignDatum(on, r))
    BY <2>3, ForeignDatumIs
  <2>5. Datum(reading) = ForeignDatum(on, r)
    BY <1>3, <2>2 DEF Datum
  <2>6. \A c : Stored(c, reading) = StoredBytes(r[c], ForeignTypes[c])
    BY <1>3, <2>2 DEF Stored
  <2> QED  BY <1>3, <2>2, <2>4, <2>5, <2>6
<1> QED  BY <1>2, <1>3

-----------------------------------------------------------------------------
\* Decoding gives the value that was stored.

LEMMA ShiftedBack ==
    ASSUME NEW v \in Int, NEW bits \in Nat \ {0}, NEW shift \in Nat, NEW n \in Nat,
           bits + shift <= n
    PROVE  LET word == Unsigned(v, bits) * Pow2[shift]
           IN  /\ word \in 0..(Pow2[n] - 1)
               /\ word \div Pow2[shift] = Unsigned(v, bits)
               /\ Unsigned(Unsigned(v, bits), bits) = Unsigned(v, bits)
               /\ Signed(Unsigned(v, bits), bits) = Signed(v, bits)
<1> DEFINE u == Unsigned(v, bits)  p == Pow2[bits]  q == Pow2[shift]
<1>1. p \in Nat \ {0} /\ q \in Nat \ {0} /\ Pow2[n] \in Nat
  BY Pow2Positive
<1>2. u \in 0..(p - 1)
  BY UnsignedType
<1>3. p * q <= Pow2[n]
  <2>1. Pow2[bits + shift] = p * q
    BY Pow2Sum
  <2>2. bits + shift \in Nat
    OBVIOUS
  <2>3. Pow2[bits + shift] <= Pow2[n]
    BY <2>2, Pow2Grows
  <2> QED  BY <2>1, <2>3
<1>4. Unsigned(u, bits) = u
  BY UnsignedUnsigned
<1>5. u \in Int
  BY <1>1, <1>2
<1>6. Signed(u, bits) = Signed(v, bits)
  <2> HIDE DEF u
  <2>1. Unsigned(u, bits) = Unsigned(v, bits)
    BY <1>4 DEF u
  <2> QED  BY <1>5, <2>1, SignedOfBits
<1> HIDE DEF u, p, q
<1>7. (u * q) \div q = u
  BY <1>1, <1>5, ModScaled
<1>8. u * q \in 0..(Pow2[n] - 1)
  <2>1. u * q \in Nat
    BY <1>1, <1>2
  <2>2. u * q <= (p - 1) * q
    BY <1>1, <1>2
  <2>3. (p - 1) * q = p * q - q
    BY <1>1
  <2>4. p * q \in Nat /\ (p - 1) * q \in Int
    BY <1>1
  <2>5. u * q <= p * q - 1
    BY <1>1, <2>1, <2>2, <2>3, <2>4
  <2> QED  BY <1>1, <1>3, <2>1, <2>4, <2>5
<1> QED  BY <1>4, <1>6, <1>7, <1>8 DEF u, p, q

LEMMA BytesRead ==
    ASSUME NEW bytes \in Seq(Bytes), NEW data, NEW at \in Nat, LiesAt(bytes, at, data)
    PROVE  /\ HasBytes(bytes, 0, Len(bytes)) /\ HasBytes(data, at, Len(bytes))
           /\ Number(data, at, Len(bytes)) = Number(bytes, 0, Len(bytes))
<1>1. Len(bytes) \in Nat /\ \A i \in 1..Len(bytes) : bytes[0 + i] \in Bytes
  OBVIOUS
<1>2. HasBytes(bytes, 0, Len(bytes))
  BY <1>1 DEF HasBytes, Bytes
<1>3. PICK zero \in Nat, n \in Nat : zero = 0 /\ n = Len(bytes)
  BY <1>1
<1>4. HasBytes(bytes, zero, n)
  BY <1>2, <1>3
<1>5. SameBytes(data, at, bytes, zero, n)
  BY <1>3 DEF LiesAt, SameBytes
<1>6. HasBytes(data, at, n)
  BY <1>4, <1>5, NumberSame
<1>7. Number(data, at, n) = Number(bytes, zero, n)
  BY <1>4, <1>5, NumberSame
<1> QED  BY <1>3, <1>4, <1>6, <1>7

LEMMA WordRead ==
    ASSUME NEW word \in Nat, NEW n \in Nat, word <= Pow2[n * ByteBits] - 1,
           NEW data, NEW at \in Nat, LiesAt(ToBytes(word, n), at, data)
    PROVE  Number(data, at, n) = word
<1>1. /\ ToBytes(word, n) \in Seq(Bytes) /\ Len(ToBytes(word, n)) = n
      /\ Number(ToBytes(word, n), 0, n) = Unsigned(word, n * ByteBits)
  BY NumberOfBytes DEF Bytes
<1>2. Number(data, at, n) = Number(ToBytes(word, n), 0, n)
  BY <1>1, BytesRead
<1>3. n * ByteBits \in Nat
  BY Widths
<1>4. Pow2[n * ByteBits] \in Nat
  BY <1>3, Pow2Positive
<1>5. word \in 0..(Pow2[n * ByteBits] - 1)
  BY <1>4
<1>6. Unsigned(word, n * ByteBits) = word
  BY <1>3, <1>5, UnsignedFits
<1> QED  BY <1>1, <1>2, <1>6

\* Stored with the least significant byte first ...
LEMMA LittleRead ==
    ASSUME NEW v \in Int, NEW type, type.be = FALSE, type.bits \in Nat \ {0},
           type.shift \in Nat, type.bytes \in Nat,
           type.bits + type.shift <= type.bytes * ByteBits,
           NEW data, NEW at \in Nat, LiesAt(StoredBytes(v, type), at, data)
    PROVE  Number(data, at, type.bytes) = Unsigned(v, type.bits) * Pow2[type.shift]
<1>1. PICK bits \in Nat \ {0}, shift \in Nat, n \in Nat :
         bits = type.bits /\ shift = type.shift /\ n = type.bytes
  OBVIOUS
<1>2. n * ByteBits \in Nat /\ bits + shift <= n * ByteBits
  BY <1>1, Widths
<1>3. PICK word : word = Unsigned(v, bits) * Pow2[shift]
  OBVIOUS
<1>4. word \in 0..(Pow2[n * ByteBits] - 1) /\ Pow2[n * ByteBits] \in Nat
  BY <1>2, <1>3, ShiftedBack, Pow2Positive
<1>5. StoredBytes(v, type) = ToBytes(word, n)
  BY <1>1, <1>3 DEF StoredBytes
<1>6. word \in Nat /\ word <= Pow2[n * ByteBits] - 1 /\ LiesAt(ToBytes(word, n), at, data)
  BY <1>4, <1>5
<1>7. Number(data, at, n) = word
  BY <1>6, WordRead
<1> QED  BY <1>1, <1>3, <1>7

\* ... and with the most significant of two first.
LEMMA BigRead ==
    ASSUME NEW v \in Int, NEW type, type.be = TRUE, type.bits \in Nat \ {0},
           type.shift \in Nat, type.bytes = 2, type.bits + type.shift <= 2 * ByteBits,
           NEW data, NEW at \in Nat, LiesAt(StoredBytes(v, type), at, data)
    PROVE  SwapBytes(Number(data, at, 2)) = Unsigned(v, type.bits) * Pow2[type.shift]
<1>1. PICK bits \in Nat \ {0}, shift \in Nat :
         bits = type.bits /\ shift = type.shift
  OBVIOUS
<1>2. PICK word : word = Unsigned(v, bits) * Pow2[shift]
  OBVIOUS
<1>3. 2 * ByteBits \in Nat /\ bits + shift <= 2 * ByteBits /\ Byte \in Nat \ {0}
  BY <1>1, Widths
<1>4. word \in 0..(Pow2[2 * ByteBits] - 1) /\ Pow2[2 * ByteBits] \in Nat
  BY <1>2, <1>3, ShiftedBack, Pow2Positive
<1>5. PICK s : s = ToBytes(word, 2)
  OBVIOUS
<1>6. word \in Int
  BY <1>4
<1>7. /\ s \in Seq(Bytes) /\ Len(s) = 2 /\ HasBytes(s, 0, 2)
      /\ Number(s, 0, 2) = Unsigned(word, 2 * ByteBits)
  BY <1>5, <1>6, NumberOfBytes DEF Bytes
<1>8. Number(s, 0, 2) = word
  BY <1>3, <1>4, <1>7, UnsignedFits
<1>9. s[1] \in Bytes /\ s[2] \in Bytes
  <2>1. 1 \in 1..Len(s) /\ 2 \in 1..Len(s)
    BY <1>7
  <2> QED  BY <1>7, <2>1, ElementOfSeq
<1>10. PICK r : r = StoredBytes(v, type)
  OBVIOUS
<1>11. r \in Seq(Bytes) /\ Len(r) = 2 /\ r[1] = s[2] /\ r[2] = s[1]
  <2>1. /\ StoredBytes(v, type) \in Seq(Bytes) /\ Len(StoredBytes(v, type)) = type.bytes
        /\ \A j \in 1..type.bytes :
              StoredBytes(v, type)[j]
                 = ToBytes(Unsigned(v, type.bits) * Pow2[type.shift], type.bytes)
                      [IF type.be THEN (type.bytes - j) + 1 ELSE j]
    <3>1. type.bits \in Nat /\ type.shift \in Nat /\ type.bytes \in Nat
      OBVIOUS
    <3> QED  BY <3>1, StoredIs
  <2>2. \A j \in 1..2 : r[j] = s[(2 - j) + 1]
    BY <1>1, <1>2, <1>5, <1>10, <2>1
  <2>3. r[1] = s[(2 - 1) + 1] /\ r[2] = s[(2 - 2) + 1]
    BY <2>2
  <2> QED  BY <1>10, <2>1, <2>3
<1>12. HasBytes(r, 0, 2) /\ Number(data, at, 2) = Number(r, 0, 2)
  BY <1>10, <1>11, BytesRead
<1>13. ASSUME NEW b, HasBytes(b, 0, 2), b[1] \in Bytes, b[2] \in Bytes
       PROVE  Number(b, 0, 2) = b[1] + b[2] * Byte
  <2>1. /\ Number(b, 0, 0 + 1) = Number(b, 0, 0) + b[0 + (0 + 1)] * Pow2[0 * ByteBits]
        /\ Number(b, 0, 1 + 1) = Number(b, 0, 1) + b[0 + (1 + 1)] * Pow2[1 * ByteBits]
    BY <1>13, NumberNext
  <2>2. Number(b, 0, 0) = 0
    BY <1>13, NumberDef
  <2>3. Pow2[0 * ByteBits] = 1 /\ Pow2[1 * ByteBits] = Byte
    <3>1. 0 * ByteBits = 0 /\ 1 * ByteBits = ByteBits
      BY Widths
    <3> QED  BY <3>1, Pow2Def DEF Byte
  <2>4. b[1] \in Int /\ b[2] \in Int
    BY <1>3, <1>13 DEF Bytes
  <2> QED  BY <1>3, <2>1, <2>2, <2>3, <2>4
<1>14. word = s[1] + s[2] * Byte
  BY <1>7, <1>8, <1>9, <1>13
<1>15. Number(data, at, 2) = s[2] + s[1] * Byte
  BY <1>9, <1>11, <1>12, <1>13
<1>16. s[1] \in 0..(Byte - 1) /\ s[2] \in 0..(Byte - 1)
  BY <1>9 DEF Bytes
<1>17. PICK low \in 0..(Byte - 1), high \in 0..(Byte - 1) : low = s[2] /\ high = s[1]
  BY <1>16
<1>18. (low + high * Byte) \div Byte = high /\ (low + high * Byte) % Byte = low
  <2>1. PICK d \in Nat \ {0} : d = Byte
    BY <1>3
  <2>2. PICK q \in Int, rest \in 0..(d - 1) : q = high /\ rest = low
    BY <1>17, <2>1
  <2>3. PICK half \in Int : half = rest + q * d
    BY <2>1, <2>2
  <2>4. half = d * q + rest
    BY <2>3
  <2>5. half \div d = q /\ half % d = rest
    BY <2>4, DivUnique
  <2> QED  BY <2>1, <2>2, <2>3, <2>5
<1>19. SwapBytes(low + high * Byte) = low * Byte + high
  BY <1>18 DEF SwapBytes
<1>20. low * Byte + high = high + low * Byte
  BY <1>3, <1>17
<1> QED  BY <1>1, <1>2, <1>14, <1>15, <1>17, <1>19, <1>20

\* A value of four bytes, little-endian, that fits its type.
LEMMA FourBytesRight ==
    ASSUME NEW v \in Int, NEW info, info.bytes = 4, info.bits \in Nat \ {0}, info.shift \in Nat,
           info.bits + info.shift <= WordBits,
           NEW word, word = Unsigned(v, info.bits) * Pow2[info.shift]
    PROVE  /\ Signed(v, info.bits) = v => DecodeSigned(word, info) = v
           /\ info.bits < WordBits /\ Unsigned(v, info.bits) = v =>
                 DecodeUnsigned(word, info) = v /\ word = v * Pow2[info.shift]
<1>1. PICK bits \in Nat \ {0}, shift \in Nat : bits = info.bits /\ shift = info.shift
  OBVIOUS
<1>2. WordBits \in Nat /\ bits + shift <= WordBits
  BY <1>1, Widths
<1>3. /\ word \in 0..(Pow2[WordBits] - 1) /\ word \div Pow2[shift] = Unsigned(v, bits)
      /\ Unsigned(Unsigned(v, bits), bits) = Unsigned(v, bits)
      /\ Signed(Unsigned(v, bits), bits) = Signed(v, bits)
  BY <1>1, <1>2, ShiftedBack
<1>4. DecodeSigned(word, info) = Signed(word \div Pow2[info.shift], info.bits)
  BY <1>3, DecodeSignedRight
<1>5. ASSUME bits < WordBits, Unsigned(v, bits) = v
      PROVE  DecodeUnsigned(word, info) = v
  <2>1. word \in Nat /\ info.bits \in 0..(WordBits - 1) /\ info.shift \in 0..(WordBits - 1)
    BY <1>1, <1>2, <1>3, <1>5
  <2>2. DecodeUnsigned(word, info) = Unsigned(word \div Pow2[info.shift], info.bits)
    BY <2>1, DecodeUnsignedRight
  <2> QED  BY <1>1, <1>3, <1>5, <2>2
<1> QED  BY <1>1, <1>3, <1>4, <1>5

\* What a program makes of the bytes of a value, by their number.
Decodes(info, data, at, v) ==
    /\ info.bytes = 4 /\ info.signed => DecodeSigned(Number(data, at, 4), info) = v
    /\ info.bytes = 4 /\ ~info.signed => /\ DecodeUnsigned(Number(data, at, 4), info) = v
                                         /\ Number(data, at, 4) = v * Pow2[info.shift]
    /\ info.bytes = 2 => Print2Byte(Number(data, at, 2), info) = v
    /\ info.bytes = 8 /\ info.signed => Signed(Number(data, at, 8), 2 * WordBits) = v

LEMMA HIDDecodes ==
    ASSUME setup \in Setups, IsHID(setup), ParseReport(setup.device, setup.fields).ret = 0,
           NEW c \in Positions(setup), NEW reading \in [Positions(setup) -> Int],
           Types(setup)[c].bits <= WordBits, Fits(reading[c], Types(setup)[c]),
           NEW data, NEW at \in Nat, LiesAt(Stored(c, reading), at, data)
    PROVE  Decodes(Types(setup)[c], data, at, reading[c])
<1>1. PICK k \in 1..Len(setup.fields) :
         /\ setup.fields[k].usage = FirstUsage(setup.device) + c - 1
         /\ setup.fields[k].size \in Nat \ {0}
         /\ Types(setup)[c].bytes = 4 /\ Types(setup)[c].shift = 0
         /\ Types(setup)[c].bits = setup.fields[k].size * ByteBits
         /\ Types(setup)[c].bits \in Nat \ {0} /\ Types(setup)[c].signed = TRUE
  BY HIDType
<1> PICK type : type = Types(setup)[c]
  OBVIOUS
<1>2. PICK size \in Nat \ {0}, v \in Int :
         size = setup.fields[k].size /\ type = Types(setup)[c] /\ v = reading[c]
  BY <1>1
<1>3. /\ type.bytes = 4 /\ type.shift = 0 /\ type.bits = size * ByteBits
      /\ type.bits \in Nat \ {0} /\ type.signed = TRUE /\ type.bits <= WordBits
  BY <1>1, <1>2
<1>4. size <= 4
  <2>1. size * ByteBits <= 4 * ByteBits
    BY <1>3 DEF WordBits
  <2> QED  BY <2>1, Widths
<1>5. PICK word : word = CapturedReading(setup, reading)[c]
  OBVIOUS
<1>6. word \in 0..(Pow2[WordBits] - 1) /\ word % Pow2[type.bits] = Unsigned(v, type.bits)
  <2>1. c \in 1..ChannelCount(setup.device)
    BY HIDWords
  <2>2. /\ word \in 0..(Pow2[WordBits] - 1)
        /\ setup.fields[k].size <= 4 =>
              word % Pow2[setup.fields[k].size * ByteBits]
                 = Unsigned(reading[c], setup.fields[k].size * ByteBits)
    BY <1>1, <1>5, <2>1, HIDWords
  <2> QED  BY <1>2, <1>3, <1>4, <2>2
<1>7. Pow2[WordBits] \in Nat /\ WordBits = 4 * ByteBits
  BY Widths, Pow2Positive DEF WordBits
<1>8. Number(data, at, 4) = word
  <2>1. word \in Nat /\ word <= Pow2[4 * ByteBits] - 1
    BY <1>6, <1>7
  <2>2. LiesAt(ToBytes(word, 4), at, data)
    BY <1>5 DEF Stored
  <2> QED  BY <2>1, <2>2, WordRead
<1>9. DecodeSigned(word, type) = Signed(word, type.bits)
  <2>1. type.bits + type.shift <= WordBits /\ type.shift \in Nat
    BY <1>3, Widths
  <2>2. DecodeSigned(word, type) = Signed(word \div Pow2[type.shift], type.bits)
    BY <1>3, <1>6, <2>1, DecodeSignedRight
  <2>3. Pow2[type.shift] = 1
    BY <1>3, Pow2Def
  <2>4. word \div 1 = word
    BY <1>6, <1>7
  <2> QED  BY <2>2, <2>3, <2>4
<1>10. Signed(word, type.bits) = Signed(v, type.bits)
  <2>1. PICK bits \in Nat \ {0} : bits = type.bits
    BY <1>3
  <2>2. Unsigned(word, bits) = Unsigned(v, bits)
    BY <1>6, <2>1 DEF Unsigned
  <2>3. word \in Int
    BY <1>6, <1>7
  <2> QED  BY <2>1, <2>2, <2>3, SignedOfBits
<1>11. Signed(v, type.bits) = v
  BY <1>2, <1>3 DEF Fits
<1>12. Decodes(type, data, at, v)
  BY <1>3, <1>8, <1>9, <1>10, <1>11 DEF Decodes
<1> QED  BY <1>2, <1>12

LEMMA ForeignDecodes ==
    ASSUME NEW c \in 1..5, NEW v \in Int, Fits(v, ForeignTypes[c]),
           NEW data, NEW at \in Nat, LiesAt(StoredBytes(v, ForeignTypes[c]), at, data)
    PROVE  Decodes(ForeignTypes[c], data, at, v)
<1>1. PICK type : type = ForeignTypes[c]
  OBVIOUS
<1>2. Fits(v, type) /\ LiesAt(StoredBytes(v, type), at, data)
  BY <1>1
<1>3. ByteBits \in Nat \ {0} /\ WordBits = 4 * ByteBits /\ WordBits \in Nat \ {0}
  BY Widths DEF WordBits
<1>4. CASE c = 1
  <2>1. /\ type.be = TRUE /\ type.signed = TRUE /\ type.bytes = 2
        /\ type.bits = 2 * ByteBits - ByteBits \div 2 /\ type.shift = ByteBits \div 2
        /\ ByteBits \div 2 \in Nat /\ ByteBits \div 2 < ByteBits
    BY <1>1, <1>4, ForeignTypesAre
  <2>2. PICK bits \in Nat \ {0}, shift \in Nat :
           /\ bits = type.bits /\ shift = type.shift /\ bits + shift = 2 * ByteBits
           /\ shift \in 0..(WordBits - 1)
    <3>1. PICK half \in Nat : half = ByteBits \div 2 /\ half < ByteBits
      BY <2>1
    <3>2. 2 * ByteBits - half \in Nat \ {0} /\ half \in 0..(WordBits - 1)
      BY <1>3, <3>1
    <3>3. (2 * ByteBits - half) + half = 2 * ByteBits
      BY <1>3, <3>1
    <3> QED  BY <2>1, <3>1, <3>2, <3>3
  <2>3. PICK half : half = Number(data, at, 2)
    OBVIOUS
  <2>4. SwapBytes(half) = Unsigned(v, bits) * Pow2[shift]
    <3>1. type.bits \in Nat \ {0} /\ type.shift \in Nat /\ type.bits + type.shift <= 2 * ByteBits
      BY <1>3, <2>2
    <3>2. SwapBytes(Number(data, at, 2)) = Unsigned(v, type.bits) * Pow2[type.shift]
      BY <1>2, <2>1, <3>1, BigRead
    <3> QED  BY <2>2, <2>3, <3>2
  <2>5. /\ SwapBytes(half) \div Pow2[shift] = Unsigned(v, bits)
        /\ Unsigned(Unsigned(v, bits), bits) = Unsigned(v, bits)
        /\ Signed(Unsigned(v, bits), bits) = Signed(v, bits)
    <3>1. 2 * ByteBits \in Nat /\ bits + shift <= 2 * ByteBits
      BY <1>3, <2>2
    <3> QED  BY <2>4, <3>1, ShiftedBack
  <2>6. Signed(v, bits) = v
    BY <1>2, <2>1, <2>2 DEF Fits
  <2>7. Count(shift) = shift
    BY <1>3, <2>2, CountSmall
  <2>8. Print2Byte(half, type) = v
    BY <2>1, <2>2, <2>5, <2>6, <2>7 DEF Print2Byte, ShiftRight
  <2>9. Decodes(type, data, at, v)
    BY <2>1, <2>3, <2>8 DEF Decodes
  <2> QED  BY <1>1, <2>9
<1>5. CASE c \in {2, 3, 4}
  <2>1. /\ type.be = FALSE /\ type.bytes = 4
        /\ type.bits \in Nat \ {0} /\ type.shift \in Nat
        /\ type.bits + type.shift <= WordBits
        /\ type.signed = TRUE \/ (type.signed = FALSE /\ type.bits < WordBits)
    <3>1. CASE c = 2
      BY <1>1, <1>3, <3>1, ForeignTypesAre
    <3>2. CASE c = 3
      BY <1>1, <1>3, <3>2, ForeignTypesAre
    <3>3. CASE c = 4
      BY <1>1, <1>3, <3>3, ForeignTypesAre
    <3> QED  BY <1>5, <3>1, <3>2, <3>3
  <2>2. PICK word : word = Number(data, at, 4)
    OBVIOUS
  <2>3. word = Unsigned(v, type.bits) * Pow2[type.shift]
    <3>1. type.bits + type.shift <= type.bytes * ByteBits /\ type.bytes \in Nat
      BY <1>3, <2>1
    <3>2. Number(data, at, type.bytes) = Unsigned(v, type.bits) * Pow2[type.shift]
      BY <1>2, <2>1, <3>1, LittleRead
    <3> QED  BY <2>1, <2>2, <3>2
  <2>4. /\ Signed(v, type.bits) = v => DecodeSigned(word, type) = v
        /\ type.bits < WordBits /\ Unsigned(v, type.bits) = v =>
              DecodeUnsigned(word, type) = v /\ word = v * Pow2[type.shift]
    BY <2>1, <2>3, FourBytesRight
  <2>5. Decodes(type, data, at, v)
    BY <1>2, <2>1, <2>2, <2>4 DEF Decodes, Fits
  <2> QED  BY <1>1, <2>5
<1>6. CASE c = 5
  <2>1. /\ type.be = FALSE /\ type.signed = TRUE /\ type.bytes = 8
        /\ type.bits = 2 * WordBits /\ type.shift = 0
    BY <1>1, <1>6, ForeignTypesAre
  <2> PICK word : word = Number(data, at, 8)
    OBVIOUS
  <2>2. PICK bits \in Nat \ {0} : word = Number(data, at, 8) /\ bits = 2 * WordBits
    BY <1>3
  <2>3. word = Unsigned(v, bits) * Pow2[0]
    <3>1. /\ type.bits + type.shift <= type.bytes * ByteBits /\ type.bytes \in Nat
          /\ type.bits \in Nat \ {0} /\ type.shift \in Nat
      BY <1>3, <2>1
    <3>2. Number(data, at, type.bytes) = Unsigned(v, type.bits) * Pow2[type.shift]
      BY <1>2, <2>1, <3>1, LittleRead
    <3> QED  BY <2>1, <2>2, <3>2
  <2>4. Unsigned(v, bits) \in Nat
    BY UnsignedNat
  <2>5. word = Unsigned(v, bits)
    <3>1. Pow2[0] = 1
      BY Pow2Def
    <3> QED  BY <2>3, <2>4, <3>1
  <2>6. Signed(word, bits) = Signed(v, bits)
    <3>1. bits + 0 <= bits /\ 0 \in Nat
      OBVIOUS
    <3>2. Signed(Unsigned(v, bits), bits) = Signed(v, bits)
      BY <3>1, ShiftedBack
    <3> QED  BY <2>5, <3>2
  <2>7. Decodes(type, data, at, v)
    BY <1>2, <2>1, <2>2, <2>6 DEF Decodes, Fits
  <2> QED  BY <1>1, <2>7
<1> QED  BY <1>4, <1>5, <1>6

LEMMA LiesLies ==
    ASSUME NEW S, NEW part \in Seq(S), NEW mid \in Seq(S), NEW all \in Seq(S),
           NEW at \in Nat, NEW from \in Nat, LiesAt(part, at, mid), LiesAt(mid, from, all)
    PROVE  LiesAt(part, from + at, all)
<1>1. Len(part) \in Nat /\ Len(mid) \in Nat /\ Len(all) \in Nat
  OBVIOUS
<1>2. (from + at) + Len(part) <= Len(all)
  BY <1>1 DEF LiesAt
<1>3. ASSUME NEW j \in 1..Len(part)  PROVE  all[(from + at) + j] = part[j]
  <2>1. at + j \in 1..Len(mid) /\ from + (at + j) = (from + at) + j
    BY <1>1 DEF LiesAt
  <2>2. all[from + (at + j)] = mid[at + j]
    BY <2>1 DEF LiesAt
  <2>3. mid[at + j] = part[j]
    BY DEF LiesAt
  <2> QED  BY <2>1, <2>2, <2>3
<1> QED  BY <1>2, <1>3 DEF LiesAt

LEMMA EntryDecodes ==
    ASSUME NEW c, NEW type, NEW data, NEW at, NEW v, Decodes(type, data, at, v)
    PROVE  Decodes(Info(c, type), data, at, v)
<1>1. PICK info : info = Info(c, type)
  OBVIOUS
<1>2. /\ info.be = type.be /\ info.signed = type.signed /\ info.bits = type.bits
      /\ info.bytes = type.bytes /\ info.shift = type.shift
  BY <1>1 DEF Info, ChannelInfo
<1>3. \A word : DecodeSigned(word, info) = DecodeSigned(word, type)
  BY <1>2 DEF DecodeSigned
<1>4. \A word : DecodeUnsigned(word, info) = DecodeUnsigned(word, type)
  BY <1>2 DEF DecodeUnsigned
<1>5. \A half : Print2Byte(half, info) = Print2Byte(half, type)
  BY <1>2 DEF Print2Byte
<1>6. Decodes(info, data, at, v)
  BY <1>2, <1>3, <1>4, <1>5 DEF Decodes
<1> QED  BY <1>1, <1>6

\* The bytes of the fifo's readings, one datum behind the other.
LEMMA DataType ==
    ASSUME BasicInv, fifo \in Seq(Readings(setup))
    PROVE  /\ Data \in Seq(Bytes)
           /\ fifo = <<>> => Data = <<>>
           /\ \A k \in 1..Len(fifo) : fifo[k] \in [Positions(setup) -> Int]
<1>1. \A k \in 1..Len(fifo) : fifo[k] \in [Positions(setup) -> Int]
  <2> TAKE k \in 1..Len(fifo)
  <2>1. fifo[k] \in Readings(setup)
    OBVIOUS
  <2> QED  BY <2>1, ReadingsAssumption DEF BasicInv
<1> DEFINE n == Len(fifo)  seqs == [i \in DOMAIN fifo |-> Datum(fifo[i])]
<1>2. n \in Nat /\ DOMAIN fifo = 1..n
  OBVIOUS
<1>3. \A i \in 1..n : seqs[i] = Datum(fifo[i]) /\ Datum(fifo[i]) \in Seq(Bytes)
  BY <1>1, <1>2, DatumType
<1>4. seqs = [i \in 1..n |-> seqs[i]]
  BY <1>2
<1>5. Data = FlattenSeq(seqs)
  BY DEF Data
<1> HIDE DEF seqs, n
<1>6. seqs \in [1..n -> Seq(Bytes)]
  BY <1>3, <1>4
<1>7. seqs \in Seq(Seq(Bytes)) /\ Len(seqs) = n
  BY <1>2, <1>6, FunctionSeq
<1>8. PICK upto : Flattens(upto, seqs, Bytes) /\ FlattenSeq(seqs) = upto[Len(seqs)]
  BY <1>7, FlattenUpto
<1>9. upto[Len(seqs)] \in Seq(Bytes)
  BY <1>2, <1>7, <1>8 DEF Flattens
<1>10. fifo = <<>> => upto[Len(seqs)] = <<>>
  BY <1>7, <1>8 DEF Flattens, n
<1> QED  BY <1>1, <1>5, <1>8, <1>9, <1>10

LEMMA DataHolds ==
    ASSUME BasicInv, ArrayInv, pc \in Runs, Tidy, fifo \in Seq(Readings(setup))
    PROVE  /\ Len(Data) = Len(fifo) * ScanSize(array)
           /\ \A k \in 1..Len(fifo) :
                 LiesAt(Datum(fifo[k]), (k - 1) * ScanSize(array), Data)
<1> DEFINE n == Len(fifo)  seqs == [i \in DOMAIN fifo |-> Datum(fifo[i])]
<1>1. n \in Nat /\ DOMAIN fifo = 1..n
  OBVIOUS
<1>2. \A i \in 1..n : fifo[i] \in [Positions(setup) -> Int]
  BY DataType
<1>3. \A i \in 1..n : /\ seqs[i] = Datum(fifo[i]) /\ Datum(fifo[i]) \in Seq(Bytes)
                      /\ Len(Datum(fifo[i])) = ScanSize(array)
  BY <1>1, <1>2, DatumType, DatumHolds
<1>4. seqs = [i \in 1..n |-> seqs[i]]
  BY <1>1
<1>5. Data = FlattenSeq(seqs)
  BY DEF Data
<1> HIDE DEF seqs, n
<1>6. seqs \in [1..n -> Seq(Bytes)]
  BY <1>3, <1>4
<1>7. seqs \in Seq(Seq(Bytes)) /\ Len(seqs) = n
  BY <1>1, <1>6, FunctionSeq
<1>8. PICK size \in Nat : size = ScanSize(array)
  BY TidyMatches, ScanSizeType DEF Matches
<1>9. \A i \in 1..Len(seqs) : Len(seqs[i]) = size
  BY <1>3, <1>7, <1>8
<1>10. /\ Len(FlattenSeq(seqs)) = Len(seqs) * size
       /\ \A i \in 1..Len(seqs) : LiesAt(seqs[i], (i - 1) * size, FlattenSeq(seqs))
  BY <1>7, <1>9, EvenParts
<1> QED  BY <1>3, <1>5, <1>7, <1>8, <1>10 DEF n

\* Nothing but another channel stands between channel c and its value.
Whole(c, v) ==
    /\ Tidy /\ Fits(v, Types(setup)[c])
    /\ IsHID(setup) => 1..c \subseteq enabled /\ Types(setup)[c].bits <= WordBits

LEMMA ReadRight ==
    ASSUME BasicInv, ArrayInv, pc \in Runs, fifo \in Seq(Readings(setup)),
           NEW k \in 1..Len(fifo), NEW i \in 1..Len(array),
           Whole(array[i].index + 1, fifo[k][array[i].index + 1])
    PROVE  Decodes(array[i], Data, (k - 1) * ScanSize(array) + LocationOf(array, i),
                   fifo[k][array[i].index + 1])
<1>1. Tidy
  BY DEF Whole
<1>2. PICK c : c = array[i].index + 1
  OBVIOUS
<1>3. /\ Matches(array, enabled) /\ c \in Positions(setup)
      /\ array[i] = Info(c, Types(setup)[c])
  BY <1>1, <1>2, TidyMatches
<1>4. PICK reading \in [Positions(setup) -> Int] : reading = fifo[k]
  BY DataType
<1>5. PICK datum \in Seq(Bytes) : datum = Datum(reading)
  BY DatumType
<1>6. PICK at \in Nat, from \in Nat, v \in Int :
         /\ at = LocationOf(array, i) /\ from = (k - 1) * ScanSize(array)
         /\ v = reading[c]
  <2>1. LocationOf(array, i) \in Nat /\ ScanSize(array) \in Nat
    BY <1>3, LayoutHolds, ScanSizeType DEF Matches
  <2>2. k - 1 \in Nat
    OBVIOUS
  <2>3. (k - 1) * ScanSize(array) \in Nat
    BY <2>1, <2>2
  <2>4. reading[c] \in Int
    BY <1>3
  <2> QED  BY <2>1, <2>3, <2>4
<1>7. LiesAt(Stored(c, reading), at, datum)
  <2>1. IsHID(setup) => 1..c \subseteq enabled
    BY <1>2 DEF Whole
  <2> QED  BY <1>1, <1>2, <1>5, <1>6, <2>1, DatumHolds
<1>8. LiesAt(datum, from, Data) /\ Data \in Seq(Bytes)
  BY <1>1, <1>4, <1>5, <1>6, DataHolds, DataType
<1>9. Fits(v, Types(setup)[c])
  BY <1>2, <1>4, <1>6 DEF Whole
<1>10. from + at \in Nat
  OBVIOUS
<1>11. Decodes(Types(setup)[c], Data, from + at, v)
  <2>1. CASE IsHID(setup)
    <3>1. CapturedReading(setup, reading)[c] \in Int
      <4>1. CapturedReading(setup, reading) \in [Positions(setup) -> Int]
        BY <2>1, HIDWords DEF BasicInv
      <4> QED  BY <1>3, <4>1
    <3>2. Stored(c, reading) \in Seq(Bytes)
      BY <2>1, <3>1, NumberOfBytes DEF Stored, Bytes
    <3>3. LiesAt(Stored(c, reading), from + at, Data)
      BY <1>7, <1>8, <3>2, LiesLies
    <3>4. ParseReport(setup.device, setup.fields).ret = 0 /\ setup \in Setups
      BY <2>1 DEF BasicInv, Runs
    <3>5. Types(setup)[c].bits <= WordBits
      BY <1>2, <2>1 DEF Whole
    <3> QED  BY <1>3, <1>6, <1>9, <1>10, <2>1, <3>3, <3>4, <3>5, HIDDecodes
  <2>2. CASE ~IsHID(setup)
    <3>1. Positions(setup) = 1..5 /\ Types(setup) = ForeignTypes
      BY <2>2 DEF Positions, Names, Types
    <3>2. Stored(c, reading) = StoredBytes(v, ForeignTypes[c])
      BY <1>6, <2>2 DEF Stored
    <3>3. c \in 1..5 /\ reading \in [1..5 -> Int]
      BY <1>3, <3>1
    <3>4. Stored(c, reading) \in Seq(Bytes)
      BY <1>6, <3>2, <3>3, ForeignStored
    <3>5. LiesAt(StoredBytes(v, ForeignTypes[c]), from + at, Data)
      BY <1>7, <1>8, <3>2, <3>4, LiesLies
    <3>6. Fits(v, ForeignTypes[c])
      BY <1>9, <3>1
    <3>7. Decodes(ForeignTypes[c], Data, from + at, v)
      BY <1>10, <3>3, <3>5, <3>6, ForeignDecodes
    <3> QED  BY <3>1, <3>7
  <2> QED  BY <2>1, <2>2
<1>12. Decodes(array[i], Data, from + at, v)
  BY <1>3, <1>11, EntryDecodes
<1> QED  BY <1>2, <1>4, <1>6, <1>12

-----------------------------------------------------------------------------
\* What was read, and what it was decoded to.

\* The channels that have an axis's value of four bytes.
Taken ==
    {array[i].index + 1 : i \in {j \in DOMAIN array :
        /\ FourBytes(array[j])
        /\ \E a \in DOMAIN AxisNames : array[j].name = AxisNames[a]}}

\* There are readings only while the buffer is on, and a layout once one waits.
FifoInv ==
    /\ fifo \in Seq(Readings(setup)) /\ Len(fifo) <= MaxScans
    /\ fifo # <<>> => buffer /\ pc \in {"wait", "stop", "crashed"}
    /\ pc \in {"wait", "stop"} => LayoutDivides(array)
    /\ scans \in Int /\ scans >= -1

\* Only hinge keeps values, and always of the same channels.
KeptInv ==
    /\ DOMAIN kept \subseteq Positions(setup)
    /\ pc \notin Runs \cup {"gone", "crashed"} => kept = <<>>
    /\ IF setup.program = "hinge"
       THEN pc \in Runs => DOMAIN kept \subseteq Taken
       ELSE pc # "stop" => kept = <<>>
    /\ pc # "stop" => out = <<>>

\* What a program shows after a read is decoded from what is in the buffer.
Decoded ==
    /\ setup.program = "light" => out = <<>> \/ \E value \in Int : out = <<BacklightFor(value)>>
    /\ setup.program = "orientation" => out = <<>> \/ \E edge \in Edges : out = <<edge>>
    /\ setup.program \in {"hinge", "generic_buffer"} => out = <<>>
    /\ HasScans =>
          /\ fifo # <<>>
          /\ setup.program # "light" => array # <<>> /\ scans = Len(Data) \div ScanSize(array)
          /\ setup.program \in {"orientation", "hinge"} => kept = ProcessScan3(Data, scans)
          /\ setup.program = "orientation" => \E edge \in EdgesOf(kept) : out = <<edge>>
          /\ setup.program = "generic_buffer" => kept = PrintScan(Data, scans)
          /\ setup.program = "light" =>
                /\ scans = 1
                /\ \/ kept = <<>>
                   \/ LET value == DecodeSigned(Number(Data, 0, 4), array[1])
                      IN  /\ Len(array) = 1 /\ FourBytes(array[1]) /\ array[1].signed
                          /\ kept = [c \in {array[1].index + 1} |-> value]
                          /\ out = <<BacklightFor(value)>>

ResultInv == FifoInv /\ KeptInv /\ Decoded

LEMMA TakenTypes ==
    ASSUME BasicInv, ArrayInv
    PROVE  /\ \A i \in DOMAIN array : array[i].index + 1 \in Positions(setup)
           /\ Taken \subseteq Positions(setup)
           /\ DOMAIN array = 1..Len(array) /\ Len(array) \in Nat
<1>1. array \in Seq(Entries) /\ setup \in Setups
  BY DEF ArrayInv, BasicInv
<1>2. DOMAIN array = 1..Len(array) /\ Len(array) \in Nat
  BY <1>1
<1>3. \A i \in DOMAIN array : array[i].index + 1 \in Positions(setup)
  <2> TAKE i \in DOMAIN array
  <2>1. array[i] \in Entries
    BY <1>1
  <2>2. PICK c \in Positions(setup) : c \in 1..Total /\ array[i].index = c - 1
    BY <1>1, <2>1, EntryFacts
  <2>3. array[i].index + 1 = c
    BY <2>2
  <2> QED  BY <2>2, <2>3
<1> QED  BY <1>2, <1>3 DEF Taken

\* An entry's type, read or left in memory.
LEMMA EntryTypes ==
    ASSUME BasicInv, ArrayInv, pc \in Runs, NEW i \in 1..Len(array)
    PROVE  array[i].bytes \in Nat /\ array[i].bits \in Nat /\ array[i].shift \in Nat
<1>1. array[i] \in Entries
  BY DEF ArrayInv
<1>2. PICK c \in Positions(setup) :
         \/ array[i] = Info(c, Types(setup)[c])
         \/ \E type \in JunkTypes : array[i] = Info(c, type)
  BY <1>1, EntryFacts DEF BasicInv
<1>3. ASSUME NEW type, array[i] = Info(c, type),
             type.bytes \in Nat /\ type.bits \in Nat /\ type.shift \in Nat
      PROVE  array[i].bytes \in Nat /\ array[i].bits \in Nat /\ array[i].shift \in Nat
  BY <1>3 DEF Info, ChannelInfo
<1>4. CASE array[i] = Info(c, Types(setup)[c])
  <2>1. Types(setup)[c].bytes \in Nat /\ Types(setup)[c].bits \in Nat
        /\ Types(setup)[c].shift \in Nat
    BY TypeFacts DEF BasicInv, Runs
  <2> QED  BY <1>3, <1>4, <2>1
<1>5. CASE \E type \in JunkTypes : array[i] = Info(c, type)
  <2>1. PICK type \in JunkTypes : array[i] = Info(c, type)
    BY <1>5
  <2>2. 0 \div ByteBits = 0 /\ WordBits \div ByteBits = 4 /\ WordBits \in Nat
    <3>1. 0 \div ByteBits = 0
      BY Widths, ModSmall
    <3>2. WordBits \div ByteBits = 4
      BY Widths, DivUnique DEF WordBits
    <3> QED  BY <3>1, <3>2, Widths
  <2>3. \/ type.bytes = 0 \div ByteBits /\ type.bits = 0 /\ type.shift = 0
        \/ type.bytes = WordBits \div ByteBits /\ type.bits = WordBits /\ type.shift = 1
    BY <2>1 DEF JunkTypes, TypeRecord
  <2> QED  BY <1>3, <2>1, <2>2, <2>3
<1> QED  BY <1>2, <1>4, <1>5

\* What was laid out has sizes.
LEMMA LaidOut ==
    ASSUME BasicInv, ArrayInv, LayoutDivides(array), pc \in Runs
    PROVE  /\ HaveBytes(array)
           /\ array # <<>> => ScanSize(array) \in Nat \ {0}
<1>1. array \in Seq(Entries)
  BY DEF ArrayInv
<1>2. ASSUME NEW i \in 1..Len(array)  PROVE  array[i].bytes \in Nat \ {0}
  <2>1. array[i].bytes \in Nat /\ i \in DOMAIN array
    BY <1>1, EntryTypes
  <2>2. array[i].bytes > 0
    BY <2>1 DEF LayoutDivides
  <2> QED  BY <2>1, <2>2
<1>3. HaveBytes(array)
  BY <1>1, <1>2 DEF HaveBytes
<1>4. ScanSize(array) \in Nat /\ ScanSize(array) >= Len(array)
  BY <1>3, ScanSizeType
<1>5. array # <<>> => Len(array) > 0
  BY <1>1
<1> QED  BY <1>1, <1>3, <1>4, <1>5

LEMMA ResultInit == Init => ResultInv
<1> SUFFICES ASSUME Init  PROVE  ResultInv
  OBVIOUS
<1>1. <<>> \in Seq(Readings(setup)) /\ Len(<<>>) = 0 /\ DOMAIN <<>> = {}
  BY EmptySeq
<1>2. MaxScans \in Nat
  BY BoundsAssumption
<1>3. FifoInv
  BY <1>1, <1>2 DEF Init, FifoInv
<1>4. KeptInv
  BY <1>1 DEF Init, KeptInv, Runs
<1>5. Decoded
  BY DEF Init, Decoded, HasScans
<1> QED  BY <1>3, <1>4, <1>5 DEF ResultInv

\* Steps before a call, or after it.
LEMMA ResultKept ==
    ASSUME BasicInv, ResultInv, [Next]_vars, UNCHANGED result,
           pc \notin {"wait", "stop", "gone", "crashed"}, pc' # "stop",
           pc' = "wait" => LayoutDivides(array'),
           pc' \in Runs => pc \notin Runs \/ array' = array,
           pc \in Runs => setup.program # "hinge" \/ pc' \in Runs \cup {"gone", "crashed"}
    PROVE  ResultInv'
<1>1. setup' = setup /\ fifo' = fifo /\ scans' = scans /\ kept' = kept /\ out' = out
  BY StepKeeps DEF result
<1>2. fifo = <<>>
  BY DEF ResultInv, FifoInv
<1>3. FifoInv'
  BY <1>1, <1>2 DEF ResultInv, FifoInv
<1>4. out = <<>>
  BY DEF ResultInv, KeptInv
<1>5. KeptInv'
  <2>1. DOMAIN kept' \subseteq Positions(setup')
    BY <1>1 DEF ResultInv, KeptInv
  <2>2. pc' # "stop" => out' = <<>>
    BY <1>1, <1>4
  <2>3. CASE setup.program # "hinge"
    <3>1. kept = <<>>
      BY <2>3 DEF ResultInv, KeptInv
    <3> QED  BY <1>1, <2>1, <2>2, <2>3, <3>1 DEF KeptInv
  <2>4. CASE setup.program = "hinge" /\ pc \notin Runs
    <3>1. kept = <<>>
      BY <2>4 DEF ResultInv, KeptInv
    <3>2. DOMAIN kept' = {}
      BY <1>1, <3>1
    <3> QED  BY <1>1, <2>1, <2>2, <2>4, <3>1, <3>2 DEF KeptInv
  <2>5. CASE setup.program = "hinge" /\ pc \in Runs
    <3>1. DOMAIN kept \subseteq Taken
      BY <2>5 DEF ResultInv, KeptInv
    <3>2. pc' \in Runs => Taken' = Taken
      BY <2>5 DEF Taken
    <3>3. pc' \in Runs \cup {"gone", "crashed"}
      BY <2>5
    <3> QED  BY <1>1, <2>1, <2>2, <2>5, <3>1, <3>2, <3>3 DEF KeptInv
  <2> QED  BY <2>3, <2>4, <2>5
<1>6. Decoded'
  BY <1>1, <1>4 DEF Decoded, HasScans
<1> QED  BY <1>3, <1>5, <1>6 DEF ResultInv

\* Steps of others, and the sensor's.
LEMMA ResultAside ==
    ASSUME BasicInv, ResultInv, [Next]_vars,
           setup' = setup, pc' = pc, array' = array, UNCHANGED <<scans, kept, out>>,
           \/ fifo' = fifo /\ ~buffer
           \/ /\ pc = "wait" /\ buffer /\ buffer' = buffer /\ Len(fifo) < MaxScans
              /\ \E reading \in Readings(setup) : fifo' = Append(fifo, reading)
    PROVE  ResultInv'
<1>1. FifoInv'
  <2>1. CASE fifo' = fifo /\ ~buffer
    <3>1. fifo = <<>>
      BY <2>1 DEF ResultInv, FifoInv
    <3> QED  BY <2>1, <3>1 DEF ResultInv, FifoInv
  <2>2. CASE /\ pc = "wait" /\ buffer /\ buffer' = buffer /\ Len(fifo) < MaxScans
             /\ \E reading \in Readings(setup) : fifo' = Append(fifo, reading)
    <3>1. PICK reading \in Readings(setup) : fifo' = Append(fifo, reading)
      BY <2>2
    <3>2. fifo \in Seq(Readings(setup))
      BY DEF ResultInv, FifoInv
    <3>3. fifo' \in Seq(Readings(setup)) /\ Len(fifo') = Len(fifo) + 1
      BY <3>1, <3>2, AppendProperties
    <3>4. MaxScans \in Nat /\ Len(fifo) \in Nat
      BY <3>2, BoundsAssumption
    <3>5. Len(fifo') <= MaxScans
      BY <2>2, <3>3, <3>4
    <3> QED  BY <2>2, <3>3, <3>5 DEF ResultInv, FifoInv
  <2> QED  BY <2>1, <2>2
<1>2. KeptInv'
  <2>1. Taken' = Taken
    BY DEF Taken
  <2> QED  BY <2>1 DEF ResultInv, KeptInv
<1>3. Decoded'
  <2>1. ~HasScans
    <3>1. CASE pc = "wait"
      BY <3>1 DEF HasScans
    <3>2. CASE ~buffer
      <4>1. fifo = <<>>
        BY <3>2 DEF ResultInv, FifoInv
      <4> QED  BY <4>1 DEF ResultInv, Decoded
    <3> QED  BY <3>1, <3>2
  <2>2. ~HasScans'
    BY <2>1 DEF HasScans
  <2> QED  BY <2>2 DEF ResultInv, Decoded
<1> QED  BY <1>1, <1>2, <1>3 DEF ResultInv

LEMMA DataSame ==
    ASSUME setup' = setup, fifo' = fifo, enabled' = enabled
    PROVE  Data' = Data
  BY DEF Data, Datum

LEMMA ResultSame ==
    ASSUME ResultInv, UNCHANGED vars
    PROVE  ResultInv'
<1>1. /\ setup' = setup /\ pc' = pc /\ array' = array /\ enabled' = enabled /\ buffer' = buffer
      /\ fifo' = fifo /\ scans' = scans /\ kept' = kept /\ out' = out
  BY DEF vars, device, pass, result
<1>2. Data' = Data
  BY <1>1, DataSame
<1>3. Taken' = Taken
  BY <1>1 DEF Taken
<1>4. FifoInv' /\ KeptInv'
  BY <1>1, <1>3 DEF ResultInv, FifoInv, KeptInv
<1>5. Decoded'
  <2>1. ProcessScan3(Data, scans)' = ProcessScan3(Data, scans)
    BY <1>1, <1>2 DEF ProcessScan3, ValueAt
  <2>2. PrintScan(Data, scans)' = PrintScan(Data, scans)
    BY <1>1, <1>2 DEF PrintScan
  <2>3. EdgesOf(kept)' = EdgesOf(kept)
    BY <1>1 DEF EdgesOf, AxisChannel
  <2> QED  BY <1>1, <1>2, <2>1, <2>2, <2>3 DEF ResultInv, Decoded, HasScans
<1> QED  BY <1>4, <1>5 DEF ResultInv

\* What every read has in common.
LEMMA ReadsKeep ==
    ASSUME BasicInv, ArrayInv, ResultInv, [Next]_vars,
           NEW program, NEW ok, Reads(program, ok)
    PROVE  /\ pc = "wait" /\ pc' = "stop" /\ setup' = setup /\ setup.program = program
           /\ array' = array /\ enabled' = enabled /\ buffer' = buffer /\ fifo' = fifo
           /\ Data' = Data /\ Taken' = Taken /\ out = <<>>
           /\ program # "hinge" => kept = <<>>
           /\ program = "hinge" => DOMAIN kept \subseteq Taken
           /\ scans' \in Int /\ scans' >= -1 => FifoInv'
<1>1. /\ pc = "wait" /\ pc' = "stop" /\ setup' = setup /\ setup.program = program
      /\ array' = array /\ enabled' = enabled /\ buffer' = buffer /\ fifo' = fifo
  BY DEF Reads, ReadNow, Goto, pass, device
<1>2. Data' = Data /\ Taken' = Taken
  BY <1>1, DataSame DEF Taken
<1>3. /\ out = <<>> /\ (program # "hinge" => kept = <<>>)
      /\ (program = "hinge" => DOMAIN kept \subseteq Taken)
  BY <1>1 DEF ResultInv, KeptInv, Runs
<1>4. scans' \in Int /\ scans' >= -1 => FifoInv'
  BY <1>1 DEF ResultInv, FifoInv
<1> QED  BY <1>1, <1>2, <1>3, <1>4

\* The same values before and after.
LEMMA ReadSame ==
    ASSUME array' = array, Data' = Data, setup' = setup
    PROVE  /\ ProcessScan3(Data, scans)' = ProcessScan3(Data, scans')
           /\ PrintScan(Data, scans)' = PrintScan(Data, scans')
           /\ EdgesOf(kept)' = EdgesOf(kept')
<1>1. ProcessScan3(Data, scans)' = ProcessScan3(Data, scans')
  BY DEF ProcessScan3, ValueAt
<1>2. PrintScan(Data, scans)' = PrintScan(Data, scans')
  BY DEF PrintScan
<1>3. EdgesOf(kept)' = EdgesOf(kept')
  BY DEF EdgesOf, AxisChannel
<1> QED  BY <1>1, <1>2, <1>3

\* How many scans a read gives.
LEMMA ScansType ==
    ASSUME BasicInv, ArrayInv, FifoInv, pc = "wait", array # <<>>, NEW ok
    PROVE  /\ ScansRead(ok) \in Int /\ ScansRead(ok) >= -1
           /\ ScansRead(ok) >= 1 => /\ fifo # <<>>
                                    /\ ScansRead(ok) = Len(Data) \div ScanSize(array)
<1>1. PICK size \in Nat \ {0} : size = ScanSize(array)
  BY LaidOut DEF FifoInv, Runs
<1>2. Data \in Seq(Bytes) /\ (fifo = <<>> => Data = <<>>)
  BY DataType DEF FifoInv
<1>3. PICK n \in Nat : n = Len(Data) /\ (fifo = <<>> => n = 0)
  BY <1>2
<1>4. PICK q \in Int : /\ q = n \div size /\ q >= 0 /\ (n = 0 => q = 0)
  <2>1. n \div size \in Int /\ n % size \in 0..(size - 1)
        /\ n = size * (n \div size) + (n % size)
    BY DivMod
  <2>2. PICK q \in Int, r \in 0..(size - 1) : q = n \div size /\ n = size * q + r
    BY <2>1
  <2>3. q >= 0
    <3>1. q <= -1 => size * q <= -size
      OBVIOUS
    <3> QED  BY <2>2, <3>1
  <2>4. n = 0 => q = 0
    <3>1. 0 \in 0..(size - 1)
      OBVIOUS
    <3> QED  BY <2>2, <3>1, ModSmall
  <2> QED  BY <2>2, <2>3, <2>4
<1> QED  BY <1>1, <1>3, <1>4 DEF ScansRead

LEMMA ValuesOf ==
    /\ \A data, scan :
          /\ DOMAIN ProcessScan3(data, scan) = Taken
          /\ ProcessScan3(data, scan)
                = [c \in Taken |-> ProcessScan3(data, scan)[c]]
    /\ \A data, scan :
          DOMAIN PrintScan(data, scan) \subseteq {array[i].index + 1 : i \in DOMAIN array}
<1>1. ASSUME NEW data, NEW scan
      PROVE  /\ DOMAIN ProcessScan3(data, scan) = Taken
             /\ ProcessScan3(data, scan) = [c \in Taken |-> ProcessScan3(data, scan)[c]]
  BY DEF ProcessScan3, Taken
<1>2. ASSUME NEW data, NEW scan
      PROVE  DOMAIN PrintScan(data, scan) \subseteq {array[i].index + 1 : i \in DOMAIN array}
  BY DEF PrintScan
<1> QED  BY <1>1, <1>2

LEMMA OverAll ==
    ASSUME NEW old, NEW new, DOMAIN old \subseteq DOMAIN new,
           new = [c \in DOMAIN new |-> new[c]]
    PROVE  Over(old, new) = new
<1>1. DOMAIN old \cup DOMAIN new = DOMAIN new
  OBVIOUS
<1>2. Over(old, new) = [c \in DOMAIN new |-> new[c]]
  BY <1>1 DEF Over
<1> QED  BY <1>2

LEMMA EdgesType == \A values : EdgesOf(values) \subseteq Edges
  BY DEF EdgesOf, Edges, EdgeOf

LEMMA ResultOrientation ==
    ASSUME BasicInv, ArrayInv, ResultInv, [Next]_vars, OrientationReads
    PROVE  ResultInv'
<1>1. PICK ok \in BOOLEAN :
         /\ array # <<>> /\ Reads("orientation", ok) /\ scans' = ScansRead(ok)
         /\ kept' = IF scans' < 1 THEN <<>> ELSE ProcessScan3(Data, scans')
         /\ \E edge \in IF scans' < 1 THEN {"FLAT"} ELSE EdgesOf(kept') : out' = <<edge>>
  BY DEF OrientationReads
<1>2. /\ pc = "wait" /\ pc' = "stop" /\ setup' = setup /\ setup.program = "orientation"
      /\ array' = array /\ enabled' = enabled /\ fifo' = fifo
      /\ Data' = Data /\ Taken' = Taken
      /\ scans' \in Int /\ scans' >= -1 => FifoInv'
  BY <1>1, ReadsKeep
<1>3. /\ scans' \in Int /\ scans' >= -1
      /\ scans' >= 1 => fifo # <<>> /\ scans' = Len(Data) \div ScanSize(array)
  BY <1>1, <1>2, ScansType DEF ResultInv
<1>4. FifoInv'
  BY <1>2, <1>3
<1>5. DOMAIN kept' \subseteq Positions(setup)
  <2>1. CASE scans' < 1
    BY <1>1, <2>1
  <2>2. CASE ~(scans' < 1)
    BY <1>1, <2>2, ValuesOf, TakenTypes
  <2> QED  BY <2>1, <2>2
<1>6. KeptInv'
  BY <1>2, <1>5 DEF KeptInv, Runs
<1>7. \E edge \in Edges : out' = <<edge>>
  BY <1>1, EdgesType DEF Edges
<1>8. HasScans' => /\ kept' = ProcessScan3(Data, scans')
                   /\ \E edge \in EdgesOf(kept') : out' = <<edge>>
  BY <1>1, <1>3 DEF HasScans
<1>9. HasScans' => fifo' # <<>> /\ array' # <<>> /\ scans' = Len(Data') \div ScanSize(array')
  BY <1>1, <1>2, <1>3 DEF HasScans
<1>10. Decoded'
  BY <1>2, <1>7, <1>8, <1>9, ReadSame DEF Decoded
<1> QED  BY <1>4, <1>6, <1>10 DEF ResultInv

LEMMA ResultHinge ==
    ASSUME BasicInv, ArrayInv, ResultInv, [Next]_vars, HingeReads
    PROVE  ResultInv'
<1>1. PICK ok \in BOOLEAN :
         /\ array # <<>> /\ Reads("hinge", ok) /\ scans' = ScansRead(ok)
         /\ kept' = IF scans' < 1 THEN kept ELSE Over(kept, ProcessScan3(Data, scans'))
         /\ out' = out
  BY DEF HingeReads
<1>2. /\ pc = "wait" /\ pc' = "stop" /\ setup' = setup /\ setup.program = "hinge"
      /\ array' = array /\ enabled' = enabled /\ fifo' = fifo
      /\ Data' = Data /\ Taken' = Taken /\ out = <<>> /\ DOMAIN kept \subseteq Taken
      /\ scans' \in Int /\ scans' >= -1 => FifoInv'
  BY <1>1, ReadsKeep
<1>3. /\ scans' \in Int /\ scans' >= -1
      /\ scans' >= 1 => fifo # <<>> /\ scans' = Len(Data) \div ScanSize(array)
  BY <1>1, <1>2, ScansType DEF ResultInv
<1>4. FifoInv'
  BY <1>2, <1>3
<1>5. ~(scans' < 1) => kept' = ProcessScan3(Data, scans')
  <2>1. PICK values : /\ values = ProcessScan3(Data, scans')
                      /\ DOMAIN values = Taken /\ values = [c \in Taken |-> values[c]]
    BY ValuesOf
  <2>2. Over(kept, values) = values
    BY <1>2, <2>1, OverAll
  <2> QED  BY <1>1, <2>1, <2>2
<1>6. DOMAIN kept' \subseteq Taken
  BY <1>1, <1>2, <1>5, ValuesOf
<1>7. KeptInv'
  BY <1>2, <1>6, TakenTypes DEF KeptInv, Runs
<1>8. HasScans' => /\ kept' = ProcessScan3(Data, scans') /\ fifo' # <<>> /\ array' # <<>>
                   /\ scans' = Len(Data') \div ScanSize(array')
  BY <1>1, <1>2, <1>3, <1>5 DEF HasScans
<1>9. Decoded'
  BY <1>1, <1>2, <1>8, ReadSame DEF Decoded
<1> QED  BY <1>4, <1>7, <1>9 DEF ResultInv

LEMMA ResultGeneric ==
    ASSUME BasicInv, ArrayInv, ResultInv, [Next]_vars, GenericReads
    PROVE  ResultInv'
<1>1. PICK ok \in BOOLEAN :
         /\ array # <<>> /\ Reads("generic_buffer", ok) /\ scans' = ScansRead(ok)
         /\ kept' = IF scans' < 1 THEN <<>> ELSE PrintScan(Data, scans')
         /\ out' = out
  BY DEF GenericReads
<1>2. /\ pc = "wait" /\ pc' = "stop" /\ setup' = setup /\ setup.program = "generic_buffer"
      /\ array' = array /\ enabled' = enabled /\ fifo' = fifo
      /\ Data' = Data /\ Taken' = Taken /\ out = <<>>
      /\ scans' \in Int /\ scans' >= -1 => FifoInv'
  BY <1>1, ReadsKeep
<1>3. /\ scans' \in Int /\ scans' >= -1
      /\ scans' >= 1 => fifo # <<>> /\ scans' = Len(Data) \div ScanSize(array)
  BY <1>1, <1>2, ScansType DEF ResultInv
<1>4. FifoInv'
  BY <1>2, <1>3
<1>5. DOMAIN kept' \subseteq Positions(setup)
  <2>1. CASE scans' < 1
    BY <1>1, <2>1
  <2>2. CASE ~(scans' < 1)
    <3>1. DOMAIN kept' \subseteq {array[i].index + 1 : i \in DOMAIN array}
      BY <1>1, <2>2, ValuesOf
    <3> QED  BY <3>1, TakenTypes
  <2> QED  BY <2>1, <2>2
<1>6. KeptInv'
  BY <1>2, <1>5 DEF KeptInv, Runs
<1>7. HasScans' => /\ kept' = PrintScan(Data, scans') /\ fifo' # <<>> /\ array' # <<>>
                   /\ scans' = Len(Data') \div ScanSize(array')
  BY <1>1, <1>2, <1>3 DEF HasScans
<1>8. Decoded'
  BY <1>1, <1>2, <1>7, ReadSame DEF Decoded
<1> QED  BY <1>4, <1>6, <1>8 DEF ResultInv

\* The word that light decodes.
LEMMA WordType ==
    ASSUME BasicInv, FifoInv
    PROVE  /\ Len(Data) \in Nat /\ (fifo = <<>> => Len(Data) = 0)
           /\ Len(Data) >= 4 => HasBytes(Data, 0, 4) /\ Number(Data, 0, 4) \in Int
           /\ JunkWords \subseteq Int
<1>1. Data \in Seq(Bytes) /\ (fifo = <<>> => Data = <<>>)
  BY DataType DEF FifoInv
<1>2. Len(Data) \in Nat /\ (fifo = <<>> => Len(Data) = 0)
  BY <1>1
<1>3. ASSUME Len(Data) >= 4
      PROVE  HasBytes(Data, 0, 4) /\ Number(Data, 0, 4) \in Int
  <2>1. \A i \in 1..4 : 0 + i \in 1..Len(Data) /\ 0 + i = i
    BY <1>2, <1>3
  <2>2. \A i \in 1..4 : Data[0 + i] \in Bytes
    BY <1>1, <2>1, ElementOfSeq
  <2>3. HasBytes(Data, 0, 4)
    BY <2>2 DEF HasBytes, Bytes
  <2>4. \A k \in 0..4 : Number(Data, 0, k) \in Int
    BY <2>3, NumberDef
  <2> QED  BY <2>3, <2>4
<1>4. JunkWords \subseteq Int
  <2>1. WordBits - 2 \in Nat
    BY Widths, ByteBitsAssumption DEF WordBits
  <2>2. Pow2[WordBits - 2] \in Nat \ {0}
    BY <2>1, Pow2Positive
  <2> QED  BY <2>2 DEF JunkWords
<1> QED  BY <1>2, <1>3, <1>4

LEMMA ResultLight ==
    ASSUME BasicInv, ArrayInv, ResultInv, [Next]_vars, LightReads
    PROVE  ResultInv'
<1> DEFINE takes == Len(array) = 1 /\ FourBytes(array[1]) /\ array[1].signed
<1>1. PICK ok \in BOOLEAN :
         /\ Reads("light", ok)
         /\ scans' = IF ~ok THEN -1 ELSE IF Len(Data) < 4 THEN 0 ELSE 1
         /\ IF ~takes THEN UNCHANGED <<kept, out>>
            ELSE \E word \in IF scans' < 1 THEN JunkWords ELSE {Number(Data, 0, 4)} :
                    /\ kept' = [c \in {array[1].index + 1} |-> DecodeSigned(word, array[1])]
                    /\ out' = <<BacklightFor(DecodeSigned(word, array[1]))>>
  BY DEF LightReads
<1>2. /\ pc = "wait" /\ pc' = "stop" /\ setup' = setup /\ setup.program = "light"
      /\ array' = array /\ enabled' = enabled /\ fifo' = fifo
      /\ Data' = Data /\ Taken' = Taken /\ out = <<>> /\ kept = <<>>
      /\ scans' \in Int /\ scans' >= -1 => FifoInv'
  BY <1>1, ReadsKeep
<1>3. Len(Data) \in Nat /\ (fifo = <<>> => Len(Data) = 0)
  BY WordType DEF ResultInv
<1>4. /\ scans' \in {-1, 0, 1} /\ (scans' >= 1 => fifo # <<>> /\ Len(Data) >= 4)
  BY <1>1, <1>3
<1>5. FifoInv'
  BY <1>2, <1>4
<1>6. CASE ~takes
  <2>1. kept' = <<>> /\ out' = <<>>
    BY <1>1, <1>2, <1>6
  <2>2. KeptInv'
    BY <1>2, <2>1 DEF KeptInv, Runs
  <2>3. HasScans' => scans' = 1 /\ fifo' # <<>>
    BY <1>2, <1>4 DEF HasScans
  <2>4. Decoded'
    BY <1>2, <2>1, <2>3 DEF Decoded
  <2> QED  BY <1>5, <2>2, <2>4 DEF ResultInv
<1>7. CASE takes
  <2>1. PICK word \in IF scans' < 1 THEN JunkWords ELSE {Number(Data, 0, 4)} :
           /\ kept' = [c \in {array[1].index + 1} |-> DecodeSigned(word, array[1])]
           /\ out' = <<BacklightFor(DecodeSigned(word, array[1]))>>
    BY <1>1, <1>7
  <2>2. word \in Int
    BY <1>4, WordType DEF ResultInv
  <2>3. 1 \in 1..Len(array) /\ 1 \in DOMAIN array
    BY <1>7, TakenTypes
  <2>4. array[1].bits \in Nat /\ array[1].shift \in Nat
    BY <1>2, <2>3, EntryTypes DEF Runs
  <2>5. DecodeSigned(word, array[1]) \in Int
    BY <2>2, <2>4, DecodeType
  <2>6. array[1].index + 1 \in Positions(setup)
    BY <2>3, TakenTypes
  <2>7. KeptInv'
    BY <1>2, <2>1, <2>6 DEF KeptInv, Runs
  <2>8. \E value \in Int : out' = <<BacklightFor(value)>>
    BY <2>1, <2>5
  <2>9. HasScans' => word = Number(Data, 0, 4) /\ scans' = 1 /\ fifo' # <<>>
    BY <1>2, <1>4 DEF HasScans
  <2>10. HasScans' =>
            LET value == DecodeSigned(Number(Data, 0, 4), array[1])'
            IN  /\ (Len(array) = 1 /\ FourBytes(array[1]) /\ array[1].signed)'
                /\ kept' = [c \in {array'[1].index + 1} |-> value]
                /\ out' = <<BacklightFor(value)>>
    BY <1>2, <1>7, <2>1, <2>9
  <2>11. Decoded'
    BY <1>2, <2>8, <2>9, <2>10 DEF Decoded
  <2> QED  BY <1>5, <2>7, <2>11 DEF ResultInv
<1> QED  BY <1>6, <1>7

LEMMA ResultDivides ==
    ASSUME BasicInv, ResultInv, [Next]_vars, ReadDivides
    PROVE  ResultInv'
<1>1. /\ pc = "wait" /\ pc' = "crashed" /\ setup' = setup /\ buffer' = buffer
      /\ fifo' = fifo /\ scans' = scans /\ kept' = kept /\ out' = out
  BY DEF ReadDivides, ReadNow, Goto, device, result
<1>2. out = <<>> /\ (setup.program # "hinge" => kept = <<>>)
  BY <1>1 DEF ResultInv, KeptInv
<1>3. FifoInv'
  BY <1>1 DEF ResultInv, FifoInv
<1>4. KeptInv'
  BY <1>1, <1>2 DEF ResultInv, KeptInv, Runs
<1>5. Decoded'
  BY <1>1, <1>2 DEF Decoded, HasScans
<1> QED  BY <1>3, <1>4, <1>5 DEF ResultInv

LEMMA ResultOff ==
    ASSUME BasicInv, ResultInv, [Next]_vars, GenericLoops \/ TurnOff
    PROVE  ResultInv'
<1>0. <<>> \in Seq(Readings(setup)) /\ Len(<<>>) = 0 /\ DOMAIN <<>> = {} /\ MaxScans \in Nat
  BY EmptySeq, BoundsAssumption
<1>1. CASE GenericLoops
  <2>1. /\ pc = "stop" /\ pc' = "wait" /\ setup' = setup /\ setup.program = "generic_buffer"
        /\ buffer' = buffer /\ array' = array
        /\ fifo' = fifo \/ fifo' = <<>>
        /\ scans' = 0 /\ kept' = <<>> /\ out' = out
    BY <1>1 DEF GenericLoops, Goto, device, pass
  <2>2. out = <<>>
    BY <2>1 DEF ResultInv, Decoded
  <2>3. FifoInv'
    <3>1. CASE fifo' = fifo
      BY <2>1, <3>1 DEF ResultInv, FifoInv
    <3>2. CASE fifo' = <<>>
      <4>1. fifo' \in Seq(Readings(setup')) /\ Len(fifo') <= MaxScans
        BY <1>0, <2>1, <3>2
      <4>2. LayoutDivides(array')
        BY <2>1 DEF ResultInv, FifoInv
      <4> QED  BY <2>1, <3>2, <4>1, <4>2 DEF FifoInv
    <3> QED  BY <2>1, <3>1, <3>2
  <2>4. KeptInv'
    BY <1>0, <2>1, <2>2 DEF KeptInv, Runs
  <2>5. Decoded'
    BY <2>1, <2>2 DEF Decoded, HasScans
  <2> QED  BY <2>3, <2>4, <2>5 DEF ResultInv
<1>2. CASE TurnOff
  <2>1. /\ pc = "stop" /\ pc' \in {"gone", "acquire"} /\ setup' = setup /\ array' = array
        /\ fifo' = <<>> /\ scans' = 0 /\ out' = <<>>
        /\ kept' = IF setup.program = "hinge" THEN kept ELSE <<>>
    BY <1>2 DEF TurnOff, Goto, pass
  <2>2. Taken' = Taken
    BY <2>1 DEF Taken
  <2>3. FifoInv'
    BY <1>0, <2>1 DEF FifoInv
  <2>4. KeptInv'
    BY <1>0, <2>1, <2>2 DEF ResultInv, KeptInv, Runs
  <2>5. Decoded'
    BY <2>1 DEF Decoded, HasScans
  <2> QED  BY <2>3, <2>4, <2>5 DEF ResultInv
<1> QED  BY <1>1, <1>2

LEMMA ResultNext == BasicInv /\ ArrayInv /\ ResultInv /\ [Next]_vars => ResultInv'
<1> SUFFICES ASSUME BasicInv, ArrayInv, ResultInv, [Next]_vars
             PROVE  ResultInv'
  OBVIOUS
<1>1. CASE UNCHANGED vars
  BY <1>1, ResultSame
<1>2. CASE FindDevice \/ NoDevice \/ HingeReturnsEarly
  <2>1. /\ UNCHANGED result /\ pc = "find" /\ pc' \in {"enable", "gone", "crashed"}
    BY <1>2 DEF FindDevice, NoDevice, HingeReturnsEarly, SetupFails, MainReturns,
       HingeGoesOn, Goto
  <2> QED  BY <2>1, ResultKept DEF Runs
<1>3. CASE EnableNext \/ EnableWriteFails \/ EnableReadFails
  <2>1. /\ UNCHANGED result /\ pc = "enable" /\ pc' \in {"enable", "trigger"}
    BY <1>3 DEF EnableNext, EnableWriteFails, EnableReadFails, Advance, Goto
  <2> QED  BY <2>1, ResultKept DEF Runs
<1>4. CASE FindTrigger \/ NoTrigger
  <2>1. /\ UNCHANGED result /\ pc = "trigger" /\ pc' \in {"count", "gone", "crashed"}
    BY <1>4 DEF FindTrigger, NoTrigger, SetupFails, MainReturns, HingeGoesOn, Goto
  <2> QED  BY <2>1, ResultKept DEF Runs
<1>5. CASE \/ CountNext \/ CountUnread \/ BuildFails
           \/ FillNext \/ SkipNext \/ FlagUnread \/ IndexMissing \/ DeviceReset
  <2>1. /\ UNCHANGED result /\ pc \in {"count", "fill"}
        /\ pc' \in {"count", "fill", "sort", "gone", "crashed"}
    <3>1. CASE CountNext \/ CountUnread \/ BuildFails
      BY <3>1 DEF CountNext, CountUnread, BuildFails, SetupFails, MainReturns,
         HingeGoesOn, Advance, Goto
    <3>2. CASE FillNext \/ SkipNext \/ FlagUnread
      BY <3>2 DEF FillNext, SkipNext, FlagUnread, TakeEntry, PassOver, Advance, Goto
    <3>3. CASE IndexMissing \/ DeviceReset
      BY <3>3 DEF IndexMissing, DeviceReset, Goto
    <3> QED  BY <1>5, <3>1, <3>2, <3>3
  <2> QED  BY <2>1, ResultKept DEF Runs
<1>6. CASE Sort
  <2>1. UNCHANGED result /\ pc = "sort" /\ pc' \in {"crashed", "acquire"}
    BY <1>6 DEF Sort, Goto
  <2> QED  BY <2>1, ResultKept DEF Runs
<1>7. CASE TurnOn \/ Refused
  <2>1. /\ UNCHANGED result /\ pc = "acquire" /\ array' = array
        /\ pc' \in {"layout", "find", "acquire", "gone"}
        /\ pc' = "find" => setup.program = "orientation"
    BY <1>7 DEF TurnOn, Refused, DaemonRefused, GenericRefused, Goto, pass
  <2> QED  BY <2>1, ResultKept DEF Runs
<1>8. CASE Layout
  <2>1. /\ UNCHANGED result /\ pc = "layout" /\ array' = array
        /\ pc' = "crashed" \/ (pc' = "wait" /\ LayoutDivides(array))
    BY <1>8 DEF Layout, Goto, pass
  <2> QED  BY <2>1, ResultKept DEF Runs
<1>9. CASE Sample
  <2>1. /\ setup' = setup /\ pc' = pc /\ array' = array /\ UNCHANGED <<scans, kept, out>>
        /\ pc = "wait" /\ buffer /\ buffer' = buffer /\ Len(fifo) < MaxScans
        /\ \E reading \in Readings(setup) : fifo' = Append(fifo, reading)
    BY <1>9 DEF Sample, pass, device
  <2> QED  BY <2>1, ResultAside
<1>10. CASE Switch
  <2>1. /\ setup' = setup /\ pc' = pc /\ array' = array /\ UNCHANGED <<scans, kept, out>>
        /\ fifo' = fifo /\ ~buffer
    BY <1>10 DEF Switch, pass, result
  <2> QED  BY <2>1, ResultAside
<1>11. CASE Renumber
  <2>1. UNCHANGED result /\ pc = "find" /\ pc' = "find"
    BY <1>11 DEF Renumber
  <2> QED  BY <2>1, ResultKept DEF Runs
<1> QED  BY <1>1, <1>2, <1>3, <1>4, <1>5, <1>6, <1>7, <1>8, <1>9, <1>10, <1>11,
            ResultDivides, ResultOrientation, ResultHinge, ResultLight, ResultGeneric,
            ResultOff DEF Next

AllInv == EndInv /\ ResultInv

LEMMA AllInit == Init => AllInv
  BY EndInit, ResultInit DEF AllInv

LEMMA AllNext == AllInv /\ [Next]_vars => AllInv'
<1>1. AllInv => BasicInv /\ ArrayInv /\ ResultInv /\ EndInv
  BY DEF AllInv, EndInv
<1> QED  BY <1>1, EndNext, ResultNext DEF AllInv

LEMMA AllTypes == AllInv => TypeOK
<1> SUFFICES ASSUME AllInv  PROVE  TypeOK
  OBVIOUS
<1>1. BasicInv /\ DirInv /\ ArrayInv /\ FifoInv /\ KeptInv /\ Decoded
  BY DEF AllInv, EndInv, PassInv, ResultInv
<1>2. Positions(setup) = 1..Total /\ Total \in Nat
  BY <1>1, NamesLength DEF BasicInv, Total
<1>3. \A i \in DOMAIN dir : dir[i] \in Positions(setup)
  <2>1. DOMAIN dir = 1..Len(dir) /\ Len(dir) \in Nat /\ Len(dir) <= Total
    BY <1>1 DEF DirInv
  <2> TAKE i \in DOMAIN dir
  <2>2. dir[i] = Listing(setup)[Seen + i]
    BY <1>1, <2>1 DEF DirInv
  <2>3. Seen + i \in 1..Total
    BY <1>2, <2>1 DEF Seen
  <2>4. Listing(setup)[Seen + i]
           = IF setup.up THEN Seen + i ELSE Total + 1 - (Seen + i)
    BY <2>3 DEF Listing, Total
  <2> QED  BY <1>2, <2>2, <2>3, <2>4
<1>4. Len(out) <= 1
  <2>1. setup.program \in Programs
    BY <1>1, SetupsAssumption DEF BasicInv, SetupType
  <2>2. out = <<>> \/ \E x : out = <<x>>
    BY <1>1, <2>1 DEF Decoded, Programs
  <2>3. Len(<<>>) = 0 /\ \A x : Len(<<x>>) = 1
    OBVIOUS
  <2>4. Len(out) \in {0, 1}
    BY <2>2, <2>3
  <2> QED  BY <2>4
<1>5. Len(array) <= Len(Names(setup)) /\ counter \in 0..Len(Names(setup))
  BY <1>1 DEF ArrayInv, Total
<1>6. pc \in {"enable", "trigger", "count", "fill"} => dir # <<>>
  BY <1>1 DEF DirInv, Passes
<1>7. Len(fifo) <= MaxScans /\ scans >= -1 /\ DOMAIN kept \subseteq Positions(setup)
  BY <1>1 DEF FifoInv, KeptInv
<1>8. /\ setup \in Setups /\ pc \in Labels /\ number \in {1, 2} /\ trigger \in {0, 1, 2}
      /\ enabled \subseteq Positions(setup) /\ buffer \in BOOLEAN
      /\ faults \subseteq FaultKinds /\ meddled \subseteq Labels /\ broken \subseteq Mishaps
  BY <1>1 DEF BasicInv
<1> QED  BY <1>3, <1>4, <1>5, <1>6, <1>7, <1>8 DEF TypeOK

\* Every variable keeps to its type: the two passes over the directory to its
\* files, the array to the device's channels, the buffer to its length.
THEOREM TypeHolds == Spec => []TypeOK
  BY AllInit, AllNext, AllTypes, PTL DEF Spec

-----------------------------------------------------------------------------
\* A value that is shown is the one that was measured.

LEMMA EntryChosen ==
    ASSUME NEW on, Matches(array, on), NEW T \in SUBSET (1..Len(array)), NEW i \in T
    PROVE  (CHOOSE j \in T : array[j].index + 1 = array[i].index + 1) = i
<1>1. ASSUME NEW j \in T, array[j].index + 1 = array[i].index + 1
      PROVE  j = i
  <2>1. i \in 1..Len(array) /\ j \in 1..Len(array)
    OBVIOUS
  <2>2. array[i].index \in Int /\ array[j].index \in Int
    BY <2>1 DEF Matches
  <2>3. array[j].index <= array[i].index /\ array[i].index <= array[j].index
    BY <1>1, <2>2
  <2>4. i <= j /\ j <= i
    BY <2>1, <2>3, MatchOnce
  <2> QED  BY <2>1, <2>4
<1> QED  BY <1>1

\* An entry's value in what the programs decode.
LEMMA EntryValues ==
    ASSUME NEW on, Matches(array, on), DOMAIN array = 1..Len(array),
           NEW data, NEW scan, NEW i \in 1..Len(array)
    PROVE  /\ FourBytes(array[i]) /\ (\E a \in DOMAIN AxisNames : array[i].name = AxisNames[a])
                 => ProcessScan3(data, scan)[array[i].index + 1] = ValueAt(data, scan, i)
           /\ Printed(array[i]) =>
                 PrintScan(data, scan)[array[i].index + 1]
                    = (PrintedNumber(data, (scan - 1) * ScanSize(array) + LocationOf(array, i),
                                     array[i]) + array[i].offset) * array[i].scale
<1> DEFINE taken == {j \in DOMAIN array :
                       /\ FourBytes(array[j])
                       /\ \E a \in DOMAIN AxisNames : array[j].name = AxisNames[a]}
           shown == {j \in DOMAIN array : Printed(array[j])}
           taking(c) == CHOOSE j \in taken : array[j].index + 1 = c
           showing(c) == CHOOSE j \in shown : array[j].index + 1 = c
           value(j) ==
               (PrintedNumber(data, (scan - 1) * ScanSize(array) + LocationOf(array, j),
                              array[j]) + array[j].offset) * array[j].scale
           c1 == array[i].index + 1
<1>1. /\ ProcessScan3(data, scan)
            = [c \in {array[j].index + 1 : j \in taken} |-> ValueAt(data, scan, taking(c))]
      /\ PrintScan(data, scan)
            = [c \in {array[j].index + 1 : j \in shown} |-> value(showing(c))]
  BY DEF ProcessScan3, PrintScan
<1>2. taken \in SUBSET (1..Len(array)) /\ shown \in SUBSET (1..Len(array))
  OBVIOUS
<1>3. i \in taken => taking(c1) = i
  <2> HIDE DEF taken
  <2> QED  BY <1>2, EntryChosen
<1>4. i \in shown => showing(c1) = i
  <2> HIDE DEF shown
  <2> QED  BY <1>2, EntryChosen
<1>5. ASSUME i \in taken  PROVE  ProcessScan3(data, scan)[c1] = ValueAt(data, scan, i)
  <2>1. c1 \in {array[j].index + 1 : j \in taken}
    BY <1>5
  <2> HIDE DEF taken, taking, c1
  <2> QED  BY <1>1, <1>3, <1>5, <2>1
<1>6. ASSUME i \in shown  PROVE  PrintScan(data, scan)[c1] = value(i)
  <2>1. c1 \in {array[j].index + 1 : j \in shown}
    BY <1>6
  <2> HIDE DEF shown, showing, c1, value
  <2> QED  BY <1>1, <1>4, <1>6, <2>1
<1> QED  BY <1>5, <1>6

\* With nothing between, every reading in the buffer is one scan.
LEMMA ScansAll ==
    ASSUME AllInv, HasScans, setup.program # "light", Tidy
    PROVE  scans \in 1..Len(fifo)
<1>1. BasicInv /\ ArrayInv /\ FifoInv /\ Decoded /\ pc \in Runs
  BY DEF AllInv, EndInv, ResultInv, HasScans, Runs
<1>2. array # <<>> /\ scans = Len(Data) \div ScanSize(array) /\ scans \in Int /\ scans > 0
  BY <1>1 DEF Decoded, HasScans, FifoInv
<1>3. PICK size \in Nat \ {0} : size = ScanSize(array)
  BY <1>1, <1>2, LaidOut DEF FifoInv, HasScans
<1>4. PICK n \in Nat : n = Len(fifo)
  BY <1>1 DEF FifoInv
<1>5. Len(Data) = n * size
  BY <1>1, <1>3, <1>4, DataHolds DEF FifoInv
<1>6. (n * size) \div size = n
  <2>1. n * size = size * n + 0 /\ n * size \in Int /\ 0 \in 0..(size - 1)
    OBVIOUS
  <2> QED  BY <2>1, DivUnique
<1> QED  BY <1>2, <1>3, <1>4, <1>5, <1>6

\* What ReadRight says of an entry of the last scan, or of light's only one.
LEMMA ShownRight ==
    ASSUME AllInv, HasScans, NEW i \in 1..Len(array), Intact(array[i].index + 1),
           NEW k \in 1..Len(fifo), Shown = fifo[k]
    PROVE  /\ Decodes(array[i], Data, (k - 1) * ScanSize(array) + LocationOf(array, i),
                      Shown[array[i].index + 1])
           /\ Matches(array, enabled) /\ DOMAIN array = 1..Len(array)
           /\ array[i].index + 1 \in Positions(setup)
           /\ array[i] = Info(array[i].index + 1, Types(setup)[array[i].index + 1])
           /\ array[i].signed \in BOOLEAN /\ array[i].shift \in Nat
           /\ Shown[array[i].index + 1] \in Int
<1>1. BasicInv /\ ArrayInv /\ FifoInv /\ pc \in Runs /\ fifo \in Seq(Readings(setup))
  BY DEF AllInv, EndInv, ResultInv, FifoInv, HasScans, Runs
<1>2. PICK c : c = array[i].index + 1
  OBVIOUS
<1>3. Tidy /\ Whole(c, fifo[k][c])
  BY <1>2 DEF Intact, Tidy, Whole
<1>4. Decodes(array[i], Data, (k - 1) * ScanSize(array) + LocationOf(array, i), fifo[k][c])
  BY <1>1, <1>2, <1>3, ReadRight
<1>5. /\ Matches(array, enabled) /\ DOMAIN array = 1..Len(array)
      /\ c \in Positions(setup) /\ array[i] = Info(c, Types(setup)[c])
  BY <1>1, <1>2, <1>3, TidyMatches
<1>6. fifo[k] \in [Positions(setup) -> Int]
  BY <1>1, DataType
<1>7. Shown[c] \in Int
  BY <1>5, <1>6
<1>8. Types(setup)[c].signed \in BOOLEAN /\ Types(setup)[c].shift \in Nat
  BY <1>1, <1>5, TypeFacts DEF BasicInv, Runs
<1>9. array[i].signed \in BOOLEAN /\ array[i].shift \in Nat
  <2>1. array[i].signed = Types(setup)[c].signed /\ array[i].shift = Types(setup)[c].shift
    BY <1>5 DEF Info, ChannelInfo
  <2> QED  BY <1>8, <2>1
<1> QED  BY <1>2, <1>4, <1>5, <1>7, <1>9

\* The first value of a scan is at its beginning.
LEMMA FirstPlace ==
    ASSUME NEW channels, HaveBytes(channels), 1 \in 1..Len(channels), channels[1].bytes = 4
    PROVE  LocationOf(channels, 1) = 0
<1>1. Ends(channels)[0] = 0 /\ Ends(channels)[1] = Location(Ends(channels)[0], 4) + 4
  <2>1. Len(channels) \in Nat /\ 0 \in Nat /\ 0 + 1 = 1 /\ 1 <= Len(channels)
    BY DEF HaveBytes
  <2>2. Ends(channels)[0 + 1] = Location(Ends(channels)[0], channels[0 + 1].bytes)
                                  + channels[0 + 1].bytes
    BY <2>1, EndsNext
  <2>3. Ends(channels)[0] = 0
    BY EndsDef
  <2> QED  BY <2>1, <2>2, <2>3
<1>2. 0 % 4 = 0
  OBVIOUS
<1> QED  BY <1>1, <1>2 DEF LocationOf, Location

LEMMA DaemonShows ==
    ASSUME AllInv, HasScans, setup.program \in {"orientation", "hinge"},
           NEW c \in DOMAIN kept, Intact(c)
    PROVE  kept[c] = Shown[c]
<1>1. KeptInv /\ Decoded /\ ArrayInv /\ BasicInv /\ pc \in Runs
  BY DEF AllInv, EndInv, ResultInv, HasScans, Runs
<1>2. kept = ProcessScan3(Data, scans)
  BY <1>1 DEF Decoded
<1>3. Tidy
  BY DEF Intact, Tidy
<1>4. scans \in 1..Len(fifo) /\ Shown = fifo[scans]
  BY <1>3, ScansAll DEF Shown
<1>5. PICK i \in DOMAIN array :
         /\ FourBytes(array[i]) /\ \E a \in DOMAIN AxisNames : array[i].name = AxisNames[a]
         /\ array[i].index + 1 = c
  <2>1. DOMAIN ProcessScan3(Data, scans) = Taken
    BY ValuesOf
  <2>2. c \in Taken
    BY <1>2, <2>1
  <2> QED  BY <2>2 DEF Taken
<1>6. i \in 1..Len(array)
  BY <1>1, TakenTypes
<1> DEFINE at == (scans - 1) * ScanSize(array) + LocationOf(array, i)
<1>7. /\ Decodes(array[i], Data, at, Shown[c])
      /\ Matches(array, enabled) /\ DOMAIN array = 1..Len(array)
      /\ array[i].signed \in BOOLEAN
  BY <1>4, <1>5, <1>6, ShownRight
<1>8. kept[c] = ValueAt(Data, scans, i)
  BY <1>2, <1>5, <1>6, <1>7, EntryValues
<1>9. ValueAt(Data, scans, i) = IF array[i].signed THEN DecodeSigned(Number(Data, at, 4), array[i])
                                ELSE DecodeUnsigned(Number(Data, at, 4), array[i])
  BY DEF ValueAt
<1> HIDE DEF at
<1> QED  BY <1>5, <1>7, <1>8, <1>9 DEF Decodes, FourBytes

LEMMA LightShows ==
    ASSUME AllInv, HasScans, setup.program = "light", NEW c \in DOMAIN kept, Intact(c)
    PROVE  /\ kept[c] = Shown[c] /\ c = array[1].index + 1 /\ Shown[c] \in Int
           /\ out = <<BacklightFor(Shown[c])>>
<1>1. Decoded /\ ArrayInv /\ FifoInv /\ BasicInv /\ pc \in Runs
  BY DEF AllInv, EndInv, ResultInv, HasScans, Runs
<1>2. PICK value : value = DecodeSigned(Number(Data, 0, 4), array[1])
  OBVIOUS
<1>3. /\ scans = 1 /\ fifo # <<>> /\ Len(array) = 1 /\ FourBytes(array[1])
      /\ array[1].signed
      /\ kept = [d \in {array[1].index + 1} |-> value] /\ out = <<BacklightFor(value)>>
  <2>1. kept # <<>>
    OBVIOUS
  <2> QED  BY <1>1, <1>2, <2>1 DEF Decoded
<1>4. c = array[1].index + 1 /\ kept[c] = value
  BY <1>3
<1>5. 1 \in 1..Len(fifo) /\ 1 \in 1..Len(array)
  BY <1>1, <1>3 DEF FifoInv
<1>6. Shown = fifo[1]
  BY DEF Shown
<1> DEFINE at == (1 - 1) * ScanSize(array) + LocationOf(array, 1)
<1>7. /\ Decodes(array[1], Data, at, Shown[c]) /\ Matches(array, enabled)
      /\ Shown[c] \in Int
  BY <1>4, <1>5, <1>6, ShownRight
<1>8. at = 0
  <2>1. HaveBytes(array)
    BY <1>7 DEF Matches
  <2>2. LocationOf(array, 1) = 0
    BY <1>3, <1>5, <2>1, FirstPlace DEF FourBytes
  <2>3. ScanSize(array) \in Nat
    BY <2>1, ScanSizeType
  <2> QED  BY <2>2, <2>3
<1> HIDE DEF at
<1>9. DecodeSigned(Number(Data, at, 4), array[1]) = Shown[c]
  BY <1>3, <1>7 DEF Decodes, FourBytes
<1> QED  BY <1>2, <1>3, <1>4, <1>7, <1>8, <1>9

LEMMA GenericShows ==
    ASSUME AllInv, HasScans, setup.program = "generic_buffer",
           NEW c \in DOMAIN kept, Intact(c), Converted(c)
    PROVE  kept[c] = Expected(c)
<1>1. KeptInv /\ Decoded /\ ArrayInv /\ BasicInv /\ pc \in Runs
  BY DEF AllInv, EndInv, ResultInv, HasScans, Runs
<1>2. kept = PrintScan(Data, scans)
  BY <1>1 DEF Decoded
<1>3. Tidy
  BY DEF Intact, Tidy
<1>4. scans \in 1..Len(fifo) /\ Shown = fifo[scans]
  BY <1>3, ScansAll DEF Shown
<1>5. PICK i \in DOMAIN array : Printed(array[i]) /\ array[i].index + 1 = c
  BY <1>2 DEF PrintScan
<1>6. i \in 1..Len(array)
  BY <1>1, TakenTypes
<1> DEFINE at == (scans - 1) * ScanSize(array) + LocationOf(array, i)
<1>7. /\ Decodes(array[i], Data, at, Shown[c])
      /\ Matches(array, enabled) /\ DOMAIN array = 1..Len(array)
      /\ c \in Positions(setup) /\ array[i] = Info(c, Types(setup)[c])
      /\ array[i].signed \in BOOLEAN /\ array[i].shift \in Nat /\ Shown[c] \in Int
  BY <1>4, <1>5, <1>6, ShownRight
<1>8. kept[c] = (PrintedNumber(Data, at, array[i]) + array[i].offset) * array[i].scale
  BY <1>2, <1>5, <1>6, <1>7, EntryValues
<1> HIDE DEF at
<1>9. /\ array[i].offset = 0
      /\ array[i].scale = IF Names(setup)[c] = <<"in", "temp">> THEN Scale ELSE 1
      /\ array[i].bytes = Types(setup)[c].bytes /\ array[i].signed = Types(setup)[c].signed
      /\ array[i].shift = Types(setup)[c].shift
  BY <1>1, <1>7, ScaleFound DEF Info, ChannelInfo, BasicInv
<1>10. PrintedNumber(Data, at, array[i]) = Shown[c]
  <2>1. CASE array[i].bytes = 2
    BY <1>7, <2>1 DEF PrintedNumber, Decodes
  <2>2. CASE array[i].bytes = 4 /\ array[i].signed
    BY <1>7, <2>2 DEF PrintedNumber, Decodes
  <2>3. CASE array[i].bytes = 8 /\ array[i].signed
    BY <1>7, <2>3 DEF PrintedNumber, Decodes
  <2>4. ~(array[i].bytes = 4 /\ ~array[i].signed)
    BY <1>9 DEF Converted
  <2> QED  BY <1>5, <2>1, <2>2, <2>3, <2>4 DEF Printed
<1>11. /\ Shown[c] + 0 = Shown[c] /\ Shown[c] * 1 = Shown[c]
  BY <1>7
<1> QED  BY <1>8, <1>9, <1>10, <1>11 DEF Expected

LEMMA AllValues == AllInv => ValuesRight
<1> SUFFICES ASSUME AllInv, HasScans, NEW c \in DOMAIN kept, Intact(c), Converted(c)
             PROVE  kept[c] = Expected(c)
  BY DEF ValuesRight
<1>1. setup.program \in Programs
  BY SetupsAssumption DEF AllInv, EndInv, BasicInv, SetupType
<1>2. CASE setup.program = "generic_buffer"
  BY <1>2, GenericShows
<1>3. CASE setup.program # "generic_buffer"
  <2>1. Expected(c) = Shown[c]
    BY <1>3 DEF Expected
  <2> QED  BY <1>1, <1>3, <2>1, DaemonShows, LightShows DEF Programs
<1> QED  BY <1>2, <1>3

\* Every value a program decodes from what it read is the number that the sensor
\* measured, for generic_buffer times the channel's own scale, if the array has the
\* channels that are on, the value fits its type and, for a HID sensor, no channel
\* before it is off: for any sizes and order of the report's fields, any channels,
\* readings, faults and meddling.  Unsigned values of four bytes, which
\* generic_buffer prints as they are stored, are left out for it.
THEOREM ValuesHold == Spec => []ValuesRight
  BY AllInit, AllNext, AllValues, PTL DEF Spec

-----------------------------------------------------------------------------
\* What the daemons make of a value.

LEMMA Bounds ==
    /\ AmbientMax \in Nat \ {0} /\ BacklightMax \in Nat \ {0}
    /\ WordBits \in Nat \ {0} /\ WordBits - 1 \in Nat
    /\ Pow2[WordBits] \in Nat \ {0} /\ Pow2[WordBits - 1] \in Nat \ {0}
<1>1. AmbientMax \in Nat \ {0} /\ BacklightMax \in Nat \ {0}
  BY BoundsAssumption
<1>2. WordBits \in Nat \ {0}
  BY Widths
<1>3. WordBits \in Nat /\ WordBits - 1 \in Nat
  BY <1>2
<1> QED  BY <1>1, <1>2, <1>3, Pow2Positive

LEMMA BacklightRange ==
    ASSUME NEW v \in Int
    PROVE  BacklightFor(v) \in 1..BacklightMax
<1>1. v * BacklightMax \in Int
  BY Bounds
<1>2. Unsigned(v * BacklightMax, WordBits) \in Int
  BY <1>1, Bounds, UnsignedType
<1>3. Unsigned(v * BacklightMax, WordBits) \div AmbientMax \in Int
  BY <1>2, Bounds, DivMod
<1>4. PICK q \in Int :
         q = Signed(Unsigned(v * BacklightMax, WordBits) \div AmbientMax, WordBits)
  BY <1>3, Bounds, SignedBits
<1>5. BacklightFor(v) = LimitInterval(1, BacklightMax, q)
  BY <1>4 DEF BacklightFor
<1>6. LimitInterval(1, BacklightMax, q) \in 1..BacklightMax
  BY Bounds DEF LimitInterval
<1> QED  BY <1>5, <1>6

\* The level is the quotient, as long as product and quotient fit.
LEMMA BacklightIs ==
    ASSUME NEW v \in Nat, v * BacklightMax < Pow2[WordBits],
           v * BacklightMax < AmbientMax * Pow2[WordBits - 1]
    PROVE  \E q \in Nat : /\ BacklightFor(v) = LimitInterval(1, BacklightMax, q)
                          /\ AmbientMax * q <= v * BacklightMax
                          /\ v * BacklightMax < AmbientMax * (q + 1)
<1>1. PICK a \in Nat \ {0}, half \in Nat \ {0} : a = AmbientMax /\ half = Pow2[WordBits - 1]
  BY Bounds
<1>2. PICK p \in Nat : p = v * BacklightMax
  BY Bounds
<1>3. p \in 0..(Pow2[WordBits] - 1)
  BY <1>2, Bounds
<1>4. Unsigned(p, WordBits) = p
  BY <1>3, Bounds, UnsignedFits
<1>5. PICK q \in Int, r \in 0..(a - 1) : q = p \div a /\ p = a * q + r
  <2>1. p \div a \in Int /\ p % a \in 0..(a - 1) /\ p = a * (p \div a) + (p % a)
    BY DivMod
  <2> QED  BY <2>1
<1>6. q >= 0
  <2>1. q <= -1 => a * q <= -a
    OBVIOUS
  <2> QED  BY <1>5, <2>1
<1>7. q < half
  <2>1. q >= half => a * q >= a * half
    BY <1>6
  <2>2. p < a * half
    BY <1>1, <1>2
  <2>3. a * q <= p
    BY <1>5
  <2>4. a * q \in Int /\ a * half \in Int
    OBVIOUS
  <2> QED  BY <2>1, <2>2, <2>3, <2>4
<1>8. Signed(q, WordBits) = q
  <2>1. -(Pow2[WordBits - 1]) <= q /\ q < Pow2[WordBits - 1]
    BY <1>1, <1>6, <1>7
  <2> QED  BY <2>1, Bounds, SignedSmall
<1>9. BacklightFor(v) = LimitInterval(1, BacklightMax, q)
  BY <1>1, <1>2, <1>4, <1>5, <1>8 DEF BacklightFor
<1>10. a * (q + 1) = a * q + a
  OBVIOUS
<1>11. a * q <= p /\ p < a * (q + 1)
  BY <1>5, <1>10
<1> QED  BY <1>1, <1>2, <1>6, <1>9, <1>11

LEMMA AllBacklight ==
    ASSUME AllInv, setup.program = "light"
    PROVE  BacklightFollows
<1>1. out # <<>> => out[1] \in 1..BacklightMax
  <2>1. out = <<>> \/ \E value \in Int : out = <<BacklightFor(value)>>
    BY DEF AllInv, ResultInv, Decoded
  <2> QED  BY <2>1, BacklightRange
<1>2. ASSUME HasScans, 1 \in DOMAIN kept, Intact(1), NEW v, v = Shown[1],
             v >= 0, v * BacklightMax < Pow2[WordBits],
             v * BacklightMax < AmbientMax * Pow2[WordBits - 1]
      PROVE  /\ v >= AmbientMax => out = <<BacklightMax>>
             /\ v < AmbientMax =>
                   /\ AmbientMax * out[1] <= v * BacklightMax \/ out = <<1>>
                   /\ v * BacklightMax < AmbientMax * (out[1] + 1)
  <2>1. v \in Int /\ out = <<BacklightFor(v)>>
    BY <1>2, LightShows
  <2>2. v \in Nat
    BY <1>2, <2>1
  <2>3. PICK q \in Nat : /\ BacklightFor(v) = LimitInterval(1, BacklightMax, q)
                         /\ AmbientMax * q <= v * BacklightMax
                         /\ v * BacklightMax < AmbientMax * (q + 1)
    BY <1>2, <2>2, BacklightIs
  <2>4. PICK a \in Nat \ {0}, b \in Nat \ {0} : a = AmbientMax /\ b = BacklightMax
    BY Bounds, Zenon
  <2>5. PICK level \in Int : level = LimitInterval(1, b, q)
    BY DEF LimitInterval
  <2>6. a * q <= v * b /\ v * b < a * (q + 1) /\ out = <<level>>
    BY <2>1, <2>3, <2>4, <2>5
  <2>7. v >= a => level = b
    <3>1. v >= a => v * b >= a * b
      BY <2>2
    <3>2. q + 1 <= b => a * (q + 1) <= a * b
      OBVIOUS
    <3>3. v * b \in Int /\ a * b \in Int /\ a * (q + 1) \in Int
      BY <2>2
    <3>4. v >= a => q >= b
      BY <2>6, <3>1, <3>2, <3>3
    <3> QED  BY <2>5, <3>4 DEF LimitInterval
  <2>8. v < a => v * b < a * (level + 1)
    <3>1. v < a => v * b < a * b
      BY <2>2
    <3>2. q >= b => a * q >= a * b
      OBVIOUS
    <3>3. v * b \in Int /\ a * q \in Int /\ a * b \in Int
      BY <2>2
    <3>4. v < a => q < b
      BY <2>6, <3>1, <3>2, <3>3
    <3>5. v < a => q <= level
      BY <2>5, <3>4 DEF LimitInterval
    <3>6. q <= level => a * (q + 1) <= a * (level + 1)
      OBVIOUS
    <3>7. a * (q + 1) \in Int /\ a * (level + 1) \in Int
      OBVIOUS
    <3> QED  BY <2>6, <3>3, <3>5, <3>6, <3>7
  <2>9. level = 1 \/ a * level <= v * b
    <3>1. level = 1 \/ level <= q
      BY <2>5 DEF LimitInterval
    <3>2. level <= q => a * level <= a * q
      OBVIOUS
    <3>3. v * b \in Int /\ a * q \in Int /\ a * level \in Int
      BY <2>2
    <3> QED  BY <2>6, <3>1, <3>2, <3>3
  <2> QED  BY <2>4, <2>6, <2>7, <2>8, <2>9
<1> QED  BY <1>1, <1>2 DEF BacklightFollows

\* A small value is its own absolute value and product.
LEMMA SmallTimes ==
    ASSUME NEW v \in Int, Small(v)
    PROVE  /\ AbsInt(v) = IF v < 0 THEN -v ELSE v
           /\ \A k \in {2, 3, 4} : Times(k, AbsInt(v)) = k * AbsInt(v)
<1>1. PICK half \in Nat \ {0} : half = Pow2[WordBits - 1]
  BY Bounds
<1>2. 4 * v < half /\ -4 * v < half
  BY <1>1 DEF Small
<1>3. PICK w \in Nat : w = (IF v < 0 THEN -v ELSE v) /\ 4 * w < half
  BY <1>2
<1>4. \A u \in Nat : u < half => Signed(u, WordBits) = u
  <2> TAKE u \in Nat
  <2> SUFFICES ASSUME u < half  PROVE  Signed(u, WordBits) = u
    OBVIOUS
  <2>1. -(Pow2[WordBits - 1]) <= u /\ u < Pow2[WordBits - 1]
    BY <1>1
  <2> QED  BY <2>1, Bounds, SignedSmall
<1>5. AbsInt(v) = w
  <2>1. w < half
    BY <1>3
  <2> QED  BY <1>3, <1>4, <2>1 DEF AbsInt
<1>6. ASSUME NEW k \in {2, 3, 4}  PROVE  Times(k, w) = k * w
  <2>1. k * w \in Nat /\ k * w < half
    BY <1>3
  <2> QED  BY <1>4, <2>1 DEF Times
<1> QED  BY <1>3, <1>5, <1>6

LEMMA EdgePulled ==
    ASSUME NEW x \in Int, NEW y \in Int, NEW z \in Int,
           Small(x), Small(y), Small(z), {x, y, z} # {0},
           NEW edge, edge = EdgeOf(x, y, z)
    PROVE  /\ edge \in Edges
           /\ edge = "FLAT" => z # 0 /\ \A v \in {x, -x, y, -y} : 4 * v < z \/ 4 * v < -z
           /\ edge # "FLAT" =>
                 /\ Pull(edge, x, y) > 0
                 /\ \A other \in Edges \ {"FLAT"} :
                       2 * Pull(other, x, y) <= 3 * Pull(edge, x, y)
<1>1. PICK ax \in Nat : ax = AbsInt(x) /\ ax = IF x < 0 THEN -x ELSE x
  BY SmallTimes
<1>2. PICK ay \in Nat : ay = AbsInt(y) /\ ay = IF y < 0 THEN -y ELSE y
  BY SmallTimes
<1>3. PICK az \in Nat : az = AbsInt(z) /\ az = IF z < 0 THEN -z ELSE z
  BY SmallTimes
<1>4. Times(4, ax) = 4 * ax /\ Times(2, ax) = 2 * ax
  BY <1>1, SmallTimes
<1>5. Times(4, ay) = 4 * ay /\ Times(3, ay) = 3 * ay
  BY <1>2, SmallTimes
<1>6. edge = IF az > 4 * ax /\ az > 4 * ay THEN "FLAT"
             ELSE IF 3 * ay > 2 * ax THEN IF y > 0 THEN "BOTTOM" ELSE "TOP"
                  ELSE IF x > 0 THEN "LEFT" ELSE "RIGHT"
  BY <1>1, <1>2, <1>3, <1>4, <1>5 DEF EdgeOf
<1>7. x # 0 \/ y # 0 \/ z # 0
  OBVIOUS
<1>8. /\ Pull("TOP", x, y) = -y /\ Pull("BOTTOM", x, y) = y
      /\ Pull("LEFT", x, y) = x /\ Pull("RIGHT", x, y) = -x
  BY DEF Pull
<1>9. Edges = {"FLAT", "TOP", "BOTTOM", "LEFT", "RIGHT"}
  BY DEF Edges
<1>10. CASE az > 4 * ax /\ az > 4 * ay
  <2>1. z # 0 /\ \A v \in {x, -x, y, -y} : 4 * v < z \/ 4 * v < -z
    BY <1>1, <1>2, <1>3, <1>10
  <2> QED  BY <1>6, <1>9, <1>10, <2>1
<1>11. ASSUME NEW e, edge = e, e \in Edges \ {"FLAT"}, NEW p \in Int, p = Pull(e, x, y),
              p > 0, 2 * ax <= 3 * p, 2 * ay <= 3 * p
       PROVE  /\ edge \in Edges /\ edge # "FLAT" /\ Pull(edge, x, y) > 0
              /\ \A other \in Edges \ {"FLAT"} :
                    2 * Pull(other, x, y) <= 3 * Pull(edge, x, y)
  <2>1. /\ 2 * (-y) <= 3 * p /\ 2 * y <= 3 * p /\ 2 * x <= 3 * p /\ 2 * (-x) <= 3 * p
    BY <1>1, <1>2, <1>11
  <2> QED  BY <1>8, <1>9, <1>11, <2>1
<1>12. CASE ~(az > 4 * ax /\ az > 4 * ay) /\ 3 * ay > 2 * ax
  <2>1. CASE y > 0
    <3>1. edge = "BOTTOM" /\ y = ay
      BY <1>2, <1>6, <1>12, <2>1
    <3> QED  BY <1>8, <1>9, <1>11, <1>12, <2>1, <3>1
  <2>2. CASE ~(y > 0)
    <3>1. edge = "TOP" /\ -y = ay /\ -y > 0
      BY <1>2, <1>6, <1>12, <2>2
    <3> QED  BY <1>8, <1>9, <1>11, <1>12, <3>1
  <2> QED  BY <2>1, <2>2
<1>13. CASE ~(az > 4 * ax /\ az > 4 * ay) /\ ~(3 * ay > 2 * ax)
  <2>1. x # 0
    BY <1>1, <1>2, <1>3, <1>7, <1>13
  <2>2. CASE x > 0
    <3>1. edge = "LEFT" /\ x = ax
      BY <1>1, <1>6, <1>13, <2>2
    <3> QED  BY <1>8, <1>9, <1>11, <1>13, <2>2, <3>1
  <2>3. CASE ~(x > 0)
    <3>1. edge = "RIGHT" /\ -x = ax /\ -x > 0
      BY <1>1, <1>6, <1>13, <2>1, <2>3
    <3> QED  BY <1>8, <1>9, <1>11, <1>13, <3>1
  <2> QED  BY <2>2, <2>3
<1> QED  BY <1>10, <1>12, <1>13

\* A device that has a value for one axis has all axes.
LEMMA AxesThere ==
    ASSUME BasicInv, ArrayInv, Taken # {}
    PROVE  \A a \in 1..3 : /\ AxisChannel(a) \in Positions(setup)
                           /\ Names(setup)[AxisChannel(a)] = AxisNames[a]
<1>1. DOMAIN AxisNames = 1..3
  BY DEF AxisNames, XYZ
<1>2. PICK i \in DOMAIN array, a \in 1..3 : array[i].name = AxisNames[a]
  <2>1. PICK i \in DOMAIN array :
           \E a \in DOMAIN AxisNames : array[i].name = AxisNames[a]
    BY DEF Taken
  <2> QED  BY <1>1, <2>1
<1>3. PICK d \in Positions(setup) : array[i].name = Names(setup)[d]
  <2>1. array[i] \in Entries
    BY DEF ArrayInv
  <2> QED  BY <2>1, EntryFacts DEF BasicInv
<1>4. \A b \in 1..3 : \E c \in Positions(setup) : Names(setup)[c] = AxisNames[b]
  <2>1. CASE IsHID(setup)
    <3>1. /\ setup.device \in Drivers /\ Names(setup) = ChannelsOf(setup.device)
          /\ Positions(setup) = 1..ChannelCount(setup.device)
      BY <2>1, ChannelNames DEF IsHID, Names, Positions
    <3>2. ChannelsOf(setup.device)[d] = XYZ("accel")[a]
      BY <1>2, <1>3, <3>1 DEF AxisNames
    <3>3. /\ ChannelCount(setup.device) >= 3
          /\ \A b \in 1..3 : ChannelsOf(setup.device)[b] = XYZ("accel")[b]
      BY <1>3, <3>1, <3>2, AxesOf
    <3>4. ChannelCount(setup.device) \in Nat
      BY <3>1, ChannelNames
    <3> QED  BY <3>1, <3>3, <3>4 DEF AxisNames
  <2>2. CASE ~IsHID(setup)
    <3>1. /\ Names(setup)[2] = <<"in", "accel", "x">>
          /\ Names(setup)[3] = <<"in", "accel", "y">>
          /\ Names(setup)[4] = <<"in", "accel", "z">> /\ Positions(setup) = 1..5
      BY <2>2 DEF Names, Positions
    <3>2. /\ AxisNames[1] = <<"in", "accel", "x">> /\ AxisNames[2] = <<"in", "accel", "y">>
          /\ AxisNames[3] = <<"in", "accel", "z">>
      BY DEF AxisNames, XYZ
    <3>3. \A b \in 1..3 : b = 1 \/ b = 2 \/ b = 3
      OBVIOUS
    <3> QED  BY <3>1, <3>2, <3>3
  <2> QED  BY <2>1, <2>2
<1> QED  BY <1>4 DEF AxisChannel

LEMMA AllEdges ==
    ASSUME AllInv, setup.program = "orientation", HasScans,
           \A a \in DOMAIN AxisNames :
              AxisChannel(a) \in DOMAIN kept /\ Intact(AxisChannel(a))
    PROVE  EdgeIsPulled
<1>1. BasicInv /\ ArrayInv /\ FifoInv /\ Decoded /\ pc \in Runs
  BY DEF AllInv, EndInv, ResultInv, HasScans, Runs
<1>2. DOMAIN AxisNames = 1..3
  BY DEF AxisNames, XYZ
<1>3. DOMAIN kept = Taken
  <2>1. kept = ProcessScan3(Data, scans)
    BY <1>1 DEF Decoded
  <2> QED  BY <2>1, ValuesOf
<1>4. \A a \in 1..3 : /\ AxisChannel(a) \in DOMAIN kept /\ Intact(AxisChannel(a))
                      /\ AxisChannel(a) \in Positions(setup)
                      /\ Names(setup)[AxisChannel(a)] = AxisNames[a]
  <2>1. Taken # {}
    BY <1>2, <1>3
  <2> QED  BY <1>1, <1>2, <2>1, AxesThere
<1>5. \A a \in 1..3 : kept[AxisChannel(a)] = Shown[AxisChannel(a)]
  BY <1>4, DaemonShows
<1>6. \A a \in 1..3 : Shown[AxisChannel(a)] \in Int
  <2>1. Tidy
    BY <1>4 DEF Intact, Tidy
  <2>2. scans \in 1..Len(fifo) /\ Shown = fifo[scans]
    BY <2>1, ScansAll DEF Shown
  <2>3. fifo[scans] \in [Positions(setup) -> Int]
    BY <1>1, <2>2, DataType DEF FifoInv
  <2> QED  BY <1>4, <2>2, <2>3
<1>7. PICK x \in Int, y \in Int, z \in Int :
         /\ x = Shown[AxisChannel(1)] /\ y = Shown[AxisChannel(2)] /\ z = Shown[AxisChannel(3)]
  BY <1>6
<1>8. EdgesOf(kept) = {EdgeOf(x, y, z)}
  <2>1. \A a \in DOMAIN AxisNames : AxisNames[a] \in {Names(setup)[c] : c \in DOMAIN kept}
    BY <1>2, <1>4
  <2>2. kept[AxisChannel(1)] = x /\ kept[AxisChannel(2)] = y /\ kept[AxisChannel(3)] = z
    BY <1>5, <1>7
  <2> QED  BY <2>1, <2>2 DEF EdgesOf
<1>9. out = <<EdgeOf(x, y, z)>>
  BY <1>1, <1>8 DEF Decoded
<1>10. ASSUME \A v \in {x, y, z} : Small(v), {x, y, z} # {0}
       PROVE  \E edge \in Edges :
                 /\ out = <<edge>>
                 /\ edge = "FLAT" => z # 0 /\ \A v \in {x, -x, y, -y} :
                                         4 * v < z \/ 4 * v < -z
                 /\ edge # "FLAT" =>
                       /\ Pull(edge, x, y) > 0
                       /\ \A other \in Edges \ {"FLAT"} :
                             2 * Pull(other, x, y) <= 3 * Pull(edge, x, y)
  <2>1. PICK edge : edge = EdgeOf(x, y, z)
    OBVIOUS
  <2>2. Small(x) /\ Small(y) /\ Small(z)
    BY <1>10
  <2> QED  BY <1>9, <1>10, <2>1, <2>2, EdgePulled
<1> QED  BY <1>7, <1>10 DEF EdgeIsPulled

\* What light and orientation show follows from the reading: the backlight is
\* within its range and in proportion to the light, and the edge is one that
\* gravity pulls at, as long as the computation does not overflow.
THEOREM CallbacksHold == Spec => []CallbacksRight
<1>1. AllInv => CallbacksRight
  BY AllBacklight, AllEdges DEF CallbacksRight
<1> QED  BY <1>1, AllInit, AllNext, PTL DEF Spec
=============================================================================
