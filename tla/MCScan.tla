------------------------------- MODULE MCScan -------------------------------
(* An instance of Scan with bytes of two bits, so that an int has eight. *)
EXTENDS Scan

\* The fields of a driver's report, all of one size, in two orders, and in sizes
\* that differ.
Report(driver, size, forward) ==
    LET n == Len(AddressesOf(driver))
    IN  [i \in 1..n |->
            [usage |-> AddressesOf(driver)[IF forward THEN i ELSE n + 1 - i],
             size |-> IF size = 0 THEN (IF i = 1 THEN 2 ELSE 1) ELSE size]]

Setup(program, dev, size, forward, up, poll, on, left) ==
    [program |-> program, device |-> dev, up |-> up, poll |-> poll,
     fields |-> IF dev = "foreign" THEN <<>> ELSE Report(dev, size, forward),
     enabled |-> on, left |-> left]

MCSetups ==
    {Setup("orientation", "accel_3d", size, size = 4, u, TRUE, {}, FALSE) :
        size \in {0, 4}, u \in BOOLEAN}
    \cup {Setup("orientation", "accel_3d", 4, TRUE, TRUE, TRUE, on, TRUE) :
        on \in {{1, 2}, {2, 3}}}
    \cup {Setup("orientation", "foreign", 4, TRUE, FALSE, TRUE, {}, FALSE)}
    \cup {Setup("light", "als", size, TRUE, TRUE, TRUE, {}, FALSE) :
        size \in {1, 2, 4}}
    \cup {Setup("hinge", "accel_3d", 2, TRUE, FALSE, TRUE, {}, FALSE),
          Setup("generic_buffer", "custom", 2, TRUE, TRUE, TRUE, {}, FALSE)}
    \cup {Setup("generic_buffer", d, 0, TRUE, TRUE, FALSE, {}, FALSE) :
        d \in {"gyro_3d", "magn_3d", "incli_3d"}}
    \cup {Setup("generic_buffer", d, 8, TRUE, TRUE, TRUE, {}, FALSE) :
        d \in {"orientation", "generic"}}
    \cup {Setup("generic_buffer", "foreign", 4, TRUE, FALSE, TRUE, on, FALSE) :
        on \in {{}, {1, 3}}}
    \cup {[Setup("hinge", "accel_3d", 4, TRUE, TRUE, TRUE, {}, FALSE)
              EXCEPT !.fields = Tail(@)],
          [Setup("light", "als", 4, TRUE, TRUE, TRUE, {}, FALSE)
              EXCEPT !.fields = <<>>],
          [Setup("orientation", "accel_3d", 2, TRUE, TRUE, TRUE, {}, FALSE)
              EXCEPT !.fields = <<[usage |-> 0, size |-> 1]>> \o @]}

Vectors == {<<1, 0, -6>>, <<-1, 1, 1>>, <<-8, 7, 3>>, <<9, -14, 20>>,
            <<31, 20, -31>>, <<-128, 127, 5>>}
Few     == {<<-1, 1, -2>>, <<9, -14, 127>>}

MCReadings(s) ==
    CASE s.device = "als"          -> {<<v>> : v \in {-5, 0, 3, 9, 50, 128}}
      [] s.device \in {"generic", "orientation"} -> {<<v>> : v \in {0, -3, 127}}
      [] s.device = "custom"       -> {v \o v \o <<1>> : v \in Few}
      [] s.device = "foreign"      ->
            {<<v[1], v[1], v[2], v[3], 100 * v[3]>> : v \in Few}
      [] s.program = "orientation" -> Vectors
      [] OTHER                     -> Few

MCFaults == FaultKinds
=============================================================================
