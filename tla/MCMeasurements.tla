--------------------------- MODULE MCMeasurements ---------------------------
(* Frames as the sensor sends them (the first is the datasheet's example):    *)
(* both signs, saturated air, a negative fraction of a degree.                *)
EXTENDS Measurements

At(humidity, celsius, bytes) ==
    [relative_humidity |-> humidity, temperature |-> celsius, frame |-> bytes]

MCFrames == <<At(500, 250, <<3, 4, 1, 244, 0, 250, 49, 165>>),
              At(305, -101, <<3, 4, 1, 49, 128, 101, 0, 48>>),
              At(1000, 0, <<3, 4, 3, 232, 0, 0, 113, 152>>),
              At(256, -1, <<3, 4, 1, 0, 128, 1, 80, 20>>),
              At(999, -400, <<3, 4, 3, 231, 129, 144, 33, 167>>)>>

MCClimate == [t \in 1 .. MaxTime |-> MCFrames[((t - 1) % 5) + 1]]
MCCallers == {Measurer, Poller}
MCReaders == {Poller}

\* For a bucket as large as the one that is shipped: one way to fill it is enough.
EverySampleTaken == cursor = time
=============================================================================
