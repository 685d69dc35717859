---------------------------- MODULE MC_WheelTimer ----------------------------
(* Small instances of WheelTimer: wheels of 3 slots and frames of 2 ms.         *)
EXTENDS WheelTimer

\* In frames: 1 (rounded up from 0), 2, 3 and 4 (the second wheel), 10 (the third).
MCDelays == {1, 5, 6, 9, 20}
=============================================================================
