---------------------------- MODULE MCStationGraph ----------------------------
(* Instances of StationGraph for TLC: two lines that meet at b; TfL reroutes the *)
(* first to d.                                                                   *)
EXTENDS StationGraph, TLC

CONSTANTS a, b, c, d, red, blue

MCNetwork == <<(red :> <<a, b>>) @@ (blue :> <<b, c>>),
               (red :> <<a, c, d>>) @@ (blue :> <<b, c>>)>>
===============================================================================
