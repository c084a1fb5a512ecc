------------------------------ MODULE MCSamples ------------------------------
(* Values for constants that several models share. *)
EXTENDS PodData

LOCAL k(v, d, b) == [velocity |-> v, displacement |-> d, braking_distance |-> b]

(* At the maximum velocity and far from the braking zone, at speed exactly *)
(* at its edge, and stopped in it.                                         *)
MCNavSamples == {k(100, 300, 250), k(90, 1030, 200), k(0, 1240, 0)}

(* At the maximum velocity and far from the braking zone, and stopped      *)
(* exactly at its edge: on both sides of all three thresholds.             *)
MCFewNavSamples == {k(100, 300, 250), k(0, 1230, 0)}

(* Only stopped at the edge of the braking zone. *)
MCStoppedNavSamples == {k(0, 1230, 0)}
=============================================================================
