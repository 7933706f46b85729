---------------------------- MODULE MCVirtualUAV ----------------------------
(***************************************************************************)
(* Instances of VirtualUAV for TLC: two places; one show flies away and    *)
(* down to the ground, the other one ends in the air.                      *)
(***************************************************************************)
EXTENDS VirtualUAV, TLC

CONSTANTS home, field, low, high

MCPlaces == {home, field}
MCShows == {low, high}

At(place, z) == [place |-> place, z |-> z]
MCPath ==
  low :> <<At(home, 2), At(field, 2), At(field, 0)>> @@
  high :> <<At(field, 2)>>
=============================================================================
