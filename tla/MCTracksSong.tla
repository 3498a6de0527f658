---------------------------- MODULE MCTracksSong ----------------------------
(* The song of voices that go their own ways, which the tracks theorems are  *)
(* about.                                                                   *)
EXTENDS MCTempoClock

ASSUME TracksSongHolds == TracksSong
=============================================================================
