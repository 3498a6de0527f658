----------------------------- MODULE MCBoundSong ----------------------------
(* The song of short rows, which the bound theorems are about.               *)
EXTENDS MCTempoClock

ASSUME BoundSongHolds == BoundSong
=============================================================================
