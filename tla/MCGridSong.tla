----------------------------- MODULE MCGridSong -----------------------------
(* The grid runs' songs, which the grid theorems are about.                *)
EXTENDS MCTempoClock

ASSUME GridSongHolds == GridSong
=============================================================================
