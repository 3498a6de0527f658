--------------------------- MODULE MCMakerSession ---------------------------
(***************************************************************************)
(* Two sessions, of an early build or of a later one with its echo form, and *)
(* modules whose authors are long, short and none.                          *)
(***************************************************************************)
EXTENDS MakerSession, TLC

MCVersions == [early |-> [players |-> 2, echo |-> FALSE, author |-> <<2, 2, 0>>],
               echo |-> [players |-> 3, echo |-> TRUE, author |-> <<0, 0, 0>>]]
MCBuilds == {"early", "echo", "lost"}

Module(author, tune) ==
  [sids |-> 1, short |-> FALSE, driver |-> 0, author |-> author, speeds |-> FALSE, tune |-> tune]
Long == Module(<<1, 1, 1>>, 1)
Short == [Module(<<2, 0, 1>>, 2) EXCEPT !.speeds = TRUE]
Empty == [Module(<<0, 2, 2>>, 3) EXCEPT !.driver = 1]
Later == [Module(<<1, 0, 0>>, 4) EXCEPT !.driver = 2]
MCModules == {Long, Short, Empty, Later, [Long EXCEPT !.sids = 2], [Long EXCEPT !.short = TRUE]}
=============================================================================
