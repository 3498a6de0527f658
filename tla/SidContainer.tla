---------------------------- MODULE SidContainer ----------------------------
(***************************************************************************)
(* as_container (sidfile.py): the .sid that a file stands for.  SID-Maker     *)
(* saves a tune as a .sid, as a program whose starter copies the image of a  *)
(* .sid into place, or as the bare player and tune; the echo builds save a   *)
(* .sid that is such a program.                                             *)
(*                                                                          *)
(* A file has a form ("sid" or "program") and the image its starter copies,  *)
(* None where it has no starter: the container's kind, load and init address *)
(* and the bytes behind them.                                               *)
(***************************************************************************)
EXTENDS SidStrategy, Functions

\* The tune of image c from an address, which init is called at.
From(f, c, at, entry) ==
  LET end == c.load + Len(c.bytes)
  IN  [f EXCEPT !.form = "sid", !.starter = None, !.load = at, !.entryAt = entry,
         !.static = [lo |-> at - 126, hi |-> end, code |-> c.code,
                     mem |-> [a \in at .. end - 1 |-> c.bytes[a - c.load + 1]]]]

\* A PSID is its player and tune, without the starter; an init that is not in the
\* image is the start of it.
ExeContainer(f, c) ==
  IF c.kind = "PSID" /\ c.init > c.load THEN From(f, c, c.init, c.init)
  ELSE IF c.init \in c.load .. c.load + Len(c.bytes) - 1 THEN From(f, c, c.load, c.init)
  ELSE From(f, c, c.load, c.load)

Magic(f) == HasHeader(f) \/ f.swp # None

AsContainer(f) ==
  IF f.starter # None THEN ExeContainer(f, f.starter)
  ELSE IF f.form = "program" /\ (Magic(f) \/ f.signature)
    THEN [f EXCEPT !.form = "sid", !.entryAt = f.load]
  ELSE f
=============================================================================
