---------------------------- MODULE MCVoiceSound ----------------------------
(***************************************************************************)
(* Two voices, the third one first, four instruments and three builds: with  *)
(* sound effects, with a multispeed entry and delays, and without restart    *)
(* types.  The last instrument is past the limit of the first two builds.    *)
(***************************************************************************)
EXTENDS VoiceSound, TLC

MCOrder == <<2, 0>>

Late == [sfx |-> TRUE, multi |-> FALSE, delays |-> FALSE, types |-> TRUE, inline |-> FALSE,
         porta |-> TRUE, stops |-> TRUE, noins |-> FALSE, retains |-> TRUE, from |-> 3,
         limit |-> 4]
Multi == [Late EXCEPT !.sfx = FALSE, !.multi = TRUE, !.delays = TRUE, !.inline = TRUE, !.from = 0]
Early == [Multi EXCEPT !.multi = FALSE, !.delays = FALSE, !.types = FALSE, !.inline = FALSE,
                       !.porta = FALSE, !.stops = FALSE, !.noins = TRUE, !.retains = FALSE,
                       !.from = 1, !.limit = 5]
MCBuilds == {Late, Multi, Early}

Header == [restart |-> {}, test |-> FALSE, keeps |-> {}, filter |-> "none", gateoff |-> FALSE,
           speed |-> "wave"]
MCInstruments ==
  0 :> Header
  @@ 1 :> [Header EXCEPT !.restart = {1, 2}, !.keeps = {"filter", "pulse"}, !.filter = "table",
                         !.gateoff = TRUE, !.speed = "filter"]
  @@ 2 :> [Header EXCEPT !.restart = {2}, !.test = TRUE, !.speed = "pulse"]
  @@ 3 :> [Header EXCEPT !.restart = {1}, !.filter = "table", !.speed = "filter"]
  @@ 4 :> [Header EXCEPT !.filter = "pass"]

R(note, inst, fx) == [note |-> note, inst |-> inst, fx |-> fx]
\* The voice whose instrument keeps positions selects it with a note that starts, and
\* so does the one with a filter position effect.
Keeping == {R("note", 1, "filter"), R("note", 0, "none"), R("note", 2, "pulse"),
            R("gateoff", SmallFx, "none")}
Lending == {R("note", 3, "delay"), R("note", Legato, "slide"), R("none", 2, "none"),
            R("note", 4, "none"), R("porta", 0, "none")}
MCRows == 0 :> Keeping @@ 2 :> Lending

\* Effects of two frames and of none.
MCEffects == {[length |-> 2, inst |-> 2], [length |-> 0, inst |-> 3]}

\* A row of the third voice with a tone portamento.
PortamentoRows == 0 :> {} @@ 2 :> {R("note", 3, "none"), R("note", 0, "portamento")}

\* The hypotheses of the theorems about the rows.
ASSUME RowsTidy == TidyRows
ASSUME RowsPlain == NoPortamento(MCRows[SfxVoice])
=============================================================================
