---------------------------- MODULE SidFeatures -----------------------------
(***************************************************************************)
(* detect_variant (features.py): the build flags and release quirks of a     *)
(* tune's player, read from its code.  A facet's pattern matches the code    *)
(* at sites, each with the form found there: f.static.code.sites has them    *)
(* in the order of their addresses.  A facet no site shows keeps what the    *)
(* driver byte of the tune's header says.                                   *)
(***************************************************************************)
EXTENDS SidStrategy

Builds == <<"normal", "medium", "light", "extra", "bare", "demo">>

\* The builds that assemble a flag.
OnIn ==
  [flag \in {"octaveshift", "chordsupport", "calcvibrato", "filtkbtrack"} |->
     {"normal", "medium", "extra"}]
  @@ [flag \in {"vibratotypes", "gateoffptr", "pwkeybtrack", "hardrestypes", "frame1switch",
                "subtunejump", "retainzeropage", "filt_ctrl_fx"} |-> {"normal", "extra"}]
  @@ [flag \in {"portavibra", "fastspeedbind", "delaysupport", "allghostregs", "filteralways",
                "pulsealways", "vibslidealways"} |-> {"extra"}]
  @@ [flag \in {"portame_notefx", "subtunesupport", "filtshift_supp", "vibfreqfx_supp",
                "filter_smallfx", "detune_smallfx", "wfctrl_smallfx"} |->
       {"normal", "medium", "light", "extra"}]
  @@ [flag \in {"transposesupp", "detunesupport", "arpspeedsupp", "filtresetsw", "pwresetsw",
                "finefiltsweep", "tempoprgsupp"} |-> {"normal", "medium", "extra", "demo"}]
  @@ [flag \in {"wfarp_nop_supp", "multispeedsupp", "seq_fx_support", "volset_support"} |->
       {"normal", "medium", "light", "extra", "demo"}]
Flags == DOMAIN OnIn

\* The flags no site shows, and those whose site is there only when they are on.
Unread == {"vibratotypes", "gateoffptr", "subtunejump", "filteralways", "pulsealways",
           "portame_notefx", "subtunesupport", "filtshift_supp", "vibfreqfx_supp",
           "filter_smallfx", "detune_smallfx", "wfctrl_smallfx", "tempoprgsupp",
           "seq_fx_support", "volset_support"}
OnlyOn == {"retainzeropage", "filt_ctrl_fx"}

\* features_for_driver: a byte that is no driver is the normal build's.
BuildOf(driver) == IF driver \in 0 .. 5 THEN Builds[driver + 1] ELSE "normal"
DriverOf(f) == IF HasHeader(f) THEN f.header.driver ELSE 0

-----------------------------------------------------------------------------
\* Mutant: the whole file, whatever init enters.
WholeCode(f) == [from |-> f.load, to |-> f.static.hi]
\* The code of the player that init is, the whole file's where it is none of several.
PlayerCode(f) ==
  LET bases == DOMAIN f.players
      above == {b \in bases : b > f.entryAt}
  IN  IF Cardinality(bases) > 1 /\ f.entryAt \in bases
        THEN [from |-> f.entryAt, to |-> IF above = {} THEN f.static.hi ELSE Min(above)]
      ELSE [from |-> f.load, to |-> f.static.hi]

ImageSites(f, facet) == SelectSeq(f.static.code.sites, LAMBDA s : s.of = facet)
Sites(f, facet) ==
  SelectSeq(ImageSites(f, facet), LAMBDA s : PlayerCode(f).from <= s.at /\ s.at < PlayerCode(f).to)

\* One on-form decides; or the first site does.
AnyOn(sites, absent) == IF sites = <<>> THEN absent ELSE \E i \in DOMAIN sites : sites[i].val
FirstOn(sites, absent) == IF sites = <<>> THEN absent ELSE sites[1].val

\* Where hard restart ends: at what follows the continuous effects' instrument check,
\* or at the start of a table's step.
VibSlideAlways(f, absent) ==
  LET exit == Sites(f, "hrender")
      check == Sites(f, "cntplay")
  IN  IF exit = <<>> \/ check = <<>> THEN absent
      ELSE IF exit[1].val = check[1].val THEN TRUE
      ELSE IF \E i \in DOMAIN Sites(f, "not_cntply2") : Sites(f, "not_cntply2")[i].at = exit[1].val
        THEN FALSE
      ELSE absent

FlagOf(f, flag) ==
  LET default == BuildOf(DriverOf(f)) \in OnIn[flag]
  IN  CASE flag \in Unread -> default
        [] flag \in OnlyOn -> AnyOn(Sites(f, flag), FALSE)
        [] flag = "vibslidealways" -> VibSlideAlways(f, default)
        [] OTHER -> AnyOn(Sites(f, flag), default)

Quirks(f) ==
  [first_frame_freq_by_track |-> FirstOn(ImageSites(f, "first_frame_freq_by_track"), FALSE),
   first_frame_fixed_waveform |-> AnyOn(Sites(f, "first_frame_fixed_waveform"), FALSE),
   filter_stop_rewinds |-> FirstOn(Sites(f, "filter_stop_rewinds"), TRUE),
   kbtrack_fswitch |-> AnyOn(Sites(f, "kbtrack_fswitch"), TRUE),
   wfctrl_fx_stores |-> AnyOn(Sites(f, "wfctrl_fx_stores"), FALSE),
   sel_ins_limit |-> FirstOn(Sites(f, "sel_ins_limit"), 63)]

\* The player's image, as the flags that are on and the quirks.
Variant(f) == [on |-> {flag \in Flags : FlagOf(f, flag)}, quirks |-> Quirks(f)]
=============================================================================
