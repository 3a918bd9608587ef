----------------------------- MODULE MCGiAccum -----------------------------
(* Bounds for GiAccum: two looks, two cameras, one of which loses sight of the
   surface after the first edit; a still cap of 3 with moving caps 1 and 2. *)
EXTENDS GiAccum

MCLooks    == {"day", "dusk"}
MCCameras  == {"a", "b"}
MCPhis     == {"soft", "sharp"}
MCSurfaces == {<<"a", 0>>, <<"b", 0>>, <<"a", 1>>}
MCCaps     == {2}
MCEma      == {1}

Start(denoiser) ==
    [scene |-> [look |-> "day", mode |-> "QUALITY", denoiser |-> denoiser],
     cam |-> "a", phi |-> "soft", flags |-> [f \in Flags |-> f # "giDebug"]]
MCStarts == {Start("NONE"), Start("SVGF")}
=============================================================================
