----------------------------- MODULE MCVideoPath ------------------------------
(* Pictures of one and of two slices, with parameter sets, SEI and AUD. *)
EXTENDS VideoPath

Nal(t, n) == [t |-> t, n |-> n]

MCShapes == {<<Nal("ps", 0), Nal("slice", 2)>>,
             <<Nal("sei", 0), Nal("slice", 0)>>,
             <<Nal("aud", 0), Nal("slice", 0)>>,
             <<Nal("slice", 0), Nal("slice", 1)>>}
==============================================================================
