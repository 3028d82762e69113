----------------------------- MODULE MCRecorder ------------------------------
(***************************************************************************)
(* The recorder on a ring of three bytes: the smallest in which a frame    *)
(* wraps, a chunk is cut at the end of the memory and a short write leaves *)
(* the middle of one behind; a frame of four bytes never fits.             *)
(***************************************************************************)
EXTENDS Recorder

BothLimits == {NoLimit, 3}   \* -rec, and -d with room for some frames
OnlyCapped == {3}            \* -d
==============================================================================
