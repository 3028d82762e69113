----------------------------- MODULE AccessUnits ------------------------------
(***************************************************************************)
(* Annex-B streams as mi-player reads and writes them, and au_end, which   *)
(* finds the end of the access unit a window begins with.                  *)
(*                                                                         *)
(* A stream is a sequence of symbols, each <<what, picture, NAL, place>>:  *)
(* a start code, the header of a NAL unit, which says its type, or a byte  *)
(* of its payload.  A start code is one symbol, so no window cuts it in    *)
(* two; emulation prevention keeps it out of payloads.                     *)
(***************************************************************************)
EXTENDS Integers, Sequences, FiniteSets

\* Parameter sets are one type here; "none" is any type au_end ignores.
NalTypes == {"aud", "ps", "sei", "slice", "none"}

start_code == <<"sc", 0, 0, 0>>

\* NAL unit j of picture k: nal is its type t and the length n of its payload.
NalUnit(k, j, nal) ==
    <<<<nal.t, k, j, 0>>>> \o [b \in 1 .. nal.n |-> <<"body", k, j, b>>]

\* The type of the NAL unit behind the start code at i.  The zero byte of
\* another start code is type 0, a slice in H.265 only; what a payload byte
\* would say, where a header was lost, is junk.
TypeAt(b, i, is_h265, junk) ==
    LET what == b[i + 1][1] IN
    CASE what = "sc"   -> IF is_h265 THEN "slice" ELSE "none"
      [] what = "body" -> junk
      [] OTHER         -> what

vcl(type) == type = "slice"

\* H.265 has its SEI in two types, and the code knows neither.
starts_auMutant(type, seen_vcl, is_h265) ==
    type = "aud" \/ type \in {"ps", "slice"} \/ (type = "sei" /\ ~is_h265)
starts_au(type, seen_vcl, is_h265) ==
    \/ type = "aud"
    \/ seen_vcl /\ (vcl(type) \/ type = "ps" \/ (type = "sei" /\ ~is_h265))

\* How many symbols the access unit at the front of b has.  A start code that
\* is the last symbol of b begins nothing yet.
au_end(b, is_h265, junk) ==
    LET Type(i)     == TypeAt(b, i, is_h265, junk)
        codes       == {i \in 1 .. Len(b) - 1 : b[i] = start_code}
        seen_vcl(i) == \E j \in codes : j < i /\ vcl(Type(j))
        starts      == {i \in codes \ {1} :
                           starts_au(Type(i), seen_vcl(i), is_h265)}
    IN  IF starts = {} THEN Len(b)
        ELSE (CHOOSE i \in starts : \A j \in starts : i <= j) - 1
==============================================================================
