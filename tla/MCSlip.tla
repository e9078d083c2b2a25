------------------------------- MODULE MCSlip -------------------------------
(***************************************************************************)
(* Instances of Slip for TLC.                                              *)
(***************************************************************************)
EXTENDS Slip

\* Frames that need escapes at either end, that look like an escape pair, and
\* that are of one byte.
Escapes == <<<<"end", "plain">>, <<"esc", "escEnd">>, <<"plain">>, <<"escEsc", "end">>>>
=============================================================================
