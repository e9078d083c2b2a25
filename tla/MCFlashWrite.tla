---------------------------- MODULE MCFlashWrite ----------------------------
(***************************************************************************)
(* Instances of FlashWrite for TLC.                                        *)
(***************************************************************************)
EXTENDS FlashWrite

\* Sectors of two cells.  The first image fills a sector, the second half of
\* one; the sector between them (cells 2 and 3) belongs to neither.
AlignedPlan == <<[offset |-> 0, len |-> 2], [offset |-> 4, len |-> 1]>>

\* Two images that share the middle sector.
SharedSectorPlan == <<[offset |-> 0, len |-> 3], [offset |-> 3, len |-> 1]>>
=============================================================================
