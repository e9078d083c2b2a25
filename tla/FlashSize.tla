----------------------------- MODULE FlashSize ------------------------------
(***************************************************************************)
(* FlashSizeBytes: what the flash_size of flasher_args.json, or of the     *)
(* manifest of a bundle, becomes on its way to SPI_SET_PARAMS, in the      *)
(* width of its types.                                                     *)
(***************************************************************************)
EXTENDS Integers

CONSTANTS
    Word,           \* values of a uint32 (2^32)
    Kilo            \* 1024

ASSUME SizeAssumption ==
    /\ Word \in Nat \ {0} /\ Kilo \in Nat \ {0} /\ 4 * Kilo * Kilo < Word

Units == {"", "KB", "MB"}

\* A size as it is written.  Atoi takes a sign; it does not take "keep" and
\* "detect", which are not readable.
FlashSize == [readable : BOOLEAN, n : Int, unit : Units]

Mult(unit) == CASE unit = "" -> 1 [] unit = "KB" -> Kilo [] unit = "MB" -> Kilo * Kilo

\* Operators named Bug... are mistakes that could be made in this code.  No
\* behaviour uses them: PROJECT.json pairs each with the definition it would
\* replace and the property that then fails.

BugSigned(i) == IF 2 * (i % Word) >= Word THEN (i % Word) - Word ELSE i % Word
Uint32(i) == i % Word

FlashSizeBytes(size) ==
    IF size.readable THEN Uint32(Uint32(size.n) * Mult(size.unit)) ELSE 4 * Kilo * Kilo

\* Below 4 GiB and not negative.
Fits(size) == size.readable /\ size.n >= 0 /\ size.n * Mult(size.unit) < Word
=============================================================================
