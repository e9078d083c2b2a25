------------------------------ MODULE MCBundle ------------------------------
(***************************************************************************)
(* Builds for TLC: two images with one base name in different directories, *)
(* two keys that are one offset, a key that is no number; a flash size in  *)
(* the upper half of the (scaled-down) word, and one that is no number.    *)
(***************************************************************************)
EXTENDS Bundle

Offsets == [k \in {"0x0", "0x10000", "65536"} |-> IF k = "0x0" THEN 0 ELSE 65536]

BaseNames == [p \in Paths |-> IF p = "app.bin" THEN "app.bin" ELSE "boot.bin"]

FlashSizes == {[readable |-> TRUE, n |-> 40, unit |-> "MB"],
               [readable |-> FALSE, n |-> 0, unit |-> ""]}
=============================================================================
