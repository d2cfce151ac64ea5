------------------------------- MODULE MCRle -------------------------------
(* Small files for TLC: all up to a length over the bytes 0..MaxByte.      *)
EXTENDS Rle

FilesUpTo(n) == UNION {[1..k -> Byte] : k \in 0..n}
SmallInputs  == FilesUpTo(7)
SmallForeign == FilesUpTo(5)

=============================================================================
