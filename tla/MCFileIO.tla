------------------------------ MODULE MCFileIO ------------------------------
(***************************************************************************)
(* Instances of FileIO for TLC: blocks of three bytes.                     *)
(***************************************************************************)
EXTENDS FileIO

TwoBytes == {1, 2}
Appending == {"append"}
Straddling == {"append", "straddle"}
Overwriting == {"append", "overwrite"}
=============================================================================
