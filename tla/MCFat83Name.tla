---------------------------- MODULE MCFat83Name ----------------------------
(***************************************************************************)
(* Fat83Name over every name of 1 to 5 characters from a, A and the dot,   *)
(* with the stem cut to 3 and the extension to 2 characters (the code's 8  *)
(* and 3).  These names reach every branch of the formatting: stems and    *)
(* extensions that are cut, padded or empty, several dots, a leading dot,  *)
(* a trailing dot, and names that differ only in case.  "." and ".." name  *)
(* directories, not files, and are left out.                               *)
(***************************************************************************)
EXTENDS Fat83Name

MCUpper == "a" :> "A"

MCNames == BoundedSeq({"a", "A", "."}, 5) \ {<<>>, <<".">>, <<".", ".">>}

=============================================================================
