-------------------------------- MODULE Null --------------------------------
(***************************************************************************)
(* One value for what is not there: NULL in a column, a row that does not  *)
(* exist, nothing in the hands of a process.                               *)
(***************************************************************************)
CONSTANT None
=============================================================================
