------------------------------- MODULE Absence -------------------------------
(* The absent value the runtime's records share: a field, a file or a pointer  *)
(* that is not there.                                                          *)
CONSTANT None
=============================================================================
