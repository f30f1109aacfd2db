---------------------------- MODULE MCManualNext ----------------------------
(* ManualNext on a small instance: the threads are interchangeable in the code *)
(* but not permuted, since a temporal property is checked.                      *)
EXTENDS ManualNext
MCProtected == {2}
=============================================================================
