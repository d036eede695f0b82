---------------------------- MODULE MCWebPatcher ----------------------------
(* A small instance of WebPatcher for TLC. *)
EXTENDS WebPatcher

File(rom, order_, n64, large) ==
  [rom |-> rom, order |-> order_, n64 |-> n64, large |-> large]

\* A known image, a swapped dump under its right name, and a file that is
\* neither of the known ones nor small enough.
SomeFiles == {File("known", "native", FALSE, FALSE), File("dump", "swapped", TRUE, FALSE),
              File("other", "native", FALSE, TRUE)}
=============================================================================
