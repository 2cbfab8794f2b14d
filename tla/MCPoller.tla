------------------------------ MODULE MCPoller ------------------------------
(***************************************************************************)
(* Two markets.   A tick is half the time between polls, about 1.1 s at   *)
(* the configured 0.45 requests a second.                                  *)
(***************************************************************************)
EXTENDS Poller

CONSTANTS a, b

MCLists == {<<>>, <<a, a>>, <<b, a>>}

=============================================================================
