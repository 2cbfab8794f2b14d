------------------------------ MODULE MCFanout ------------------------------
(* Model values for the fan-out: a streamed and a polled market.              *)
EXTENDS Fanout

CONSTANTS k, p, t1

MCMarkets == {k, p}
MCPolled  == {p}
MCTabs    == {t1}

(* One pair, or none.                                                         *)
MCWatchSets == {{}, {k, p}}
=============================================================================
