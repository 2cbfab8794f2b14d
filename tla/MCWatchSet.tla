----------------------------- MODULE MCWatchSet -----------------------------
(* Model values for the watch set: two pairs that need not be decided, asked   *)
(* for or settled together, and two requests under way.                       *)
EXTENDS WatchSet, TLC

CONSTANTS p1, p2, o1, o2

(* One pair is decided on alone or with the other, whose part is to survive.  *)
MCBatches   == {{p1}, {p1, p2}}
MCPairs     == {p1, p2}
MCOperators == {o1, o2}
=============================================================================
