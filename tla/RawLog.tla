------------------------------- MODULE RawLog -------------------------------
(***************************************************************************)
(* What the recorder promises the rest of the program: the messages it     *)
(* accepts form a log numbered in increasing order, and the archive is at  *)
(* every moment a prefix of that log.  Nothing accepted is reordered,      *)
(* archived twice or skipped over.  The archive may stop growing.          *)
(***************************************************************************)
EXTENDS Naturals, Sequences

CONSTANT Numbers     \* the ingest_seq values

VARIABLES accepted,  \* ingest_seq of every message accepted, in order
          archived   \* ingest_seq of every row of the archive, in order

logVars == <<accepted, archived>>

Init == accepted = <<>> /\ archived = <<>>

Accept(n) ==
    /\ \A i \in 1 .. Len(accepted) : accepted[i] < n
    /\ accepted' = Append(accepted, n)
    /\ UNCHANGED archived

Archive(upTo) ==
    /\ archived' = SubSeq(accepted, 1, upTo)
    /\ UNCHANGED accepted

Next ==
    \/ \E n \in Numbers : Accept(n)
    \/ \E upTo \in Len(archived) + 1 .. Len(accepted) : Archive(upTo)

Spec == Init /\ [][Next]_logVars

=============================================================================
