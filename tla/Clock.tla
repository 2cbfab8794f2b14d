------------------------------- MODULE Clock -------------------------------
(***************************************************************************)
(* The clock check (src/arb/clock.py): a few SNTP exchanges over one UDP   *)
(* socket, and the skew of the fastest.  An answer may be lost, be no      *)
(* answer at all, or come after the exchange that asked for it timed out:  *)
(* then it waits in the socket for the next one.                           *)
(*                                                                         *)
(* Times are the local clock's.  The server's is ahead of it by ahead.     *)
(* An exchange is the way of its packets: [up, down, kind], kind being     *)
(* "answered", "lost" or "useless" (a short packet, another mode, a        *)
(* kiss-o'-death, or one without timestamps).                              *)
(***************************************************************************)
EXTENDS Integers, Sequences, SequencesExt, FiniteSetsExt

CONSTANT Timeout   \* of a read of the socket

ASSUME ClockAssumption == Timeout \in Nat \ {0}

\* The reply to a request sent at t1, if one comes.
Reply(x, t1, ahead) ==
    [origin |-> t1, t2 |-> t1 + x.up + ahead, t3 |-> t1 + x.up + ahead,
     at |-> t1 + x.up + x.down, usable |-> x.kind = "answered"]

Replies(x, t1, ahead) == IF x.kind = "lost" THEN {} ELSE {Reply(x, t1, ahead)}

\* Mutant: the correction to apply is returned for the skew.
SampleOfCorrection(origin, t2, t3, t4) ==
    [skew2 |-> (t2 - origin) + (t3 - t4), delay |-> (t4 - origin) - (t3 - t2)]

\* sample_from_timestamps: twice the skew, local minus server, and the delay.
SampleOf(origin, t2, t3, t4) ==
    [skew2 |-> - ((t2 - origin) + (t3 - t4)), delay |-> (t4 - origin) - (t3 - t2)]

\* decode_response, and the echo of the request.
Accepted(r, t1) == r.usable /\ r.origin = t1

\* _exchange at s.now.  The first datagram to come is read, whoever asked for it.
Exchange(s, x, ahead) ==
    LET socket == s.socket \cup Replies(x, s.now, ahead)
        there == {r \in socket : r.at <= s.now + Timeout}
        first == CHOOSE r \in there : \A q \in there : r.at <= q.at
        t4 == Max({s.now, first.at})
    IN  IF there = {} THEN [s EXCEPT !.socket = socket, !.now = @ + Timeout]
        ELSE [now |-> t4 + 1, socket |-> socket \ {first},
              collected |-> IF Accepted(first, s.now)
                            THEN Append(s.collected, SampleOf(first.origin, first.t2, first.t3, t4))
                            ELSE s.collected]

QuerySync(xs, ahead) ==
    FoldLeft(LAMBDA s, x : Exchange(s, x, ahead),
             [now |-> 0, socket |-> {}, collected |-> <<>>], xs).collected

\* The first of the fastest.
BestSample(samples) ==
    samples[Min({i \in DOMAIN samples :
                    \A j \in DOMAIN samples : samples[i].delay <= samples[j].delay})]
=============================================================================
