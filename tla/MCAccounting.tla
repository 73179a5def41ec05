---------------------------- MODULE MCAccounting ----------------------------
(* Accounting with one session that starts, reports and stops, and beside  *)
(* it the codec. A datagram is parsed in one synchronous piece, before any *)
(* state of the accounting is touched, so the two are explored as a sum:   *)
(* one takes steps while the other is in its initial state.                *)
EXTENDS Accounting, MCRadiusCodec

CONSTANTS k1

Event(k, type, octets, time) == [session |-> k, type |-> type, octets |-> octets, time |-> time]
MCReport ==
  [k \in Sessions |-> <<Event(k, "Start", 0, 0), Event(k, "Interim-Update", 2, 1),
                        Event(k, "Stop", 1, 2)>>]

MCInit == Init /\ CodecInit
MCNext ==
  \/ CodecInit /\ Next /\ UNCHANGED codecVars
  \/ Init /\ CodecNext /\ UNCHANGED vars
MCVars == <<vars, codecVars>>

(* The NAS is not held up by a listener that parses for ever: the first    *)
(* Send ends the parsing, and from then on this is FairSpec.               *)
MCSpec ==
  /\ MCInit /\ [][MCNext]_MCVars
  /\ \A k \in Sessions : SF_MCVars(CodecInit /\ Send(k) /\ UNCHANGED codecVars)
  /\ Fairness
=============================================================================
