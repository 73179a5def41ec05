---------------------------- MODULE StateTables ----------------------------
(***************************************************************************)
(* The transition tables of src/net/state.mjs, shared by the modules whose *)
(* records carry one of these states.                                      *)
(***************************************************************************)

PaymentStates ==
  {"INITIATED", "PENDING", "VERIFIED", "SETTLED", "FAILED", "REVERSED", "REFUNDED"}

CommandStates ==
  {"QUEUED", "SENT", "ACCEPTED", "EXECUTED", "VERIFIED", "FAILED", "RETRYING", "ABANDONED"}

PaymentTransitions ==
  [INITIATED |-> {"PENDING", "FAILED"},
   PENDING   |-> {"VERIFIED", "FAILED", "REVERSED"},
   VERIFIED  |-> {"SETTLED", "REVERSED", "REFUNDED"},
   SETTLED   |-> {"REVERSED", "REFUNDED"},
   FAILED    |-> {},
   REVERSED  |-> {"REFUNDED"},
   REFUNDED  |-> {}]

CommandTransitions ==
  [QUEUED    |-> {"SENT", "ABANDONED"},
   SENT      |-> {"ACCEPTED", "FAILED", "RETRYING"},
   ACCEPTED  |-> {"EXECUTED", "FAILED", "RETRYING"},
   EXECUTED  |-> {"VERIFIED", "FAILED", "RETRYING"},
   VERIFIED  |-> {},
   FAILED    |-> {"RETRYING", "ABANDONED"},
   RETRYING  |-> {"SENT", "ABANDONED"},
   ABANDONED |-> {}]

(* transition() returns the next state, or throws.                         *)
PaymentMayMove(from, to) == to \in PaymentTransitions[from]
CommandMayMove(from, to) == to \in CommandTransitions[from]
=============================================================================
