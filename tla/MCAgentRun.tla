----------------------------- MODULE MCAgentRun -----------------------------
(* AgentRun with two providers and four calls: one of a free tool, one of  *)
(* a protected, a denied and an unknown one.                               *)
EXTENDS AgentRun

CONSTANTS p1, p2, free, guarded, banned, gone

MCRegistered == <<p1, p2>>
MCTool == [c \in Calls |-> c]

(* An answer with nothing but a summary.                                   *)
Summary == [calls |-> <<>>, malformed |-> FALSE, needsApproval |-> FALSE, says |-> TRUE, steps |-> FALSE]
Call(calls) == [Summary EXCEPT !.calls = calls]

(* Final answers with and without a summary, steps without a summary, a    *)
(* request for approval, one next to a malformed call, and tool calls that *)
(* repeat within an answer and from answer to answer.                      *)
MCAnswers ==
  {Summary, [Summary EXCEPT !.says = FALSE], [Summary EXCEPT !.needsApproval = TRUE],
   [Summary EXCEPT !.needsApproval = TRUE, !.malformed = TRUE],
   [Call(<<free, free>>) EXCEPT !.says = FALSE, !.steps = TRUE],
   [Call(<<guarded, free>>) EXCEPT !.needsApproval = TRUE], Call(<<gone, guarded>>), Call(<<banned>>)}
=============================================================================
