------------------------------ MODULE JasLang ------------------------------
(***************************************************************************)
(* The JasLang interpreter: execute_block() recursing over the lines of a  *)
(* program, its loops, branches, calls and signals, under a limit on the   *)
(* steps. A line is its kind of statement; values are left out: conditions *)
(* and lengths of arrays are chosen freely, and any expression may fail.   *)
(* The Python call stack is a sequence of activations of execute_block().  *)
(***************************************************************************)
EXTENDS Integers, Sequences, FiniteSets, FiniteSetsExt

CONSTANTS Programs,   \* the sources given to the interpreter
          MaxSteps,   \* max_steps
          MaxItems,   \* bound on the length of an array that "for" iterates
          MaxDepth    \* blocks that fit in Python's recursion limit

Definitions == {"fn", "class"}
Openers == {"if", "while", "for"} \cup Definitions
Kinds == Openers \cup {"else", "elseif", "end", "break", "continue", "return", "say", "call"}

ASSUME JasLangAssumption ==
  /\ Programs \subseteq Seq(Kinds)
  /\ MaxSteps \in Nat \ {0} /\ MaxItems \in Nat /\ MaxDepth \in Nat \ {0}

VARIABLES
  lines,    \* self.lines
  stack,    \* activations: at (i), end, call (the fn it runs, or 0),
            \* loop (the line of the loop it is in, or 0), left (items of a for),
            \* asking (the condition of its while has called a function)
  steps,    \* self.steps
  state     \* "running", "finished", or the exception that ended it

vars == <<lines, stack, steps, state>>

-----------------------------------------------------------------------------
(* The structure of a program                                              *)

(* The openers in lines first..last that no line of it closes.             *)
Opened(first, last) ==
  Cardinality({k \in first..last : lines[k] \in Openers})
    - Cardinality({k \in first..last : lines[k] = "end"})

(* find_end(): the ends at which what start opens is closed.               *)
Ends(start, end) == {j \in start..end - 1 : lines[j] = "end" /\ Opened(start, j) = 0}
Closed(start, end) == Ends(start, end) # {}
FindEnd(start, end) == Min(Ends(start, end))

(* find_branch(): the last else of its own, or else the end.               *)
Elses(start, end) ==
  {j \in start..FindEnd(start, end) : lines[j] = "else" /\ Opened(start, j) = 1}
HasElse(start, end) == Elses(start, end) # {}

Last == Len(lines)

Encloses(d, j) == d < j /\ Closed(d, Last + 1) /\ j < FindEnd(d, Last + 1)

(* index_definitions(): functions outside of functions, and methods; a     *)
(* definition without its end is refused.                                  *)
Defs(kinds) == {d \in 1..Last : lines[d] \in kinds}
Callable == {f \in Defs({"fn"}) : \A d \in Defs({"fn"}) : ~Encloses(d, f)}
Unclosed == \E d \in Defs(Definitions) :
              /\ ~Closed(d, Last + 1)
              /\ \A e \in Defs(Definitions) : ~Encloses(e, d)

Block(at, end, call) ==
  [at |-> at, end |-> end, call |-> call, loop |-> 0, left |-> 0, asking |-> FALSE]

Init ==
  /\ lines \in Programs
  /\ stack = <<Block(1, Last + 1, 0)>>
  /\ steps = 0
  /\ state = IF Unclosed THEN "Missing end" ELSE "running"

-----------------------------------------------------------------------------
(* One statement of the innermost block                                    *)

Top == stack[Len(stack)]
Set(k, frame) == SubSeq(stack, 1, k - 1) \o <<frame>>
Raise(exception) == state' = exception /\ UNCHANGED <<lines, stack>>

(* The block goes on at line i.                                            *)
GoOn(i) == /\ stack' = Set(Len(stack), [Top EXCEPT !.at = i])
           /\ UNCHANGED <<lines, state>>

(* It goes on at line i once the new block is done; Python's own stack is  *)
(* bounded, and a RecursionError ends the program.                         *)
Enter(frame, block) ==
  IF Len(stack) < MaxDepth
  THEN /\ stack' = Set(Len(stack), frame) \o <<block>>
       /\ UNCHANGED <<lines, state>>
  ELSE Raise("RecursionError")

(* Mutant of AtStatement: tick() counts and forgets to compare.            *)
AtStatementUnlimited(kinds) ==
  /\ state = "running" /\ Top.loop = 0 /\ Top.at < Top.end
  /\ lines[Top.at] \in kinds
  /\ steps <= MaxSteps
  /\ steps' = steps + 1

(* Mutant of AtStatement: tick() is called for an output line only.        *)
AtStatementUncounted(kinds) ==
  /\ state = "running" /\ Top.loop = 0 /\ Top.at < Top.end
  /\ lines[Top.at] \in kinds
  /\ steps < MaxSteps
  /\ steps' = IF kinds = {"say"} THEN steps + 1 ELSE steps

(* tick() lets the statement run, which is of one of these kinds.          *)
AtStatement(kinds) ==
  /\ state = "running" /\ Top.loop = 0 /\ Top.at < Top.end
  /\ lines[Top.at] \in kinds
  /\ steps < MaxSteps
  /\ steps' = steps + 1

StepLimit ==
  /\ state = "running" /\ Top.loop = 0 /\ Top.at < Top.end
  /\ steps >= MaxSteps
  /\ steps' = steps + 1
  /\ Raise("Execution step limit exceeded")

Plain == AtStatement({"say"}) /\ GoOn(Top.at + 1)

SkipDefinition ==
  /\ AtStatement(Definitions)
  /\ IF Closed(Top.at, Top.end) THEN GoOn(FindEnd(Top.at, Top.end) + 1) ELSE Raise("Missing end")

(* An else or an end of no block of its own ends the block it is in.       *)
StrayEnd == AtStatement({"else", "elseif", "end"}) /\ GoOn(Top.end)

If(condition) ==
  /\ AtStatement({"if"})
  /\ LET i == Top.at end == Top.end after == FindEnd(i, end) else == Max(Elses(i, end)) IN
       IF ~Closed(i, end) THEN Raise("Missing end")
       ELSE LET next == [Top EXCEPT !.at = after + 1] IN
            IF condition
            THEN Enter(next, Block(i + 1, IF HasElse(i, end) THEN else ELSE after, 0))
            ELSE IF HasElse(i, end) THEN Enter(next, Block(else + 1, after, 0))
            ELSE GoOn(after + 1)

(* A loop statement is ticked once, on entry.                              *)
Loop(items) ==
  /\ AtStatement({"while", "for"})
  /\ IF Closed(Top.at, Top.end)
     THEN /\ stack' = Set(Len(stack), [Top EXCEPT !.loop = Top.at, !.left = items])
          /\ UNCHANGED <<lines, state>>
     ELSE Raise("Missing end")

(* Mutant of LoopBody: the body goes on to the end of the outer block.     *)
LoopBodyUnended == Block(Top.loop + 1, Top.end, 0)

LoopBody == Block(Top.loop + 1, FindEnd(Top.loop, Top.end), 0)
AfterLoop(frame) ==
  [frame EXCEPT !.at = FindEnd(frame.loop, frame.end) + 1, !.loop = 0, !.left = 0, !.asking = FALSE]

(* call_function(), call_method(), invoke(): the body runs, and frame goes *)
(* on after it.                                                            *)
Invoke(frame) ==
  \E f \in Callable : Enter(frame, Block(f + 1, FindEnd(f, Last + 1), f))

(* Each evaluation of the condition of a while may call a function; it is  *)
(* outside of the try, so a signal of that function is not for this loop.  *)
CallInCondition ==
  /\ state = "running" /\ Top.loop # 0 /\ lines[Top.loop] = "while" /\ ~Top.asking
  /\ Invoke([Top EXCEPT !.asking = TRUE])
  /\ UNCHANGED steps

(* The condition of a while, or the items that are left to a for.          *)
Iterate(again) ==
  /\ state = "running" /\ Top.loop # 0
  /\ lines[Top.loop] = "for" => again = (Top.left > 0)
  /\ IF again
     THEN Enter([Top EXCEPT !.left = IF @ > 0 THEN @ - 1 ELSE 0, !.asking = FALSE], LoopBody)
     ELSE stack' = Set(Len(stack), AfterLoop(Top)) /\ UNCHANGED <<lines, state>>
  /\ UNCHANGED steps

(* BreakSignal and ContinueSignal reach the nearest loop of the Python     *)
(* stack, through the functions that were called inside it.                *)
Loops == {k \in 1..Len(stack) : stack[k].loop # 0 /\ ~stack[k].asking}

Break ==
  /\ AtStatement({"break"})
  /\ IF Loops = {} THEN Raise("BreakSignal")
     ELSE stack' = Set(Max(Loops), AfterLoop(stack[Max(Loops)])) /\ UNCHANGED <<lines, state>>

Continue ==
  /\ AtStatement({"continue"})
  /\ IF Loops = {} THEN Raise("ContinueSignal")
     ELSE stack' = SubSeq(stack, 1, Max(Loops)) /\ UNCHANGED <<lines, state>>

Call ==
  /\ AtStatement({"call"})
  /\ IF Callable = {} THEN Raise("Unknown function") ELSE Invoke([Top EXCEPT !.at = @ + 1])

(* ReturnSignal ends the function that was called last, and its loops.     *)
Return ==
  /\ AtStatement({"return"})
  /\ LET called == {k \in 1..Len(stack) : stack[k].call # 0} IN
       IF called = {} THEN Raise("ReturnSignal")
       ELSE stack' = SubSeq(stack, 1, Max(called) - 1) /\ UNCHANGED <<lines, state>>

(* evaluate(): an expression is malformed, refers to what does not exist   *)
(* or is refused, or the statement does not parse. The condition of a      *)
(* while is evaluated on each turn, every other expression on its tick.    *)
EvaluationFails ==
  \/ /\ AtStatement({"say", "if", "for", "return", "call"})
     /\ lines[Top.at] = "if" => Closed(Top.at, Top.end)
     /\ Raise("evaluation failed")
  \/ /\ state = "running" /\ Top.loop # 0 /\ lines[Top.loop] = "while"
     /\ Raise("evaluation failed")
     /\ UNCHANGED steps

(* The block is done: execute_block() returns, and run() with the last.    *)
BlockDone ==
  /\ state = "running" /\ Top.loop = 0 /\ Top.at >= Top.end
  /\ IF Len(stack) = 1
     THEN state' = "finished" /\ UNCHANGED stack
     ELSE stack' = SubSeq(stack, 1, Len(stack) - 1) /\ UNCHANGED state
  /\ UNCHANGED <<lines, steps>>

Next ==
  \/ Plain \/ SkipDefinition \/ StrayEnd \/ Break \/ Continue \/ Call \/ Return
  \/ \E condition \in BOOLEAN : If(condition) \/ Iterate(condition)
  \/ CallInCondition
  \/ \E items \in 0..MaxItems : Loop(items)
  \/ BlockDone \/ StepLimit \/ EvaluationFails

Spec == Init /\ [][Next]_vars
FairSpec == Spec /\ WF_vars(Next)   \* the interpreter runs

-----------------------------------------------------------------------------
(* Properties                                                              *)

(* Every variable has its type, and the step limit is never passed by more *)
(* than the step that reports it.                                          *)
TypeOK ==
  /\ lines \in Programs
  /\ stack \in Seq([at : Nat, end : Nat, call : Nat, loop : Nat, left : 0..MaxItems,
                    asking : BOOLEAN])
  /\ Len(stack) \in 1..MaxDepth
  /\ steps \in 0..MaxSteps + 1
  /\ steps > MaxSteps => state = "Execution step limit exceeded"

(* The definition a line is in: 0 for the program itself.                  *)
Owner(i) ==
  LET around == {d \in Defs(Definitions) : Encloses(d, i)} IN
    IF around = {} THEN 0 ELSE Max(around)

Running(k) ==
  LET called == {j \in 1..k : stack[j].call # 0} IN
    IF called = {} THEN 0 ELSE stack[Max(called)].call

(* Lexical scope: the body of a function runs only while it is called, and *)
(* that of a class never; a block entered by a branch or a loop lies in    *)
(* the block it was entered from. So leaving a block by any signal, at any *)
(* depth, resumes a line of the program text around it.                    *)
BlocksNest ==
  /\ state = "running" =>
       \A k \in 1..Len(stack) : stack[k].at < stack[k].end => Owner(stack[k].at) = Running(k)
  /\ \A k \in 2..Len(stack) :
       /\ stack[k].end <= Last
       /\ stack[k].call = 0 => stack[k].end < stack[k - 1].end
       /\ stack[k - 1].loop # 0 /\ stack[k].call = 0 =>
            stack[k - 1].loop < stack[k].at
              /\ stack[k].end = FindEnd(stack[k - 1].loop, stack[k - 1].end)

EmptyWhile == \E i \in 1..Last - 1 : lines[i] = "while" /\ lines[i + 1] = "end"

(* Every program ends, if only at the step limit: each turn of a loop and  *)
(* each call has a step in it. The exception is a while with no line in    *)
(* its body, whose condition alone is evaluated without end.               *)
EveryProgramEnds == ~EmptyWhile ~> state # "running"
=============================================================================
