----------------------------- MODULE Execution -----------------------------
(***************************************************************************)
(* How a function runs, in the languages the analysis reads: the           *)
(* specification its control-flow graphs are compared with.  A body is a   *)
(* sequence of statements; each has a label `at', the line its graph       *)
(* statement is found by, and a step that executes a statement, or tests   *)
(* the condition of one, says its label.  Values are left out: a condition *)
(* may hold or not whenever it is tested, unless it is constant, and a     *)
(* statement or a test inside a try that has handlers may throw.           *)
(*                                                                         *)
(* `stack' holds what is left to do, innermost first; `mode' is "run", or  *)
(* the jump that is leaving the frames of the stack one by one, to the     *)
(* label `aim' if it has one.                                              *)
(***************************************************************************)
EXTENDS Integers, Sequences, SequencesExt

CONSTANT Functions      \* the function bodies that are run

VARIABLES function, stack, mode, aim, said

runVars == <<function, stack, mode, aim, said>>

Silent == 0
Jumps  == {"return", "break", "continue", "throw"}

Block(stmts) == [op |-> "block", rest |-> stmts]

\* A condition to be tested, and what to do when it holds and when it does not.
Test(cond, yes, no) == [op |-> "test", cond |-> cond, yes |-> yes, no |-> no]

\* The call of a function, with the calls it has deferred.
Call == [op |-> "call", deferred |-> <<>>]

RunInit ==
    /\ function \in Functions
    /\ stack = <<Block(function), Call>>
    /\ mode = "run" /\ aim = 0
    /\ said = Silent

(***************************************************************************)
(* One statement of the innermost block.                                   *)
(***************************************************************************)
AtStatement == mode = "run" /\ stack # <<>> /\ Head(stack).op = "block"
                            /\ Head(stack).rest # <<>>
Current     == Head(Head(stack).rest)
Below       == <<Block(Tail(Head(stack).rest))>> \o Tail(stack)

InTry == \E i \in 1 .. Len(stack) :
            stack[i].op = "try" /\ stack[i].of.handlers # <<>>

ExecSimple ==
    /\ AtStatement /\ Current.op = "simple"
    /\ said' = Current.at
    /\ stack' = Below
    /\ mode' \in IF InTry THEN {"run", "throw"} ELSE {"run"}
    /\ UNCHANGED <<function, aim>>

\* The last statement of a case, which goes on with the next: see Selected.
ExecFallthrough ==
    /\ AtStatement /\ Current.op = "fallthrough"
    /\ said' = Current.at
    /\ stack' = Below
    /\ UNCHANGED <<function, mode, aim>>

ExecDefer ==
    /\ AtStatement /\ Current.op = "defer"
    /\ said' = Current.at
    /\ stack' = [Below EXCEPT ![Len(Below)].deferred = <<Current.call>> \o @]
    /\ UNCHANGED <<function, mode, aim>>

ExecJump ==
    /\ AtStatement /\ Current.op \in Jumps
    /\ said' = Current.at
    /\ mode' = Current.op
    /\ aim' = Current.to
    /\ stack' = Below
    /\ UNCHANGED function

(***************************************************************************)
(* Conditions.  The second operand of && or || is tested if the first does *)
(* not decide.                                                             *)
(***************************************************************************)
Testing == mode = "run" /\ stack # <<>> /\ Head(stack).op = "test"

TestOperand ==
    /\ Testing
    /\ LET t     == Head(stack)
           right == Test(t.cond.right, t.yes, t.no)
       IN  \/ /\ t.cond.op = "and"
              /\ stack' = <<Test(t.cond.left, <<right>>, t.no)>> \o Tail(stack)
           \/ /\ t.cond.op = "or"
              /\ stack' = <<Test(t.cond.left, t.yes, <<right>>)>> \o Tail(stack)
    /\ said' = Silent
    /\ UNCHANGED <<function, mode, aim>>

\* A for without a condition goes on; some arm of a match matches.
Outcomes(cond) ==
    CASE cond.op = "test" -> BOOLEAN
      [] cond.op \in {"true", "omitted"} -> {TRUE}
      [] cond.op = "false" -> {FALSE}

TestCondition ==
    /\ Testing /\ Head(stack).cond.op \notin {"and", "or"}
    /\ said' = Head(stack).cond.at
    /\ \/ /\ \E holds \in Outcomes(Head(stack).cond) :
                stack' = (IF holds THEN Head(stack).yes ELSE Head(stack).no) \o Tail(stack)
          /\ mode' = "run"
       \/ InTry /\ stack' = Tail(stack) /\ mode' = "throw"
    /\ UNCHANGED <<function, aim>>

EnterIf ==
    /\ AtStatement /\ Current.op = "if"
    /\ stack' = <<Test(Current.cond, <<Block(Current.then)>>, <<Block(Current.orelse)>>)>>
                \o Below
    /\ said' = Silent
    /\ UNCHANGED <<function, mode, aim>>

(***************************************************************************)
(* Loops.  An iteration is the body on top of an "again" frame.            *)
(***************************************************************************)
Iteration(s) == <<Block(s.body), [op |-> "again", of |-> s]>>

\* An iteration and the test before it, but for an endless loop.
Round(s) ==
    CASE s.op \in {"while", "do", "for"} -> <<Test(s.cond, Iteration(s), <<>>)>>
      [] s.op = "foreach" ->
            <<Test([op |-> "test", at |-> s.at], Iteration(s), <<>>)>>
      [] s.op = "loop" -> Iteration(s)

EnterLoop ==
    /\ AtStatement /\ Current.op \in {"while", "do", "loop", "for", "foreach"}
    /\ stack' = (CASE Current.op = "for"     -> <<Block(Current.init)>> \o Round(Current)
                   [] Current.op = "foreach" ->
                         <<Block(<<[op |-> "simple", at |-> Current.over]>>)>> \o Round(Current)
                   [] Current.op = "do"      -> Iteration(Current)
                   [] OTHER                  -> Round(Current)) \o Below
    /\ said' = Silent
    /\ UNCHANGED <<function, mode, aim>>

\* The body of a loop ran to its end or continued: the updates of a for, and
\* around again.
Again ==
    /\ mode = "run" /\ stack # <<>> /\ Head(stack).op = "again"
    /\ LET s == Head(stack).of
       IN  stack' = (IF s.op = "for" THEN <<Block(s.update)>> ELSE <<>>)
                    \o Round(s) \o Tail(stack)
    /\ said' = Silent
    /\ UNCHANGED <<function, mode, aim>>

\* A label is a frame around the statement it labels.
EnterLabeled ==
    /\ AtStatement /\ Current.op = "labeled"
    /\ stack' = <<Block(<<Current.of>>), [op |-> "label", label |-> Current.label]>> \o Below
    /\ said' = Silent
    /\ UNCHANGED <<function, mode, aim>>

(***************************************************************************)
(* Switch and match.                                                       *)
(***************************************************************************)
FallsOn(s, i) ==
    \/ s.falls
    \/ s.cases[i].body # <<>> /\ Last(s.cases[i].body).op = "fallthrough"

\* The statements a switch runs when it selects case i.
Selected(s, i) ==
    LET last == CHOOSE j \in i .. Len(s.cases) :
                    /\ j = Len(s.cases) \/ ~FallsOn(s, j)
                    /\ \A k \in i .. j - 1 : FallsOn(s, k)
    IN  FlattenSeq([j \in 1 .. last - i + 1 |-> s.cases[i + j - 1].body])

ExecSwitch ==
    /\ AtStatement /\ Current.op = "switch"
    /\ said' = Current.at
    /\ \/ \E i \in 1 .. Len(Current.cases) :
             stack' = <<Block(Selected(Current, i)), [op |-> "switch"]>> \o Below
       \/ /\ \A i \in 1 .. Len(Current.cases) : ~Current.cases[i].default
          /\ stack' = Below
    /\ UNCHANGED <<function, mode, aim>>

ExecMatch ==
    /\ AtStatement /\ Current.op = "match"
    /\ said' = Current.at
    /\ stack' = <<[op |-> "arms", rest |-> Current.arms]>> \o Below
    /\ UNCHANGED <<function, mode, aim>>

TryArm ==
    /\ mode = "run" /\ stack # <<>> /\ Head(stack).op = "arms"
    /\ LET arms == Head(stack).rest
       IN  stack' = <<Test(Head(arms).cond, <<Block(Head(arms).body)>>,
                           <<[op |-> "arms", rest |-> Tail(arms)]>>)>> \o Tail(stack)
    /\ said' = Silent
    /\ UNCHANGED <<function, mode, aim>>

\* A body that opens resources: from the declaration of each on, it is in a
\* try of its own whose finally closes it.
RECURSIVE Opening(_, _)
Opening(resources, body) ==
    IF resources = <<>> THEN body
    ELSE <<[op |-> "simple", at |-> Head(resources).at],
           [op |-> "try", resources |-> <<>>, body |-> Opening(Tail(resources), body),
            handlers |-> <<>>, finals |-> <<Head(resources).close>>]>>

EnterTry ==
    /\ AtStatement /\ Current.op = "try"
    /\ stack' = <<Block(Opening(Current.resources, Current.body)),
                  [op |-> "try", of |-> Current]>> \o Below
    /\ said' = Silent
    /\ UNCHANGED <<function, mode, aim>>

EnterUsing ==
    /\ AtStatement /\ Current.op = "using"
    /\ stack' = <<Block(Opening(<<Current.of>>, Current.body))>> \o Below
    /\ said' = Silent
    /\ UNCHANGED <<function, mode, aim>>

(***************************************************************************)
(* The end of a frame that ran to its end.  A try or a handler runs its    *)
(* finally then, and a call what it has deferred.                          *)
(***************************************************************************)
Afterwards(labels, then) ==
    <<Block([i \in DOMAIN labels |-> [op |-> "simple", at |-> labels[i]]]),
      [op |-> "after", then |-> then]>> \o Tail(stack)

Finally(try, then) == Afterwards(try.finals, then)

EndFrame ==
    /\ mode = "run" /\ stack # <<>>
    /\ CASE Head(stack).op = "block" ->
               /\ Head(stack).rest = <<>>
               /\ stack' = Tail(stack) /\ mode' = "run"
         [] Head(stack).op \in {"switch", "label"} -> stack' = Tail(stack) /\ mode' = "run"
         [] Head(stack).op = "call" ->
               stack' = Afterwards(Head(stack).deferred, "run") /\ mode' = "run"
         [] Head(stack).op \in {"try", "handler"} ->
               stack' = Finally(Head(stack).of, "run") /\ mode' = "run"
         [] Head(stack).op = "after" ->
               stack' = Tail(stack) /\ mode' = Head(stack).then
         [] OTHER -> FALSE
    /\ said' = Silent
    /\ UNCHANGED <<function, aim>>

(***************************************************************************)
(* A jump leaves the innermost frame, or has arrived: a break at its loop, *)
(* switch or label, a continue at its loop, an exception at a handler.     *)
(* Leaving a try or a handler runs its finally first, and leaving the call *)
(* runs what it has deferred.                                              *)
(***************************************************************************)
\* The label of the loop whose "again" frame is innermost.
LoopLabel ==
    IF Len(stack) >= 3 /\ stack[2].op = "block" /\ stack[2].rest = <<>>
                       /\ stack[3].op = "label"
    THEN stack[3].label ELSE 0

Arrives ==
    LET top == Head(stack)
    IN  CASE mode = "continue" -> top.op = "again" /\ aim \in {0, LoopLabel}
          [] mode = "break"    ->
                IF aim = 0 THEN top.op \in {"again", "switch"}
                           ELSE top.op = "label" /\ top.label = aim
          [] mode = "throw"    -> top.op = "try" /\ top.of.handlers # <<>>
          [] OTHER             -> FALSE

\* Handler i of a try is taken if it has no filter or its filter holds;
\* otherwise the exception goes on to the handlers after it.
Rethrow == Block(<<[op |-> "throw", at |-> Silent, to |-> 0]>>)

Handling(try, i) ==
    LET h     == try.handlers[i]
        taken == <<Block(h.body), [op |-> "handler", of |-> try]>>
        later == [try EXCEPT !.handlers = SubSeq(@, i + 1, Len(@))]
    IN  IF h.filter = <<>> THEN taken
        ELSE <<Test(h.filter[1], taken, <<Rethrow, [op |-> "try", of |-> later]>>)>>

Arrive ==
    /\ mode \in Jumps /\ stack # <<>> /\ Arrives
    /\ CASE mode = "continue" -> stack' = stack
         [] mode = "break"    -> stack' = Tail(stack)
         [] mode = "throw"    ->
               \E i \in DOMAIN Head(stack).of.handlers :
                  stack' = Handling(Head(stack).of, i) \o Tail(stack)
    /\ mode' = "run"
    /\ said' = Silent
    /\ UNCHANGED <<function, aim>>

Leave ==
    /\ mode \in Jumps /\ stack # <<>> /\ ~Arrives
    /\ CASE Head(stack).op \in {"try", "handler"} ->
               stack' = Finally(Head(stack).of, mode) /\ mode' = "run"
         [] Head(stack).op = "call" ->
               stack' = Afterwards(Head(stack).deferred, mode) /\ mode' = "run"
         [] OTHER -> stack' = Tail(stack) /\ mode' = mode
    /\ said' = Silent
    /\ UNCHANGED <<function, aim>>

\* The body ended, returned, or let an exception through.
End ==
    /\ stack = <<>> /\ mode \in {"run", "return", "throw"}
    /\ mode' = "ended"
    /\ said' = Silent
    /\ UNCHANGED <<function, stack, aim>>

Run ==
    \/ ExecSimple \/ ExecJump \/ ExecFallthrough \/ ExecDefer
    \/ TestOperand \/ TestCondition
    \/ EnterIf \/ EnterLoop \/ Again \/ EnterLabeled \/ ExecSwitch \/ ExecMatch \/ TryArm
    \/ EnterTry \/ EnterUsing \/ EndFrame \/ Arrive \/ Leave \/ End
=============================================================================
