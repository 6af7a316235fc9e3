------------------------- MODULE MCFunctionAnalysis -------------------------
(***************************************************************************)
(* The function bodies the model checker analyses.  A statement with label *)
(* n has its parts labelled from n + 1 on.                                 *)
(***************************************************************************)
EXTENDS FunctionAnalysis

Leaf(op, n)  == [op |-> op, at |-> n, to |-> 0]
Cond(op, n)  == [op |-> op, at |-> n]
If(n, t, e)  == [op |-> "if", cond |-> Cond("test", n), then |-> t, orelse |-> e]
Loop(op, n, body) == [op |-> op, cond |-> Cond("test", n), body |-> body]
Switch(n, cases, falls) == [op |-> "switch", at |-> n, cases |-> cases, falls |-> falls]
Case(body, default) == [body |-> body, default |-> default]
Catch(filter, body) == [filter |-> filter, body |-> body]
TryWith(resources, body, catches, finals) ==
    [op |-> "try", resources |-> resources, body |-> body, handlers |-> catches,
     finals |-> finals]
Try(body, handlers, finals) ==
    TryWith(<<>>, body, [i \in DOMAIN handlers |-> Catch(<<>>, handlers[i])], finals)
Resource(n) == [at |-> n, close |-> n + 1]

\* Bodies of one statement: any of the operations ops.
Leaves(ops, n) == {<<Leaf(op, n)>> : op \in ops}

Loops == {"while", "do", "loop"}
Ends  == {"simple", "return", "throw"}

\* One compound statement over leaves of the operations ops.
Ifs(ops, n) ==
    {If(n, t, e) : t \in Leaves(ops, n + 1), e \in {<<>>} \cup Leaves(ops, n + 2)}

LoopsOver(bodies, n) == {Loop(op, n, body) : op \in Loops, body \in bodies}

Switches(ops, n) ==
    {Switch(n, <<Case(c, FALSE), Case(d, total)>>, falls) :
        c \in Leaves(ops, n + 1), d \in Leaves(ops, n + 2),
        total \in BOOLEAN, falls \in BOOLEAN}

Tries(bodies, handlers, finals) ==
    {Try(body, hs, fin) : body \in bodies, hs \in handlers, fin \in finals}

\* What a loop may have in its body.
Inner(n) ==
    {<<If(n, t, e)>> : t \in Leaves({"simple", "break", "continue"}, n + 1),
                       e \in {<<>>, <<Leaf("simple", n + 2)>>}}
    \cup {<<c>> : c \in LoopsOver({<<Leaf("break", n + 1)>>}, n)}
    \cup {<<Leaf("simple", n - 1), If(n, <<Leaf(op, n + 1)>>, <<>>), Leaf("simple", n + 2)>> :
            op \in {"break", "continue", "return", "throw"}}

Handlers(n) ==
    {<<>>, <<<<Leaf("simple", n)>>, <<Leaf("return", n + 1)>>>>}
    \cup {<<h>> : h \in Leaves(Ends, n)}

Guarded(n) ==
    Leaves(Ends, n)
    \cup {<<Leaf("simple", n), Leaf("simple", n + 1)>>,
          <<If(n, <<Leaf("throw", n + 1)>>, <<>>)>>}

\* Statements that the graph follows, alone and in the combinations it does.
Plain ==
    Ifs(Ends, 10)
    \cup {If(10, <<c>>, <<Leaf("simple", 11)>>) : c \in Ifs({"simple", "return"}, 20)}
    \cup LoopsOver(Leaves(Ends \cup {"break", "continue"}, 11), 10)
    \cup {If(10, <<Leaf("return", 11), Leaf("simple", 12)>>, <<>>)}
    \cup Switches({"simple", "return"}, 10)
    \cup Tries(Guarded(11), Handlers(15), {<<>>, <<31, 32>>})

Around(c) == <<Leaf("simple", 1), c, Leaf("simple", 90)>>

\* Conditions: constants, && and ||, one in the other.
Both(op, l, r) == [op |-> op, left |-> l, right |-> r]
Conds(n) ==
    {Cond("true", n), Cond("false", n)}
    \cup {Both(op, Cond("test", n), Cond("test", n + 1)) : op \in {"and", "or"}}
Nested(n) ==
    {Both("and", Both("or", Cond("test", n), Cond("test", n + 1)), Cond("test", n + 2)),
     Both("or", Cond("false", n), Both("and", Cond("test", n + 1), Cond("test", n + 2)))}

\* The body of a loop that leaves it, or goes on, half-way.
Midway(op, n) == <<If(n, <<Leaf(op, n + 1)>>, <<>>), Leaf("simple", n + 2)>>

Conditions ==
    {[If(10, <<Leaf("simple", 21)>>, <<Leaf("return", 22)>>) EXCEPT !.cond = c] :
        c \in Conds(10) \cup Nested(10)}
    \cup {[Loop(l[1], 10, Midway(l[2], 21)) EXCEPT !.cond = c] :
        l \in {<<"while", "break">>, <<"do", "continue">>}, c \in Conds(10)}
    \cup {Try(<<[If(10, <<Leaf("simple", 21)>>, <<>>) EXCEPT !.cond = c]>>,
              <<<<Leaf("simple", 31)>>>>, <<41>>) : c \in Conds(10)}

For(init, op, update, body) ==
    [op |-> "for", init |-> init, cond |-> Cond(op, 13), update |-> update, body |-> body]
Fors ==
    {For(<<Leaf("simple", 11)>>, op, <<Leaf("simple", 12)>>, Midway(jump, 21)) :
        op \in {"test", "omitted"}, jump \in {"break", "continue"}}
    \cup {For(<<>>, "test", <<>>, Midway("continue", 21))}
    \cup {[op |-> "foreach", over |-> 10, at |-> 11, body |-> Midway(jump, 21)] :
        jump \in {"break", "continue"}}

\* A loop in a labelled loop, with a jump to the label.
Labeled ==
    {[op |-> "labeled", label |-> 1,
      of |-> Loop("while", 10, <<Loop(inner, 20, <<[Leaf(jump, 21) EXCEPT !.to = 1]>>),
                                 Leaf("simple", 30)>>)] :
        inner \in Loops, jump \in {"break", "continue"}}
    \cup {[op |-> "labeled", label |-> 1, of |-> If(10, <<Leaf("simple", 11)>>, <<>>)]}

Arm(cond, op, n) == [cond |-> cond, body |-> <<Leaf(op, n)>>]
Matches ==
    {[op |-> "match", at |-> 10,
      arms |-> <<Arm(Both("and", Cond("test", 11), Cond("test", 12)), first, 21),
                 Arm(Cond("omitted", 13), "simple", 22)>>] : first \in {"simple", "return"}}

\* A switch that falls through where it says so, after the last case too.
Fallthroughs ==
    {Switch(10, <<Case(<<Leaf("simple", 11), Leaf("fallthrough", 12)>>, FALSE),
                  Case(<<Leaf(op, 13)>>, FALSE),
                  Case(<<Leaf("simple", 14), Leaf("fallthrough", 15)>>, total)>>, FALSE) :
        op \in {"simple", "return"}, total \in BOOLEAN}

Defer(n) == [op |-> "defer", at |-> n, call |-> n + 1]
DeferFunctions ==
    {<<Defer(10)>> \o between \o <<Defer(20)>> \o last :
        between \in {<<>>, <<If(12, <<Leaf("return", 13)>>, <<>>)>>,
                     <<If(12, <<Leaf("throw", 13)>>, <<>>)>>},
        last \in {<<>>, <<Leaf("simple", 30)>>, <<Leaf("return", 30)>>}}

\* Resources without a handler at hand, and a handler with a filter.
Resources ==
    {TryWith(rs, body, <<>>, fin) :
        rs \in {<<Resource(12)>>, <<Resource(12), Resource(14)>>},
        body \in Leaves(Ends, 20), fin \in {<<>>, <<31, 32>>}}
    \cup {[op |-> "using", of |-> Resource(12), body |-> body] : body \in Guarded(20)}
Filters ==
    {TryWith(<<>>, <<Leaf("simple", 20), Leaf(op, 21)>>, <<Catch(<<cond>>, <<Leaf(end, 28)>>)>>, fin) :
        op \in {"simple", "throw"}, end \in {"simple", "return"}, fin \in {<<>>, <<31>>},
        cond \in {Cond("test", 25), Both("and", Cond("test", 25), Cond("test", 26))}}

PlainFunctions ==
    {<<c, Leaf("simple", 90)>> : c \in Plain}
    \cup {Around(c) : c \in LoopsOver(Inner(20), 10) \cup Ifs({"simple"}, 10)
                          \cup Conditions \cup Fors \cup Labeled \cup Matches
                          \cup Fallthroughs \cup Resources \cup Filters}
    \cup DeferFunctions

\* Loops whose body begins with a loop, at the start of a function.
LoopFirst == {<<c, Leaf("simple", 90)>> : c \in LoopsOver(
                  {<<c>> : c \in LoopsOver({<<Leaf("break", 21)>>}, 20)}, 10)}

\* A loop after a join, whose header the entry does not lead to directly.
LoopAfterIf ==
    {<<If(10, <<Leaf("simple", 11)>>, <<>>), Leaf("simple", 12),
       Loop(op, 20, <<Leaf("simple", 21)>>)>> : op \in Loops}

\* Functions whose end is reached past an earlier return.
ReturnBefore == {<<If(10, <<Leaf("return", 11)>>, <<>>), Leaf("simple", 90)>>}

\* A statement after both arms of a condition.
JoinAfterIf == {Around(If(10, <<Leaf("simple", 11)>>, <<Leaf("simple", 12)>>))}

\* Switches all of whose cases break, a continue inside a switch, a break to
\* the label of a statement that is no loop, and a defer under a condition.
SwitchJumps ==
    {Around(Switch(10, <<Case(<<Leaf("simple", 11), Leaf("break", 12)>>, FALSE),
                         Case(<<Leaf("simple", 13), Leaf("break", 14)>>, TRUE)>>, TRUE)),
     Around(Loop("while", 10, <<Switch(20, <<Case(<<Leaf("continue", 21)>>, FALSE),
                                             Case(<<Leaf("simple", 22)>>, TRUE)>>, FALSE)>>))}
LabelAndDefer ==
    {Around([op |-> "labeled", label |-> 1,
             of |-> If(10, <<[Leaf("break", 11) EXCEPT !.to = 1]>>, <<>>)]),
     <<Defer(10), If(20, <<Defer(21)>>, <<>>)>>}

Throwing == <<Leaf("throw", 21)>>

\* Jumps through a finally, handlers under another try, a handler for the body
\* of a resource, and a handler after one with a filter.
FinallyExits ==
    {Around(Loop("while", 10, <<Try(<<Leaf(op, 21)>>, <<>>, <<31>>)>>)) :
        op \in {"break", "continue"}}
    \cup
    {Around(Try(<<Try(<<Leaf(op, 21)>>, hs, <<31>>)>>, outer, <<41>>)) :
        op \in {"simple", "throw"}, hs \in {<<>>, <<<<Leaf("simple", 22)>>>>},
        outer \in {<<>>, <<<<Leaf("simple", 42)>>>>}}
    \cup
    {Around(TryWith(<<Resource(12)>>, Throwing, <<Catch(<<>>, <<Leaf("simple", 22)>>)>>, <<>>)),
     Around(TryWith(<<>>, Throwing, <<Catch(<<Cond("test", 25)>>, <<Leaf("simple", 22)>>),
                                      Catch(<<>>, <<Leaf("simple", 23)>>)>>, <<>>))}

GraphsFor(fs) == UNION {GraphsOf(f) : f \in fs}

MCBlocks        == 1 .. 30
PlainGraphs     == GraphsFor(PlainFunctions)
FirstGraphs     == GraphsFor(LoopFirst)
LoopGraphs      == GraphsFor(LoopAfterIf)
NotedFunctions  == ReturnBefore \cup JoinAfterIf
NotedGraphs     == GraphsFor(NotedFunctions)
SwitchFunctions == SwitchJumps \cup LabelAndDefer
SwitchGraphs    == GraphsFor(SwitchFunctions)
FinallyGraphs   == GraphsFor(FinallyExits)
=============================================================================
