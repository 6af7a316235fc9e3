---------------------------- MODULE ControlFlow ----------------------------
(***************************************************************************)
(* CfgBuilder (crates/rgctl-analysis/src/cfg_builder.rs): the control-flow *)
(* graph of a function body, and the clean-up of cfg.rs after it.          *)
(*                                                                         *)
(* The builder is a value that the visit operators thread through: the     *)
(* graph so far (`stmts' maps a block to the labels of its statements),    *)
(* the current block, flow_active, the stacks of breakable contexts, of    *)
(* catch entries, of finally bodies and of deferred calls, the blocks of   *)
(* labels, pending_breakable_label (`label', 0 for None),                  *)
(* pending_fallthrough (`falling') and pending_exception_edges             *)
(* (`throwing').                                                           *)
(***************************************************************************)
EXTENDS Integers, Sequences, FiniteSets, SequencesExt

Edge(from, to, type) == [from |-> from, to |-> to, type |-> type]

NewBuilder ==
    [stmts |-> <<>>, edges |-> <<>>, exits |-> {}, entry |-> 1, current |-> 1,
     active |-> TRUE, breakables |-> <<>>, catches |-> <<>>, finals |-> <<>>,
     defers |-> <<>>, labels |-> {}, label |-> 0, falling |-> FALSE,
     throwing |-> {}]

\* Blocks are numbered from 1; b.stmts has one entry per block.
Fresh(b)      == Len(b.stmts) + 1
NewBlock(b)   == [b EXCEPT !.stmts = Append(@, <<>>)]
NewBlocks(b, n) == [b EXCEPT !.stmts = @ \o [i \in 1 .. n |-> <<>>]]
MoveTo(b, id) == [b EXCEPT !.current = id, !.active = TRUE]
AddEdge(b, from, to, type) == [b EXCEPT !.edges = Append(@, Edge(from, to, type))]
EdgeTo(b, to, type) == AddEdge(b, b.current, to, type)
Stop(b)       == [b EXCEPT !.active = FALSE]

\* new_block followed by an edge from the current block, which it becomes.
NextBlock(b) == MoveTo(EdgeTo(NewBlock(b), Fresh(b), "Next"), Fresh(b))

AddEdges(b, from, targets, type) ==
    FoldLeft(LAMBDA c, t : AddEdge(c, from, t, type), b, targets)

\* wire_try_exception_from_current; throwing has the edges it added, and only
\* these: the edges of the try itself and of a throw are not among them.
WireTryException(b) ==
    LET new == IF b.catches = <<>> THEN <<>>
               ELSE SelectSeq(Last(b.catches), LAMBDA h : <<b.current, h>> \notin b.throwing)
    IN  [AddEdges(b, b.current, new, "Exception")
            EXCEPT !.throwing = @ \cup {<<b.current, h>> : h \in Range(new)}]

AddStatement(b, label) ==
    WireTryException([b EXCEPT !.stmts[b.current] = Append(@, label)])
AddTerminal(b, label) == [b EXCEPT !.stmts[b.current] = Append(@, label)]

\* A condition leads to `true' or to `false', past the block `mid' between
\* the operands of && and ||.  "omitted" is the condition of a for without one
\* and of the last arm of a match: the builder does not know that it holds.
BranchTo(b, cond, true, false) ==
    LET c == IF cond.op = "false" THEN b ELSE EdgeTo(b, true, "IfTrue")
    IN  IF cond.op = "true" THEN c ELSE EdgeTo(c, false, "IfFalse")

RECURSIVE WireCondition(_, _, _, _)
WireCondition(b, cond, true, false) ==
    LET mid  == Fresh(b)
        then == IF cond.op = "and" THEN mid ELSE true
        else == IF cond.op = "or" THEN mid ELSE false
    IN  IF cond.op \in {"and", "or"}
        THEN WireCondition(MoveTo(WireCondition(NewBlock(b), cond.left, then, else), mid),
                           cond.right, true, false)
        ELSE BranchTo(AddStatement(b, cond.at), cond, true, false)

\* Each statement of a finally body in a block of its own.
EmitFinally(b, labels) ==
    FoldLeft(LAMBDA c, l : AddStatement(NextBlock(c), l), b, labels)

UnwindFinallies(b) == FoldLeft(EmitFinally, b, Reverse(b.finals))

MakeExit(b, type) ==
    Stop([EdgeTo(NewBlock(b), Fresh(b), type) EXCEPT !.exits = @ \cup {Fresh(b)}])

\* unwind_defers_to_exit: the deferred calls, the last first.
LeaveFunction(b, type) == MakeExit(EmitFinally(b, Reverse(b.defers)), type)

VisitDefer(b, s) == [AddStatement(b, s.at) EXCEPT !.defers = Append(@, s.call)]

\* Mutant: the flow goes on after a return.
ReturnOn(b, s) ==
    [MakeExit(UnwindFinallies(AddTerminal(b, s.at)), "Return") EXCEPT !.active = TRUE]

VisitReturn(b, s) ==
    LeaveFunction(UnwindFinallies(AddTerminal(b, s.at)), "Return")

VisitThrow(b, s) ==
    LET c == AddTerminal(b, s.at)
    IN  IF b.catches = <<>> THEN LeaveFunction(UnwindFinallies(c), "Exception")
        ELSE Stop(MoveTo(NewBlock(AddEdges(c, b.current, Last(b.catches), "Exception")),
                         Fresh(b)))

\* find_breakable: the innermost context, or the innermost with the label; a
\* switch has no continue target (0 stands for None).
Breakable(b, label) ==
    LET found == SelectSeq(b.breakables, LAMBDA c : label = 0 \/ c.label = label)
    IN  IF found = <<>> THEN [exit |-> 0, continue |-> 0] ELSE Last(found)

Jump(b, label, target) ==
    LET c == AddTerminal(b, label)
    IN  Stop(MoveTo(NewBlock(IF target = 0 THEN c ELSE EdgeTo(c, target, "Jump")),
                    Fresh(b)))

VisitBreak(b, s) == Jump(b, s.at, Breakable(b, s.to).exit)

\* Mutant: a continue leaves the loop.
ContinueOut(b, s) == Jump(b, s.at, Breakable(b, s.to).exit)

VisitContinue(b, s) == Jump(b, s.at, Breakable(b, s.to).continue)

VisitFallthrough(b, s) == Stop([AddTerminal(b, s.at) EXCEPT !.falling = TRUE])

PushBreakable(b, exit, continue) ==
    [b EXCEPT !.breakables = Append(@, [exit |-> exit, continue |-> continue,
                                        label |-> b.label]),
              !.label = 0]
PopBreakable(b) == [b EXCEPT !.breakables = Front(@)]

RECURSIVE Visit(_, _)
VisitBlock(b, stmts) == FoldLeft(Visit, b, stmts)

\* An edge to `to' when the flow reaches the end of what was visited.
JoinTo(b, to, type) ==
    IF b.active THEN EdgeTo(b, to, type) ELSE b

CanReuseCurrent(b) ==
    /\ b.stmts[b.current] = <<>>
    /\ ~\E e \in Range(b.edges) : e.from = b.current /\ e.to = b.current

\* The edges of both arms, added after both were visited: `then' is the
\* builder at the end of the first, `b' at the end of the second.
MergeArms(b, then, hasElse, merge) ==
    LET c == IF then.active THEN AddEdge(b, then.current, merge, "Next") ELSE b
    IN  [IF hasElse THEN JoinTo(c, merge, "Next") ELSE c
            EXCEPT !.current = merge,
                   !.active = then.active \/ ~hasElse \/ b.active]

VisitArm(b, then, s, false, merge) ==
    MergeArms(VisitBlock(MoveTo(b, false), s.orelse), then, s.orelse # <<>>, merge)

IfFrom(b, s) ==
    LET true  == Fresh(b)
        merge == true + 1
        false == IF s.orelse # <<>> THEN true + 2 ELSE merge
        c     == WireCondition(NewBlocks(b, false - true + 1), s.cond, true, false)
        t     == VisitBlock(MoveTo(c, true), s.then)
    IN  VisitArm(t, t, s, false, merge)

VisitIf(b, s) == IfFrom(IF CanReuseCurrent(b) THEN b ELSE NextBlock(b), s)

VisitWhile(b, s) ==
    LET header == Fresh(b)
        body   == header + 1
        exit   == header + 2
        c      == WireCondition(NewBlocks(NextBlock(b), 2), s.cond, body, exit)
        d      == VisitBlock(MoveTo(PushBreakable(c, exit, header), body), s.body)
    IN  MoveTo(PopBreakable(JoinTo(d, header, "Jump")), exit)

VisitDo(b, s) ==
    LET body   == Fresh(b)
        header == body + 1
        exit   == body + 2
        c      == PushBreakable(NewBlocks(NextBlock(b), 2), exit, header)
        d      == JoinTo(VisitBlock(c, s.body), header, "Next")
        e      == WireCondition(MoveTo(d, header), s.cond, body, exit)
    IN  MoveTo(PopBreakable(e), exit)

VisitLoop(b, s) ==
    LET body == Fresh(b)
        exit == body + 1
        c    == PushBreakable(NewBlock(NextBlock(b)), exit, body)
    IN  MoveTo(PopBreakable(JoinTo(VisitBlock(c, s.body), body, "Jump")), exit)

\* A continue goes to the updates, when there are any.
ForBody(b, s, header, target) ==
    LET c == PushBreakable(IF target = header THEN b ELSE NewBlock(b), header + 2, target)
        d == JoinTo(VisitBlock(MoveTo(c, header + 1), s.body), target, "Jump")
        e == IF target = header THEN d
             ELSE JoinTo(VisitBlock(MoveTo(d, target), s.update), header, "Next")
    IN  MoveTo(PopBreakable(e), header + 2)

ForHeader(b, s) ==
    LET header == Fresh(b)
        c == WireCondition(NewBlocks(NextBlock(b), 2), s.cond, header + 1, header + 2)
    IN  ForBody(c, s, header, IF s.update = <<>> THEN header ELSE Fresh(c))

VisitFor(b, s) == ForHeader(VisitBlock(b, s.init), s)

\* foreach, for-range, for-in and enhanced for: what is iterated over is
\* evaluated once, then the header tests whether there is more.
VisitForEach(b, s) ==
    LET header == Fresh(b)
        body   == header + 1
        exit   == header + 2
        c      == AddStatement(NextBlock(AddStatement(b, s.over)), s.at)
        d      == EdgeTo(EdgeTo(NewBlocks(c, 2), body, "IfTrue"), exit, "IfFalse")
        e      == VisitBlock(MoveTo(PushBreakable(d, exit, header), body), s.body)
    IN  MoveTo(PopBreakable(JoinTo(e, header, "Jump")), exit)

\* The block of a label, the same for every statement of that label; loops
\* and switches take the label into their breakable context.
LabelBlock(b, label) == (CHOOSE l \in b.labels : l.name = label).block

EnsureLabelBlock(b, label) ==
    IF \E l \in b.labels : l.name = label THEN b
    ELSE [NewBlock(b) EXCEPT !.labels = @ \cup {[name |-> label, block |-> Fresh(b)]}]

AtLabel(b, label) ==
    MoveTo(EdgeTo(b, LabelBlock(b, label), "Next"), LabelBlock(b, label))

VisitLabeled(b, s) ==
    LET c     == AtLabel(EnsureLabelBlock(b, s.label), s.label)
        takes == s.of.op \in {"while", "do", "loop", "for", "foreach", "switch"}
        d     == Visit(IF takes THEN [c EXCEPT !.label = s.label] ELSE c, s.of)
    IN  IF takes THEN [d EXCEPT !.label = 0] ELSE d

\* The arms of a match from the i-th on: fail is the block the arm before
\* leads to when it does not match.
RECURSIVE VisitArms(_, _, _, _, _)
VisitArms(b, s, i, fail, merge) ==
    IF i > Len(s.arms) THEN AddEdge(b, fail, merge, "Next")
    ELSE LET test == Fresh(b)
             c    == AddEdge(NewBlock(b), fail, test, IF i = 1 THEN "IfTrue" ELSE "Next")
             d    == WireCondition(MoveTo(NewBlock(NewBlock(c)), test), s.arms[i].cond,
                                   test + 1, test + 2)
             e    == VisitBlock(MoveTo(d, test + 1), s.arms[i].body)
         IN  VisitArms(JoinTo(e, merge, "Next"), s, i + 1, test + 2, merge)

\* Without arms nothing leads to merge.
VisitMatch(b, s) ==
    LET merge == Fresh(b)
        c     == NewBlock(AddStatement(b, s.at))
    IN  MoveTo(IF s.arms = <<>> THEN c ELSE VisitArms(c, s, 1, b.current, merge), merge)

\* The cases of a switch from the i-th on: from is the end of the case before
\* when it falls through, 0 otherwise; joined says that a case reached merge.
RECURSIVE VisitCases(_, _, _, _, _, _)
EndCase(b, s, i, merge, joined) ==
    IF b.falling \/ (b.active /\ s.falls)
    THEN VisitCases([b EXCEPT !.falling = FALSE], s, i + 1, merge, b.current, joined)
    ELSE VisitCases(JoinTo(b, merge, "Next"), s, i + 1, merge, 0, joined \/ b.active)

VisitCases(b, s, i, merge, from, joined) ==
    IF i > Len(s.cases)
    THEN [IF from = 0 THEN b ELSE AddEdge(b, from, merge, "Next")
            EXCEPT !.active = joined \/ from # 0]
    ELSE LET c == IF from = 0 THEN b ELSE AddEdge(b, from, merge + i, "Jump")
         IN  EndCase(VisitBlock(MoveTo(c, merge + i), s.cases[i].body), s, i, merge, joined)

\* A switch without a default has a block for it, which joins merge.
OmittedDefault(b, test, merge) ==
    [AddEdge(AddEdge(NewBlock(b), test, Fresh(b), "IfFalse"), Fresh(b), merge, "Next")
        EXCEPT !.active = TRUE]

VisitSwitch(b, s) ==
    LET test  == Fresh(b)
        merge == test + 1
        cases == [i \in DOMAIN s.cases |-> i]
        total == \E i \in DOMAIN s.cases : s.cases[i].default
        c     == PushBreakable(NewBlock(AddStatement(NextBlock(b), s.at)), merge, 0)
        d     == FoldLeft(LAMBDA x, i :
                             AddEdge(NewBlock(x), test, merge + i,
                                     IF s.cases[i].default THEN "IfFalse" ELSE "IfTrue"),
                          c, cases)
        e     == VisitCases(d, s, 1, merge, 0, FALSE)
    IN  [PopBreakable(IF total THEN e ELSE OmittedDefault(e, test, merge))
            EXCEPT !.current = merge]

\* When the filter of a handler fails, the finally bodies run and the
\* exception leaves the function.
Filter(b, cond) ==
    LET body == Fresh(b)
        c    == WireCondition(NewBlocks(b, 2), cond, body, body + 1)
    IN  MoveTo(LeaveFunction(UnwindFinallies(MoveTo(c, body + 1)), "Exception"), body)

\* A handler that ends runs the finally bodies of the stack and joins merge.
EndHandler(b, merge) ==
    IF b.active THEN EdgeTo(UnwindFinallies(b), merge, "Next") ELSE b
VisitHandler(b, h, entry, merge) ==
    EndHandler(VisitBlock(FoldLeft(Filter, MoveTo(b, entry), h.filter), h.body), merge)

\* The calls that close resources, the last first.
Closes(resources) == [i \in DOMAIN resources |-> Reverse(resources)[i].close]

\* The handlers are visited from `b', the end of the body, on; the closes and
\* the finally body that follow the body come after them.
VisitHandlers(b, s, entries) ==
    LET merge == Fresh(b)
        c     == FoldLeft(LAMBDA x, i : VisitHandler(x, s.handlers[i], entries[i], merge),
                          NewBlock(b), [i \in DOMAIN entries |-> i])
        after == Closes(s.resources) \o s.finals
        d     == IF b.active
                 THEN EdgeTo(EmitFinally(MoveTo(c, b.current), after), merge, "Next")
                 ELSE c
    IN  MoveTo(d, merge)

\* Resources are declared before the block of the body, and closed by a
\* finally body of their own inside that of the try.
VisitTry(b, s) ==
    LET n       == Len(s.handlers)
        entries == [i \in 1 .. n |-> Fresh(b) + i - 1]
        catches == IF n = 0 THEN b.catches ELSE Append(b.catches, entries)
        finals  == b.finals \o SelectSeq(<<s.finals, Closes(s.resources)>>, LAMBDA f : f # <<>>)
        c       == FoldLeft(LAMBDA x, r : AddStatement(x, r.at),
                            [NewBlocks(b, n) EXCEPT !.finals = finals, !.catches = catches],
                            s.resources)
        d       == VisitBlock(AddEdges(NextBlock(c), Fresh(c), entries, "Exception"), s.body)
        e       == VisitHandlers([d EXCEPT !.catches = b.catches], s, entries)
    IN  [e EXCEPT !.finals = b.finals]

\* using declares a resource and disposes of it behind its body.
VisitUsing(b, s) ==
    LET c == [AddStatement(b, s.of.at) EXCEPT !.finals = Append(@, <<s.of.close>>)]
        d == VisitBlock(c, s.body)
        e == IF d.active THEN EmitFinally(d, <<s.of.close>>) ELSE d
    IN  [e EXCEPT !.finals = b.finals]

Visit(b, s) ==
    IF ~b.active THEN b
    ELSE CASE s.op = "simple"   -> AddStatement(b, s.at)
           [] s.op = "return"   -> VisitReturn(b, s)
           [] s.op = "throw"    -> VisitThrow(b, s)
           [] s.op = "break"    -> VisitBreak(b, s)
           [] s.op = "continue" -> VisitContinue(b, s)
           [] s.op = "if"       -> VisitIf(b, s)
           [] s.op = "while"    -> VisitWhile(b, s)
           [] s.op = "do"       -> VisitDo(b, s)
           [] s.op = "loop"     -> VisitLoop(b, s)
           [] s.op = "for"      -> VisitFor(b, s)
           [] s.op = "foreach"  -> VisitForEach(b, s)
           [] s.op = "labeled"  -> VisitLabeled(b, s)
           [] s.op = "match"    -> VisitMatch(b, s)
           [] s.op = "defer"    -> VisitDefer(b, s)
           [] s.op = "fallthrough" -> VisitFallthrough(b, s)
           [] s.op = "switch"   -> VisitSwitch(b, s)
           [] s.op = "try"      -> VisitTry(b, s)
           [] s.op = "using"    -> VisitUsing(b, s)

(***************************************************************************)
(* build_function: a body that ends runs its deferred calls, or gets an    *)
(* exit unless one was made by a return before; then the graph is cleaned  *)
(* up.                                                                     *)
(***************************************************************************)
EndFunction(b) ==
    IF ~b.active THEN b
    ELSE IF b.defers # <<>> THEN LeaveFunction(b, "Return")
    ELSE IF b.exits = {} THEN MakeExit(b, "Next")
    ELSE b

Built(body) == EndFunction(VisitBlock(NewBlock(NewBuilder), body))

RECURSIVE ReachableFrom(_, _)
ReachableFrom(blocks, edges) ==
    LET next == blocks \cup {e.to : e \in {d \in Range(edges) : d.from \in blocks}}
    IN  IF next = blocks THEN blocks ELSE ReachableFrom(next, edges)

\* The graph of a builder without the blocks nothing reaches.
Pruned(b) ==
    LET reached == ReachableFrom({b.entry}, b.edges)
    IN  [blocks |-> reached,
         stmts  |-> [x \in reached |-> b.stmts[x]],
         edges  |-> SelectSeq(b.edges, LAMBDA e : e.from \in reached),
         entry  |-> b.entry,
         exits  |-> b.exits \cap reached]

\* contractable_successor: b is empty, not an exit, and has Next edges to one
\* other block only; the entry stays when something leads back to it.
CanContract(g, b) ==
    LET out == {e \in Range(g.edges) : e.from = b}
    IN  /\ b \notin g.exits
        /\ g.stmts[b] = <<>>
        /\ \E s \in g.blocks \ {b} : out # {} /\ \A e \in out : e.to = s /\ e.type = "Next"
        /\ b = g.entry => ~\E e \in Range(g.edges) : e.to = b

Deduplicated(edges) ==
    FoldLeft(LAMBDA kept, e : IF Contains(kept, e) THEN kept ELSE Append(kept, e),
             <<>>, edges)

\* Mutant: the redirected edges are taken out and added at the end.
ContractAtEnd(g, b) ==
    LET s    == (CHOOSE e \in Range(g.edges) : e.from = b).to
        left == SelectSeq(g.edges, LAMBDA e : e.from # b /\ e.to # b)
        into == SelectSeq(g.edges, LAMBDA e : e.to = b)
    IN  [blocks |-> g.blocks \ {b},
         stmts  |-> [x \in g.blocks \ {b} |-> g.stmts[x]],
         edges  |-> Deduplicated(left \o [i \in DOMAIN into |-> [into[i] EXCEPT !.to = s]]),
         entry  |-> IF g.entry = b THEN s ELSE g.entry,
         exits  |-> g.exits]

Contract(g, b) ==
    LET s == (CHOOSE e \in Range(g.edges) : e.from = b).to
    IN  [blocks |-> g.blocks \ {b},
         stmts  |-> [x \in g.blocks \ {b} |-> g.stmts[x]],
         edges  |-> Deduplicated(
                      [i \in DOMAIN SelectSeq(g.edges, LAMBDA e : e.from # b) |->
                         LET e == SelectSeq(g.edges, LAMBDA d : d.from # b)[i]
                         IN  IF e.to = b THEN [e EXCEPT !.to = s] ELSE e]),
         entry  |-> IF g.entry = b THEN s ELSE g.entry,
         exits  |-> g.exits]

Contractions(g) ==
    LET candidates == {b \in g.blocks : CanContract(g, b)}
    IN  IF candidates = {} THEN {g} ELSE {Contract(g, b) : b \in candidates}

\* contract_empty_blocks: candidates come in the order of a hash map, so
\* that every order is one the program may take.
RECURSIVE Contracted(_)
Contracted(graphs) ==
    LET next == UNION {Contractions(g) : g \in graphs}
    IN  IF next = graphs THEN graphs ELSE Contracted(next)

\* The graphs build_function may return for a body.
GraphsOf(body) == Contracted({Pruned(Built(body))})
=============================================================================
