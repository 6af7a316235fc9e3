-------------------------- MODULE FunctionAnalysis --------------------------
(***************************************************************************)
(* The analysis of a function compared with what the function does: its    *)
(* graph is built (ControlFlow), dominators and post-dominators are found  *)
(* on it (Dominance), and then the function runs (Execution) while `seen'  *)
(* keeps the positions of the graph an observer of the labels may be at:   *)
(* <<b, n>> is in block b, n of its statements done.                       *)
(***************************************************************************)
EXTENDS Execution, ControlFlow, Dominance

VARIABLE seen

vars == <<function, stack, mode, aim, said, domVars, seen>>

Init ==
    /\ RunInit
    /\ graph \in GraphsOf(function)
    /\ DomInit
    /\ seen = {<<graph.entry, 0>>}

(***************************************************************************)
(* Following a run in the graph.  A block is left at its end, or from any  *)
(* statement by an Exception edge.                                         *)
(***************************************************************************)
AtEnd(p) == p[2] = Len(graph.stmts[p[1]])

RECURSIVE Closure(_)
Closure(ps) ==
    LET next == ps \cup {<<e.to, 0>> : e \in {d \in Edges : \E p \in ps :
                            p[1] = d.from /\ (AtEnd(p) \/ d.type = "Exception")}}
    IN  IF next = ps THEN ps ELSE Closure(next)

After(label) ==
    {<<p[1], p[2] + 1>> : p \in {q \in Closure(seen) :
        ~AtEnd(q) /\ graph.stmts[q[1]][q[2] + 1] = label}}

Step ==
    /\ phase = "done"
    /\ Run
    /\ seen' = IF said' = Silent THEN seen ELSE After(said')
    /\ UNCHANGED domVars

Next == Step \/ (Analyse /\ UNCHANGED <<runVars, seen>>)

\* build and the analyses are loops of one thread, which runs until they end.
Spec == Init /\ [][Next]_vars /\ WF_vars(Analyse /\ UNCHANGED <<runVars, seen>>)

\* The analysis is complete; it does not change while the function runs.
Analysed == phase = "done" /\ stack = <<Block(function), Call>>

-----------------------------------------------------------------------------
\* Every execution of a function is a path of its graph: whatever it has said,
\* there are blocks whose statements say it in that order (CfgBuilder; the
\* pruning and the contraction of empty blocks in cfg.rs lose no statement
\* and no way).
ExecutionIsPath == seen # {}

\* An execution that has ended is at a block nothing leads out of, with all
\* its statements behind it: the graph promises no further statement.
EndsAtEnd ==
    mode = "ended" =>
        \E p \in Closure(seen) : AtEnd(p) /\ Successors(p[1]) = {}

\* The graph of a function does not depend on the order in which a hash map
\* yields the empty blocks that contract_empty_blocks removes.
GraphIsUnique ==
    phase = "number" /\ postorder = <<>> => GraphsOf(function) = {graph}

\* The fixpoint iterations end.
AnalysisEnds == <>(phase = "done")

(***************************************************************************)
(* What the comments of the code say and the further configurations show   *)
(* not to hold.                                                            *)
(***************************************************************************)
\* "Immediate dominator for each block", loops included (dominance.rs:13).
ImmediateDominators ==
    Analysed =>
        \A i \in 1 .. Count - 1 : \A b \in graph.blocks \ {Rpo(i)} :
            Dominates(b, Rpo(i)) => Dominates(b, Rpo(idom[i]))

\* "Exit block ids (returns, implicit fall-through exits)" (cfg.rs:132): an
\* execution that has ended is at an exit of the graph.
EndsAtExit ==
    mode = "ended" => \E p \in Closure(seen) : AtEnd(p) /\ p[1] \in graph.exits

\* build_control_dependencies_dominance, block by block: a block controls the
\* blocks of its frontier that have statements, when it has some itself.
Controls(i, k) ==
    /\ k \in frontier[i]
    /\ graph.stmts[Rpo(i)] # <<>> /\ graph.stmts[Rpo(k)] # <<>>

\* "Precise control dependencies" (pdg.rs:428): a block controls the blocks
\* that some of its successors is sure to reach and it itself is not.
ControlIsPrecise ==
    Analysed =>
        \A i, k \in 0 .. Count - 1 :
            Controls(i, k) =>
                /\ \E s \in Successors(Rpo(i)) : Unavoidable(Rpo(k), s)
                /\ i = k \/ ~Unavoidable(Rpo(k), Rpo(i))
=============================================================================
