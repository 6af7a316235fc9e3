----------------------------- MODULE Dominance -----------------------------
(***************************************************************************)
(* DominatorTree::build and compute_post_dominators                        *)
(* (crates/rgctl-analysis/src/dominance.rs), step by step: the depth-first *)
(* numbering, the passes that lower the immediate dominators until one     *)
(* changes nothing, the runs up the tree that find the dominance frontiers *)
(* of the joins, then the passes that shrink the post-dominator sets.      *)
(* The blocks of a post-dominator pass come in the order of a hash set,    *)
(* so any order is modelled.                                               *)
(***************************************************************************)
EXTENDS Integers, Sequences, FiniteSets

CONSTANTS
    Blocks,     \* the blocks of all graphs
    Graphs      \* the control-flow graphs that are analysed

\* Edges have a kind, which these algorithms do not read.
ASSUME GraphsAssumption ==
    \A g \in Graphs :
        /\ g.blocks \subseteq Blocks
        /\ g.entry \in g.blocks
        /\ g.exits \subseteq g.blocks
        /\ DOMAIN g.edges \subseteq Nat
        /\ \A e \in DOMAIN g.edges : g.edges[e].from \in g.blocks
                                     /\ g.edges[e].to \in g.blocks

VARIABLES
    graph,
    phase,      \* "number", "dominate", "frontier", "postdominate" or "done"
    path,       \* the depth-first path: [block, rest] frames, innermost last
    postorder,  \* the blocks in the order the search left them
    idom,       \* a block's number to the number of its immediate dominator
    at,         \* the number of the block that is visited
    taken,      \* its incoming edges that have been looked at
    climb,      \* two numbers on their way up the tree, or nothing
    frontier,   \* a block's number to the numbers in its dominance frontier
    postdom,    \* a block to its post-dominators
    todo,       \* the blocks that are still to be visited
    changed     \* whether the pass has changed something

treeVars  == <<idom, at, taken, climb, frontier>>
postVars  == <<postdom, todo>>
domVars == <<graph, phase, path, postorder, treeVars, postVars, changed>>

Edges         == {graph.edges[e] : e \in DOMAIN graph.edges}
EdgesFrom(b)  == {e \in DOMAIN graph.edges : graph.edges[e].from = b}
Target(e)     == graph.edges[e].to
Successors(b) == {Target(e) : e \in EdgesFrom(b)}
FirstOf(edges) == CHOOSE e \in edges : \A f \in edges : e <= f

DomInit ==
    /\ graph \in Graphs
    /\ phase = "number"
    /\ path = <<[block |-> graph.entry, rest |-> EdgesFrom(graph.entry)]>>
    /\ postorder = <<>>
    /\ idom = <<>> /\ at = 0 /\ taken = {} /\ climb = <<>>
    /\ frontier = <<>>
    /\ postdom = [b \in {} |-> {}] /\ todo = {}
    /\ changed = FALSE

(***************************************************************************)
(* compute_rpo: a depth-first search that takes the edges in order.        *)
(***************************************************************************)
OnPath   == {path[i].block : i \in DOMAIN path}
Numbered == {postorder[i] : i \in DOMAIN postorder}
Visited  == OnPath \cup Numbered

Innermost == path[Len(path)]

Descend ==
    /\ phase = "number" /\ path # <<>>
    /\ Innermost.rest # {}
    /\ LET edge  == FirstOf(Innermost.rest)
           to    == Target(edge)
           moved == [path EXCEPT ![Len(path)].rest = @ \ {edge}]
       IN  path' = IF to \in Visited THEN moved
                   ELSE Append(moved, [block |-> to, rest |-> EdgesFrom(to)])
    /\ UNCHANGED <<graph, phase, postorder, treeVars, postVars, changed>>

Ascend ==
    /\ phase = "number" /\ path # <<>>
    /\ Innermost.rest = {}
    /\ postorder' = Append(postorder, Innermost.block)
    /\ path' = SubSeq(path, 1, Len(path) - 1)
    /\ UNCHANGED <<graph, phase, treeVars, postVars, changed>>

\* The entry has number 0.
Count     == Len(postorder)
Numbers   == 0 .. Count - 1
Rpo(i)    == postorder[Count - i]
Number(b) == CHOOSE i \in Numbers : Rpo(i) = b

(***************************************************************************)
(* The passes over the immediate dominators, which all start at the entry. *)
(* intersect_rpo is the climb of two numbers up the tree: the greater one  *)
(* goes on to its immediate dominator until they meet.                     *)
(***************************************************************************)
StartDominators ==
    /\ phase = "number" /\ path = <<>>
    /\ phase' = "dominate"
    /\ idom' = [i \in Numbers |-> 0]
    /\ at' = 1 /\ changed' = FALSE
    /\ UNCHANGED <<graph, path, postorder, taken, climb, frontier, postVars>>

\* The edges from numbered blocks to the block with number i.
PredEdges(i) ==
    {e \in DOMAIN graph.edges :
        i \in Numbers /\ Target(e) = Rpo(i) /\ graph.edges[e].from \in Numbered}

Pred(e) == Number(graph.edges[e].from)

Untaken == PredEdges(at) \ taken
Met     == climb # <<>> => climb[1] = climb[2]

\* Mutant: a predecessor replaces those before it.
TakeLastPred ==
    /\ phase = "dominate" /\ Met /\ Untaken # {}
    /\ taken' = taken \cup {FirstOf(Untaken)}
    /\ climb' = <<Pred(FirstOf(Untaken)), Pred(FirstOf(Untaken))>>
    /\ UNCHANGED <<graph, phase, path, postorder, idom, at, frontier, postVars, changed>>

TakePred ==
    /\ phase = "dominate" /\ Met /\ Untaken # {}
    /\ LET edge == FirstOf(Untaken)
       IN  /\ taken' = taken \cup {edge}
           /\ climb' = <<IF climb = <<>> THEN Pred(edge) ELSE climb[1], Pred(edge)>>
    /\ UNCHANGED <<graph, phase, path, postorder, idom, at, frontier, postVars, changed>>

\* Mutant: both go up at once.
ClimbTogether ==
    /\ phase = "dominate" /\ ~Met
    /\ climb' = <<idom[climb[1]], idom[climb[2]]>>
    /\ UNCHANGED <<graph, phase, path, postorder, idom, at, taken, frontier, postVars, changed>>

Climb ==
    /\ phase = "dominate" /\ ~Met
    /\ climb' = IF climb[1] > climb[2] THEN <<idom[climb[1]], climb[2]>>
                                      ELSE <<climb[1], idom[climb[2]]>>
    /\ UNCHANGED <<graph, phase, path, postorder, idom, at, taken, frontier, postVars, changed>>

NewIdom == IF climb = <<>> THEN idom[at] ELSE climb[1]

SetIdom ==
    /\ phase = "dominate" /\ at < Count /\ Met /\ Untaken = {}
    /\ idom' = [idom EXCEPT ![at] = NewIdom]
    /\ changed' = (changed \/ NewIdom # idom[at])
    /\ at' = at + 1 /\ taken' = {} /\ climb' = <<>>
    /\ UNCHANGED <<graph, phase, path, postorder, frontier, postVars>>

\* Mutant: another pass whether or not something changed.
PassAgain ==
    /\ phase = "dominate" /\ at >= Count /\ (changed \/ Count > 2)
    /\ at' = 1 /\ changed' = FALSE
    /\ UNCHANGED <<graph, phase, path, postorder, idom, taken, climb, frontier, postVars>>

NextPass ==
    /\ phase = "dominate" /\ at >= Count /\ changed
    /\ at' = 1 /\ changed' = FALSE
    /\ UNCHANGED <<graph, phase, path, postorder, idom, taken, climb, frontier, postVars>>

(***************************************************************************)
(* compute_dominance_frontiers: from every predecessor of a join up to,    *)
(* and not with, the immediate dominator of the join.  The joins come in   *)
(* the order of a hash set.  The code also stops at a block other than the *)
(* entry that is its own immediate dominator; there is none.               *)
(***************************************************************************)
Joins == {b \in Numbered : \E e, f \in PredEdges(Number(b)) : e # f}

StartFrontiers ==
    /\ phase = "dominate" /\ at >= Count /\ ~changed
    /\ phase' = "frontier"
    /\ frontier' = [i \in Numbers |-> {}]
    /\ todo' = Joins
    /\ UNCHANGED <<graph, path, postorder, idom, at, taken, climb, postdom, changed>>

VisitJoin(b) ==
    /\ phase = "frontier" /\ Met /\ Untaken = {}
    /\ b \in todo
    /\ todo' = todo \ {b}
    /\ at' = Number(b) /\ taken' = {} /\ climb' = <<>>
    /\ UNCHANGED <<graph, phase, path, postorder, idom, frontier, postdom, changed>>

StartRunner ==
    /\ phase = "frontier" /\ Met /\ Untaken # {}
    /\ LET edge == FirstOf(Untaken)
       IN  /\ taken' = taken \cup {edge}
           /\ climb' = <<Pred(edge), idom[at]>>
    /\ UNCHANGED <<graph, phase, path, postorder, idom, at, frontier, postVars, changed>>

\* Mutant: the predecessor only, not the blocks above it.
RunOnce ==
    /\ phase = "frontier" /\ ~Met
    /\ frontier' = [frontier EXCEPT ![climb[1]] = @ \cup {at}]
    /\ climb' = <<climb[2], climb[2]>>
    /\ UNCHANGED <<graph, phase, path, postorder, idom, at, taken, postVars, changed>>

RunUp ==
    /\ phase = "frontier" /\ ~Met
    /\ frontier' = [frontier EXCEPT ![climb[1]] = @ \cup {at}]
    /\ climb' = <<idom[climb[1]], climb[2]>>
    /\ UNCHANGED <<graph, phase, path, postorder, idom, at, taken, postVars, changed>>

\* DominatorTree::build returns the tree and the frontiers.
TreeBuilt == phase = "frontier" /\ Met /\ Untaken = {} /\ todo = {}

(***************************************************************************)
(* The post-dominators: the exits, or the blocks without successors when   *)
(* there is no exit, or the entry when there is none of these either.      *)
(***************************************************************************)
DeadEnds == {b \in graph.blocks : Successors(b) = {}}

ExitBlocks ==
    CASE graph.exits # {} -> graph.exits
      [] graph.exits = {} /\ DeadEnds # {} -> DeadEnds
      [] OTHER -> {graph.entry}

\* A pass leaves the exits and the dead ends as they are.
Refinable == {b \in graph.blocks \ ExitBlocks : Successors(b) # {}}

\* Mutant: the sets start at their smallest instead of their largest.
FromBelow == [b \in graph.blocks |-> {b}]

\* Every block, until the passes show otherwise.
TopSets == [b \in graph.blocks |-> IF b \in ExitBlocks THEN {b} ELSE graph.blocks]

StartPostDominators ==
    /\ TreeBuilt
    /\ phase' = "postdominate"
    /\ postdom' = TopSets
    /\ todo' = Refinable /\ changed' = FALSE
    /\ at' = 0 /\ taken' = {} /\ climb' = <<>>     \* the locals of build
    /\ UNCHANGED <<graph, path, postorder, idom, frontier>>

\* The block, and what post-dominates all its successors.
OfSuccessors(b) ==
    {b} \cup {p \in graph.blocks : \A s \in Successors(b) : p \in postdom[s]}

PostDominate(b) ==
    /\ phase = "postdominate" /\ b \in todo
    /\ todo' = todo \ {b}
    /\ postdom' = [postdom EXCEPT ![b] = OfSuccessors(b)]
    /\ changed' = (changed \/ OfSuccessors(b) # postdom[b])
    /\ UNCHANGED <<graph, phase, path, postorder, treeVars>>

NextPostPass ==
    /\ phase = "postdominate" /\ todo = {} /\ changed
    /\ todo' = Refinable /\ changed' = FALSE
    /\ UNCHANGED <<graph, phase, path, postorder, treeVars, postdom>>

\* compute_post_dominators returns the sets.
PostBuilt == phase = "postdominate" /\ todo = {} /\ ~changed

Finish ==
    /\ PostBuilt
    /\ phase' = "done"
    /\ UNCHANGED <<graph, path, postorder, treeVars, postVars, changed>>

Analyse ==
    \/ Descend \/ Ascend
    \/ StartDominators \/ TakePred \/ Climb \/ SetIdom \/ NextPass
    \/ StartFrontiers \/ (\E b \in Blocks : VisitJoin(b)) \/ StartRunner \/ RunUp
    \/ StartPostDominators \/ (\E b \in Blocks : PostDominate(b)) \/ NextPostPass
    \/ Finish

DomSpec == DomInit /\ [][Analyse]_domVars

-----------------------------------------------------------------------------
Frame == [block : graph.blocks, rest : SUBSET DOMAIN graph.edges]

\* What the analysis works on; the search has no block twice.
AnalysisTypeOK ==
    /\ graph \in Graphs
    /\ phase \in {"number", "dominate", "frontier", "postdominate", "done"}
    /\ path \in Seq(Frame) /\ postorder \in Seq(graph.blocks)
    /\ \A i, j \in DOMAIN path : path[i].block = path[j].block => i = j
    /\ \A i, j \in DOMAIN postorder : postorder[i] = postorder[j] => i = j
    /\ OnPath \cap Numbered = {}
    /\ phase # "number" => path = <<>> /\ idom \in [Numbers -> Numbers]
    /\ at \in Nat
    /\ taken \subseteq PredEdges(at)
    /\ climb \in {<<>>} \cup (Numbers \X Numbers)
    /\ phase \notin {"number", "dominate"} => frontier \in [Numbers -> SUBSET Numbers]
    /\ phase \in {"postdominate", "done"} => postdom \in [graph.blocks -> SUBSET graph.blocks]
    /\ todo \subseteq graph.blocks
    /\ changed \in BOOLEAN

(***************************************************************************)
(* d is passed on every way from the entry to b: there is a set of blocks  *)
(* with the entry in it that is left only to d, and b is not in it.        *)
(***************************************************************************)
Dominates(d, b) ==
    \/ d = b
    \/ \E C \in SUBSET (graph.blocks \ {d, b}) :
          /\ graph.entry \in C \cup {d}
          /\ \A c \in C : Successors(c) \subseteq C \cup {d}

\* No edge leads back to a block that the search numbered before.
Acyclic == \A b \in Numbered : \A s \in Successors(b) : Number(b) < Number(s)

\* d dominates some predecessor of b, and b itself only if it is b.
InFrontier(d, b) ==
    /\ \E p \in Numbered : b \in Successors(p) /\ Dominates(d, p)
    /\ d = b \/ ~Dominates(d, b)

\* What DominatorTree::build has as a dominator is one, in every pass and
\* between them: a way from the entry to the block passes it.
IdomDominates ==
    phase = "dominate" => \A i \in Numbers : Dominates(Rpo(idom[i]), Rpo(i))

\* In a function without loops it is the immediate one: all other dominators
\* of the block dominate it.
IdomIsImmediate ==
    TreeBuilt /\ Acyclic =>
        \A i \in Numbers \ {0} : \A b \in graph.blocks \ {Rpo(i)} :
            Dominates(b, Rpo(i)) => Dominates(b, Rpo(idom[i]))

\* And the dominance frontiers are where dominance ends, by their definition.
FrontierIsExact ==
    TreeBuilt /\ Acyclic =>
        \A i, k \in Numbers : (k \in frontier[i]) <=> InFrontier(Rpo(i), Rpo(k))

(***************************************************************************)
(* p is passed on every way from b to an exit: there is a set of blocks    *)
(* with b in it, and no exit, that is left only to p.                      *)
(***************************************************************************)
Unavoidable(p, b) ==
    \/ p = b
    \/ \E C \in SUBSET (graph.blocks \ {p}) :
          /\ b \in C
          /\ C \cap ExitBlocks = {}
          /\ \A c \in C : Successors(c) \subseteq C \cup {p}

\* The post-dominator sets that compute_post_dominators returns are exact, for
\* every order of its passes and around loops too: p is in the set of b if and
\* only if no way from b to an exit avoids it.
PostDominatorsExact ==
    PostBuilt =>
        \A b, p \in graph.blocks : (p \in postdom[b]) <=> Unavoidable(p, b)
=============================================================================
