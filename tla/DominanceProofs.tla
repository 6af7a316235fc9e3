-------------------------- MODULE DominanceProofs --------------------------
(***************************************************************************)
(* What DominatorTree::build and compute_post_dominators return, for every *)
(* graph.  The proofs go along the phases:                                 *)
(*  - the search: a block that was left has its successors visited, so     *)
(*    that the numbered blocks are closed under the edges, and every one   *)
(*    but the entry has a block with a smaller number before it;           *)
(*  - dominance by itself: Free(d), the least set that is left only to d,  *)
(*    gives transitivity and how dominance passes over an edge, and the    *)
(*    numbers give that a dominator has a smaller one;                     *)
(*  - the passes: the numbers that climb cover the predecessors that were  *)
(*    taken, and without loops everything that dominates these dominates   *)
(*    those;                                                               *)
(*  - the runners: what they have left out is still above them;            *)
(*  - the post-dominators: no set loses a block that cannot be avoided,    *)
(*    and the last pass has found the sets to be what the successors ask   *)
(*    for, which only the sets of unavoidable blocks are.                  *)
(*  - the ends: Above(i), the way up the tree from i, holds the immediate  *)
(*    dominators of the blocks after it, so that numbers only rise, with   *)
(*    or without loops; a set only shrinks, and an edge is taken once.     *)
(***************************************************************************)
EXTENDS Dominance, WellFoundedInduction, TLAPS

\* A set of natural numbers that is not empty has a least element.
LEMMA LeastNumber ==
    ASSUME NEW T \in SUBSET Nat, T # {}
    PROVE  \E n \in T : \A m \in T : n <= m
<1>1. IsWellFoundedOn(OpToRel(<, Nat), Nat)
  BY NatLessThanWellFounded
<1>2. PICK n \in T : \A m \in T : ~(<<m, n>> \in OpToRel(<, Nat))
  BY <1>1, WFMin, Zenon
<1>3. \A m \in T : ~(m < n)
  BY <1>2 DEF OpToRel
<1> QED BY <1>3

\* The first of some edges is one of them.
LEMMA FirstIsOneOf ==
    ASSUME NEW edges \in SUBSET Nat, edges # {}
    PROVE  FirstOf(edges) \in edges
BY LeastNumber DEF FirstOf

\* The successors of a block are blocks of the graph.
LEMMA SuccessorsAreBlocks ==
    ASSUME graph \in Graphs
    PROVE  /\ \A b : Successors(b) \subseteq graph.blocks
           /\ graph.entry \in graph.blocks
           /\ DOMAIN graph.edges \subseteq Nat
           /\ \A b : EdgesFrom(b) \subseteq DOMAIN graph.edges
           /\ \A e \in DOMAIN graph.edges : graph.edges[e].from \in graph.blocks
BY GraphsAssumption DEF Successors, EdgesFrom, Target

-----------------------------------------------------------------------------
(***************************************************************************)
(* Dominance by itself: Free(d) is the least set with the entry in it that *)
(* is left only to d, the blocks that are reached without passing d.       *)
(***************************************************************************)
LeftOnlyTo(d, C) ==
    /\ C \in SUBSET (graph.blocks \ {d})
    /\ graph.entry \in C \cup {d}
    /\ \A c \in C : Successors(c) \subseteq C \cup {d}

Free(d) == {b \in graph.blocks : \A C \in SUBSET graph.blocks : LeftOnlyTo(d, C) => b \in C}

LEMMA FreeIsLeast ==
    ASSUME NEW d, NEW C, LeftOnlyTo(d, C)
    PROVE  Free(d) \subseteq C
BY DEF Free, LeftOnlyTo

LEMMA FreeIsLeftOnly ==
    ASSUME graph \in Graphs, NEW d
    PROVE  LeftOnlyTo(d, Free(d))
<1>1. LeftOnlyTo(d, graph.blocks \ {d})
  BY SuccessorsAreBlocks DEF LeftOnlyTo
<1>2. Free(d) \in SUBSET (graph.blocks \ {d})
  BY <1>1, FreeIsLeast
<1>3. graph.entry \in Free(d) \cup {d}
  BY SuccessorsAreBlocks DEF Free, LeftOnlyTo
<1>4. ASSUME NEW c \in Free(d), NEW s \in Successors(c), s # d
      PROVE  s \in Free(d)
  <2>1. s \in graph.blocks
    BY SuccessorsAreBlocks
  <2>2. ASSUME NEW C \in SUBSET graph.blocks, LeftOnlyTo(d, C)
        PROVE  s \in C
    BY <1>4, <2>2 DEF Free, LeftOnlyTo
  <2> QED BY <2>1, <2>2 DEF Free
<1> QED BY <1>2, <1>3, <1>4 DEF LeftOnlyTo

\* d dominates what is not reached without passing it.
LEMMA DominatesUnlessFree ==
    ASSUME graph \in Graphs, NEW d, NEW b
    PROVE  Dominates(d, b) <=> b \notin Free(d)
<1>1. LeftOnlyTo(d, Free(d))
  BY FreeIsLeftOnly
<1>2. ASSUME b \notin Free(d)
      PROVE  Dominates(d, b)
  BY <1>1, <1>2 DEF Dominates, LeftOnlyTo
<1>3. ASSUME Dominates(d, b), b # d
      PROVE  b \notin Free(d)
  <2>1. PICK C \in SUBSET (graph.blocks \ {d, b}) :
          /\ graph.entry \in C \cup {d}
          /\ \A c \in C : Successors(c) \subseteq C \cup {d}
    BY <1>3 DEF Dominates
  <2>2. LeftOnlyTo(d, C)
    BY <2>1 DEF LeftOnlyTo
  <2> QED BY <2>2, FreeIsLeast
<1>4. d \notin Free(d)
  BY <1>1 DEF LeftOnlyTo
<1> QED BY <1>2, <1>3, <1>4

LEMMA DominanceIsTransitive ==
    ASSUME graph \in Graphs, NEW a, NEW d, NEW b, Dominates(a, d), Dominates(d, b)
    PROVE  Dominates(a, b)
<1> DEFINE C == Free(a) \cap Free(d)
<1>1. LeftOnlyTo(a, Free(a)) /\ LeftOnlyTo(d, Free(d))
  BY FreeIsLeftOnly
<1>2. d \notin Free(a) /\ b \notin Free(d)
  BY DominatesUnlessFree
<1>3. LeftOnlyTo(a, C)
  <2>1. C \in SUBSET (graph.blocks \ {a})
    BY <1>1 DEF LeftOnlyTo
  <2>2. graph.entry \in C \cup {a}
    BY <1>1, <1>2 DEF LeftOnlyTo
  <2>3. \A c \in C : Successors(c) \subseteq C \cup {a}
    BY <1>1, <1>2 DEF LeftOnlyTo
  <2> QED BY <2>1, <2>2, <2>3 DEF LeftOnlyTo
<1>4. Free(a) \subseteq C
  BY <1>3, FreeIsLeast
<1> QED BY <1>2, <1>4, DominatesUnlessFree

\* The entry dominates every block, and no other block dominates the entry.
LEMMA EntryDominates ==
    ASSUME graph \in Graphs
    PROVE  /\ \A b : Dominates(graph.entry, b)
           /\ \A d : Dominates(d, graph.entry) => d = graph.entry
<1>1. LeftOnlyTo(graph.entry, {})
  BY DEF LeftOnlyTo
<1>2. \A b : b \notin Free(graph.entry)
  BY <1>1, FreeIsLeast
<1>3. \A d : graph.entry \in Free(d) \cup {d}
  BY FreeIsLeftOnly DEF LeftOnlyTo
<1> QED BY <1>2, <1>3, DominatesUnlessFree

\* What dominates a block dominates the blocks before it, or is the block.
LEMMA DominatesBefore ==
    ASSUME graph \in Graphs, NEW d, NEW p, NEW b \in Successors(p),
           Dominates(d, b), d # b
    PROVE  Dominates(d, p)
BY FreeIsLeftOnly, DominatesUnlessFree DEF LeftOnlyTo

-----------------------------------------------------------------------------
(***************************************************************************)
(* The depth-first search.                                                 *)
(***************************************************************************)
\* A block that was left has its successors visited, and so has a block on
\* the path but for the edges it has left to take.
Explored ==
    /\ \A b \in Numbered : Successors(b) \subseteq Visited
    /\ \A i \in DOMAIN path :
          /\ path[i].rest \subseteq EdgesFrom(path[i].block)
          /\ \A e \in EdgesFrom(path[i].block) :
                e \in path[i].rest \/ Target(e) \in Visited

\* The path begins at the entry, which is left last.
FromEntry ==
    /\ path # <<>> => path[1].block = graph.entry
    /\ path = <<>> => Count > 0 /\ postorder[Count] = graph.entry

\* The search came to a block by an edge from a block that is left later.
HasParent ==
    /\ \A i \in DOMAIN path :
          i > 1 => \E e \in EdgesFrom(path[i - 1].block) : Target(e) = path[i].block
    /\ \A i \in DOMAIN postorder :
          postorder[i] # graph.entry =>
             \E e \in DOMAIN graph.edges :
                /\ Target(e) = postorder[i]
                /\ \/ graph.edges[e].from \in OnPath
                   \/ \E j \in DOMAIN postorder : j > i /\ postorder[j] = graph.edges[e].from

SearchInv ==
    /\ AnalysisTypeOK
    /\ Explored /\ FromEntry /\ HasParent
    /\ phase = "number" => taken = {} /\ climb = <<>>
    /\ phase = "frontier" => todo \subseteq Numbered
    /\ climb # <<>> => at \in Numbers

LEMMA SearchInit == DomInit => SearchInv
<1> SUFFICES ASSUME DomInit
             PROVE  SearchInv
  OBVIOUS
<1>1. /\ graph \in Graphs /\ phase = "number" /\ postorder = <<>>
      /\ path = <<[block |-> graph.entry, rest |-> EdgesFrom(graph.entry)]>>
      /\ at = 0 /\ taken = {} /\ climb = <<>> /\ todo = {} /\ changed = FALSE
  BY DEF DomInit
<1>2. [block |-> graph.entry, rest |-> EdgesFrom(graph.entry)] \in Frame
  BY <1>1, SuccessorsAreBlocks DEF Frame
<1>3. path \in Seq(Frame) /\ Len(path) = 1 /\ DOMAIN path = {1}
  BY <1>1, <1>2
<1>4. postorder \in Seq(graph.blocks) /\ DOMAIN postorder = {} /\ Numbered = {}
  BY <1>1 DEF Numbered
<1>5. AnalysisTypeOK
  BY <1>1, <1>3, <1>4 DEF AnalysisTypeOK
<1>6. Explored
  BY <1>1, <1>3, <1>4 DEF Explored
<1>7. FromEntry /\ HasParent
  BY <1>1, <1>3, <1>4 DEF FromEntry, HasParent
<1> QED BY <1>1, <1>5, <1>6, <1>7 DEF SearchInv

\* An edge is taken: its target is visited then, one step down if it is new.
LEMMA DescendPath ==
    ASSUME SearchInv, Descend
    PROVE  \E edge \in Innermost.rest :
             LET n  == Len(path)
                 to == Target(edge)
             IN  /\ n \in Nat \ {0} /\ path' \in Seq(Frame)
                 /\ edge \in EdgesFrom(path[n].block) /\ to \in graph.blocks
                 /\ \A i \in DOMAIN path :
                       /\ path'[i].block = path[i].block
                       /\ path'[i].rest = IF i = n THEN path[i].rest \ {edge} ELSE path[i].rest
                 /\ \/ to \in Visited /\ DOMAIN path' = DOMAIN path
                    \/ /\ to \notin Visited /\ DOMAIN path' = DOMAIN path \cup {n + 1}
                       /\ path'[n + 1].block = to /\ path'[n + 1].rest = EdgesFrom(to)
<1> DEFINE n     == Len(path)
           edge  == FirstOf(path[n].rest)
           to    == Target(edge)
           moved == [path EXCEPT ![n].rest = @ \ {edge}]
           new   == [block |-> to, rest |-> EdgesFrom(to)]
<1>1. path \in Seq(Frame) /\ graph \in Graphs /\ path # <<>> /\ Explored
  BY DEF SearchInv, AnalysisTypeOK, Descend
<1>2. n \in Nat \ {0} /\ DOMAIN path = 1 .. n /\ path[n] \in Frame
  BY <1>1
<1>3. path[n].rest # {} /\ path' = IF to \in Visited THEN moved ELSE Append(moved, new)
  BY DEF Descend, Innermost
<1>4. edge \in path[n].rest
  <2>1. path[n].rest \in SUBSET Nat
    BY <1>1, <1>2, SuccessorsAreBlocks DEF Frame
  <2> QED BY <1>3, <2>1, FirstIsOneOf
<1>5. edge \in EdgesFrom(path[n].block) /\ edge \in Innermost.rest
  BY <1>1, <1>2, <1>4 DEF Explored, Innermost
<1>6. to \in graph.blocks
  BY <1>1, <1>5, SuccessorsAreBlocks DEF Successors
<1>7. /\ moved \in Seq(Frame) /\ Len(moved) = n /\ DOMAIN moved = 1 .. n
      /\ \A i \in DOMAIN path :
            /\ moved[i].block = path[i].block
            /\ moved[i].rest = IF i = n THEN path[i].rest \ {edge} ELSE path[i].rest
  <2> DEFINE frame == [path[n] EXCEPT !.rest = @ \ {edge}]
  <2>1. frame \in Frame /\ frame.block = path[n].block /\ frame.rest = path[n].rest \ {edge}
    BY <1>2 DEF Frame
  <2>2. moved = [path EXCEPT ![n] = frame]
    BY <1>2
  <2> HIDE DEF edge, frame, moved
  <2>3. moved \in Seq(Frame) /\ Len(moved) = n /\ DOMAIN moved = DOMAIN path
    BY <1>1, <1>2, <2>1, <2>2
  <2>4. \A i \in DOMAIN path : moved[i] = IF i = n THEN frame ELSE path[i]
    BY <1>1, <1>2, <2>2
  <2> QED BY <1>2, <2>1, <2>3, <2>4
<1>8. new \in Frame /\ new.block = to /\ new.rest = EdgesFrom(to)
  BY <1>1, <1>6, SuccessorsAreBlocks DEF Frame
<1> HIDE DEF edge, moved, new
<1>9. CASE to \in Visited
  BY <1>2, <1>3, <1>5, <1>6, <1>7, <1>9
<1>10. CASE to \notin Visited
  <2>1. /\ path' \in Seq(Frame) /\ Len(path') = n + 1 /\ DOMAIN path' = DOMAIN path \cup {n + 1}
        /\ \A i \in DOMAIN path : path'[i] = moved[i]
        /\ path'[n + 1] = new
    BY <1>2, <1>3, <1>7, <1>8, <1>10
  <2>2. \A i \in DOMAIN path :
           /\ path'[i].block = path[i].block
           /\ path'[i].rest = IF i = n THEN path[i].rest \ {edge} ELSE path[i].rest
    BY <1>7, <2>1
  <2> QED BY <1>2, <1>5, <1>6, <1>8, <1>10, <2>1, <2>2
<1> QED BY <1>9, <1>10

LEMMA DescendKeeps ==
    ASSUME SearchInv, Descend
    PROVE  SearchInv'
<1> DEFINE n == Len(path)
<1>1. PICK edge \in Innermost.rest :
        /\ n \in Nat \ {0} /\ path' \in Seq(Frame)
        /\ edge \in EdgesFrom(path[n].block) /\ Target(edge) \in graph.blocks
        /\ \A i \in DOMAIN path :
              /\ path'[i].block = path[i].block
              /\ path'[i].rest = IF i = n THEN path[i].rest \ {edge} ELSE path[i].rest
        /\ \/ Target(edge) \in Visited /\ DOMAIN path' = DOMAIN path
           \/ /\ Target(edge) \notin Visited /\ DOMAIN path' = DOMAIN path \cup {n + 1}
              /\ path'[n + 1].block = Target(edge)
              /\ path'[n + 1].rest = EdgesFrom(Target(edge))
  BY DescendPath
<1> DEFINE to == Target(edge)
<1> HIDE DEF n
<1>2. /\ AnalysisTypeOK /\ Explored /\ FromEntry /\ HasParent
      /\ taken = {} /\ climb = <<>> /\ phase = "number"
  BY DEF SearchInv, Descend
<1>3. path \in Seq(Frame) /\ graph \in Graphs /\ n = Len(path) /\ DOMAIN path = 1 .. n
  BY <1>2 DEF AnalysisTypeOK, n
<1>4. /\ graph' = graph /\ postorder' = postorder /\ phase' = phase /\ at' = at
      /\ taken' = taken /\ climb' = climb /\ todo' = todo /\ changed' = changed
      /\ idom' = idom
  BY DEF Descend, treeVars, postVars
<1>5. /\ Numbered' = Numbered /\ Count' = Count /\ Numbers' = Numbers /\ Frame' = Frame
      /\ \A b : EdgesFrom(b)' = EdgesFrom(b) /\ Successors(b)' = Successors(b)
      /\ \A e : Target(e)' = Target(e)
  BY <1>4 DEF Numbered, Count, Numbers, Frame, EdgesFrom, Successors, Target
<1>6. \A i \in DOMAIN path : i \in DOMAIN path' /\ path'[i].block = path[i].block
  BY <1>1
<1>7. to \notin Visited => /\ n + 1 \in DOMAIN path' /\ path'[n + 1].block = to
                           /\ \A i \in DOMAIN path' : i \in DOMAIN path \/ i = n + 1
  BY <1>1
<1>8. /\ OnPath' = IF to \in Visited THEN OnPath ELSE OnPath \cup {to}
      /\ Visited' = Visited \cup {to}
  <2>1. OnPath = {path[i].block : i \in DOMAIN path} /\ OnPath' = {path'[i].block : i \in DOMAIN path'}
    BY <1>3 DEF OnPath
  <2>2. CASE to \in Visited
    <3>1. OnPath' = OnPath
      BY <1>1, <1>6, <2>1, <2>2
    <3> QED BY <1>5, <2>2, <3>1 DEF Visited
  <2>3. CASE to \notin Visited
    <3>1. OnPath' = OnPath \cup {to}
      BY <1>6, <1>7, <2>1, <2>3
    <3> QED BY <1>5, <2>3, <3>1 DEF Visited
  <2> QED BY <2>2, <2>3
<1>9. AnalysisTypeOK'
  <2>1. ASSUME NEW i \in DOMAIN path', NEW j \in DOMAIN path', path'[i].block = path'[j].block
        PROVE  i = j
    <3>1. \A k \in DOMAIN path : path[k].block \in Visited
      BY <1>3 DEF Visited, OnPath
    <3>2. \A k, l \in DOMAIN path : path[k].block = path[l].block => k = l
      BY <1>2, <1>3 DEF AnalysisTypeOK
    <3> QED BY <1>1, <1>6, <1>7, <2>1, <3>1, <3>2
  <2>2. OnPath' \cap Numbered' = {}
    BY <1>2, <1>5, <1>8 DEF AnalysisTypeOK, Visited
  <2>3. PredEdges(at)' = PredEdges(at)
    BY <1>4, <1>5 DEF PredEdges, Rpo
  <2> QED BY <1>1, <1>2, <1>4, <1>5, <2>1, <2>2, <2>3 DEF AnalysisTypeOK
<1>10. Explored'
  <2>1. \A b \in Numbered' : Successors(b)' \subseteq Visited'
    BY <1>2, <1>5, <1>8 DEF Explored
  <2>2. \A i \in DOMAIN path : /\ path[i].rest \subseteq EdgesFrom(path[i].block)
                          /\ \A e \in EdgesFrom(path[i].block) :
                                e \in path[i].rest \/ Target(e) \in Visited
    BY <1>2, <1>3 DEF Explored
  <2>3. ASSUME NEW i \in DOMAIN path'
        PROVE  /\ path'[i].rest \subseteq EdgesFrom(path'[i].block)
               /\ \A e \in EdgesFrom(path'[i].block) :
                     e \in path'[i].rest \/ Target(e) \in Visited'
    <3>1. CASE i \in DOMAIN path
      <4>1. /\ path'[i].block = path[i].block
            /\ path'[i].rest = IF i = n THEN path[i].rest \ {edge} ELSE path[i].rest
        BY <1>1, <3>1
      <4> QED BY <1>8, <2>2, <3>1, <4>1
    <3>2. CASE i \notin DOMAIN path
      <4>1. path'[i].block = to /\ path'[i].rest = EdgesFrom(to)
        BY <1>1, <3>2
      <4> QED BY <4>1
    <3> QED BY <3>1, <3>2
  <2> QED BY <1>5, <2>1, <2>3 DEF Explored
<1>11. FromEntry'
  <2>1. path' # <<>> /\ path # <<>>
    BY <1>1, <1>3
  <2>2. 1 \in DOMAIN path
    BY <1>1, <1>3
  <2>3. path'[1].block = path[1].block
    BY <1>6, <2>2
  <2> QED BY <1>2, <1>4, <2>1, <2>3 DEF FromEntry
<1>12. HasParent'
  <2>1. ASSUME NEW i \in DOMAIN path', i > 1
        PROVE  \E e \in EdgesFrom(path'[i - 1].block) : Target(e) = path'[i].block
    <3>1. CASE i \in DOMAIN path
      <4>1. i - 1 \in DOMAIN path
        BY <1>1, <1>3, <2>1, <3>1
      <4>2. path'[i].block = path[i].block /\ path'[i - 1].block = path[i - 1].block
        BY <1>6, <3>1, <4>1
      <4> QED BY <1>2, <2>1, <3>1, <4>2 DEF HasParent
    <3>2. CASE i \notin DOMAIN path
      <4>1. n \in DOMAIN path
        BY <1>1, <1>3
      <4>2. path'[i].block = to /\ i - 1 = n
        BY <1>1, <1>7, <3>2
      <4>3. path'[i - 1].block = path[n].block
        BY <1>6, <4>1, <4>2
      <4> QED BY <1>1, <4>2, <4>3
    <3> QED BY <3>1, <3>2
  <2>2. OnPath \subseteq OnPath'
    BY <1>8
  <2> QED BY <1>2, <1>4, <1>5, <2>1, <2>2 DEF HasParent
<1> QED BY <1>2, <1>4, <1>9, <1>10, <1>11, <1>12 DEF SearchInv

\* The innermost block of the path is left.
LEMMA AscendKeeps ==
    ASSUME SearchInv, Ascend
    PROVE  SearchInv'
<1> DEFINE n == Len(path)
           b == path[n].block
           m == Len(postorder)
<1>1. /\ AnalysisTypeOK /\ Explored /\ FromEntry /\ HasParent
      /\ taken = {} /\ climb = <<>> /\ phase = "number"
  BY DEF SearchInv, Ascend
<1>2. /\ graph' = graph /\ phase' = phase /\ at' = at /\ taken' = taken /\ climb' = climb
      /\ todo' = todo /\ changed' = changed
      /\ path[n].rest = {} /\ path # <<>>
      /\ postorder' = Append(postorder, b) /\ path' = SubSeq(path, 1, n - 1)
  BY DEF Ascend, Innermost, treeVars, postVars
<1>3. /\ path \in Seq(Frame) /\ n \in Nat \ {0} /\ DOMAIN path = 1 .. n /\ n \in DOMAIN path
      /\ postorder \in Seq(graph.blocks) /\ m \in Nat /\ DOMAIN postorder = 1 .. m
      /\ path[n] \in Frame /\ b \in graph.blocks /\ graph \in Graphs
  <2>1. path \in Seq(Frame) /\ postorder \in Seq(graph.blocks) /\ graph \in Graphs
    BY <1>1 DEF AnalysisTypeOK
  <2>2. n \in Nat \ {0} /\ DOMAIN path = 1 .. n /\ m \in Nat /\ DOMAIN postorder = 1 .. m
    BY <1>2, <2>1
  <2>3. n \in DOMAIN path /\ path[n] \in Frame
    BY <2>1, <2>2
  <2> QED BY <2>1, <2>2, <2>3 DEF Frame
<1>4. /\ path' \in Seq(Frame) /\ Len(path') = n - 1 /\ DOMAIN path' = (DOMAIN path) \ {n}
      /\ \A i \in DOMAIN path' : path'[i] = path[i]
  <2> HIDE DEF n
  <2>1. path' \in Seq(Frame) /\ Len(path') = n - 1 /\ DOMAIN path' = 1 .. n - 1
    BY <1>2, <1>3
  <2>2. \A i \in 1 .. n - 1 : path'[i] = path[i]
    BY <1>2, <1>3
  <2> QED BY <1>3, <2>1, <2>2
<1>5. /\ postorder' \in Seq(graph.blocks) /\ DOMAIN postorder' = DOMAIN postorder \cup {m + 1}
      /\ Len(postorder') = m + 1 /\ postorder'[m + 1] = b
      /\ \A i \in DOMAIN postorder : postorder'[i] = postorder[i]
  <2> HIDE DEF b, m
  <2>1. postorder' \in Seq(graph.blocks) /\ Len(postorder') = m + 1 /\ postorder'[m + 1] = b
    BY <1>2, <1>3 DEF m
  <2>2. \A i \in 1 .. m : postorder'[i] = postorder[i]
    BY <1>2, <1>3 DEF m
  <2>3. DOMAIN postorder' = 1 .. m + 1
    BY <2>1
  <2> QED BY <1>3, <2>1, <2>2, <2>3
<1> HIDE DEF n, b, m
<1>6. /\ Frame' = Frame
      /\ \A x : EdgesFrom(x)' = EdgesFrom(x) /\ Successors(x)' = Successors(x)
      /\ \A e : Target(e)' = Target(e)
  BY <1>2 DEF Frame, EdgesFrom, Successors, Target
<1>7. \A i, j \in DOMAIN path : path[i].block = path[j].block => i = j
  BY <1>1 DEF AnalysisTypeOK
<1>8. OnPath' = OnPath \ {b} /\ b \in OnPath
  BY <1>3, <1>4, <1>7 DEF OnPath, b
<1>9. Numbered' = Numbered \cup {b}
  BY <1>5 DEF Numbered
<1>10. Visited' = Visited
  BY <1>8, <1>9 DEF Visited
<1>11. AnalysisTypeOK'
  <2>1. \A i, j \in DOMAIN path' : path'[i].block = path'[j].block => i = j
    BY <1>4, <1>7
  <2>2. b \notin Numbered
    BY <1>1, <1>8 DEF AnalysisTypeOK
  <2>3. \A i, j \in DOMAIN postorder' : postorder'[i] = postorder'[j] => i = j
    <3>1. \A i \in DOMAIN postorder : postorder[i] # b
      BY <2>2 DEF Numbered
    <3>2. \A i, j \in DOMAIN postorder : postorder[i] = postorder[j] => i = j
      BY <1>1 DEF AnalysisTypeOK
    <3> QED BY <1>5, <3>1, <3>2
  <2>4. OnPath' \cap Numbered' = {}
    BY <1>1, <1>8, <1>9 DEF AnalysisTypeOK
  <2>5. /\ graph' \in Graphs /\ phase' = "number" /\ at' \in Nat /\ todo' \subseteq graph'.blocks
        /\ changed' \in BOOLEAN
    BY <1>1, <1>2 DEF AnalysisTypeOK
  <2>6. path' \in Seq(Frame') /\ postorder' \in Seq(graph'.blocks)
    BY <1>2, <1>4, <1>5, <1>6
  <2> QED BY <1>1, <1>2, <2>1, <2>3, <2>4, <2>5, <2>6 DEF AnalysisTypeOK
<1>12. Explored'
  <2>1. \A x \in Numbered' : Successors(x) \subseteq Visited
    <3>1. \A e \in EdgesFrom(b) : Target(e) \in Visited
      BY <1>1, <1>2, <1>3 DEF Explored, b
    <3> QED BY <1>1, <1>9, <3>1 DEF Explored, Successors
  <2> QED BY <1>1, <1>4, <1>6, <1>10, <2>1 DEF Explored
<1>13. FromEntry'
  <2>1. CASE n = 1
    <3>1. path' = <<>> /\ b = graph.entry
      BY <1>1, <1>2, <1>3, <1>4, <2>1 DEF FromEntry, b
    <3>2. Count' = m + 1
      BY <1>5 DEF Count
    <3>3. Count' > 0 /\ postorder'[Count'] = graph.entry
      BY <1>3, <1>5, <3>1, <3>2
    <3>4. graph' = graph
      BY <1>2
    <3> QED BY <3>1, <3>3, <3>4 DEF FromEntry
  <2>2. CASE n # 1
    <3>1. 1 \in DOMAIN path'
      BY <1>3, <1>4, <2>2
    <3>2. path'[1] = path[1]
      BY <1>4, <3>1
    <3>3. path # <<>> /\ graph' = graph
      BY <1>2
    <3>4. path' # <<>>
      BY <1>3, <1>4, <2>2
    <3> QED BY <1>1, <3>2, <3>3, <3>4 DEF FromEntry
  <2> QED BY <2>1, <2>2
<1>14. HasParent'
  <2>1. ASSUME NEW i \in DOMAIN path', i > 1
        PROVE  \E e \in EdgesFrom(path'[i - 1].block) : Target(e) = path'[i].block
    <3>1. i \in DOMAIN path /\ i - 1 \in DOMAIN path'
      BY <1>3, <1>4, <2>1
    <3>2. path'[i] = path[i] /\ path'[i - 1] = path[i - 1]
      BY <1>4, <3>1
    <3> QED BY <1>1, <2>1, <3>1, <3>2 DEF HasParent
  <2>2. ASSUME NEW i \in DOMAIN postorder', postorder'[i] # graph.entry
        PROVE  \E e \in DOMAIN graph.edges :
                  /\ Target(e) = postorder'[i]
                  /\ \/ graph.edges[e].from \in OnPath'
                     \/ \E j \in DOMAIN postorder' : j > i /\ postorder'[j] = graph.edges[e].from
    <3>1. CASE i \in DOMAIN postorder
      <4>1. PICK e \in DOMAIN graph.edges :
              /\ Target(e) = postorder[i]
              /\ \/ graph.edges[e].from \in OnPath
                 \/ \E j \in DOMAIN postorder : j > i /\ postorder[j] = graph.edges[e].from
        BY <1>1, <1>5, <2>2, <3>1 DEF HasParent
      <4>2. m + 1 \in DOMAIN postorder' /\ m + 1 > i
        BY <1>3, <1>5, <3>1
      <4> QED BY <1>5, <1>8, <3>1, <4>1, <4>2
    <3>2. CASE i \notin DOMAIN postorder
      <4>1. postorder'[i] = b
        BY <1>5, <3>2
      <4>2. n > 1 /\ n - 1 \in DOMAIN path'
        <5>1. n = 1 => b = graph.entry
          BY <1>1, <1>2 DEF FromEntry, b
        <5> QED BY <1>3, <1>4, <2>2, <4>1, <5>1
      <4>3. PICK e \in EdgesFrom(path[n - 1].block) : Target(e) = b
        BY <1>1, <1>3, <4>2 DEF HasParent, b
      <4>4. e \in DOMAIN graph.edges /\ graph.edges[e].from = path[n - 1].block
        BY <4>3 DEF EdgesFrom
      <4>5. graph.edges[e].from \in OnPath'
        BY <1>4, <4>2, <4>4 DEF OnPath
      <4> QED BY <4>1, <4>3, <4>4, <4>5
    <3> QED BY <3>1, <3>2
  <2>3. graph' = graph
    BY <1>2
  <2> QED BY <1>6, <2>1, <2>2, <2>3 DEF HasParent
<1> QED BY <1>1, <1>2, <1>11, <1>12, <1>13, <1>14 DEF SearchInv

-----------------------------------------------------------------------------
(***************************************************************************)
(* The numbering the search has found.                                     *)
(***************************************************************************)
\* The search is over, and every number is its block's.
Searched ==
    /\ graph \in Graphs /\ path = <<>>
    /\ postorder \in Seq(graph.blocks)
    /\ \A i, j \in DOMAIN postorder : postorder[i] = postorder[j] => i = j
    /\ Explored /\ FromEntry /\ HasParent

LEMMA Numbering ==
    ASSUME Searched
    PROVE  /\ Count \in Nat \ {0} /\ Numbers \subseteq Nat
           /\ 0 \in Numbers /\ Rpo(0) = graph.entry
           /\ Numbered \subseteq graph.blocks
           /\ \A i \in Numbers : Rpo(i) \in Numbered /\ Number(Rpo(i)) = i
           /\ \A b \in Numbered : Number(b) \in Numbers /\ Rpo(Number(b)) = b
           /\ \A b \in Numbered : Successors(b) \subseteq Numbered
<1>1. /\ postorder \in Seq(graph.blocks) /\ Count > 0 /\ postorder[Count] = graph.entry
      /\ \A i, j \in DOMAIN postorder : postorder[i] = postorder[j] => i = j
  BY DEF Searched, FromEntry
<1>2. Count \in Nat \ {0} /\ DOMAIN postorder = 1 .. Count
  BY <1>1 DEF Count
<1>3. \A i \in Numbers : i \in Nat /\ Count - i \in DOMAIN postorder
  BY <1>2 DEF Numbers
<1>4. 0 \in Numbers /\ Count - 0 = Count
  BY <1>2 DEF Numbers
<1>5. \A k \in DOMAIN postorder : Count - k \in Numbers /\ Count - (Count - k) = k
  BY <1>2 DEF Numbers
<1>6. \A i \in Numbers : Rpo(i) \in Numbered
  BY <1>3 DEF Rpo, Numbered
<1>7. \A b \in Numbered : \E i \in Numbers : Rpo(i) = b
  <2>1. TAKE b \in Numbered
  <2>2. PICK k \in DOMAIN postorder : postorder[k] = b
    BY DEF Numbered
  <2>3. Count - k \in Numbers /\ Rpo(Count - k) = b
    BY <1>5, <2>2 DEF Rpo
  <2> QED BY <2>3
<1>8. \A i, j \in Numbers : Rpo(i) = Rpo(j) => i = j
  <2>1. TAKE i, j \in Numbers
  <2>2. Rpo(i) = Rpo(j) => Count - i = Count - j
    BY <1>1, <1>3 DEF Rpo
  <2> QED BY <1>2, <1>3, <2>2
<1>9. \A b \in Numbered : Number(b) \in Numbers /\ Rpo(Number(b)) = b
  BY <1>7 DEF Number
<1>10. \A i \in Numbers : Number(Rpo(i)) = i
  BY <1>6, <1>8, <1>9
<1>11. Numbered \subseteq graph.blocks
  BY <1>1 DEF Numbered
<1>12. \A b \in Numbered : Successors(b) \subseteq Numbered
  <2>1. Visited = Numbered
    BY DEF Searched, Visited, OnPath
  <2> QED BY <2>1 DEF Searched, Explored
<1>13. Rpo(0) = graph.entry
  BY <1>1, <1>4 DEF Rpo
<1> QED BY <1>2, <1>3, <1>4, <1>6, <1>9, <1>10, <1>11, <1>12, <1>13

\* The edges to a block in the numbering.
LEMMA PredEdgeFacts ==
    ASSUME Searched, NEW i, NEW e \in PredEdges(i)
    PROVE  /\ i \in Numbers /\ e \in Nat
           /\ Pred(e) \in Numbers /\ Rpo(Pred(e)) = graph.edges[e].from
           /\ Rpo(i) \in Successors(Rpo(Pred(e)))
<1>1. /\ e \in DOMAIN graph.edges /\ i \in Numbers
      /\ Target(e) = Rpo(i) /\ graph.edges[e].from \in Numbered
  BY DEF PredEdges
<1>2. Pred(e) \in Numbers /\ Rpo(Pred(e)) = graph.edges[e].from
  BY <1>1, Numbering DEF Pred
<1>3. Rpo(i) \in Successors(graph.edges[e].from)
  BY <1>1 DEF Successors, EdgesFrom
<1> QED BY <1>1, <1>2, <1>3, SuccessorsAreBlocks DEF Searched

\* And one edge for every numbered block before a block.
LEMMA EdgeFromPred ==
    ASSUME Searched, NEW i \in Numbers, NEW p \in Numbered, Rpo(i) \in Successors(p)
    PROVE  \E e \in PredEdges(i) : Rpo(Pred(e)) = p
<1>1. PICK e \in EdgesFrom(p) : Target(e) = Rpo(i)
  BY DEF Successors
<1>2. e \in PredEdges(i)
  BY <1>1 DEF PredEdges, EdgesFrom
<1> QED BY <1>1, <1>2, PredEdgeFacts DEF EdgesFrom

\* Every block but the entry has a block with a smaller number before it.
LEMMA HasEarlierPred ==
    ASSUME Searched, NEW i \in Numbers \ {0}
    PROVE  \E e \in PredEdges(i) : Pred(e) < i
<1> DEFINE k == Count - i
<1>1. /\ Count \in Nat /\ i \in Nat /\ k \in DOMAIN postorder /\ DOMAIN postorder = 1 .. Count
      /\ Rpo(i) = postorder[k]
  <2>1. postorder \in Seq(graph.blocks)
    BY DEF Searched
  <2> QED BY <2>1 DEF Numbers, Count, Rpo
<1>2. postorder[k] # graph.entry
  BY <1>1, Numbering
<1>3. PICK e \in DOMAIN graph.edges :
        /\ Target(e) = postorder[k]
        /\ \/ graph.edges[e].from \in OnPath
           \/ \E j \in DOMAIN postorder : j > k /\ postorder[j] = graph.edges[e].from
  BY <1>1, <1>2 DEF Searched, HasParent
<1>4. PICK j \in DOMAIN postorder : j > k /\ postorder[j] = graph.edges[e].from
  BY <1>3 DEF Searched, OnPath
<1>5. Count - j \in Numbers /\ Count - j < i /\ Count - (Count - j) = j
  BY <1>1, <1>4 DEF Numbers
<1>6. Rpo(Count - j) = graph.edges[e].from
  BY <1>4, <1>5 DEF Rpo
<1>7. Pred(e) = Count - j /\ graph.edges[e].from \in Numbered
  BY <1>5, <1>6, Numbering DEF Pred
<1>8. e \in PredEdges(i)
  BY <1>1, <1>3, <1>7 DEF PredEdges
<1> QED BY <1>5, <1>7, <1>8

-----------------------------------------------------------------------------
(***************************************************************************)
(* Dominance and the numbers.                                              *)
(***************************************************************************)
\* What dominates a block has a number, and no greater one: a least block
\* against it would have a block before it against it.
LEMMA DominatorsComeFirst ==
    ASSUME Searched, NEW d, NEW i \in Numbers, Dominates(d, Rpo(i))
    PROVE  d \in Numbered /\ Number(d) <= i
<1> DEFINE Later(j) == Dominates(d, Rpo(j)) /\ ~(d \in Numbered /\ Number(d) <= j)
           T == {j \in Numbers : Later(j)}
<1>1. graph \in Graphs
  BY DEF Searched
<1>2. SUFFICES ASSUME T # {}
               PROVE  FALSE
  OBVIOUS
<1>3. PICK j \in T : \A k \in T : j <= k
  <2>1. T \in SUBSET Nat
    BY Numbering
  <2> QED BY <1>2, <2>1, LeastNumber
<1>4. j \in Numbers /\ Later(j) /\ j \in Nat
  BY <1>3, Numbering
<1>5. d # Rpo(j)
  BY <1>4, Numbering
<1>6. j # 0
  BY <1>1, <1>4, <1>5, EntryDominates, Numbering
<1>7. PICK e \in PredEdges(j) : Pred(e) < j
  BY <1>4, <1>6, HasEarlierPred
<1>8. Pred(e) \in Numbers /\ Rpo(j) \in Successors(Rpo(Pred(e))) /\ Pred(e) \in Nat
  BY <1>7, PredEdgeFacts, Numbering
<1>9. Dominates(d, Rpo(Pred(e)))
  BY <1>1, <1>4, <1>5, <1>8, DominatesBefore
<1>10. d \in Numbered => Number(d) \in Nat
  BY Numbering
<1>11. Later(Pred(e))
  BY <1>4, <1>7, <1>8, <1>9, <1>10
<1> QED BY <1>3, <1>4, <1>7, <1>8, <1>11

\* Two blocks that dominate each other are the same.
LEMMA DominanceIsAntisymmetric ==
    ASSUME Searched, NEW i \in Numbers, NEW j \in Numbers,
           Dominates(Rpo(i), Rpo(j)), Dominates(Rpo(j), Rpo(i))
    PROVE  i = j
<1>1. Number(Rpo(i)) <= j /\ Number(Rpo(j)) <= i
  BY DominatorsComeFirst
<1>2. Number(Rpo(i)) = i /\ Number(Rpo(j)) = j /\ i \in Nat /\ j \in Nat
  BY Numbering
<1> QED BY <1>1, <1>2

\* A block is dominated by what dominates the blocks before it.
LEMMA DominatesFromPreds ==
    ASSUME Searched, NEW d, NEW i \in Numbers \ {0},
           \A e \in PredEdges(i) : Dominates(d, Rpo(Pred(e)))
    PROVE  Dominates(d, Rpo(i))
<1> DEFINE b == Rpo(i)
           C == Free(d) \cap Numbered
<1>1. graph \in Graphs
  BY DEF Searched
<1>2. LeftOnlyTo(d, Free(d))
  BY <1>1, FreeIsLeftOnly
<1>3. b # graph.entry
  BY Numbering
<1>4. \A p \in Numbered \cap Free(d) : b \notin Successors(p)
  <2>1. TAKE p \in Numbered \cap Free(d)
  <2>2. b \in Successors(p) => \E e \in PredEdges(i) : Rpo(Pred(e)) = p
    BY EdgeFromPred
  <2> QED BY <1>1, <2>2, DominatesUnlessFree
<1>5. LeftOnlyTo(d, C \ {b})
  <2>1. C \ {b} \in SUBSET (graph.blocks \ {d})
    BY <1>2 DEF LeftOnlyTo
  <2>2. graph.entry \in (C \ {b}) \cup {d}
    <3>1. graph.entry \in Numbered
      BY Numbering
    <3> QED BY <1>2, <1>3, <3>1 DEF LeftOnlyTo
  <2>3. ASSUME NEW c \in C \ {b}
        PROVE  Successors(c) \subseteq (C \ {b}) \cup {d}
    <3>1. Successors(c) \subseteq Free(d) \cup {d}
      BY <1>2 DEF LeftOnlyTo
    <3>2. Successors(c) \subseteq Numbered
      BY Numbering
    <3>3. b \notin Successors(c)
      BY <1>4
    <3> QED BY <3>1, <3>2, <3>3
  <2> HIDE DEF C, b
  <2> QED BY <2>1, <2>2, <2>3 DEF LeftOnlyTo
<1>6. b \notin Free(d)
  BY <1>5, FreeIsLeast
<1> QED BY <1>1, <1>6, DominatesUnlessFree

\* What dominates a block, and is another one, dominates the blocks before it.
LEMMA DominatesPreds ==
    ASSUME Searched, NEW d, NEW i, NEW e \in PredEdges(i),
           Dominates(d, Rpo(i)), d # Rpo(i)
    PROVE  Dominates(d, Rpo(Pred(e)))
BY PredEdgeFacts, DominatesBefore DEF Searched

\* A block dominates itself.
LEMMA DominatesItself == \A b : Dominates(b, b)
BY DEF Dominates

\* What the later steps leave alone.
LEMMA NumberingFixed ==
    ASSUME graph' = graph, postorder' = postorder
    PROVE  /\ Numbered' = Numbered /\ Count' = Count /\ Numbers' = Numbers
           /\ \A i : Rpo(i)' = Rpo(i) /\ PredEdges(i)' = PredEdges(i)
           /\ \A b : Number(b)' = Number(b) /\ Successors(b)' = Successors(b)
           /\ \A e : Pred(e)' = Pred(e)
           /\ \A d, b : Dominates(d, b)' <=> Dominates(d, b)
           /\ Acyclic' <=> Acyclic
           /\ Frame' = Frame
<1>1. Numbered' = Numbered /\ Count' = Count /\ Frame' = Frame
  BY DEF Numbered, Count, Frame
<1>2. Numbers' = Numbers /\ \A i : Rpo(i)' = Rpo(i)
  BY <1>1 DEF Numbers, Rpo
<1>3. \A b : Number(b)' = Number(b)
  BY <1>2 DEF Number
<1>4. \A b : Successors(b)' = Successors(b)
  BY DEF Successors, EdgesFrom, Target
<1>5. \A i : PredEdges(i)' = PredEdges(i)
  BY <1>1, <1>2 DEF PredEdges, Target
<1>6. \A e : Pred(e)' = Pred(e)
  BY <1>3 DEF Pred
<1>7. \A d, b : Dominates(d, b)' <=> Dominates(d, b)
  BY <1>4 DEF Dominates
<1>8. Acyclic' <=> Acyclic
  BY <1>1, <1>3, <1>4 DEF Acyclic
<1> QED BY <1>1, <1>2, <1>3, <1>4, <1>5, <1>6, <1>7, <1>8

-----------------------------------------------------------------------------
(***************************************************************************)
(* The types, through the steps after the search.                          *)
(***************************************************************************)
LEMMA SearchFixed ==
    ASSUME graph' = graph, path' = path, postorder' = postorder,
           Explored, FromEntry, HasParent
    PROVE  Explored' /\ FromEntry' /\ HasParent'
<1>1. /\ \A b : Successors(b)' = Successors(b) /\ EdgesFrom(b)' = EdgesFrom(b)
      /\ \A e : Target(e)' = Target(e)
      /\ Visited' = Visited /\ OnPath' = OnPath /\ Numbered' = Numbered /\ Count' = Count
  BY DEF Successors, EdgesFrom, Target, Visited, OnPath, Numbered, Count
<1>2. Explored'
  BY <1>1 DEF Explored
<1>3. FromEntry'
  BY <1>1 DEF FromEntry
<1>4. HasParent'
  BY <1>1 DEF HasParent
<1> QED BY <1>2, <1>3, <1>4

LEMMA SearchedOnceLeft ==
    ASSUME SearchInv, path = <<>>
    PROVE  Searched
BY DEF SearchInv, AnalysisTypeOK, Searched

\* What a step of the tree or of the sets has to show for its types.
StepTypes ==
    /\ phase' \in {"dominate", "frontier", "postdominate", "done"}
    /\ path = <<>> /\ idom' \in [Numbers -> Numbers]
    /\ at' \in Nat /\ taken' \subseteq PredEdges(at')
    /\ climb' \in {<<>>} \cup (Numbers \X Numbers)
    /\ phase' # "dominate" => frontier' \in [Numbers -> SUBSET Numbers]
    /\ phase' \in {"postdominate", "done"} =>
          postdom' \in [graph.blocks -> SUBSET graph.blocks]
    /\ todo' \subseteq graph.blocks
    /\ phase' = "frontier" => todo' \subseteq Numbered
    /\ climb' # <<>> => at' \in Numbers
    /\ changed' \in BOOLEAN

LEMMA TypesSuffice ==
    ASSUME SearchInv, StepTypes, graph' = graph, path' = path, postorder' = postorder
    PROVE  SearchInv'
<1>1. AnalysisTypeOK /\ Explored /\ FromEntry /\ HasParent
  BY DEF SearchInv
<1>2. /\ Numbered' = Numbered /\ Numbers' = Numbers /\ OnPath' = OnPath /\ Frame' = Frame
      /\ \A i : PredEdges(i)' = PredEdges(i)
      /\ PredEdges(at)' = PredEdges(at')
  BY NumberingFixed DEF OnPath, PredEdges, Numbered, Numbers, Count, Target, Rpo
<1>3. AnalysisTypeOK'
  BY <1>1, <1>2 DEF StepTypes, AnalysisTypeOK
<1>4. Explored' /\ FromEntry' /\ HasParent'
  BY <1>1, SearchFixed
<1>5. /\ phase' = "frontier" => todo' \subseteq Numbered'
      /\ climb' # <<>> => at' \in Numbers'
      /\ phase' # "number"
  BY <1>2 DEF StepTypes
<1> QED BY <1>3, <1>4, <1>5 DEF SearchInv

\* The first untaken edge, and the numbers it brings in.
LEMMA UntakenEdge ==
    ASSUME Searched, Untaken # {}
    PROVE  /\ FirstOf(Untaken) \in Untaken
           /\ FirstOf(Untaken) \in PredEdges(at)
           /\ at \in Numbers /\ Pred(FirstOf(Untaken)) \in Numbers
<1>1. Untaken \in SUBSET Nat /\ Untaken \subseteq PredEdges(at)
  BY SuccessorsAreBlocks DEF Searched, Untaken, PredEdges
<1>2. FirstOf(Untaken) \in Untaken
  BY <1>1, FirstIsOneOf
<1> QED BY <1>1, <1>2, PredEdgeFacts

LEMMA DominateStepTypes ==
    ASSUME SearchInv,
           StartDominators \/ TakePred \/ Climb \/ SetIdom \/ NextPass
    PROVE  StepTypes
<1>1. AnalysisTypeOK /\ path = <<>>
  BY DEF SearchInv, AnalysisTypeOK, StartDominators, TakePred, Climb, SetIdom, NextPass
<1>2. Searched
  BY <1>1, SearchedOnceLeft
<1>3. CASE StartDominators
  <2>1. taken = {} /\ climb = <<>> /\ 0 \in Numbers
    BY <1>2, <1>3, Numbering DEF SearchInv, StartDominators
  <2> QED BY <1>1, <1>3, <2>1 DEF StepTypes, StartDominators, postVars, AnalysisTypeOK
<1>4. CASE TakePred
  <2> DEFINE edge == FirstOf(Untaken)
  <2>1. edge \in PredEdges(at) /\ Pred(edge) \in Numbers /\ at \in Numbers
    BY <1>2, <1>4, UntakenEdge DEF TakePred
  <2>2. /\ taken' = taken \cup {edge}
        /\ climb' = <<IF climb = <<>> THEN Pred(edge) ELSE climb[1], Pred(edge)>>
        /\ phase' = "dominate" /\ idom' = idom /\ at' = at /\ todo' = todo /\ changed' = changed
    BY <1>4 DEF TakePred, postVars
  <2> HIDE DEF edge
  <2>3. climb' \in Numbers \X Numbers
    BY <1>1, <2>1, <2>2 DEF AnalysisTypeOK
  <2> QED BY <1>1, <1>4, <2>1, <2>2, <2>3 DEF StepTypes, AnalysisTypeOK, TakePred
<1>5. CASE Climb
  <2>1. /\ climb' = IF climb[1] > climb[2] THEN <<idom[climb[1]], climb[2]>>
                                           ELSE <<climb[1], idom[climb[2]]>>
        /\ phase' = "dominate" /\ idom' = idom /\ at' = at /\ todo' = todo /\ changed' = changed
        /\ taken' = taken /\ phase = "dominate" /\ climb # <<>> /\ at \in Numbers
    BY <1>5 DEF Climb, postVars, Met, SearchInv
  <2>2. climb \in Numbers \X Numbers /\ idom \in [Numbers -> Numbers]
    BY <1>1, <2>1 DEF AnalysisTypeOK
  <2>3. climb' \in Numbers \X Numbers
    BY <2>1, <2>2
  <2> QED BY <1>1, <2>1, <2>2, <2>3 DEF StepTypes, AnalysisTypeOK
<1>6. CASE SetIdom
  <2>1. /\ phase = "dominate" /\ phase' = phase /\ at < Count
        /\ idom' = [idom EXCEPT ![at] = NewIdom]
        /\ at' = at + 1 /\ taken' = {} /\ climb' = <<>> /\ todo' = todo
        /\ changed' = (changed \/ NewIdom # idom[at])
    BY <1>6 DEF SetIdom, postVars
  <2>2. at \in Numbers /\ idom \in [Numbers -> Numbers] /\ at \in Nat
    BY <1>1, <1>2, <2>1, Numbering DEF AnalysisTypeOK, Numbers
  <2>3. NewIdom \in Numbers
    BY <1>1, <2>2 DEF NewIdom, AnalysisTypeOK
  <2>4. idom' \in [Numbers -> Numbers] /\ at' \in Nat
    BY <2>1, <2>2, <2>3
  <2> QED BY <1>1, <2>1, <2>4 DEF StepTypes, AnalysisTypeOK
<1>7. CASE NextPass
  <2>1. /\ phase = "dominate" /\ phase' = phase /\ at >= Count /\ idom' = idom
        /\ at' = 1 /\ taken' = taken /\ climb' = climb /\ todo' = todo /\ changed' = FALSE
    BY <1>7 DEF NextPass, postVars
  <2>2. at \notin Numbers
    BY <1>1, <1>2, <2>1, Numbering DEF AnalysisTypeOK, Numbers
  <2>3. taken = {} /\ climb = <<>>
    BY <1>1, <2>2 DEF AnalysisTypeOK, PredEdges, SearchInv
  <2> QED BY <1>1, <2>1, <2>3 DEF StepTypes, AnalysisTypeOK
<1> QED BY <1>3, <1>4, <1>5, <1>6, <1>7

LEMMA FrontierStepTypes ==
    ASSUME SearchInv,
           StartFrontiers \/ (\E b \in Blocks : VisitJoin(b)) \/ StartRunner \/ RunUp
    PROVE  StepTypes
<1>1. AnalysisTypeOK /\ path = <<>> /\ idom \in [Numbers -> Numbers]
  BY DEF SearchInv, AnalysisTypeOK, StartFrontiers, VisitJoin, StartRunner, RunUp
<1>2. Searched
  BY <1>1, SearchedOnceLeft
<1>3. CASE StartFrontiers
  <2>1. /\ Joins \subseteq Numbered /\ Numbered \subseteq graph.blocks
        /\ climb # <<>> => at \in Numbers
    BY <1>2, Numbering DEF Joins, SearchInv
  <2> QED BY <1>1, <1>3, <2>1 DEF StepTypes, StartFrontiers, AnalysisTypeOK
<1>4. CASE \E b \in Blocks : VisitJoin(b)
  <2>1. PICK b \in Blocks : VisitJoin(b)
    BY <1>4
  <2>2. b \in Numbered /\ todo \subseteq Numbered
    <3>1. phase = "frontier" /\ b \in todo
      BY <2>1 DEF VisitJoin
    <3> QED BY <3>1 DEF SearchInv
  <2>3. Number(b) \in Nat
    BY <1>2, <2>2, Numbering
  <2> QED BY <1>1, <2>1, <2>2, <2>3 DEF StepTypes, VisitJoin, AnalysisTypeOK
<1>5. CASE StartRunner
  <2> DEFINE edge == FirstOf(Untaken)
  <2>1. edge \in PredEdges(at) /\ Pred(edge) \in Numbers /\ at \in Numbers
    BY <1>2, <1>5, UntakenEdge DEF StartRunner
  <2>2. taken' = taken \cup {edge} /\ climb' = <<Pred(edge), idom[at]>>
    BY <1>5 DEF StartRunner
  <2> HIDE DEF edge
  <2>3. climb' \in Numbers \X Numbers
    BY <1>1, <2>1, <2>2
  <2>4. /\ phase = "frontier" /\ phase' = phase /\ idom' = idom /\ at' = at
        /\ frontier' = frontier /\ todo' = todo /\ changed' = changed
    BY <1>5 DEF StartRunner, postVars
  <2>5. todo \subseteq Numbered /\ frontier \in [Numbers -> SUBSET Numbers]
    BY <1>1, <2>4 DEF SearchInv, AnalysisTypeOK
  <2> QED BY <1>1, <2>1, <2>2, <2>3, <2>4, <2>5 DEF StepTypes, AnalysisTypeOK
<1>6. CASE RunUp
  <2>1. /\ phase = "frontier" /\ phase' = phase /\ idom' = idom /\ at' = at
        /\ todo' = todo /\ changed' = changed /\ taken' = taken /\ climb # <<>>
        /\ frontier' = [frontier EXCEPT ![climb[1]] = @ \cup {at}]
        /\ climb' = <<idom[climb[1]], climb[2]>>
    BY <1>6 DEF RunUp, postVars, Met
  <2>2. climb[1] \in Numbers /\ climb[2] \in Numbers
    BY <1>1, <2>1 DEF AnalysisTypeOK
  <2>3. climb' \in Numbers \X Numbers
    BY <1>1, <2>1, <2>2
  <2>4. at \in Numbers /\ todo \subseteq Numbered
    BY <2>1 DEF SearchInv
  <2>5. frontier \in [Numbers -> SUBSET Numbers]
    BY <1>1, <2>1 DEF AnalysisTypeOK
  <2>6. frontier' \in [Numbers -> SUBSET Numbers]
    BY <2>1, <2>2, <2>4, <2>5
  <2> QED BY <1>1, <2>1, <2>3, <2>4, <2>6 DEF StepTypes, AnalysisTypeOK
<1> QED BY <1>3, <1>4, <1>5, <1>6

LEMMA PostStepTypes ==
    ASSUME SearchInv,
           StartPostDominators \/ (\E b \in Blocks : PostDominate(b)) \/ NextPostPass \/ Finish
    PROVE  StepTypes
<1>1. /\ AnalysisTypeOK /\ path = <<>> /\ idom \in [Numbers -> Numbers]
      /\ frontier \in [Numbers -> SUBSET Numbers]
      /\ climb # <<>> => at \in Numbers
  BY DEF SearchInv, AnalysisTypeOK, StartPostDominators, TreeBuilt, PostDominate, NextPostPass,
         Finish, PostBuilt
<1>2. CASE StartPostDominators
  <2>1. TopSets \in [graph.blocks -> SUBSET graph.blocks] /\ Refinable \subseteq graph.blocks
    BY DEF TopSets, Refinable
  <2> QED BY <1>1, <1>2, <2>1 DEF StepTypes, StartPostDominators
<1>3. CASE \E b \in Blocks : PostDominate(b)
  <2>1. PICK b \in Blocks : PostDominate(b)
    BY <1>3
  <2>2. b \in graph.blocks /\ postdom \in [graph.blocks -> SUBSET graph.blocks]
    BY <1>1, <2>1 DEF PostDominate, AnalysisTypeOK
  <2>3. OfSuccessors(b) \subseteq graph.blocks
    BY <2>2 DEF OfSuccessors
  <2>4. postdom' \in [graph.blocks -> SUBSET graph.blocks]
    BY <2>1, <2>2, <2>3 DEF PostDominate
  <2> QED BY <1>1, <2>1, <2>4 DEF StepTypes, PostDominate, AnalysisTypeOK, treeVars
<1>4. CASE NextPostPass
  <2>1. Refinable \subseteq graph.blocks
    BY DEF Refinable
  <2> QED BY <1>1, <1>4, <2>1 DEF StepTypes, NextPostPass, AnalysisTypeOK, treeVars
<1>5. CASE Finish
  BY <1>1, <1>5 DEF StepTypes, Finish, PostBuilt, AnalysisTypeOK, treeVars, postVars
<1> QED BY <1>2, <1>3, <1>4, <1>5

\* Every step but those of the search leaves its result alone.
LEMMA AfterTheSearch ==
    ASSUME \/ StartDominators \/ TakePred \/ Climb \/ SetIdom \/ NextPass
           \/ StartFrontiers \/ (\E b \in Blocks : VisitJoin(b)) \/ StartRunner \/ RunUp
           \/ StartPostDominators \/ (\E b \in Blocks : PostDominate(b)) \/ NextPostPass
           \/ Finish
    PROVE  graph' = graph /\ path' = path /\ postorder' = postorder
BY DEF StartDominators, TakePred, Climb, SetIdom, NextPass, StartFrontiers, VisitJoin,
       StartRunner, RunUp, StartPostDominators, PostDominate, NextPostPass, Finish

LEMMA SearchStep == SearchInv /\ [Analyse]_domVars => SearchInv'
<1> SUFFICES ASSUME SearchInv, [Analyse]_domVars
             PROVE  SearchInv'
  OBVIOUS
<1>1. CASE Descend
  BY <1>1, DescendKeeps
<1>2. CASE Ascend
  BY <1>2, AscendKeeps
<1>3. CASE StartDominators \/ TakePred \/ Climb \/ SetIdom \/ NextPass
  BY <1>3, DominateStepTypes, AfterTheSearch, TypesSuffice
<1>4. CASE StartFrontiers \/ (\E b \in Blocks : VisitJoin(b)) \/ StartRunner \/ RunUp
  BY <1>4, FrontierStepTypes, AfterTheSearch, TypesSuffice
<1>5. CASE StartPostDominators \/ (\E b \in Blocks : PostDominate(b)) \/ NextPostPass \/ Finish
  BY <1>5, PostStepTypes, AfterTheSearch, TypesSuffice
<1>6. CASE UNCHANGED domVars
  <2>1. /\ graph' = graph /\ path' = path /\ postorder' = postorder /\ phase' = phase
        /\ idom' = idom /\ at' = at /\ taken' = taken /\ climb' = climb
        /\ frontier' = frontier /\ postdom' = postdom /\ todo' = todo /\ changed' = changed
    BY <1>6 DEF domVars, treeVars, postVars
  <2>2. Explored' /\ FromEntry' /\ HasParent'
    BY <2>1, SearchFixed DEF SearchInv
  <2>3. /\ Numbered' = Numbered /\ Numbers' = Numbers /\ OnPath' = OnPath /\ Frame' = Frame
        /\ PredEdges(at)' = PredEdges(at)
    BY <2>1 DEF OnPath, PredEdges, Numbered, Numbers, Count, Target, Rpo, Frame
  <2>4. AnalysisTypeOK'
    BY <2>1, <2>3 DEF SearchInv, AnalysisTypeOK
  <2> QED BY <2>1, <2>2, <2>3, <2>4 DEF SearchInv
<1> QED BY <1>1, <1>2, <1>3, <1>4, <1>5, <1>6 DEF Analyse

-----------------------------------------------------------------------------
(***************************************************************************)
(* The passes over the immediate dominators.                               *)
(***************************************************************************)
\* The tree of every pass: up to dominators, and to smaller numbers.
Upwards ==
    \A i \in Numbers : Dominates(Rpo(idom[i]), Rpo(i)) /\ (i # 0 => idom[i] < i)

\* Nothing that dominates a block is passed over.
Immediate(i) ==
    \A d \in graph.blocks \ {Rpo(i)} : Dominates(d, Rpo(i)) => Dominates(d, Rpo(idom[i]))

\* Every predecessor that was taken is below one of the numbers that climb.
Covered ==
    \A e \in taken : \/ Dominates(Rpo(climb[1]), Rpo(Pred(e)))
                     \/ Dominates(Rpo(climb[2]), Rpo(Pred(e)))

\* And what dominates all of them dominates the numbers that climb.
Tight ==
    climb # <<>> =>
        /\ climb[1] < at /\ climb[2] < at
        /\ \A d \in graph.blocks :
              (\A e \in taken : Dominates(d, Rpo(Pred(e)))) =>
                 Dominates(d, Rpo(climb[1])) /\ Dominates(d, Rpo(climb[2]))

PassInv ==
    /\ at \in 1 .. Count
    /\ Upwards /\ Covered
    /\ Acyclic => Tight /\ \A i \in Numbers \ {0} : i < at => Immediate(i)

\* What the last pass leaves behind.
LastPassInv == Upwards /\ (Acyclic => \A i \in Numbers \ {0} : Immediate(i))

TreeInv ==
    /\ climb = <<>> <=> taken = {}
    /\ phase = "dominate" => PassInv
    /\ phase = "frontier" => LastPassInv

\* The tree of the steps that leave it alone.
LEMMA TreeFixed ==
    ASSUME graph' = graph, postorder' = postorder, idom' = idom
    PROVE  /\ Upwards' <=> Upwards
           /\ \A i : Immediate(i)' <=> Immediate(i)
<1>1. /\ Numbers' = Numbers
      /\ \A i : Rpo(i)' = Rpo(i)
      /\ \A d, b : Dominates(d, b)' <=> Dominates(d, b)
  BY NumberingFixed
<1>2. Upwards' <=> Upwards
  BY <1>1 DEF Upwards
<1>3. \A i : Immediate(i)' <=> Immediate(i)
  BY <1>1 DEF Immediate
<1> QED BY <1>2, <1>3

\* In a graph without loops the blocks before a block have smaller numbers.
LEMMA AcyclicPreds ==
    ASSUME Searched, Acyclic, NEW i, NEW e \in PredEdges(i)
    PROVE  Pred(e) < i /\ i # 0
<1>1. /\ i \in Numbers /\ Pred(e) \in Numbers
      /\ Rpo(i) \in Successors(Rpo(Pred(e))) /\ i \in Nat /\ Pred(e) \in Nat
  BY PredEdgeFacts, Numbering
<1>2. Number(Rpo(Pred(e))) < Number(Rpo(i))
  BY <1>1, Numbering DEF Acyclic
<1> QED BY <1>1, <1>2, Numbering

LEMMA StartDominatorsKeeps ==
    ASSUME SearchInv, TreeInv, StartDominators
    PROVE  TreeInv'
<1>1. /\ graph' = graph /\ postorder' = postorder /\ taken' = taken /\ climb' = climb
      /\ idom' = [i \in Numbers |-> 0] /\ at' = 1 /\ taken = {} /\ climb = <<>>
  BY DEF StartDominators, SearchInv
<1>2. Searched
  BY SearchedOnceLeft DEF StartDominators
<1>3. /\ Count' = Count /\ Numbers' = Numbers /\ \A i : Rpo(i)' = Rpo(i)
      /\ \A d, b : Dominates(d, b)' <=> Dominates(d, b)
  BY <1>1, NumberingFixed
<1>4. at' \in 1 .. Count
  BY <1>1, <1>2, Numbering
<1>5. Upwards'
  <2>1. \A i \in Numbers : i \in Nat /\ Dominates(Rpo(0), Rpo(i))
    BY <1>2, Numbering, EntryDominates DEF Searched
  <2> QED BY <1>1, <1>3, <2>1 DEF Upwards
<1>6. Covered' /\ Tight'
  BY <1>1 DEF Covered, Tight
<1>7. \A i \in Numbers' \ {0} : ~(i < at')
  BY <1>1, <1>2, <1>3, Numbering
<1>8. phase' = "dominate"
  BY DEF StartDominators
<1> QED BY <1>1, <1>3, <1>4, <1>5, <1>6, <1>7, <1>8 DEF TreeInv, PassInv

LEMMA TakePredKeeps ==
    ASSUME SearchInv, TreeInv, TakePred
    PROVE  TreeInv'
<1> DEFINE edge == FirstOf(Untaken)
<1>1. /\ graph' = graph /\ postorder' = postorder /\ idom' = idom /\ at' = at
      /\ phase = "dominate" /\ phase' = phase /\ Met /\ path = <<>>
      /\ taken' = taken \cup {edge}
      /\ climb' = <<IF climb = <<>> THEN Pred(edge) ELSE climb[1], Pred(edge)>>
  BY DEF TakePred, SearchInv, AnalysisTypeOK
<1>2. Searched /\ PassInv
  BY <1>1, SearchedOnceLeft DEF TreeInv
<1>3. edge \in PredEdges(at) /\ Pred(edge) \in Numbers
  BY <1>2, UntakenEdge DEF TakePred
<1>4. /\ Numbers' = Numbers /\ Count' = Count
      /\ \A i : Rpo(i)' = Rpo(i)
      /\ \A e : Pred(e)' = Pred(e)
      /\ \A d, b : Dominates(d, b)' <=> Dominates(d, b)
      /\ Acyclic' <=> Acyclic
  BY <1>1, NumberingFixed
<1> HIDE DEF edge
<1>5. climb # <<>> => climb[1] = climb[2] /\ climb'[1] = climb[1]
  BY <1>1 DEF Met
<1>6. climb'[2] = Pred(edge) /\ climb' # <<>> /\ (climb = <<>> => climb'[1] = Pred(edge))
  BY <1>1
<1>7. Covered'
  <2>1. ASSUME NEW e \in taken'
        PROVE  \/ Dominates(Rpo(climb'[1]), Rpo(Pred(e)))
               \/ Dominates(Rpo(climb'[2]), Rpo(Pred(e)))
    <3>1. CASE e = edge
      BY <1>6, <3>1, DominatesItself
    <3>2. CASE e \in taken
      <4>1. climb # <<>>
        BY <3>2 DEF TreeInv
      <4> QED BY <1>2, <1>5, <3>2, <4>1 DEF PassInv, Covered
    <3> QED BY <1>1, <3>1, <3>2
  <2> QED BY <1>4, <2>1 DEF Covered
<1>8. ASSUME Acyclic
      PROVE  Tight'
  <2>1. Pred(edge) < at
    BY <1>2, <1>3, <1>8, AcyclicPreds
  <2>2. Tight
    BY <1>2, <1>8 DEF PassInv
  <2>3. climb'[1] < at /\ climb'[2] < at
    BY <1>5, <1>6, <2>1, <2>2 DEF Tight
  <2>4. ASSUME NEW d \in graph.blocks, \A e \in taken' : Dominates(d, Rpo(Pred(e)))
        PROVE  Dominates(d, Rpo(climb'[1])) /\ Dominates(d, Rpo(climb'[2]))
    <3>1. Dominates(d, Rpo(Pred(edge))) /\ \A e \in taken : Dominates(d, Rpo(Pred(e)))
      BY <1>1, <2>4
    <3> QED BY <1>5, <1>6, <2>2, <3>1 DEF Tight
  <2> QED BY <1>1, <1>4, <2>3, <2>4 DEF Tight
<1>9. Upwards' /\ \A i : Immediate(i)' <=> Immediate(i)
  BY <1>1, <1>2, TreeFixed DEF PassInv
<1>10. taken' # {}
  BY <1>1
<1> QED BY <1>1, <1>2, <1>4, <1>6, <1>7, <1>8, <1>9, <1>10 DEF TreeInv, PassInv

LEMMA ClimbKeeps ==
    ASSUME SearchInv, TreeInv, Climb
    PROVE  TreeInv'
<1>1. /\ graph' = graph /\ postorder' = postorder /\ idom' = idom /\ at' = at
      /\ phase = "dominate" /\ phase' = phase /\ taken' = taken
      /\ climb # <<>> /\ climb[1] # climb[2] /\ path = <<>>
      /\ climb' = IF climb[1] > climb[2] THEN <<idom[climb[1]], climb[2]>>
                                         ELSE <<climb[1], idom[climb[2]]>>
  BY DEF Climb, Met, SearchInv, AnalysisTypeOK
<1>2. Searched /\ PassInv
  BY <1>1, SearchedOnceLeft DEF TreeInv
<1>3. /\ Numbers' = Numbers /\ Count' = Count
      /\ \A i : Rpo(i)' = Rpo(i)
      /\ \A e : Pred(e)' = Pred(e)
      /\ \A d, b : Dominates(d, b)' <=> Dominates(d, b)
      /\ Acyclic' <=> Acyclic
  BY <1>1, NumberingFixed
<1>4. climb[1] \in Numbers /\ climb[2] \in Numbers /\ graph \in Graphs
  BY <1>1 DEF SearchInv, AnalysisTypeOK
<1>5. climb[1] \in Nat /\ climb[2] \in Nat
  BY <1>2, <1>4, Numbering
\* The one that moves is the greater one, to its immediate dominator.
<1>6. PICK j \in {1, 2} : /\ climb[3 - j] < climb[j]
                          /\ climb'[j] = idom[climb[j]] /\ climb'[3 - j] = climb[3 - j]
  <2>1. CASE climb[1] > climb[2]
    <3>1. climb'[1] = idom[climb[1]] /\ climb'[2] = climb[2] /\ climb[2] < climb[1]
      BY <1>1, <1>5, <2>1
    <3> QED BY <3>1
  <2>2. CASE ~(climb[1] > climb[2])
    <3>1. climb'[2] = idom[climb[2]] /\ climb'[1] = climb[1] /\ climb[1] < climb[2]
      BY <1>1, <1>5, <2>2
    <3> QED BY <3>1
  <2> QED BY <2>1, <2>2
<1>7. climb' # <<>> /\ taken' # {}
  BY <1>1 DEF TreeInv
<1>8. /\ climb[j] \in Numbers \ {0} /\ idom[climb[j]] < climb[j]
      /\ idom[climb[j]] \in Numbers
      /\ Dominates(Rpo(idom[climb[j]]), Rpo(climb[j]))
  <2>1. climb[j] \in Numbers \ {0}
    BY <1>4, <1>5, <1>6
  <2>2. idom \in [Numbers -> Numbers]
    BY <1>1 DEF SearchInv, AnalysisTypeOK
  <2> QED BY <1>2, <2>1, <2>2 DEF PassInv, Upwards
<1>9. Covered'
  <2>1. ASSUME NEW e \in taken
        PROVE  \/ Dominates(Rpo(climb'[j]), Rpo(Pred(e)))
               \/ Dominates(Rpo(climb'[3 - j]), Rpo(Pred(e)))
    <3>1. \/ Dominates(Rpo(climb[j]), Rpo(Pred(e)))
          \/ Dominates(Rpo(climb[3 - j]), Rpo(Pred(e)))
      BY <1>2, <2>1 DEF PassInv, Covered
    <3> QED BY <1>4, <1>6, <1>8, <3>1, DominanceIsTransitive
  <2> QED BY <1>1, <1>3, <2>1 DEF Covered
<1>10. ASSUME Acyclic
       PROVE  Tight'
  <2>1. Tight /\ Immediate(climb[j])
    BY <1>1, <1>2, <1>8, <1>10 DEF PassInv, Tight
  <2>2. climb'[1] < at /\ climb'[2] < at
    <3>1. at \in Nat /\ idom[climb[j]] \in Nat /\ climb[j] < at /\ climb[3 - j] < at
      BY <1>1, <1>2, <1>8, <2>1, Numbering DEF PassInv, Tight
    <3>2. climb'[j] < at /\ climb'[3 - j] < at
      BY <1>5, <1>6, <1>8, <3>1
    <3> QED BY <3>2
  <2>3. ASSUME NEW d \in graph.blocks, \A e \in taken : Dominates(d, Rpo(Pred(e)))
        PROVE  Dominates(d, Rpo(climb'[1])) /\ Dominates(d, Rpo(climb'[2]))
    <3>1. Dominates(d, Rpo(climb[j])) /\ Dominates(d, Rpo(climb[3 - j]))
      BY <1>1, <2>1, <2>3 DEF Tight
    <3>2. d # Rpo(climb[j])
      <4>1. climb[3 - j] \in Numbers /\ climb[3 - j] \in Nat
        BY <1>4, <1>5
      <4>2. Number(d) <= climb[3 - j]
        BY <1>2, <3>1, <4>1, DominatorsComeFirst
      <4>3. Number(Rpo(climb[j])) = climb[j] /\ climb[j] \in Nat
        BY <1>2, <1>8, Numbering
      <4> QED BY <1>6, <4>1, <4>2, <4>3
    <3>3. Dominates(d, Rpo(idom[climb[j]]))
      BY <2>1, <3>1, <3>2 DEF Immediate
    <3> QED BY <1>6, <3>1, <3>3
  <2> QED BY <1>1, <1>3, <2>2, <2>3 DEF Tight
<1>11. Upwards' /\ \A i : Immediate(i)' <=> Immediate(i)
  BY <1>1, <1>2, TreeFixed DEF PassInv
<1> QED BY <1>1, <1>2, <1>3, <1>7, <1>9, <1>10, <1>11 DEF TreeInv, PassInv

LEMMA SetIdomKeeps ==
    ASSUME SearchInv, TreeInv, SetIdom
    PROVE  TreeInv'
<1>1. /\ graph' = graph /\ postorder' = postorder /\ path = <<>>
      /\ phase = "dominate" /\ phase' = phase /\ at < Count /\ Met /\ Untaken = {}
      /\ idom' = [idom EXCEPT ![at] = NewIdom]
      /\ at' = at + 1 /\ taken' = {} /\ climb' = <<>>
  BY DEF SetIdom, SearchInv, AnalysisTypeOK
<1>2. Searched /\ PassInv
  BY <1>1, SearchedOnceLeft DEF TreeInv
<1>3. /\ Numbers' = Numbers /\ Count' = Count
      /\ \A i : Rpo(i)' = Rpo(i)
      /\ \A d, b : Dominates(d, b)' <=> Dominates(d, b)
      /\ Acyclic' <=> Acyclic
  BY <1>1, NumberingFixed
<1>4. /\ at \in Numbers \ {0} /\ at \in Nat /\ Count \in Nat /\ \A i \in Numbers : i \in Nat
      /\ idom \in [Numbers -> Numbers] /\ graph \in Graphs
  BY <1>1, <1>2, Numbering DEF PassInv, Numbers, SearchInv, AnalysisTypeOK
\* Every predecessor was taken, one of them with a smaller number.
<1>5. PICK e \in PredEdges(at) : Pred(e) < at
  BY <1>2, <1>4, HasEarlierPred
<1>6. PredEdges(at) = taken
  BY <1>1 DEF Untaken, SearchInv, AnalysisTypeOK
<1>7. climb # <<>> /\ climb[1] = climb[2] /\ NewIdom = climb[1] /\ climb[1] \in Numbers
  BY <1>1, <1>5, <1>6 DEF TreeInv, Met, NewIdom, SearchInv, AnalysisTypeOK
<1>8. \A x \in taken : Dominates(Rpo(climb[1]), Rpo(Pred(x)))
  BY <1>2, <1>7 DEF PassInv, Covered
<1>9. Dominates(Rpo(climb[1]), Rpo(at))
  BY <1>2, <1>4, <1>6, <1>8, DominatesFromPreds
<1>10. climb[1] < at
  <2>1. Pred(e) \in Numbers /\ Pred(e) \in Nat /\ Dominates(Rpo(climb[1]), Rpo(Pred(e)))
    BY <1>2, <1>4, <1>5, <1>6, <1>8, PredEdgeFacts
  <2>2. Number(Rpo(climb[1])) <= Pred(e) /\ Number(Rpo(climb[1])) = climb[1]
    BY <1>2, <1>7, <2>1, DominatorsComeFirst, Numbering
  <2> QED BY <1>4, <1>5, <1>7, <2>1, <2>2
<1>11. \A i \in Numbers : idom'[i] = IF i = at THEN climb[1] ELSE idom[i]
  BY <1>1, <1>4, <1>7
<1>12. Upwards'
  BY <1>2, <1>3, <1>9, <1>10, <1>11 DEF Upwards, PassInv
<1>13. ASSUME Acyclic, NEW i \in Numbers \ {0}, i < at + 1
       PROVE  Immediate(i)'
  <2>1. CASE i = at
    <3>1. ASSUME NEW d \in graph.blocks \ {Rpo(at)}, Dominates(d, Rpo(at))
          PROVE  Dominates(d, Rpo(climb[1]))
      <4>1. \A x \in taken : Dominates(d, Rpo(Pred(x)))
        BY <1>2, <1>6, <3>1, DominatesPreds
      <4> QED BY <1>2, <1>7, <1>13, <4>1 DEF PassInv, Tight
    <3> QED BY <1>1, <1>3, <1>4, <1>11, <2>1, <3>1 DEF Immediate
  <2>2. CASE i # at
    <3>1. Immediate(i)
      BY <1>2, <1>4, <1>13, <2>2 DEF PassInv
    <3> QED BY <1>1, <1>3, <1>11, <1>13, <2>2, <3>1 DEF Immediate
  <2> QED BY <2>1, <2>2
<1>14. at' \in 1 .. Count /\ Covered' /\ Tight'
  BY <1>1, <1>4 DEF Covered, Tight
<1> QED BY <1>1, <1>3, <1>12, <1>13, <1>14 DEF TreeInv, PassInv

LEMMA EndOfPassKeeps ==
    ASSUME SearchInv, TreeInv, NextPass \/ StartFrontiers
    PROVE  TreeInv'
<1>1. /\ graph' = graph /\ postorder' = postorder /\ idom' = idom /\ path = <<>>
      /\ taken' = taken /\ climb' = climb
      /\ phase = "dominate" /\ at >= Count
      /\ \/ phase' = "dominate" /\ at' = 1
         \/ phase' = "frontier" /\ at' = at
  BY DEF NextPass, StartFrontiers, SearchInv, AnalysisTypeOK
<1>2. Searched /\ PassInv
  BY <1>1, SearchedOnceLeft DEF TreeInv
<1>3. /\ Numbers' = Numbers /\ Count' = Count /\ (Acyclic' <=> Acyclic)
  BY <1>1, NumberingFixed
<1>4. /\ at \in Nat /\ Count \in Nat \ {0}
      /\ \A i \in Numbers : i \in Nat /\ i < at
  BY <1>1, <1>2, Numbering DEF PassInv, Numbers
<1>5. taken = {} /\ climb = <<>>
  BY <1>4 DEF SearchInv, AnalysisTypeOK, PredEdges
<1>6. /\ Upwards' <=> Upwards
      /\ \A i : Immediate(i)' <=> Immediate(i)
  BY <1>1, TreeFixed
<1>7. Covered' /\ Tight'
  BY <1>1, <1>5 DEF Covered, Tight
<1>8. \A i \in Numbers \ {0} : ~(i < 1)
  BY <1>4
<1>9. CASE phase' = "dominate"
  BY <1>1, <1>2, <1>3, <1>4, <1>5, <1>6, <1>7, <1>8, <1>9 DEF TreeInv, PassInv
<1>10. CASE phase' = "frontier"
  BY <1>1, <1>2, <1>3, <1>4, <1>5, <1>6, <1>10 DEF TreeInv, PassInv, LastPassInv
<1> QED BY <1>1, <1>9, <1>10

\* The steps after the passes keep the tree, and drop an edge only with the climb.
LEMMA LaterStepsKeep ==
    ASSUME SearchInv, TreeInv,
           \/ (\E b \in Blocks : VisitJoin(b)) \/ StartRunner \/ RunUp
           \/ StartPostDominators \/ (\E b \in Blocks : PostDominate(b)) \/ NextPostPass
           \/ Finish
    PROVE  TreeInv'
<1>1. graph' = graph /\ postorder' = postorder /\ idom' = idom /\ phase' # "dominate"
  BY DEF VisitJoin, StartRunner, RunUp, StartPostDominators, PostDominate, NextPostPass,
         Finish, treeVars
<1>2. phase' = "frontier" => phase = "frontier"
  BY DEF VisitJoin, StartRunner, RunUp, StartPostDominators, PostDominate, NextPostPass,
         Finish
<1>3. climb' = <<>> <=> taken' = {}
  <2>1. CASE \E b \in Blocks : VisitJoin(b)
    BY <2>1 DEF VisitJoin
  <2>2. CASE StartRunner
    BY <2>2 DEF StartRunner
  <2>3. CASE RunUp
    BY <2>3 DEF RunUp, Met, TreeInv
  <2>4. CASE StartPostDominators
    BY <2>4 DEF StartPostDominators
  <2>5. CASE (\E b \in Blocks : PostDominate(b)) \/ NextPostPass \/ Finish
    BY <2>5 DEF PostDominate, NextPostPass, Finish, treeVars, TreeInv
  <2> QED BY <2>1, <2>2, <2>3, <2>4, <2>5
<1>4. Numbers' = Numbers /\ (Acyclic' <=> Acyclic)
  BY <1>1, NumberingFixed
<1>5. LastPassInv' <=> LastPassInv
  BY <1>1, <1>4, TreeFixed DEF LastPassInv
<1> QED BY <1>1, <1>2, <1>3, <1>5 DEF TreeInv

LEMMA TreeStep == SearchInv /\ TreeInv /\ [Analyse]_domVars => TreeInv'
<1> SUFFICES ASSUME SearchInv, TreeInv, [Analyse]_domVars
             PROVE  TreeInv'
  OBVIOUS
<1>1. CASE Descend \/ Ascend
  BY <1>1 DEF Descend, Ascend, treeVars, TreeInv
<1>2. CASE StartDominators
  BY <1>2, StartDominatorsKeeps
<1>3. CASE TakePred
  BY <1>3, TakePredKeeps
<1>4. CASE Climb
  BY <1>4, ClimbKeeps
<1>5. CASE SetIdom
  BY <1>5, SetIdomKeeps
<1>6. CASE NextPass \/ StartFrontiers
  BY <1>6, EndOfPassKeeps
<1>7. CASE \/ (\E b \in Blocks : VisitJoin(b)) \/ StartRunner \/ RunUp
           \/ StartPostDominators \/ (\E b \in Blocks : PostDominate(b)) \/ NextPostPass
           \/ Finish
  BY <1>7, LaterStepsKeep
<1>8. CASE UNCHANGED domVars
  <2>1. /\ graph' = graph /\ postorder' = postorder /\ idom' = idom /\ phase' = phase
        /\ at' = at /\ taken' = taken /\ climb' = climb
    BY <1>8 DEF domVars, treeVars
  <2>2. /\ Numbers' = Numbers /\ Count' = Count
        /\ \A i : Rpo(i)' = Rpo(i)
        /\ \A e : Pred(e)' = Pred(e)
        /\ \A d, b : Dominates(d, b)' <=> Dominates(d, b)
        /\ Acyclic' <=> Acyclic
    BY <2>1, NumberingFixed
  <2>3. (Covered' <=> Covered) /\ (Tight' <=> Tight)
    BY <2>1, <2>2 DEF Covered, Tight
  <2>4. (Upwards' <=> Upwards) /\ \A i : Immediate(i)' <=> Immediate(i)
    BY <2>1, TreeFixed
  <2>5. PassInv' <=> PassInv
    BY <2>1, <2>2, <2>3, <2>4 DEF PassInv
  <2>6. LastPassInv' <=> LastPassInv
    BY <2>2, <2>4 DEF LastPassInv
  <2> QED BY <2>1, <2>5, <2>6 DEF TreeInv
<1> QED BY <1>1, <1>2, <1>3, <1>4, <1>5, <1>6, <1>7, <1>8 DEF Analyse

-----------------------------------------------------------------------------
(***************************************************************************)
(* The dominance frontiers, in a graph without loops.                      *)
(***************************************************************************)
Sound ==
    \A i, k \in Numbers : k \in frontier[i] => InFrontier(Rpo(i), Rpo(k))

\* The joins that were visited before the current one are done.
Complete ==
    \A k \in Numbers \ {at} :
        Rpo(k) \in Joins \ todo =>
            \A i \in Numbers : InFrontier(Rpo(i), Rpo(k)) => k \in frontier[i]

\* A runner is between a predecessor and the immediate dominator of the join.
Between ==
    climb # <<>> =>
        /\ climb[2] = idom[at]
        /\ Dominates(Rpo(climb[2]), Rpo(climb[1]))
        /\ \E e \in taken : Dominates(Rpo(climb[1]), Rpo(Pred(e)))

\* What the runners have not added the join to is still above the last one.
Passed ==
    \A e \in taken : \A i \in Numbers :
        /\ Dominates(Rpo(i), Rpo(Pred(e)))
        /\ i = at \/ ~Dominates(Rpo(i), Rpo(at))
        => at \in frontier[i] \/ Dominates(Rpo(i), Rpo(climb[1]))

FrontierInv ==
    phase = "frontier" /\ Acyclic => Sound /\ Complete /\ Between /\ Passed

LEMMA JoinsFixed ==
    ASSUME graph' = graph, postorder' = postorder
    PROVE  /\ Joins' = Joins
           /\ \A d, b : InFrontier(d, b)' <=> InFrontier(d, b)
<1>1. /\ Numbered' = Numbered /\ \A i : PredEdges(i)' = PredEdges(i)
      /\ \A b : Number(b)' = Number(b) /\ Successors(b)' = Successors(b)
      /\ \A d, b : Dominates(d, b)' <=> Dominates(d, b)
  BY NumberingFixed
<1>2. Joins' = {b \in Numbered : \E e, f \in PredEdges(Number(b)) : e # f}
  BY <1>1 DEF Joins
<1> QED BY <1>1, <1>2 DEF Joins, InFrontier

\* The numbers of the frontier phase.
LEMMA FrontierPhase ==
    ASSUME SearchInv, TreeInv, phase = "frontier"
    PROVE  /\ Searched /\ graph \in Graphs /\ LastPassInv
           /\ idom \in [Numbers -> Numbers] /\ frontier \in [Numbers -> SUBSET Numbers]
           /\ climb # <<>> => /\ at \in Numbers
                              /\ climb[1] \in Numbers /\ climb[2] \in Numbers
           /\ \A e \in taken : e \in PredEdges(at) /\ at \in Numbers /\ Pred(e) \in Numbers
<1>1. AnalysisTypeOK /\ path = <<>>
  BY DEF SearchInv, AnalysisTypeOK
<1>2. Searched
  BY <1>1, SearchedOnceLeft
<1>3. \A e \in taken : e \in PredEdges(at) /\ at \in Numbers /\ Pred(e) \in Numbers
  BY <1>1, <1>2, PredEdgeFacts DEF AnalysisTypeOK
<1> QED BY <1>1, <1>2, <1>3 DEF AnalysisTypeOK, SearchInv, TreeInv

\* In a graph without loops no block dominates its immediate dominator.
LEMMA NotAboveItself ==
    ASSUME Searched, Upwards, NEW i \in Numbers \ {0}, idom[i] \in Numbers
    PROVE  ~Dominates(Rpo(i), Rpo(idom[i]))
<1>1. Dominates(Rpo(i), Rpo(idom[i])) => i = idom[i]
  BY DominanceIsAntisymmetric DEF Upwards
<1>2. idom[i] < i /\ i \in Nat /\ idom[i] \in Nat
  BY Numbering DEF Upwards
<1> QED BY <1>1, <1>2

\* When every edge into a join was taken and the last runner has arrived, the
\* join is in all the frontiers it belongs to.
LEMMA JoinIsDone ==
    ASSUME SearchInv, TreeInv, FrontierInv, phase = "frontier", Acyclic,
           Met, Untaken = {}, at \in Numbers,
           NEW i \in Numbers, InFrontier(Rpo(i), Rpo(at))
    PROVE  at \in frontier[i]
<1>1. /\ Searched /\ graph \in Graphs /\ Upwards /\ Between /\ Passed
      /\ idom \in [Numbers -> Numbers]
  BY FrontierPhase DEF FrontierInv, LastPassInv
<1>2. PICK p \in Numbered : Rpo(at) \in Successors(p) /\ Dominates(Rpo(i), p)
  BY DEF InFrontier
<1>3. PICK e \in PredEdges(at) : Rpo(Pred(e)) = p
  BY <1>1, <1>2, EdgeFromPred
<1>4. e \in taken /\ at # 0
  BY <1>1, AcyclicPreds DEF Untaken
<1>5. i = at \/ ~Dominates(Rpo(i), Rpo(at))
  <2>1. Rpo(i) = Rpo(at) => i = at
    BY <1>1, Numbering
  <2> QED BY <2>1 DEF InFrontier
<1>6. at \in frontier[i] \/ Dominates(Rpo(i), Rpo(climb[1]))
  BY <1>1, <1>2, <1>3, <1>4, <1>5 DEF Passed
<1>7. climb[1] = idom[at]
  BY <1>1, <1>4 DEF TreeInv, Met, Between
<1>8. ~Dominates(Rpo(i), Rpo(idom[at]))
  <2>1. CASE i = at
    BY <1>1, <1>4, <2>1, NotAboveItself
  <2>2. CASE ~Dominates(Rpo(i), Rpo(at))
    BY <1>1, <2>2, DominanceIsTransitive DEF Upwards
  <2> QED BY <1>5, <2>1, <2>2
<1> QED BY <1>6, <1>7, <1>8

LEMMA StartFrontiersKeeps ==
    ASSUME SearchInv, TreeInv, StartFrontiers
    PROVE  FrontierInv'
<1>1. /\ graph' = graph /\ postorder' = postorder /\ path = <<>>
      /\ phase = "dominate" /\ at >= Count /\ at' = at /\ taken' = taken /\ climb' = climb
      /\ frontier' = [i \in Numbers |-> {}] /\ todo' = Joins
  BY DEF StartFrontiers, SearchInv, AnalysisTypeOK
<1>2. at \notin Numbers
  <2>1. Searched
    BY <1>1, SearchedOnceLeft
  <2> QED BY <1>1, <2>1, Numbering DEF TreeInv, PassInv, Numbers
<1>3. taken' = {} /\ climb' = <<>>
  BY <1>1, <1>2 DEF SearchInv, AnalysisTypeOK, PredEdges
<1>4. Numbers' = Numbers /\ Joins' = Joins
  BY <1>1, NumberingFixed, JoinsFixed
<1>5. Sound' /\ Complete'
  BY <1>1, <1>4 DEF Sound, Complete
<1>6. Between' /\ Passed'
  BY <1>3 DEF Between, Passed
<1> QED BY <1>5, <1>6 DEF FrontierInv

LEMMA VisitJoinKeeps ==
    ASSUME SearchInv, TreeInv, FrontierInv, NEW b \in Blocks, VisitJoin(b)
    PROVE  FrontierInv'
<1>1. /\ graph' = graph /\ postorder' = postorder /\ frontier' = frontier
      /\ phase = "frontier" /\ phase' = phase /\ Met /\ Untaken = {} /\ b \in todo
      /\ todo' = todo \ {b} /\ at' = Number(b) /\ taken' = {} /\ climb' = <<>>
  BY DEF VisitJoin
<1>2. Searched /\ b \in Numbered
  BY <1>1, FrontierPhase DEF SearchInv
<1>3. /\ Numbers' = Numbers /\ (Acyclic' <=> Acyclic) /\ \A i : Rpo(i)' = Rpo(i)
      /\ Joins' = Joins /\ \A d, x : InFrontier(d, x)' <=> InFrontier(d, x)
  BY <1>1, NumberingFixed, JoinsFixed
<1>4. SUFFICES ASSUME Acyclic
               PROVE  Sound' /\ Complete'
  BY <1>1, <1>3 DEF FrontierInv, Between, Passed
<1>5. Sound /\ Complete
  BY <1>1, <1>4 DEF FrontierInv
<1>6. Sound'
  BY <1>1, <1>3, <1>5 DEF Sound
<1>7. ASSUME NEW k \in Numbers \ {Number(b)}, Rpo(k) \in Joins \ (todo \ {b}),
             NEW i \in Numbers, InFrontier(Rpo(i), Rpo(k))
      PROVE  k \in frontier[i]
  <2>1. Rpo(k) \in Joins \ todo
    BY <1>2, <1>7, Numbering
  <2>2. CASE k = at
    BY <1>1, <1>4, <1>7, <2>2, JoinIsDone
  <2>3. CASE k # at
    BY <1>5, <1>7, <2>1, <2>3 DEF Complete
  <2> QED BY <2>2, <2>3
<1>8. Complete'
  BY <1>1, <1>3, <1>7 DEF Complete
<1> QED BY <1>6, <1>8

LEMMA StartRunnerKeeps ==
    ASSUME SearchInv, TreeInv, FrontierInv, StartRunner
    PROVE  FrontierInv'
<1> DEFINE edge == FirstOf(Untaken)
<1>1. /\ graph' = graph /\ postorder' = postorder /\ frontier' = frontier /\ idom' = idom
      /\ phase = "frontier" /\ phase' = phase /\ Met /\ Untaken # {}
      /\ todo' = todo /\ at' = at
      /\ taken' = taken \cup {edge} /\ climb' = <<Pred(edge), idom[at]>>
  BY DEF StartRunner, postVars
<1>2. /\ Searched /\ graph \in Graphs /\ LastPassInv /\ idom \in [Numbers -> Numbers]
      /\ climb # <<>> => /\ at \in Numbers
                         /\ climb[1] \in Numbers /\ climb[2] \in Numbers
      /\ \A e \in taken : e \in PredEdges(at) /\ at \in Numbers /\ Pred(e) \in Numbers
  BY <1>1, FrontierPhase
<1>3. edge \in PredEdges(at) /\ at \in Numbers /\ Pred(edge) \in Numbers
  BY <1>1, <1>2, UntakenEdge
<1>4. /\ Numbers' = Numbers /\ (Acyclic' <=> Acyclic) /\ \A i : Rpo(i)' = Rpo(i)
      /\ \A d, x : Dominates(d, x)' <=> Dominates(d, x)
      /\ \A e : Pred(e)' = Pred(e)
      /\ Joins' = Joins /\ \A d, x : InFrontier(d, x)' <=> InFrontier(d, x)
  BY <1>1, NumberingFixed, JoinsFixed
<1> HIDE DEF edge
<1>5. SUFFICES ASSUME Acyclic
               PROVE  Sound' /\ Complete' /\ Between' /\ Passed'
  BY <1>4 DEF FrontierInv
<1>6. Sound /\ Complete /\ Between /\ Passed /\ Upwards
  BY <1>1, <1>2, <1>5 DEF FrontierInv, LastPassInv
<1>7. at \in Numbers \ {0}
  BY <1>2, <1>3, <1>5, AcyclicPreds
<1>8. Sound' /\ Complete'
  BY <1>1, <1>4, <1>6 DEF Sound, Complete
<1>9. climb'[1] = Pred(edge) /\ climb'[2] = idom[at]
  BY <1>1
<1>10. Between'
  <2>1. Rpo(idom[at]) # Rpo(at)
    <3>1. idom[at] # at /\ idom[at] \in Numbers
      BY <1>2, <1>6, <1>7, Numbering DEF Upwards
    <3> QED BY <1>2, <1>7, <3>1, Numbering
  <2>2. Dominates(Rpo(idom[at]), Rpo(Pred(edge)))
    BY <1>2, <1>3, <1>6, <2>1, DominatesPreds DEF Upwards
  <2>3. edge \in taken' /\ Dominates(Rpo(Pred(edge)), Rpo(Pred(edge)))
    BY <1>1, DominatesItself
  <2> QED BY <1>1, <1>4, <1>9, <2>2, <2>3 DEF Between
<1>11. Passed'
  <2>1. ASSUME NEW e \in taken', NEW i \in Numbers,
               Dominates(Rpo(i), Rpo(Pred(e))), i = at \/ ~Dominates(Rpo(i), Rpo(at))
        PROVE  at \in frontier[i] \/ Dominates(Rpo(i), Rpo(climb'[1]))
    <3>1. CASE e = edge
      BY <1>9, <2>1, <3>1
    <3>2. CASE e \in taken
      <4>1. at \in frontier[i] \/ Dominates(Rpo(i), Rpo(climb[1]))
        BY <1>6, <2>1, <3>2 DEF Passed
      <4>2. climb[1] = idom[at]
        BY <1>1, <1>6, <3>2 DEF TreeInv, Met, Between
      <4>3. ~Dominates(Rpo(i), Rpo(idom[at]))
        <5>1. CASE i = at
          BY <1>2, <1>6, <1>7, <5>1, NotAboveItself
        <5>2. CASE ~Dominates(Rpo(i), Rpo(at))
          BY <1>2, <1>6, <1>7, <5>2, DominanceIsTransitive DEF Upwards
        <5> QED BY <2>1, <5>1, <5>2
      <4> QED BY <4>1, <4>2, <4>3
    <3> QED BY <1>1, <3>1, <3>2
  <2> QED BY <1>1, <1>4, <2>1 DEF Passed
<1> QED BY <1>8, <1>10, <1>11

LEMMA RunUpKeeps ==
    ASSUME SearchInv, TreeInv, FrontierInv, RunUp
    PROVE  FrontierInv'
<1> DEFINE r == climb[1]
<1>1. /\ graph' = graph /\ postorder' = postorder /\ idom' = idom
      /\ phase = "frontier" /\ phase' = phase /\ climb # <<>> /\ r # climb[2]
      /\ todo' = todo /\ at' = at /\ taken' = taken
      /\ frontier' = [frontier EXCEPT ![r] = @ \cup {at}]
      /\ climb' = <<idom[r], climb[2]>>
  BY DEF RunUp, postVars, Met
<1>2. /\ Searched /\ graph \in Graphs /\ LastPassInv
      /\ idom \in [Numbers -> Numbers] /\ frontier \in [Numbers -> SUBSET Numbers]
      /\ at \in Numbers /\ r \in Numbers /\ climb[2] \in Numbers
      /\ \A e \in taken : e \in PredEdges(at) /\ Pred(e) \in Numbers
  BY <1>1, FrontierPhase
<1>3. /\ Numbers' = Numbers /\ (Acyclic' <=> Acyclic) /\ \A i : Rpo(i)' = Rpo(i)
      /\ \A d, x : Dominates(d, x)' <=> Dominates(d, x)
      /\ \A e : Pred(e)' = Pred(e)
      /\ Joins' = Joins /\ \A d, x : InFrontier(d, x)' <=> InFrontier(d, x)
  BY <1>1, NumberingFixed, JoinsFixed
<1>4. SUFFICES ASSUME Acyclic
               PROVE  Sound' /\ Complete' /\ Between' /\ Passed'
  BY <1>3 DEF FrontierInv
<1>5. /\ Sound /\ Complete /\ Between /\ Passed /\ Upwards
      /\ \A i \in Numbers \ {0} : Immediate(i)
  BY <1>1, <1>2, <1>4 DEF FrontierInv, LastPassInv
<1>6. climb'[1] = idom[r] /\ climb'[2] = climb[2]
  BY <1>1
<1> HIDE DEF r
<1>7. \A i \in Numbers : frontier'[i] = IF i = r THEN frontier[i] \cup {at} ELSE frontier[i]
  BY <1>1, <1>2
<1>8. PICK e \in taken : Dominates(Rpo(r), Rpo(Pred(e)))
  BY <1>1, <1>5 DEF Between, r
<1>9. /\ at \in Numbers \ {0} /\ Rpo(at) \in Successors(Rpo(Pred(e)))
      /\ Rpo(Pred(e)) \in Numbered
  BY <1>2, <1>4, <1>8, AcyclicPreds, PredEdgeFacts, Numbering
<1>10. climb[2] = idom[at] /\ Dominates(Rpo(climb[2]), Rpo(r))
  BY <1>1, <1>5 DEF Between, r
\* The runner is not at the entry: its goal dominates it.
<1>11. r \in Numbers \ {0}
  <2>1. r = 0 => Dominates(Rpo(r), Rpo(climb[2]))
    BY <1>2, Numbering, EntryDominates
  <2> QED BY <1>1, <1>2, <1>10, <2>1, DominanceIsAntisymmetric DEF r
<1>12. \A i, j \in Numbers : Rpo(i) = Rpo(j) => i = j
  BY <1>2, Numbering
<1>13. Sound'
  <2>1. r = at \/ ~Dominates(Rpo(r), Rpo(at))
    <3>1. SUFFICES ASSUME r # at, Dominates(Rpo(r), Rpo(at))
                   PROVE  FALSE
      OBVIOUS
    <3>2. Rpo(r) \in graph.blocks \ {Rpo(at)}
      BY <1>2, <1>12, <3>1, Numbering
    <3>3. Dominates(Rpo(r), Rpo(climb[2]))
      BY <1>5, <1>9, <1>10, <3>1, <3>2 DEF Immediate
    <3> QED BY <1>1, <1>2, <1>10, <3>3, DominanceIsAntisymmetric DEF r
  <2>2. InFrontier(Rpo(r), Rpo(at))
    BY <1>8, <1>9, <2>1 DEF InFrontier
  <2>3. \A i, k \in Numbers : k \in frontier'[i] => InFrontier(Rpo(i), Rpo(k))
    BY <1>5, <1>7, <2>2 DEF Sound
  <2> QED BY <1>3, <2>3 DEF Sound
<1>14. Complete'
  <2>1. \A k \in Numbers \ {at} :
           Rpo(k) \in Joins \ todo =>
              \A i \in Numbers : InFrontier(Rpo(i), Rpo(k)) => k \in frontier'[i]
    BY <1>5, <1>7 DEF Complete
  <2> QED BY <1>1, <1>3, <2>1 DEF Complete
<1>15. Between'
  <2>1. Rpo(climb[2]) \in graph.blocks \ {Rpo(r)}
    BY <1>1, <1>2, <1>12, Numbering DEF r
  <2>2. Dominates(Rpo(climb[2]), Rpo(idom[r]))
    BY <1>5, <1>10, <1>11, <2>1 DEF Immediate
  <2>3. Dominates(Rpo(idom[r]), Rpo(Pred(e)))
    BY <1>2, <1>5, <1>8, DominanceIsTransitive DEF Upwards
  <2> QED BY <1>1, <1>3, <1>6, <1>10, <2>2, <2>3 DEF Between
<1>16. Passed'
  <2>1. ASSUME NEW f \in taken, NEW i \in Numbers,
               Dominates(Rpo(i), Rpo(Pred(f))), i = at \/ ~Dominates(Rpo(i), Rpo(at))
        PROVE  at \in frontier'[i] \/ Dominates(Rpo(i), Rpo(idom[r]))
    <3>1. CASE i = r \/ at \in frontier[i]
      BY <1>7, <3>1
    <3>2. CASE i # r /\ at \notin frontier[i]
      <4>1. Dominates(Rpo(i), Rpo(r))
        BY <1>5, <2>1, <3>2 DEF Passed, r
      <4>2. Rpo(i) \in graph.blocks \ {Rpo(r)}
        BY <1>2, <1>12, <3>2, Numbering
      <4> QED BY <1>5, <1>11, <4>1, <4>2 DEF Immediate
    <3> QED BY <3>1, <3>2
  <2> QED BY <1>1, <1>3, <1>6, <2>1 DEF Passed
<1> QED BY <1>13, <1>14, <1>15, <1>16

LEMMA FrontierStep == SearchInv /\ TreeInv /\ FrontierInv /\ [Analyse]_domVars => FrontierInv'
<1> SUFFICES ASSUME SearchInv, TreeInv, FrontierInv, [Analyse]_domVars
             PROVE  FrontierInv'
  OBVIOUS
<1>1. CASE phase' # "frontier"
  BY <1>1 DEF FrontierInv
<1>2. CASE Descend \/ Ascend \/ StartDominators \/ TakePred \/ Climb \/ SetIdom \/ NextPass
  <2>1. phase' # "frontier"
    BY <1>2 DEF Descend, Ascend, StartDominators, TakePred, Climb, SetIdom, NextPass
  <2> QED BY <1>1, <2>1
<1>3. CASE StartFrontiers
  BY <1>3, StartFrontiersKeeps
<1>4. CASE \E b \in Blocks : VisitJoin(b)
  BY <1>4, VisitJoinKeeps
<1>5. CASE StartRunner
  BY <1>5, StartRunnerKeeps
<1>6. CASE RunUp
  BY <1>6, RunUpKeeps
<1>7. CASE StartPostDominators \/ (\E b \in Blocks : PostDominate(b)) \/ NextPostPass \/ Finish
  <2>1. phase' # "frontier"
    BY <1>7 DEF StartPostDominators, PostDominate, NextPostPass, Finish
  <2> QED BY <1>1, <2>1
<1>8. CASE UNCHANGED domVars
  <2>1. /\ graph' = graph /\ postorder' = postorder /\ idom' = idom /\ phase' = phase
        /\ at' = at /\ taken' = taken /\ climb' = climb /\ frontier' = frontier
        /\ todo' = todo
    BY <1>8 DEF domVars, treeVars, postVars
  <2>2. /\ Numbers' = Numbers /\ (Acyclic' <=> Acyclic) /\ \A i : Rpo(i)' = Rpo(i)
        /\ \A d, x : Dominates(d, x)' <=> Dominates(d, x)
        /\ \A e : Pred(e)' = Pred(e)
        /\ Joins' = Joins /\ \A d, x : InFrontier(d, x)' <=> InFrontier(d, x)
    BY <2>1, NumberingFixed, JoinsFixed
  <2>3. (Sound' <=> Sound) /\ (Complete' <=> Complete)
    BY <2>1, <2>2 DEF Sound, Complete
  <2>4. (Between' <=> Between) /\ (Passed' <=> Passed)
    BY <2>1, <2>2 DEF Between, Passed
  <2> QED BY <2>1, <2>2, <2>3, <2>4 DEF FrontierInv
<1> QED BY <1>2, <1>3, <1>4, <1>5, <1>6, <1>7, <1>8 DEF Analyse

-----------------------------------------------------------------------------
(***************************************************************************)
(* The dominators and their frontiers.                                     *)
(***************************************************************************)
DominatorInv == SearchInv /\ TreeInv /\ FrontierInv

LEMMA DominatorInit == DomInit => DominatorInv
BY SearchInit DEF DomInit, DominatorInv, TreeInv, FrontierInv

LEMMA DominatorStep == DominatorInv /\ [Analyse]_domVars => DominatorInv'
BY SearchStep, TreeStep, FrontierStep DEF DominatorInv

\* A block that one edge at most leads to is in no frontier.
LEMMA NoJoinNoFrontier ==
    ASSUME Searched, Acyclic, NEW k \in Numbers, Rpo(k) \notin Joins, NEW i \in Numbers
    PROVE  ~InFrontier(Rpo(i), Rpo(k))
<1>1. SUFFICES ASSUME InFrontier(Rpo(i), Rpo(k))
               PROVE  FALSE
  OBVIOUS
<1>2. PICK p \in Numbered : Rpo(k) \in Successors(p) /\ Dominates(Rpo(i), p)
  BY <1>1 DEF InFrontier
<1>3. PICK e \in PredEdges(k) : Rpo(Pred(e)) = p
  BY <1>2, EdgeFromPred
<1>4. \A f \in PredEdges(k) : f = e
  BY <1>3, Numbering DEF Joins
<1>5. k # 0 /\ Pred(e) < k /\ Pred(e) \in Numbers
  BY <1>3, AcyclicPreds, PredEdgeFacts
<1>6. Dominates(Rpo(i), Rpo(k))
  BY <1>2, <1>3, <1>4, <1>5, DominatesFromPreds
<1>7. i = k
  BY <1>1, <1>6, Numbering DEF InFrontier
<1>8. Number(Rpo(k)) <= Pred(e)
  BY <1>2, <1>3, <1>5, <1>7, DominatorsComeFirst
<1> QED BY <1>5, <1>8, Numbering

LEMMA FrontiersFollow == DominatorInv => FrontierIsExact
<1> SUFFICES ASSUME DominatorInv, TreeBuilt, Acyclic, NEW i \in Numbers, NEW k \in Numbers
             PROVE  (k \in frontier[i]) <=> InFrontier(Rpo(i), Rpo(k))
  BY DEF FrontierIsExact
<1>1. /\ SearchInv /\ TreeInv /\ FrontierInv /\ phase = "frontier" /\ Met /\ Untaken = {}
      /\ todo = {} /\ Searched
  BY FrontierPhase DEF DominatorInv, TreeBuilt
<1>2. k \in frontier[i] => InFrontier(Rpo(i), Rpo(k))
  BY <1>1 DEF FrontierInv, Sound
<1>3. ASSUME InFrontier(Rpo(i), Rpo(k))
      PROVE  k \in frontier[i]
  <2>1. CASE k = at
    BY <1>1, <1>3, <2>1, JoinIsDone
  <2>2. CASE k # at
    <3>1. Rpo(k) \in Joins \ todo
      BY <1>1, <1>3, NoJoinNoFrontier
    <3> QED BY <1>1, <1>3, <2>2, <3>1 DEF FrontierInv, Complete
  <2> QED BY <2>1, <2>2
<1> QED BY <1>2, <1>3

\* Whatever the graph, the search, the passes and the runners keep to their
\* types, and no block is numbered twice (compute_rpo, DominatorTree::build).
THEOREM AnalysisTypes == DomSpec => []AnalysisTypeOK
<1>1. DominatorInv => AnalysisTypeOK
  BY DEF DominatorInv, SearchInv
<1> QED BY <1>1, DominatorInit, DominatorStep, PTL DEF DomSpec

\* In every pass and between them, whatever loops the function has, a block is
\* dominated by what DominatorTree::build has as its immediate dominator.
THEOREM Dominators == DomSpec => []IdomDominates
<1>1. DominatorInv => IdomDominates
  BY DEF DominatorInv, TreeInv, PassInv, Upwards, IdomDominates
<1> QED BY <1>1, DominatorInit, DominatorStep, PTL DEF DomSpec

\* The tree that build returns goes to a smaller number from every block but
\* the entry: it has no cycle, which build asserts (verify_idom_acyclic).
TreeIsRooted == TreeBuilt => \A i \in Numbers \ {0} : idom[i] < i

THEOREM TreeHasNoCycle == DomSpec => []TreeIsRooted
<1>1. DominatorInv => TreeIsRooted
  BY DEF DominatorInv, TreeInv, LastPassInv, Upwards, TreeIsRooted, TreeBuilt
<1> QED BY <1>1, DominatorInit, DominatorStep, PTL DEF DomSpec

\* In a function without loops what build returns as the immediate dominator of
\* a block is dominated by every other dominator of the block.
THEOREM ImmediateWithoutLoops == DomSpec => []IdomIsImmediate
<1>1. DominatorInv => IdomIsImmediate
  BY DEF DominatorInv, TreeInv, LastPassInv, Immediate, IdomIsImmediate, TreeBuilt
<1> QED BY <1>1, DominatorInit, DominatorStep, PTL DEF DomSpec

\* And its dominance frontiers are those of the definition, in whatever order
\* compute_dominance_frontiers takes the joins.
THEOREM Frontiers == DomSpec => []FrontierIsExact
BY FrontiersFollow, DominatorInit, DominatorStep, PTL DEF DomSpec

-----------------------------------------------------------------------------
(***************************************************************************)
(* The post-dominators.                                                    *)
(***************************************************************************)
Started == phase \in {"postdominate", "done"}

\* The passes visit blocks that are not exits.
Scoped ==
    /\ graph \in Graphs
    /\ phase = "postdominate" => todo \subseteq Refinable
    /\ Started => /\ postdom \in [graph.blocks -> SUBSET graph.blocks]
                  /\ \A b \in graph.blocks \cap ExitBlocks : postdom[b] = {b}

\* No set has lost a block that cannot be avoided.
Kept ==
    Started => \A b, p \in graph.blocks : Unavoidable(p, b) => p \in postdom[b]

Settled(b) == postdom[b] = OfSuccessors(b)

\* What a pass that has changed nothing leaves behind.
Solved ==
    phase = "postdominate" /\ ~changed => \A b \in Refinable \ todo : Settled(b)

PostInv == Scoped /\ Kept /\ Solved

\* A step that leaves the graph alone leaves what is read off it alone.
LEMMA GraphFixed ==
    ASSUME graph' = graph
    PROVE  /\ ExitBlocks' = ExitBlocks
           /\ Refinable' = Refinable
           /\ \A b : Successors(b)' = Successors(b)
           /\ \A p, b : Unavoidable(p, b)' <=> Unavoidable(p, b)
<1>1. \A b : Successors(b)' = Successors(b)
  BY DEF Successors, EdgesFrom, Target
<1>2. DeadEnds' = DeadEnds
  BY <1>1 DEF DeadEnds
<1>3. ExitBlocks' = ExitBlocks
  BY <1>2 DEF ExitBlocks
<1>4. Refinable' = Refinable
  BY <1>1, <1>3 DEF Refinable
<1>5. \A p, b : Unavoidable(p, b)' <=> Unavoidable(p, b)
  BY <1>1, <1>3 DEF Unavoidable
<1> QED BY <1>1, <1>3, <1>4, <1>5

\* A block that cannot be avoided from b on is b itself, or cannot be avoided
\* from any successor of b on.
LEMMA UnavoidableAhead ==
    ASSUME graph \in Graphs,
           NEW b \in graph.blocks, NEW p \in graph.blocks,
           Unavoidable(p, b), p # b
    PROVE  \A s \in Successors(b) : Unavoidable(p, s)
<1>1. PICK C \in SUBSET (graph.blocks \ {p}) :
        /\ b \in C
        /\ C \cap ExitBlocks = {}
        /\ \A c \in C : Successors(c) \subseteq C \cup {p}
  BY DEF Unavoidable
<1>2. TAKE s \in Successors(b)
<1>3. CASE s = p
  BY <1>3 DEF Unavoidable
<1>4. CASE s \in C
  BY <1>1, <1>4 DEF Unavoidable
<1> QED BY <1>1, <1>3, <1>4

LEMMA PostInit == DomInit => PostInv
BY DEF DomInit, PostInv, Scoped, Kept, Solved, Started

\* The sets start at their largest: only the exits have a small one.
LEMMA StartKeeps ==
    ASSUME PostInv, StartPostDominators
    PROVE  PostInv'
<1>1. /\ phase' = "postdominate" /\ postdom' = TopSets
      /\ todo' = Refinable /\ graph' = graph
  BY DEF StartPostDominators
<1>2. Scoped'
  <2>1. postdom' \in [graph.blocks -> SUBSET graph.blocks]
    BY <1>1 DEF TopSets
  <2>2. \A b \in graph.blocks \cap ExitBlocks : postdom'[b] = {b}
    BY <1>1 DEF TopSets
  <2> QED BY <1>1, <2>1, <2>2, GraphFixed DEF PostInv, Scoped, Started
<1>3. Kept'
  <2>1. SUFFICES ASSUME NEW b \in graph.blocks, NEW p \in graph.blocks,
                        Unavoidable(p, b)
                 PROVE  p \in TopSets[b]
    BY <1>1, GraphFixed DEF Kept, Started
  <2>2. b \in ExitBlocks => p = b
    BY <2>1 DEF Unavoidable
  <2> QED BY <2>2 DEF TopSets
<1>4. Solved'
  BY <1>1, GraphFixed DEF Solved
<1> QED BY <1>2, <1>3, <1>4 DEF PostInv

\* A pass takes from the set of b only what can be avoided from b on.
LEMMA PostDominateKeeps ==
    ASSUME PostInv, NEW b \in Blocks, PostDominate(b)
    PROVE  PostInv'
<1>1. /\ phase = "postdominate" /\ b \in todo /\ todo' = todo \ {b}
      /\ postdom' = [postdom EXCEPT ![b] = OfSuccessors(b)]
      /\ changed' = (changed \/ OfSuccessors(b) # postdom[b])
      /\ phase' = phase /\ graph' = graph
  BY DEF PostDominate
<1>2. /\ graph \in Graphs /\ todo \subseteq Refinable
      /\ postdom \in [graph.blocks -> SUBSET graph.blocks]
      /\ \A x \in graph.blocks \cap ExitBlocks : postdom[x] = {x}
      /\ \A x, p \in graph.blocks : Unavoidable(p, x) => p \in postdom[x]
  BY <1>1 DEF PostInv, Scoped, Kept, Started
<1>3. b \in graph.blocks /\ b \notin ExitBlocks
  BY <1>1, <1>2 DEF Refinable
<1>4. OfSuccessors(b) \subseteq graph.blocks
  BY <1>3 DEF OfSuccessors
<1>5. Scoped'
  <2>1. postdom' \in [graph.blocks -> SUBSET graph.blocks]
    BY <1>1, <1>2, <1>4
  <2>2. \A x \in graph.blocks \cap ExitBlocks : postdom'[x] = {x}
    BY <1>1, <1>2, <1>3
  <2> QED BY <1>1, <1>2, <2>1, <2>2, GraphFixed DEF Scoped, Started
<1>6. Kept'
  <2>1. SUFFICES ASSUME NEW x \in graph.blocks, NEW p \in graph.blocks,
                        Unavoidable(p, x)
                 PROVE  p \in postdom'[x]
    BY <1>1, GraphFixed DEF Kept, Started
  <2>2. CASE x # b
    BY <1>1, <1>2, <2>1, <2>2
  <2>3. CASE x = b
    <3>1. SUFFICES p \in OfSuccessors(b)
      BY <1>1, <1>2, <1>3, <2>3
    <3>2. CASE p = b
      BY <3>2 DEF OfSuccessors
    <3>3. CASE p # b
      <4>1. \A s \in Successors(b) : Unavoidable(p, s)
        BY <1>2, <1>3, <2>1, <2>3, <3>3, UnavoidableAhead
      <4>2. Successors(b) \subseteq graph.blocks
        BY <1>2, SuccessorsAreBlocks
      <4>3. \A s \in Successors(b) : p \in postdom[s]
        BY <1>2, <2>1, <4>1, <4>2
      <4> QED BY <2>1, <4>3 DEF OfSuccessors
    <3> QED BY <3>2, <3>3
  <2> QED BY <2>2, <2>3
<1>7. Solved'
  <2>1. SUFFICES ASSUME ~changed', NEW x \in Refinable, x \notin todo'
                 PROVE  Settled(x)'
    BY <1>1, GraphFixed DEF Solved
  <2>2. OfSuccessors(b) = postdom[b] /\ ~changed
    BY <1>1, <2>1
  <2>3. postdom' = postdom
    BY <1>1, <1>2, <1>3, <2>2
  <2>4. OfSuccessors(x)' = OfSuccessors(x)
    BY <1>1, <2>3, GraphFixed DEF OfSuccessors
  <2>5. x = b \/ x \notin todo
    BY <1>1, <2>1
  <2>6. Settled(x)
    BY <1>1, <2>1, <2>2, <2>5 DEF PostInv, Solved, Settled
  <2> QED BY <2>3, <2>4, <2>6 DEF Settled
<1> QED BY <1>5, <1>6, <1>7 DEF PostInv

\* The end of a pass, and of the passes.
LEMMA PassKeeps ==
    ASSUME PostInv, NextPostPass \/ Finish
    PROVE  PostInv'
<1>1. /\ phase = "postdominate" /\ graph' = graph /\ postdom' = postdom
      /\ phase' \in {"postdominate", "done"}
  BY DEF NextPostPass, Finish, PostBuilt, postVars
<1>2. Scoped'
  BY <1>1, GraphFixed DEF PostInv, Scoped, Started, NextPostPass, Finish
<1>3. Kept'
  BY <1>1, GraphFixed DEF PostInv, Kept, Started
<1>4. Solved'
  BY <1>1, GraphFixed DEF Solved, NextPostPass, Finish
<1> QED BY <1>2, <1>3, <1>4 DEF PostInv

LEMMA PostStep == PostInv /\ [Analyse]_domVars => PostInv'
<1> SUFFICES ASSUME PostInv, [Analyse]_domVars
             PROVE  PostInv'
  OBVIOUS
<1>1. CASE phase' \notin {"postdominate", "done"} /\ graph' = graph
  <2>1. graph' \in Graphs
    BY <1>1 DEF PostInv, Scoped
  <2> QED BY <1>1, <2>1 DEF PostInv, Scoped, Kept, Solved, Started
<1>2. CASE \/ Descend \/ Ascend \/ StartDominators \/ TakePred \/ Climb \/ SetIdom \/ NextPass
           \/ StartFrontiers \/ (\E b \in Blocks : VisitJoin(b)) \/ StartRunner \/ RunUp
  BY <1>1, <1>2 DEF Descend, Ascend, StartDominators, TakePred, Climb, SetIdom, NextPass,
                    StartFrontiers, VisitJoin, StartRunner, RunUp
<1>3. CASE StartPostDominators
  BY <1>3, StartKeeps
<1>4. CASE \E b \in Blocks : PostDominate(b)
  BY <1>4, PostDominateKeeps
<1>5. CASE NextPostPass \/ Finish
  BY <1>5, PassKeeps
<1>6. CASE UNCHANGED domVars
  <2>1. /\ graph' = graph /\ phase' = phase /\ postdom' = postdom
        /\ todo' = todo /\ changed' = changed
    BY <1>6 DEF domVars, postVars
  <2>2. \A b : OfSuccessors(b)' = OfSuccessors(b)
    BY <2>1, GraphFixed DEF OfSuccessors
  <2>3. Scoped' /\ Kept'
    BY <2>1, GraphFixed DEF PostInv, Scoped, Kept, Started
  <2>4. Solved'
    BY <2>1, <2>2, GraphFixed DEF PostInv, Solved, Settled
  <2> QED BY <2>3, <2>4 DEF PostInv
<1> QED BY <1>2, <1>3, <1>4, <1>5, <1>6 DEF Analyse

\* A solution lists no block that can be avoided: the blocks that list p,
\* without p itself, are left only to p.
LEMMA SolutionIsExact == PostInv => PostDominatorsExact
<1> SUFFICES ASSUME PostInv, PostBuilt,
                    NEW b \in graph.blocks, NEW p \in graph.blocks
             PROVE  (p \in postdom[b]) <=> Unavoidable(p, b)
  BY DEF PostDominatorsExact
<1>1. /\ graph \in Graphs
      /\ postdom \in [graph.blocks -> SUBSET graph.blocks]
      /\ \A x \in graph.blocks \cap ExitBlocks : postdom[x] = {x}
      /\ \A x \in Refinable : postdom[x] = OfSuccessors(x)
      /\ Unavoidable(p, b) => p \in postdom[b]
  BY DEF PostInv, Scoped, Kept, Solved, Settled, Started, PostBuilt
<1>2. ASSUME p \in postdom[b], p # b
      PROVE  Unavoidable(p, b)
  <2> DEFINE C == {x \in graph.blocks \ {p} : p \in postdom[x]}
  <2>1. C \in SUBSET (graph.blocks \ {p}) /\ b \in C
    BY <1>2
  <2>2. C \cap ExitBlocks = {}
    BY <1>1
  <2>3. ASSUME NEW c \in C
        PROVE  Successors(c) \subseteq C \cup {p}
    <3>1. CASE c \in Refinable
      <4>1. \A s \in Successors(c) : p \in postdom[s]
        BY <1>1, <2>3, <3>1 DEF OfSuccessors
      <4>2. Successors(c) \subseteq graph.blocks
        BY <1>1, SuccessorsAreBlocks
      <4> QED BY <4>1, <4>2
    <3>2. CASE c \notin Refinable
      BY <2>2, <2>3, <3>2 DEF Refinable
    <3> QED BY <3>1, <3>2
  <2> HIDE DEF C
  <2> QED BY <2>1, <2>2, <2>3 DEF Unavoidable
<1>3. p = b => Unavoidable(p, b)
  BY DEF Unavoidable
<1> QED BY <1>1, <1>2, <1>3

\* For every graph, the post-dominators found are those that no way to an
\* exit avoids (compute_post_dominators), whatever order a hash set gave.
THEOREM PostDominators == DomSpec => []PostDominatorsExact
BY PostInit, PostStep, SolutionIsExact, PTL DEF DomSpec

-----------------------------------------------------------------------------
(***************************************************************************)
(* The passes and the runners come to an end, whatever loops there are.    *)
(* Above(i) is the way up the tree from i, the least set with i in it that *)
(* the immediate dominators do not leave.  At all times the immediate      *)
(* dominator of a block is on the way up from every block before it, so    *)
(* that a pass moves it down the tree or not at all, and a runner meets it.*)
(***************************************************************************)
ClosedUp(C) == \A c \in C : idom[c] \in C
Above(i) == {a \in Numbers : \A C \in SUBSET Numbers : i \in C /\ ClosedUp(C) => a \in C}

TreeIsSound ==
    /\ 0 \in Numbers /\ idom \in [Numbers -> Numbers]
    /\ \A i \in Numbers : i \in Nat /\ idom[i] <= i /\ (i # 0 => idom[i] < i)

LEMMA SoundTree ==
    ASSUME SearchInv, TreeInv, phase \in {"dominate", "frontier"}
    PROVE  TreeIsSound /\ Searched
<1>1. Searched /\ idom \in [Numbers -> Numbers] /\ Upwards
  BY SearchedOnceLeft DEF SearchInv, AnalysisTypeOK, TreeInv, PassInv, LastPassInv
<1>2. 0 \in Numbers /\ \A i \in Numbers : i \in Nat /\ idom[i] \in Numbers
  BY <1>1, Numbering
<1>3. idom[0] <= 0
  <2>1. Dominates(Rpo(idom[0]), Rpo(0))
    BY <1>1, <1>2 DEF Upwards
  <2>2. Number(Rpo(idom[0])) <= 0
    BY <1>1, <1>2, <2>1, DominatorsComeFirst
  <2> QED BY <1>1, <1>2, <2>2, Numbering
<1> QED BY <1>1, <1>2, <1>3 DEF TreeIsSound, Upwards

\* A number is on its own way up, and the rest is the way up of the next.
LEMMA AboveNext ==
    ASSUME TreeIsSound, NEW i \in Numbers
    PROVE  /\ i \in Above(i) /\ Above(idom[i]) \subseteq Above(i)
           /\ \A a \in Above(i) \ {i} : a \in Above(idom[i])
<1>1. i \in Above(i) /\ Above(idom[i]) \subseteq Above(i)
  BY DEF Above, ClosedUp
<1>2. ASSUME NEW a \in Above(i) \ {i}, NEW C \in SUBSET Numbers, idom[i] \in C, ClosedUp(C)
      PROVE  a \in C
  <2>1. C \cup {i} \in SUBSET Numbers /\ ClosedUp(C \cup {i})
    BY <1>2 DEF ClosedUp
  <2>2. a \in C \cup {i}
    BY <1>2, <2>1 DEF Above
  <2> QED BY <1>2, <2>2
<1> QED BY <1>1, <1>2 DEF Above

\* The numbers on it are smaller, down to the entry's.
LEMMA AboveIsSmaller ==
    ASSUME TreeIsSound, NEW i \in Numbers
    PROVE  0 \in Above(i) /\ \A a \in Above(i) : a <= i
<1>1. ASSUME NEW C \in SUBSET Numbers, i \in C, ClosedUp(C)
      PROVE  0 \in C
  <2>1. C \in SUBSET Nat /\ C # {}
    BY <1>1 DEF TreeIsSound
  <2>2. PICK n \in C : \A m \in C : n <= m
    BY <2>1, LeastNumber
  <2>3. idom[n] \in C /\ n \in Nat /\ idom[n] \in Nat
    BY <1>1, <2>1 DEF ClosedUp
  <2>4. n <= idom[n] /\ (n # 0 => idom[n] < n)
    BY <2>2, <2>3 DEF TreeIsSound
  <2> QED BY <2>3, <2>4
<1>2. 0 \in Above(i)
  BY <1>1 DEF Above, TreeIsSound
<1> DEFINE D == {c \in Numbers : c <= i}
<1>3. D \in SUBSET Numbers /\ i \in D /\ ClosedUp(D)
  <2>1. ASSUME NEW c \in D PROVE idom[c] \in D
    <3>1. c \in Nat /\ idom[c] \in Numbers /\ idom[c] \in Nat /\ idom[c] <= c /\ c <= i /\ i \in Nat
      BY DEF TreeIsSound
    <3> QED BY <3>1
  <2> QED BY <2>1 DEF ClosedUp, TreeIsSound
<1>4. Above(i) \subseteq D
  BY <1>3 DEF Above
<1> QED BY <1>2, <1>4

\* Nothing leaves a way up when an immediate dominator moves down the tree.
LEMMA AboveOnlyGrows ==
    ASSUME TreeIsSound, NEW i \in Numbers, NEW n \in Numbers, n < i,
           idom[i] \in Above(n),
           Numbers' = Numbers, idom' = [idom EXCEPT ![i] = n]
    PROVE  \A x \in Numbers : Above(x) \subseteq Above(x)'
<1>1. SUFFICES ASSUME NEW x \in Numbers, NEW a \in Above(x),
                      NEW C \in SUBSET Numbers, x \in C, \A c \in C : idom'[c] \in C
               PROVE  a \in C
  BY DEF Above, ClosedUp
<1>2. \A c \in Numbers : idom'[c] = IF c = i THEN n ELSE idom[c]
  BY DEF TreeIsSound
<1> DEFINE D == {c \in C : c <= n}
<1>3. n \in C => D \in SUBSET Numbers /\ n \in D /\ ClosedUp(D)
  <2>1. ASSUME NEW c \in D PROVE idom[c] \in D
    <3>1. /\ c \in Nat /\ n \in Nat /\ i \in Nat /\ idom[c] \in Numbers /\ idom[c] \in Nat
          /\ idom[c] <= c /\ c <= n
      BY DEF TreeIsSound
    <3>2. idom[c] \in C
      BY <1>1, <1>2, <3>1
    <3> QED BY <3>1, <3>2
  <2> QED BY <2>1 DEF ClosedUp, TreeIsSound
<1>4. n \in C => idom[i] \in C
  BY <1>3 DEF Above
<1>5. ClosedUp(C)
  BY <1>1, <1>2, <1>4 DEF ClosedUp
<1> QED BY <1>1, <1>5 DEF Above

\* And it stays when none does.
LEMMA AboveFixed ==
    ASSUME graph' = graph, postorder' = postorder, idom' = idom
    PROVE  \A i : Above(i)' = Above(i)
BY NumberingFixed DEF Above, ClosedUp

-----------------------------------------------------------------------------
\* The immediate dominator is on the way up from every block before.
OnTheWay == \A i \in Numbers : \A e \in PredEdges(i) : idom[i] \in Above(Pred(e))

\* The numbers that climb in a pass have not passed it, and are on the ways up
\* from the predecessors that were taken.
Climbing ==
    climb # <<>> =>
        /\ idom[at] \in Above(climb[1]) /\ idom[at] \in Above(climb[2])
        /\ \A e \in taken : climb[1] \in Above(Pred(e)) \/ climb[2] \in Above(Pred(e))

\* A runner has not passed it either.
Running == climb # <<>> => climb[2] = idom[at] /\ climb[2] \in Above(climb[1])

WayInv ==
    /\ phase \in {"dominate", "frontier"} => OnTheWay
    /\ phase = "dominate" => Climbing
    /\ phase = "frontier" => Running

LEMMA WayOfPasses ==
    ASSUME SearchInv, TreeInv, WayInv,
           StartDominators \/ NextPass \/ StartFrontiers
    PROVE  WayInv'
<1>1. /\ graph' = graph /\ postorder' = postorder
      /\ phase' \in {"dominate", "frontier"}
      /\ climb = <<>> /\ climb' = climb
  <2>1. CASE StartDominators
    BY <2>1 DEF StartDominators, SearchInv
  <2>2. CASE NextPass \/ StartFrontiers
    <3>1. phase = "dominate" /\ at >= Count
      BY <2>2 DEF NextPass, StartFrontiers
    <3>2. at \notin Numbers
      BY <3>1, SoundTree, Numbering DEF Numbers, SearchInv, AnalysisTypeOK
    <3> QED BY <2>2, <3>2 DEF NextPass, StartFrontiers, SearchInv
  <2> QED BY <2>1, <2>2
<1>2. \A i : PredEdges(i)' = PredEdges(i) /\ Numbers' = Numbers
  BY <1>1, NumberingFixed
<1>3. \A e : Pred(e)' = Pred(e)
  BY <1>1, NumberingFixed
<1>4. OnTheWay'
  <2>1. CASE StartDominators
    <3>1. /\ idom' = [i \in Numbers |-> 0] /\ Searched
      BY <2>1, SearchedOnceLeft DEF StartDominators
    <3>2. ASSUME NEW i \in Numbers, NEW e \in PredEdges(i)
          PROVE  0 \in Above(Pred(e))'
      <4>1. Pred(e) \in Numbers /\ 0 \in Numbers
        BY <3>1, <3>2, PredEdgeFacts, Numbering
      <4> QED BY <1>2, <3>1, <4>1 DEF Above, ClosedUp
    <3> QED BY <1>2, <1>3, <3>1, <3>2 DEF OnTheWay
  <2>2. CASE NextPass \/ StartFrontiers
    <3>1. idom' = idom /\ OnTheWay
      BY <2>2 DEF NextPass, StartFrontiers, WayInv
    <3> QED BY <1>1, <1>2, <1>3, <3>1, AboveFixed DEF OnTheWay
  <2> QED BY <2>1, <2>2
<1> QED BY <1>1, <1>4 DEF WayInv, Climbing, Running

LEMMA WayOfTakePred ==
    ASSUME SearchInv, TreeInv, WayInv, TakePred
    PROVE  WayInv'
<1> DEFINE edge == FirstOf(Untaken)
<1>1. /\ graph' = graph /\ postorder' = postorder /\ idom' = idom /\ at' = at
      /\ phase = "dominate" /\ phase' = phase /\ Met
      /\ taken' = taken \cup {edge}
      /\ climb' = <<IF climb = <<>> THEN Pred(edge) ELSE climb[1], Pred(edge)>>
  BY DEF TakePred
<1>2. Searched /\ TreeIsSound /\ OnTheWay /\ Climbing
  BY <1>1, SoundTree DEF WayInv
<1>3. edge \in PredEdges(at) /\ Pred(edge) \in Numbers /\ at \in Numbers
  BY <1>2, UntakenEdge DEF TakePred
<1>4. /\ Numbers' = Numbers /\ \A i : PredEdges(i)' = PredEdges(i) /\ Above(i)' = Above(i)
      /\ \A e : Pred(e)' = Pred(e)
  BY <1>1, NumberingFixed, AboveFixed
<1> HIDE DEF edge
<1>5. climb # <<>> => climb[1] = climb[2] /\ climb'[1] = climb[1]
  BY <1>1 DEF Met
<1>6. climb'[2] = Pred(edge) /\ climb' # <<>> /\ (climb = <<>> => climb'[1] = Pred(edge))
  BY <1>1
<1>7. OnTheWay'
  BY <1>1, <1>2, <1>4 DEF OnTheWay
<1>8. idom[at] \in Above(climb'[1]) /\ idom[at] \in Above(climb'[2])
  BY <1>2, <1>3, <1>5, <1>6 DEF OnTheWay, Climbing
<1>9. ASSUME NEW e \in taken'
      PROVE  climb'[1] \in Above(Pred(e)) \/ climb'[2] \in Above(Pred(e))
  <2>1. CASE e = edge
    BY <1>2, <1>3, <1>6, <2>1, AboveNext
  <2>2. CASE e \in taken
    <3>1. climb # <<>>
      BY <2>2 DEF TreeInv
    <3> QED BY <1>2, <1>5, <2>2, <3>1 DEF Climbing
  <2> QED BY <1>1, <1>9, <2>1, <2>2
<1>10. Climbing'
  BY <1>1, <1>4, <1>8, <1>9 DEF Climbing
<1> QED BY <1>1, <1>7, <1>10 DEF WayInv

\* The greater of two numbers that climb is not the one they have to meet at
\* the latest, which is below neither.
LEMMA WayOfClimb ==
    ASSUME SearchInv, TreeInv, WayInv, Climb
    PROVE  WayInv' /\ climb'[1] <= climb[1] /\ climb'[2] <= climb[2] /\ climb' # climb
<1>1. /\ graph' = graph /\ postorder' = postorder /\ idom' = idom /\ at' = at
      /\ phase = "dominate" /\ phase' = phase /\ taken' = taken
      /\ climb # <<>> /\ climb[1] # climb[2]
      /\ climb' = IF climb[1] > climb[2] THEN <<idom[climb[1]], climb[2]>>
                                         ELSE <<climb[1], idom[climb[2]]>>
  BY DEF Climb, Met
<1>2. Searched /\ TreeIsSound /\ OnTheWay /\ Climbing
  BY <1>1, SoundTree DEF WayInv
<1>3. /\ climb \in Numbers \X Numbers /\ at \in Numbers
      /\ climb[1] \in Numbers /\ climb[2] \in Numbers
      /\ climb[1] \in Nat /\ climb[2] \in Nat
  BY <1>1, <1>2 DEF SearchInv, AnalysisTypeOK, TreeIsSound
<1>4. /\ Numbers' = Numbers /\ \A i : PredEdges(i)' = PredEdges(i) /\ Above(i)' = Above(i)
      /\ \A e : Pred(e)' = Pred(e)
  BY <1>1, NumberingFixed, AboveFixed
<1>5. PICK j \in {1, 2} : /\ climb[3 - j] < climb[j]
                          /\ climb'[j] = idom[climb[j]] /\ climb'[3 - j] = climb[3 - j]
  <2>1. CASE climb[1] > climb[2]
    <3>1. climb'[1] = idom[climb[1]] /\ climb'[2] = climb[2] /\ climb[2] < climb[1]
      BY <1>1, <1>3, <2>1
    <3> QED BY <3>1
  <2>2. CASE ~(climb[1] > climb[2])
    <3>1. climb'[2] = idom[climb[2]] /\ climb'[1] = climb[1] /\ climb[1] < climb[2]
      BY <1>1, <1>3, <2>2
    <3> QED BY <3>1
  <2> QED BY <2>1, <2>2
<1>6. /\ climb[j] \in Numbers \ {0} /\ climb[3 - j] \in Numbers /\ climb[3 - j] \in Nat
      /\ climb[j] \in Nat /\ idom[climb[j]] < climb[j] /\ idom[climb[j]] \in Nat
      /\ idom[at] \in Nat
  BY <1>2, <1>3, <1>5 DEF TreeIsSound
<1>7. idom[at] \in Above(climb[j]) /\ idom[at] \in Above(climb[3 - j])
  BY <1>1, <1>2 DEF Climbing
<1>8. idom[at] # climb[j]
  <2>1. idom[at] <= climb[3 - j]
    BY <1>2, <1>6, <1>7, AboveIsSmaller
  <2> QED BY <1>5, <1>6, <2>1
<1>9. idom[at] \in Above(climb'[j]) /\ idom[at] \in Above(climb'[3 - j])
  BY <1>2, <1>5, <1>6, <1>7, <1>8, AboveNext
<1>10. ASSUME NEW e \in taken
       PROVE  climb'[j] \in Above(Pred(e)) \/ climb'[3 - j] \in Above(Pred(e))
  <2>1. climb[j] \in Above(Pred(e)) => idom[climb[j]] \in Above(Pred(e))
    <3>1. Pred(e) \in Numbers /\ idom[climb[j]] \in Numbers
      BY <1>2, <1>6, PredEdgeFacts DEF SearchInv, AnalysisTypeOK, TreeIsSound
    <3> QED BY <3>1 DEF Above, ClosedUp
  <2>2. climb[j] \in Above(Pred(e)) \/ climb[3 - j] \in Above(Pred(e))
    BY <1>1, <1>2 DEF Climbing
  <2> QED BY <1>5, <2>1, <2>2
<1>11. OnTheWay'
  BY <1>1, <1>2, <1>4 DEF OnTheWay
<1>12. Climbing'
  <2>1. idom[at] \in Above(climb'[1]) /\ idom[at] \in Above(climb'[2])
    BY <1>9
  <2>2. \A e \in taken : climb'[1] \in Above(Pred(e)) \/ climb'[2] \in Above(Pred(e))
    BY <1>10
  <2> QED BY <1>1, <1>4, <2>1, <2>2 DEF Climbing
<1>13. WayInv'
  BY <1>1, <1>11, <1>12 DEF WayInv
<1>14. climb'[1] <= climb[1] /\ climb'[2] <= climb[2] /\ climb' # climb
  <2>1. climb'[j] < climb[j] /\ climb'[3 - j] = climb[3 - j]
    BY <1>5, <1>6
  <2>2. climb' # climb
    BY <1>6, <2>1
  <2>3. climb'[j] <= climb[j] /\ climb'[3 - j] <= climb[3 - j]
    BY <1>5, <1>6, <2>1
  <2> QED BY <2>2, <2>3
<1> QED BY <1>13, <1>14

\* The new immediate dominator is on the way up from every block before, and
\* the old one is on the way up from it: it has moved down, if at all.
LEMMA WayOfSetIdom ==
    ASSUME SearchInv, TreeInv, WayInv, SetIdom
    PROVE  /\ WayInv'
           /\ \A i \in Numbers : idom[i] <= idom'[i]
           /\ NewIdom # idom[at] => idom[at] < idom'[at] /\ at \in Numbers
<1>1. /\ graph' = graph /\ postorder' = postorder
      /\ phase = "dominate" /\ phase' = phase /\ at < Count /\ Met /\ Untaken = {}
      /\ idom' = [idom EXCEPT ![at] = NewIdom]
      /\ taken' = {} /\ climb' = <<>>
  BY DEF SetIdom
<1>2. Searched /\ TreeIsSound /\ OnTheWay /\ Climbing /\ PassInv
  BY <1>1, SoundTree DEF WayInv, TreeInv
<1>3. /\ Numbers' = Numbers /\ \A i : PredEdges(i)' = PredEdges(i)
      /\ \A e : Pred(e)' = Pred(e)
  BY <1>1, NumberingFixed
<1>4. at \in Numbers \ {0} /\ \A i \in Numbers : i \in Nat /\ idom[i] \in Nat
  BY <1>1, <1>2, Numbering DEF PassInv, Numbers, TreeIsSound
<1>5. PICK e \in PredEdges(at) : Pred(e) < at
  BY <1>2, <1>4, HasEarlierPred
<1>6. PredEdges(at) = taken
  BY <1>1 DEF Untaken, SearchInv, AnalysisTypeOK
<1>7. climb # <<>> /\ climb[1] = climb[2] /\ NewIdom = climb[1] /\ climb[1] \in Numbers
  BY <1>1, <1>5, <1>6 DEF TreeInv, Met, NewIdom, SearchInv, AnalysisTypeOK
<1>8. idom[at] \in Above(climb[1]) /\ \A f \in PredEdges(at) : climb[1] \in Above(Pred(f))
  BY <1>2, <1>6, <1>7 DEF Climbing
<1>9. \A i \in Numbers : idom'[i] = IF i = at THEN climb[1] ELSE idom[i]
  BY <1>1, <1>2, <1>4, <1>7 DEF TreeIsSound
<1>10. climb[1] < at
  <2>1. Pred(e) \in Numbers /\ climb[1] \in Above(Pred(e))
    BY <1>2, <1>5, <1>8, PredEdgeFacts
  <2>2. climb[1] <= Pred(e)
    BY <1>2, <2>1, AboveIsSmaller
  <2> QED BY <1>4, <1>5, <1>7, <2>1, <2>2
<1>11. \A x \in Numbers : Above(x) \subseteq Above(x)'
  BY <1>1, <1>2, <1>3, <1>4, <1>7, <1>8, <1>10, AboveOnlyGrows
<1>12. OnTheWay'
  <2>1. ASSUME NEW i \in Numbers, NEW f \in PredEdges(i)
        PROVE  idom'[i] \in Above(Pred(f))
    BY <1>2, <1>8, <1>9, <2>1 DEF OnTheWay
  <2>2. \A i \in Numbers : \A f \in PredEdges(i) : Pred(f) \in Numbers
    BY <1>2, PredEdgeFacts
  <2> QED BY <1>3, <1>11, <2>1, <2>2 DEF OnTheWay
<1>13. WayInv'
  BY <1>1, <1>12 DEF WayInv, Climbing
<1>14. idom[at] <= climb[1]
  BY <1>2, <1>7, <1>8, AboveIsSmaller
<1> QED BY <1>4, <1>7, <1>9, <1>13, <1>14

LEMMA WayOfRunners ==
    ASSUME SearchInv, TreeInv, WayInv,
           (\E b \in Blocks : VisitJoin(b)) \/ StartRunner
    PROVE  WayInv'
<1>1. /\ graph' = graph /\ postorder' = postorder /\ idom' = idom
      /\ phase = "frontier" /\ phase' = phase
  BY DEF VisitJoin, StartRunner
<1>2. Searched /\ TreeIsSound /\ OnTheWay
  BY <1>1, SoundTree DEF WayInv
<1>3. /\ Numbers' = Numbers /\ \A i : PredEdges(i)' = PredEdges(i) /\ Above(i)' = Above(i)
      /\ \A e : Pred(e)' = Pred(e)
  BY <1>1, NumberingFixed, AboveFixed
<1>4. OnTheWay'
  BY <1>1, <1>2, <1>3 DEF OnTheWay
<1>5. CASE \E b \in Blocks : VisitJoin(b)
  <2>1. climb' = <<>>
    BY <1>5 DEF VisitJoin
  <2> QED BY <1>1, <1>4, <2>1 DEF WayInv, Running
<1>6. CASE StartRunner
  <2> DEFINE edge == FirstOf(Untaken)
  <2>1. edge \in PredEdges(at) /\ Pred(edge) \in Numbers /\ at \in Numbers
    BY <1>2, <1>6, UntakenEdge DEF StartRunner
  <2>2. climb' = <<Pred(edge), idom[at]>> /\ at' = at
    BY <1>6 DEF StartRunner
  <2> HIDE DEF edge
  <2>3. idom[at] \in Above(Pred(edge))
    BY <1>2, <2>1 DEF OnTheWay
  <2> QED BY <1>1, <1>3, <1>4, <2>2, <2>3 DEF WayInv, Running
<1> QED BY <1>5, <1>6

\* A runner that has not met the immediate dominator is not at the entry.
LEMMA WayOfRunUp ==
    ASSUME SearchInv, TreeInv, WayInv, RunUp
    PROVE  WayInv' /\ climb'[1] < climb[1] /\ climb'[2] = climb[2]
<1>1. /\ graph' = graph /\ postorder' = postorder /\ idom' = idom /\ at' = at
      /\ phase = "frontier" /\ phase' = phase
      /\ climb # <<>> /\ climb[1] # climb[2]
      /\ climb' = <<idom[climb[1]], climb[2]>>
  BY DEF RunUp, Met
<1>2. Searched /\ TreeIsSound /\ OnTheWay /\ Running
  BY <1>1, SoundTree DEF WayInv
<1>3. climb[1] \in Numbers /\ climb[2] \in Numbers
  BY <1>1 DEF SearchInv, AnalysisTypeOK
<1>4. /\ Numbers' = Numbers /\ \A i : PredEdges(i)' = PredEdges(i) /\ Above(i)' = Above(i)
      /\ \A e : Pred(e)' = Pred(e)
  BY <1>1, NumberingFixed, AboveFixed
<1>5. climb[2] = idom[at] /\ climb[2] \in Above(climb[1])
  BY <1>1, <1>2 DEF Running
<1>6. climb[2] \in Above(idom[climb[1]])
  BY <1>1, <1>2, <1>3, <1>5, AboveNext
<1>7. climb[1] # 0
  <2>1. climb[2] <= climb[1]
    BY <1>2, <1>3, <1>5, AboveIsSmaller
  <2>2. climb[1] \in Nat /\ climb[2] \in Nat
    BY <1>2, <1>3 DEF TreeIsSound
  <2> QED BY <1>1, <2>1, <2>2
<1>8. idom[climb[1]] < climb[1]
  BY <1>2, <1>3, <1>7 DEF TreeIsSound
<1>9. OnTheWay' /\ Running'
  BY <1>1, <1>2, <1>4, <1>5, <1>6 DEF OnTheWay, Running
<1> QED BY <1>1, <1>8, <1>9 DEF WayInv

LEMMA WayStep == SearchInv /\ TreeInv /\ WayInv /\ [Analyse]_domVars => WayInv'
<1> SUFFICES ASSUME SearchInv, TreeInv, WayInv, [Analyse]_domVars
             PROVE  WayInv'
  OBVIOUS
<1>1. CASE Descend \/ Ascend
  BY <1>1 DEF Descend, Ascend, WayInv
<1>2. CASE StartDominators \/ NextPass \/ StartFrontiers
  BY <1>2, WayOfPasses
<1>3. CASE TakePred
  BY <1>3, WayOfTakePred
<1>4. CASE Climb
  BY <1>4, WayOfClimb
<1>5. CASE SetIdom
  BY <1>5, WayOfSetIdom
<1>6. CASE (\E b \in Blocks : VisitJoin(b)) \/ StartRunner
  BY <1>6, WayOfRunners
<1>7. CASE RunUp
  BY <1>7, WayOfRunUp
<1>8. CASE StartPostDominators \/ (\E b \in Blocks : PostDominate(b)) \/ NextPostPass \/ Finish
  BY <1>8 DEF StartPostDominators, PostDominate, NextPostPass, Finish, PostBuilt, WayInv
<1>9. CASE UNCHANGED domVars
  <2>1. /\ graph' = graph /\ postorder' = postorder /\ idom' = idom /\ phase' = phase
        /\ at' = at /\ taken' = taken /\ climb' = climb
    BY <1>9 DEF domVars, treeVars
  <2>2. /\ Numbers' = Numbers /\ \A i : PredEdges(i)' = PredEdges(i) /\ Above(i)' = Above(i)
        /\ \A e : Pred(e)' = Pred(e)
    BY <2>1, NumberingFixed, AboveFixed
  <2>3. (OnTheWay' <=> OnTheWay) /\ (Climbing' <=> Climbing) /\ (Running' <=> Running)
    BY <2>1, <2>2 DEF OnTheWay, Climbing, Running
  <2> QED BY <2>1, <2>3 DEF WayInv
<1> QED BY <1>1, <1>2, <1>3, <1>4, <1>5, <1>6, <1>7, <1>8, <1>9 DEF Analyse

EndInv == SearchInv /\ TreeInv /\ WayInv

LEMMA AlwaysOnTheWay == DomSpec => []EndInv
<1>1. DomInit => EndInv
  BY SearchInit DEF DomInit, EndInv, TreeInv, WayInv
<1>2. EndInv /\ [Analyse]_domVars => EndInv'
  BY SearchStep, TreeStep, WayStep DEF EndInv
<1> QED BY <1>1, <1>2, PTL DEF DomSpec

\* The passes of build only move immediate dominators down the tree, and a
\* step that asks for another pass has moved one: since a number is below
\* Count, the passes end, in a graph with loops as well.
PassesMoveDown ==
    [][phase = "dominate" =>
          /\ \A i \in Numbers : idom[i] <= idom'[i]
          /\ ~changed /\ changed' => \E i \in Numbers : idom[i] < idom'[i]]_domVars

\* The passes of DominatorTree::build are finitely many, for every graph.
THEOREM PassesEnd == DomSpec => PassesMoveDown
<1>1. EndInv /\ [Analyse]_domVars =>
        [phase = "dominate" =>
            /\ \A i \in Numbers : idom[i] <= idom'[i]
            /\ ~changed /\ changed' => \E i \in Numbers : idom[i] < idom'[i]]_domVars
  <2> SUFFICES ASSUME EndInv, Analyse, phase = "dominate"
               PROVE  /\ \A i \in Numbers : idom[i] <= idom'[i]
                      /\ ~changed /\ changed' => \E i \in Numbers : idom[i] < idom'[i]
    OBVIOUS
  <2>1. CASE SetIdom
    <3>1. ~changed /\ changed' => NewIdom # idom[at]
      BY <2>1 DEF SetIdom
    <3> QED BY <2>1, <3>1, WayOfSetIdom DEF EndInv
  <2>2. CASE TakePred \/ Climb \/ NextPass \/ StartFrontiers
    <3>1. idom' = idom /\ (changed' => changed)
      BY <2>2 DEF TakePred, Climb, NextPass, StartFrontiers
    <3>2. \A i \in Numbers : idom[i] <= idom[i]
      BY SoundTree DEF EndInv, TreeIsSound
    <3> QED BY <3>1, <3>2
  <2> QED
    BY <2>1, <2>2 DEF Analyse, Descend, Ascend, StartDominators, VisitJoin, StartRunner, RunUp,
       StartPostDominators, TreeBuilt, PostDominate, NextPostPass, Finish, PostBuilt
<1> QED BY <1>1, AlwaysOnTheWay, PTL DEF DomSpec, PassesMoveDown

\* No number that climbs, in intersect_rpo or from a predecessor of a join,
\* ever stands still short of where it has to go: a runner at the entry would
\* go round for ever (compute_dominance_frontiers has no other way out there).
ClimbsRise == [][Climb \/ RunUp => climb'[1] <= climb[1] /\ climb'[2] <= climb[2]
                                   /\ climb' # climb]_domVars

\* No runner stands still, for every graph (intersect_rpo,
\* compute_dominance_frontiers).
THEOREM ClimbsEnd == DomSpec => ClimbsRise
<1>1. EndInv =>
        [Climb \/ RunUp => climb'[1] <= climb[1] /\ climb'[2] <= climb[2] /\ climb' # climb]_domVars
  <2> SUFFICES ASSUME EndInv, Climb \/ RunUp
               PROVE  climb'[1] <= climb[1] /\ climb'[2] <= climb[2] /\ climb' # climb
    OBVIOUS
  <2>1. CASE Climb
    BY <2>1, WayOfClimb DEF EndInv
  <2>2. CASE RunUp
    <3>1. climb[1] \in Numbers /\ climb[2] \in Numbers /\ idom[climb[1]] \in Numbers
      BY <2>2 DEF EndInv, SearchInv, AnalysisTypeOK, RunUp, Met
    <3>2. TreeIsSound /\ climb'[1] = idom[climb[1]]
      BY <2>2, SoundTree DEF EndInv, RunUp
    <3>3. climb[1] \in Nat /\ climb[2] \in Nat /\ climb'[1] \in Nat
      BY <3>1, <3>2 DEF TreeIsSound
    <3> QED BY <2>2, <3>3, WayOfRunUp DEF EndInv
  <2> QED BY <2>1, <2>2
<1> QED BY <1>1, AlwaysOnTheWay, PTL DEF DomSpec, ClimbsRise

-----------------------------------------------------------------------------
\* The edges the search has still to take.
EdgesLeft ==
    {e \in DOMAIN graph.edges : \/ graph.edges[e].from \notin Visited
                                \/ \E i \in DOMAIN path : e \in path[i].rest}

\* A step of the search takes an edge that was left, or leaves a block for
\* good: compute_rpo visits every block and every edge once.
SearchAdvances ==
    [][phase = "number" /\ phase' = "number" =>
          \/ EdgesLeft' \subseteq EdgesLeft /\ EdgesLeft' # EdgesLeft
          \/ EdgesLeft' = EdgesLeft /\ Len(path') < Len(path)]_domVars

LEMMA DescendTakes ==
    ASSUME SearchInv, Descend
    PROVE  EdgesLeft' \subseteq EdgesLeft /\ EdgesLeft' # EdgesLeft
<1> DEFINE n == Len(path)
<1>1. PICK edge \in Innermost.rest :
        /\ n \in Nat \ {0} /\ path' \in Seq(Frame)
        /\ edge \in EdgesFrom(path[n].block) /\ Target(edge) \in graph.blocks
        /\ \A i \in DOMAIN path :
              /\ path'[i].block = path[i].block
              /\ path'[i].rest = IF i = n THEN path[i].rest \ {edge} ELSE path[i].rest
        /\ \/ Target(edge) \in Visited /\ DOMAIN path' = DOMAIN path
           \/ /\ Target(edge) \notin Visited /\ DOMAIN path' = DOMAIN path \cup {n + 1}
              /\ path'[n + 1].block = Target(edge)
              /\ path'[n + 1].rest = EdgesFrom(Target(edge))
  BY DescendPath
<1> HIDE DEF n
<1>2. /\ AnalysisTypeOK /\ Explored /\ graph' = graph /\ postorder' = postorder
  BY DEF SearchInv, Descend
<1>3. n \in DOMAIN path /\ path[n] = Innermost
  BY <1>1, <1>2 DEF AnalysisTypeOK, n, Innermost
<1>4. /\ path[n].block \in Visited /\ path[n].block \in OnPath
      /\ \A i \in DOMAIN path : path[i].block \in Visited
  BY <1>3 DEF Visited, OnPath
<1>5. Visited \subseteq Visited'
  <2>1. OnPath \subseteq OnPath'
    BY <1>1 DEF OnPath
  <2> QED BY <1>2, <2>1 DEF Visited, Numbered
<1>6. ASSUME NEW e \in EdgesLeft'
      PROVE  e \in EdgesLeft
  <2>1. e \in DOMAIN graph.edges
    BY <1>2, <1>6 DEF EdgesLeft
  <2>2. CASE graph.edges[e].from \notin Visited'
    BY <1>5, <2>1, <2>2 DEF EdgesLeft
  <2>3. ASSUME NEW i \in DOMAIN path', e \in path'[i].rest
        PROVE  e \in EdgesLeft
    <3>1. CASE i \in DOMAIN path
      BY <1>1, <2>1, <2>3, <3>1 DEF EdgesLeft
    <3>2. CASE i \notin DOMAIN path
      <4>1. Target(edge) \notin Visited /\ e \in EdgesFrom(Target(edge))
        BY <1>1, <2>3, <3>2
      <4> QED BY <2>1, <4>1 DEF EdgesFrom, EdgesLeft
    <3> QED BY <3>1, <3>2
  <2> QED BY <1>2, <1>6, <2>2, <2>3 DEF EdgesLeft
<1>7. edge \in EdgesLeft
  BY <1>1, <1>3 DEF EdgesLeft, EdgesFrom
<1>8. edge \notin EdgesLeft'
  <2>1. graph.edges[edge].from = path[n].block
    BY <1>1 DEF EdgesFrom
  <2>2. graph.edges[edge].from \in Visited'
    BY <1>4, <1>5, <2>1
  <2>3. ASSUME NEW i \in DOMAIN path', edge \in path'[i].rest
        PROVE  FALSE
    <3>1. CASE i \in DOMAIN path
      <4>1. i # n /\ edge \in path[i].rest
        BY <1>1, <2>3, <3>1
      <4>2. edge \in EdgesFrom(path[i].block)
        BY <1>2, <3>1, <4>1 DEF Explored
      <4>3. path[i].block = path[n].block
        BY <2>1, <4>2 DEF EdgesFrom
      <4> QED BY <1>2, <1>3, <3>1, <4>1, <4>3 DEF AnalysisTypeOK
    <3>2. CASE i \notin DOMAIN path
      <4>1. Target(edge) \notin Visited /\ edge \in EdgesFrom(Target(edge))
        BY <1>1, <2>3, <3>2
      <4> QED BY <1>4, <2>1, <4>1 DEF EdgesFrom
    <3> QED BY <3>1, <3>2
  <2> QED BY <1>2, <2>2, <2>3 DEF EdgesLeft
<1> QED BY <1>6, <1>7, <1>8

LEMMA AscendLeaves ==
    ASSUME SearchInv, Ascend
    PROVE  EdgesLeft' = EdgesLeft /\ Len(path') < Len(path)
<1> DEFINE n == Len(path)
<1>1. /\ path \in Seq(Frame) /\ path # <<>> /\ path[n].rest = {}
      /\ path' = SubSeq(path, 1, n - 1) /\ graph' = graph
      /\ postorder \in Seq(graph.blocks) /\ postorder' = Append(postorder, path[n].block)
  BY DEF SearchInv, AnalysisTypeOK, Ascend, Innermost
<1>2. n \in Nat \ {0} /\ DOMAIN path = 1 .. n
  BY <1>1
<1>3. /\ Len(path') = n - 1 /\ DOMAIN path' = 1 .. n - 1
      /\ \A i \in 1 .. n - 1 : path'[i] = path[i]
  BY <1>1, <1>2
<1>4. /\ DOMAIN postorder' = DOMAIN postorder \cup {Len(postorder) + 1}
      /\ \A i \in DOMAIN postorder : postorder'[i] = postorder[i]
      /\ postorder'[Len(postorder) + 1] = path[n].block
  BY <1>1
<1> HIDE DEF n
<1>5. OnPath = OnPath' \cup {path[n].block}
  <2>1. DOMAIN path = DOMAIN path' \cup {n}
    BY <1>2, <1>3
  <2> QED BY <1>3, <2>1 DEF OnPath
<1>6. Numbered' = Numbered \cup {path[n].block}
  BY <1>4 DEF Numbered
<1>7. Visited' = Visited
  BY <1>5, <1>6 DEF Visited
<1>8. \A e : (\E i \in DOMAIN path : e \in path[i].rest) <=> (\E i \in DOMAIN path' : e \in path'[i].rest)
  <2>1. \A i \in DOMAIN path : i # n => i \in DOMAIN path'
    BY <1>2, <1>3
  <2>2. \A i \in DOMAIN path' : i \in DOMAIN path
    BY <1>2, <1>3
  <2> QED BY <1>1, <1>3, <2>1, <2>2 DEF n
<1>9. EdgesLeft' = EdgesLeft
  BY <1>1, <1>7, <1>8 DEF EdgesLeft
<1> QED BY <1>2, <1>3, <1>9 DEF n

\* Every step of the search counts, for every graph (dfs_postorder).
THEOREM SearchEnds == DomSpec => SearchAdvances
<1>1. EndInv /\ [Analyse]_domVars =>
        [phase = "number" /\ phase' = "number" =>
            \/ EdgesLeft' \subseteq EdgesLeft /\ EdgesLeft' # EdgesLeft
            \/ EdgesLeft' = EdgesLeft /\ Len(path') < Len(path)]_domVars
  <2> SUFFICES ASSUME EndInv, Analyse, phase = "number", phase' = "number"
               PROVE  \/ EdgesLeft' \subseteq EdgesLeft /\ EdgesLeft' # EdgesLeft
                      \/ EdgesLeft' = EdgesLeft /\ Len(path') < Len(path)
    OBVIOUS
  <2>1. CASE Descend
    BY <2>1, DescendTakes DEF EndInv
  <2>2. CASE Ascend
    BY <2>2, AscendLeaves DEF EndInv
  <2> QED
    BY <2>1, <2>2 DEF Analyse, StartDominators, TakePred, Climb, SetIdom, NextPass,
       StartFrontiers, VisitJoin, StartRunner, RunUp,
       StartPostDominators, TreeBuilt, PostDominate, NextPostPass, Finish, PostBuilt
<1> QED BY <1>1, AlwaysOnTheWay, PTL DEF DomSpec, SearchAdvances
-----------------------------------------------------------------------------
\* What the successors of a block ask for is never more than its set has.
Shrinking ==
    phase = "postdominate" => \A b \in Refinable : OfSuccessors(b) \subseteq postdom[b]

LEMMA PostDominateShrinks ==
    ASSUME PostInv, Shrinking, NEW b \in Blocks, PostDominate(b)
    PROVE  /\ Shrinking'
           /\ \A x \in graph.blocks : postdom'[x] \subseteq postdom[x]
           /\ ~changed /\ changed' => postdom' # postdom
<1>1. /\ phase = "postdominate" /\ b \in todo /\ todo \subseteq Refinable
      /\ postdom' = [postdom EXCEPT ![b] = OfSuccessors(b)]
      /\ changed' = (changed \/ OfSuccessors(b) # postdom[b])
      /\ graph' = graph /\ graph \in Graphs
      /\ postdom \in [graph.blocks -> SUBSET graph.blocks]
  BY DEF PostDominate, PostInv, Scoped, Started
<1>2. b \in graph.blocks /\ OfSuccessors(b) \subseteq postdom[b]
  BY <1>1 DEF Refinable, Shrinking
<1>3. \A x \in graph.blocks : postdom'[x] = IF x = b THEN OfSuccessors(b) ELSE postdom[x]
  BY <1>1, <1>2
<1>4. \A x \in graph.blocks : postdom'[x] \subseteq postdom[x]
  BY <1>2, <1>3
<1>5. Shrinking'
  <2>1. ASSUME NEW x \in Refinable
        PROVE  OfSuccessors(x)' \subseteq postdom'[x]
    <3>1. Successors(x) \subseteq graph.blocks /\ x \in graph.blocks
      BY <1>1, SuccessorsAreBlocks DEF Refinable
    <3>2. OfSuccessors(x)' \subseteq OfSuccessors(x)
      BY <1>1, <1>4, <3>1, GraphFixed DEF OfSuccessors
    <3>3. CASE x = b
      BY <1>3, <3>1, <3>2, <3>3
    <3>4. CASE x # b
      BY <1>1, <1>3, <3>1, <3>2, <3>4 DEF Shrinking
    <3> QED BY <3>3, <3>4
  <2> QED BY <1>1, <2>1, GraphFixed DEF Shrinking
<1>6. ~changed /\ changed' => postdom' # postdom
  BY <1>1, <1>2, <1>3
<1> QED BY <1>4, <1>5, <1>6

LEMMA AlwaysShrinking == DomSpec => [](PostInv /\ Shrinking)
<1>1. DomInit => PostInv /\ Shrinking
  BY PostInit DEF DomInit, Shrinking
<1>2. PostInv /\ Shrinking /\ [Analyse]_domVars => Shrinking'
  <2> SUFFICES ASSUME PostInv, Shrinking, [Analyse]_domVars, phase' = "postdominate"
               PROVE  Shrinking'
    BY DEF Shrinking
  <2>1. CASE StartPostDominators
    <3>1. postdom' = TopSets /\ graph' = graph /\ \A b : Successors(b)' = Successors(b)
      BY <2>1, GraphFixed DEF StartPostDominators
    <3>2. \A b \in Refinable : TopSets[b] = graph.blocks
      BY DEF Refinable, TopSets
    <3>3. \A b \in Refinable : OfSuccessors(b)' \subseteq graph.blocks
      BY <3>1 DEF Refinable, OfSuccessors
    <3> QED BY <3>1, <3>2, <3>3, GraphFixed DEF Shrinking
  <2>2. CASE \E b \in Blocks : PostDominate(b)
    BY <2>2, PostDominateShrinks
  <2>3. CASE NextPostPass \/ UNCHANGED domVars
    <3>1. postdom' = postdom /\ graph' = graph /\ phase = "postdominate"
      BY <2>3 DEF NextPostPass, domVars, postVars
    <3>2. \A b : OfSuccessors(b)' = OfSuccessors(b)
      BY <3>1, GraphFixed DEF OfSuccessors
    <3> QED BY <3>1, <3>2, GraphFixed DEF Shrinking
  <2> QED
    BY <2>1, <2>2, <2>3 DEF Analyse, Descend, Ascend, StartDominators, TakePred, Climb, SetIdom,
       NextPass, StartFrontiers, VisitJoin, StartRunner, RunUp, Finish
<1> QED BY <1>1, <1>2, PostStep, PTL DEF DomSpec

\* The passes of compute_post_dominators only take blocks out of sets, and a
\* step that asks for another pass has taken one, so that the passes end.
PostSetsShrink ==
    [][phase = "postdominate" =>
          /\ \A b \in graph.blocks : postdom'[b] \subseteq postdom[b]
          /\ ~changed /\ changed' => postdom' # postdom]_domVars

\* The passes of compute_post_dominators are finitely many, for every graph.
THEOREM PostPassesEnd == DomSpec => PostSetsShrink
<1>1. PostInv /\ Shrinking /\ [Analyse]_domVars =>
        [phase = "postdominate" =>
            /\ \A b \in graph.blocks : postdom'[b] \subseteq postdom[b]
            /\ ~changed /\ changed' => postdom' # postdom]_domVars
  <2> SUFFICES ASSUME PostInv, Shrinking, Analyse, phase = "postdominate"
               PROVE  /\ \A b \in graph.blocks : postdom'[b] \subseteq postdom[b]
                      /\ ~changed /\ changed' => postdom' # postdom
    OBVIOUS
  <2>1. CASE \E b \in Blocks : PostDominate(b)
    BY <2>1, PostDominateShrinks
  <2>2. CASE NextPostPass \/ Finish
    <3>1. postdom' = postdom /\ (changed' => changed)
      BY <2>2 DEF NextPostPass, Finish, postVars
    <3> QED BY <3>1
  <2> QED
    BY <2>1, <2>2 DEF Analyse, Descend, Ascend, StartDominators, TakePred, Climb, SetIdom,
       NextPass, StartFrontiers, VisitJoin, StartRunner, RunUp, StartPostDominators, TreeBuilt
<1> QED BY <1>1, AlwaysShrinking, PTL DEF DomSpec, PostSetsShrink
=============================================================================
