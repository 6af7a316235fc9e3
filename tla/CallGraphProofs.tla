--------------------------- MODULE CallGraphProofs ---------------------------
(***************************************************************************)
(* Theorems about CallGraph for every set of files and names, every        *)
(* content of the files and every depth of the cascade: no edge dangles,   *)
(* the nodes are the functions of the indexed files, and, when no name is  *)
(* defined twice, every edge is a call and linked calls stay linked.       *)
(***************************************************************************)
EXTENDS CallGraph, TLAPS

(* What is extracted and what is rebuilt joins nodes that are alive.       *)
LEMMA AliveFacts ==
    /\ Alive \subseteq symbols \cup Symbol
    /\ KeptCalls \subseteq Alive \X Alive \/ ~(calls \subseteq symbols \X symbols)
    /\ Extracted(Delta) \subseteq Alive \X Alive
    /\ \A choice \in Choices : Rebuilt(choice) \subseteq Alive \X Alive
<1>1. Defined(Delta) \subseteq Symbol BY DEF Defined
<1>2. Alive \subseteq symbols \cup Symbol BY <1>1 DEF Alive, Kept
<1>3. KeptCalls \subseteq Alive \X Alive \/ ~(calls \subseteq symbols \X symbols)
  BY DEF KeptCalls, Alive
<1>4. Extracted(Delta) \subseteq Alive \X Alive BY DEF Extracted, Alive
<1>5. ASSUME NEW choice \in Choices PROVE Rebuilt(choice) \subseteq Alive \X Alive
  <2>1. choice \in [{x[2] : x \in Alive} -> Alive] BY DEF Choices
  <2>2. \A c \in CallSites(Delta) : c[1][2] \in {x[2] : x \in Alive}
    BY DEF CallSites, Alive
  <2> QED BY <2>1, <2>2 DEF Rebuilt
<1> QED BY <1>2, <1>3, <1>4, <1>5

(* The initial state is well typed.                                        *)
LEMMA InitTyped == Init => TypeOK /\ SymbolsAreIndexed
<1> SUFFICES ASSUME Init PROVE TypeOK /\ SymbolsAreIndexed
  OBVIOUS
<1>1. source \in [Files -> Source] /\ indexed \in [Files -> Source]
  BY SourcesAssumption DEF Init
<1>2. symbols \subseteq Symbol /\ calls \subseteq symbols \X symbols
  BY DEF Init, Defined, Extracted
<1>3. \A x \in Symbol : x[1] \in Files
  BY DEF Symbol
<1>4. SymbolsAreIndexed
  BY <1>3 DEF Init, SymbolsAreIndexed, Defined
<1> QED BY <1>1, <1>2, <1>4 DEF TypeOK

(* Type correctness: no edge dangles.                                      *)
THEOREM TypeCorrect == Spec => []TypeOK
<1>1. TypeOK /\ [Next]_vars => TypeOK'
  <2> SUFFICES ASSUME TypeOK, [Next]_vars PROVE TypeOK'
    OBVIOUS
  <2> USE DEF TypeOK
  <2>1. CASE UNCHANGED vars BY <2>1 DEF vars
  <2>2. ASSUME NEW f \in Files, NEW s \in Sources, Edit(f, s) PROVE TypeOK'
    BY <2>2, SourcesAssumption DEF Edit
  <2>3. CASE Update BY <2>3, AliveFacts DEF Update
  <2>4. CASE Discover BY <2>4 DEF Discover, Defined, Extracted
  <2> QED BY <2>1, <2>2, <2>3, <2>4 DEF Next
<1> QED BY InitTyped, <1>1, PTL DEF Spec

(* The files that changed are extracted, and with a cascade their callers  *)
(* are too.                                                                *)
LEMMA DeltaFacts ==
    /\ Delta \subseteq Files /\ Dirty \subseteq Delta
    /\ Depth >= 1 => CallersOf(Dirty) \subseteq Delta
<1>1. Delta \subseteq Files BY DEF Delta
<1>2. ASSUME NEW f \in Dirty PROVE f \in Delta
  <2> DEFINE chain == [i \in 0..0 |-> f]
  <2>1. f \in Files /\ 0 \in 0..Depth BY <1>2, DepthAssumption DEF Dirty
  <2>2. chain \in [0..0 -> Files] /\ chain[0] = f /\ \A i \in 1..0 : FALSE BY <2>1
  <2> QED BY <1>2, <2>1, <2>2 DEF Delta
<1>3. ASSUME Depth >= 1, NEW f \in CallersOf(Dirty) PROVE f \in Delta
  <2>1. PICK g \in Dirty : f \in CallersOf({g}) BY <1>3 DEF CallersOf
  <2> DEFINE chain == [i \in 0..1 |-> IF i = 0 THEN g ELSE f]
  <2>2. f \in Files /\ g \in Files /\ 1 \in 0..Depth
    BY <1>3, DepthAssumption DEF Dirty, CallersOf
  <2>3. chain \in [0..1 -> Files] /\ chain[0] = g /\ chain[1] = f BY <2>2
  <2>4. \A i \in 1..1 : chain[i] \in CallersOf({chain[i - 1]}) BY <2>1, <2>3
  <2> HIDE DEF chain
  <2> QED BY <1>3, <2>2, <2>3, <2>4 DEF Delta
<1> QED BY <1>1, <1>2, <1>3

(* The nodes of an updated snapshot are the functions of the files.        *)
LEMMA AliveIsDefined == ASSUME TypeOK, SymbolsAreIndexed PROVE Alive = Defined(Files)
<1>1. ASSUME NEW x \in Symbol PROVE x \in Alive <=> x[2] \in DOMAIN source[x[1]]
  <2>1. x[1] \in Files BY DEF Symbol
  <2>2. CASE x[1] \in Delta BY <2>1, <2>2 DEF Alive, Kept, Defined
  <2>3. CASE x[1] \notin Delta
    BY <2>1, <2>3, DeltaFacts DEF Alive, Kept, Defined, Dirty, SymbolsAreIndexed
  <2> QED BY <2>2, <2>3
<1>2. Alive \subseteq Symbol BY AliveFacts DEF TypeOK
<1>3. \A x \in Symbol : x[1] \in Files BY DEF Symbol
<1> QED BY <1>1, <1>2, <1>3 DEF Defined

(* The nodes of the snapshot are the functions of the indexed files, for   *)
(* every instance.                                                         *)
THEOREM SymbolsIndexed == Spec => []SymbolsAreIndexed
<1>1. TypeOK /\ SymbolsAreIndexed /\ [Next]_vars => SymbolsAreIndexed'
  <2> SUFFICES ASSUME TypeOK, SymbolsAreIndexed, [Next]_vars PROVE SymbolsAreIndexed'
    OBVIOUS
  <2> USE DEF TypeOK, SymbolsAreIndexed
  <2>1. CASE UNCHANGED vars BY <2>1 DEF vars
  <2>2. ASSUME NEW f \in Files, NEW s \in Sources, Edit(f, s) PROVE SymbolsAreIndexed'
    BY <2>2 DEF Edit
  <2>3. CASE Update
    <3>1. \A x \in Symbol : x[1] \in Files BY DEF Symbol
    <3> QED BY <2>3, <3>1, AliveIsDefined DEF Update, Defined
  <2>4. CASE Discover
    <3>1. \A x \in Symbol : x[1] \in Files BY DEF Symbol
    <3> QED BY <2>4, <3>1 DEF Discover, Defined
  <2> QED BY <2>1, <2>2, <2>3, <2>4 DEF Next
<1> QED BY InitTyped, TypeCorrect, <1>1, PTL DEF Spec

-----------------------------------------------------------------------------
(* A command runs only when no name is defined twice, if none ever is.     *)
IndexedApart == DistinctNames => Unambiguous(indexed)

(* The inductive invariant behind NoPhantomCalls: an edge of the base can  *)
(* only stand for a call of its source if nodes and files agree.           *)
IInv == TypeOK /\ SymbolsAreIndexed /\ IndexedApart /\ NoPhantomCalls

(* The edges that are extracted are calls of the source files.             *)
LEMMA ExtractedAreCalls ==
    ASSUME NEW files, NEW e \in Extracted(files)
    PROVE  e[2][2] \in source[e[1][1]][e[1][2]]
BY DEF Extracted, CallSites

(* A function is the only one of its name that is alive.                   *)
LEMMA AliveApart ==
    ASSUME TypeOK, SymbolsAreIndexed, Unambiguous(source),
           NEW x \in Alive, NEW y \in Alive, x[2] = y[2]
    PROVE  x = y
<1>1. \A z \in Alive : z \in Symbol /\ z[2] \in DOMAIN source[z[1]]
  BY AliveIsDefined DEF Defined
<1>2. x[1] \in Files /\ y[1] \in Files BY <1>1 DEF Symbol
<1>3. x[1] = y[1] BY <1>1, <1>2 DEF Unambiguous
<1> QED BY <1>1, <1>3 DEF Symbol

(* So a call is rebuilt between the function that makes it and the one it  *)
(* names.                                                                  *)
LEMMA RebuiltAreCalls ==
    ASSUME TypeOK, SymbolsAreIndexed, Unambiguous(source),
           NEW choice \in Choices, NEW c \in CallSites(Delta), c[2] \in DOMAIN choice
    PROVE  /\ choice[c[1][2]] = c[1]
           /\ choice[c[2]] \in Alive /\ choice[c[2]][2] = c[2]
<1>1. c[1] \in Alive BY DEF CallSites, Alive
<1>2. DOMAIN choice = {x[2] : x \in Alive} BY DEF Choices
<1>3. c[1][2] \in DOMAIN choice BY <1>1, <1>2
<1>4. \A n \in DOMAIN choice : choice[n] \in Alive /\ choice[n][2] = n BY DEF Choices
<1> QED BY <1>1, <1>3, <1>4, AliveApart

(* Every edge is a call, for every instance in which no name is defined in *)
(* two files; otherwise it need not be, as the run graph_ambiguous shows.  *)
THEOREM EdgesAreCalls == ASSUME DistinctNames PROVE Spec => []NoPhantomCalls
<1>1. Init => NoPhantomCalls /\ IndexedApart
  BY ExtractedAreCalls DEF Init, NoPhantomCalls, IndexedApart
<1>2. IInv /\ [Next]_vars => NoPhantomCalls' /\ IndexedApart'
  <2> SUFFICES ASSUME IInv, [Next]_vars PROVE NoPhantomCalls' /\ IndexedApart'
    OBVIOUS
  <2> USE DEF IInv
  <2>1. CASE UNCHANGED vars
    BY <2>1 DEF vars, NoPhantomCalls, IndexedApart, Unambiguous
  <2>2. ASSUME NEW f \in Files, NEW s \in Sources, Edit(f, s)
        PROVE  NoPhantomCalls' /\ IndexedApart'
    BY <2>2 DEF Edit, NoPhantomCalls, IndexedApart, Unambiguous
  <2>3. CASE Update /\ Unambiguous(source)
    <3>1. PICK choice \in Choices : calls' = KeptCalls \cup Extracted(Delta) \cup Rebuilt(choice)
      BY <2>3 DEF Update
    <3>2. ASSUME NEW e \in KeptCalls PROVE e[2][2] \in source[e[1][1]][e[1][2]]
      <4>1. e \in calls /\ e[1] \in Symbol /\ e[1][1] \notin Delta
        BY DEF KeptCalls, Kept, TypeOK
      <4>2. source[e[1][1]] = indexed[e[1][1]]
        BY <4>1, DeltaFacts DEF Dirty, Symbol
      <4> QED BY <4>1, <4>2 DEF NoPhantomCalls
    <3>3. ASSUME NEW e \in Rebuilt(choice) PROVE e[2][2] \in source[e[1][1]][e[1][2]]
      <4>1. PICK c \in CallSites(Delta) :
              c[2] \in DOMAIN choice /\ e = <<choice[c[1][2]], choice[c[2]]>>
        BY DEF Rebuilt
      <4>2. c[2] \in source[c[1][1]][c[1][2]] BY DEF CallSites
      <4> QED BY <2>3, <4>1, <4>2, RebuiltAreCalls
    <3> QED
      BY <2>3, <3>1, <3>2, <3>3, ExtractedAreCalls
      DEF Update, NoPhantomCalls, IndexedApart, Unambiguous
  <2>4. CASE Discover /\ Unambiguous(source)
    BY <2>4, ExtractedAreCalls DEF Discover, NoPhantomCalls, IndexedApart, Unambiguous
  <2> QED BY <2>1, <2>2, <2>3, <2>4 DEF Next
<1> QED BY <1>1, <1>2, TypeCorrect, SymbolsIndexed, PTL DEF Spec, IInv

(* A linked call stays linked, for every instance in which no name is      *)
(* defined in two files and the cascade is not switched off.               *)
THEOREM LinkedStayLinked ==
    ASSUME DistinctNames, Depth >= 1 PROVE Spec => CallsStayLinked
<1>1. TypeOK /\ SymbolsAreIndexed /\ [Next]_vars =>
        [Update => \A e \in Extracted(Files) :
            (\E y \in symbols : y[2] = e[2][2] /\ <<e[1], y>> \in calls) => e \in calls']_vars
  <2> SUFFICES ASSUME TypeOK, SymbolsAreIndexed, Next, Update, NEW e \in Extracted(Files),
                      NEW y \in symbols, y[2] = e[2][2], <<e[1], y>> \in calls
               PROVE  e \in calls' \/ vars' = vars
    OBVIOUS
  <2>1. Unambiguous(source) \/ vars' = vars
    BY DEF Next, Edit, Update, Discover, vars, Unambiguous
  <2>2. CASE Unambiguous(source)
    <3>1. PICK choice \in Choices : calls' = KeptCalls \cup Extracted(Delta) \cup Rebuilt(choice)
      BY DEF Update
    <3>2. /\ e[1] \in Defined(Files) /\ e[2] \in Alive /\ e = <<e[1], e[2]>>
          /\ <<e[1], e[2][2]>> \in CallSites(Files)
      BY AliveIsDefined DEF Extracted
    <3>3. CASE e[1][1] \in Delta
      <4> DEFINE c == <<e[1], e[2][2]>>
      <4>1. c \in CallSites(Delta) BY <3>2, <3>3 DEF CallSites, Defined
      <4>2. c[2] \in DOMAIN choice BY <3>2 DEF Choices
      <4>3. choice[c[1][2]] = e[1] /\ choice[c[2]] = e[2]
        BY <2>2, <3>2, <4>1, <4>2, RebuiltAreCalls, AliveApart
      <4>4. e \in Rebuilt(choice) BY <3>2, <4>1, <4>2, <4>3 DEF Rebuilt
      <4> QED BY <3>1, <4>4
    <3>4. CASE e[1][1] \notin Delta
      <4>1. e[1] \in Kept BY <3>4 DEF TypeOK, Kept
      <4>2. e[1][1] \in Files /\ y \in Symbol /\ y[1] \in Files
        BY <3>2 DEF TypeOK, Defined, Symbol
      <4>3. y[1] \notin Dirty
        BY <3>4, <4>2, DeltaFacts DEF CallersOf
      <4>4. y \in Alive
        BY <4>2, <4>3, AliveIsDefined DEF SymbolsAreIndexed, Dirty, Defined
      <4>5. y = e[2] BY <2>2, <3>2, <4>4, AliveApart
      <4>6. e \in KeptCalls BY <3>2, <4>1, <4>5 DEF KeptCalls
      <4> QED BY <3>1, <4>6
    <3> QED BY <3>3, <3>4
  <2> QED BY <2>1, <2>2
<1> QED BY <1>1, TypeCorrect, SymbolsIndexed, PTL DEF Spec, CallsStayLinked
=============================================================================
