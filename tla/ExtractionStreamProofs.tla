----------------------- MODULE ExtractionStreamProofs -----------------------
(***************************************************************************)
(* Theorems about ExtractionStream for every set of files, pool of workers *)
(* and capacity of the channel: type correctness; that what is merged is   *)
(* what the extraction of the file gives; that the hashes recorded are     *)
(* those of the graph; that the stream implements FileIndexing; that the   *)
(* relations are added in the order of the paths; and that every step of   *)
(* a worker or of the command moves one file on.                           *)
(***************************************************************************)
EXTENDS ExtractionStream, FiniteSetTheorems, SequenceTheorems, TLAPS

USE DEF command, stores, counters, working, merging, Goes, Sending, Extracted, Failed,
        Idle

(* What a worker holds, by what it is doing.                               *)
LEMMA WorkerHolds ==
    ASSUME StreamTypeOK, NEW w \in Workers
    PROVE  /\ worker[w].at \in {"read", "parse"} =>
                worker[w].file \in Files /\ worker[w].content \in Contents
           /\ worker[w].at = "send" => worker[w].result \in Result
<1>1. worker[w] \in Doing
  BY DEF StreamTypeOK
<1> QED BY <1>1 DEF Doing

(* Facts are records; with another path they still are.                    *)
LEMMA FactsTyped ==
    /\ \A f \in Files, c \in Contents : Fresh(f, c) \in Facts
    /\ \A facts \in Facts, f \in Files : [facts EXCEPT !.file = f] \in Facts
BY DEF Facts, Fresh

LEMMA ResultTyped ==
    ASSUME NEW f \in Files
    PROVE  /\ \A c \in Contents, facts \in Facts : Extracted(f, c, facts) \in Doing
           /\ Failed(f) \in Doing
<1>1. \A c \in Contents, facts \in Facts :
          [path |-> f, ok |-> TRUE, hash |-> c, facts |-> facts] \in Result
  BY DEF Result, Extraction
<1>2. [path |-> f, ok |-> FALSE] \in Result
  BY DEF Result, Failure
<1> QED BY <1>1, <1>2 DEF Doing

LEMMA IdleTyped == Idle \in Doing
<1>1. [at |-> "idle"] \in [at : {"idle"}]
  OBVIOUS
<1> QED BY <1>1 DEF Doing

LEMMA InitTyped == Init => StreamTypeOK
<1> SUFFICES ASSUME Init PROVE StreamTypeOK
  OBVIOUS
<1>1. worker \in [Workers -> Doing]
  BY IdleTyped DEF Init
<1>2. saved \in [Contents -> Facts \cup {None}]
  BY DEF Init, Earlier
<1>3. graph.nodes = Unmerged /\ DOMAIN graph = {"nodes", "order"}
  BY DEF Init
<1>4. channel \in Seq(Result) /\ Len(channel) <= Capacity
  BY CapacityAssumption DEF Init
<1>5. /\ cache \in [Contents -> Facts \cup {None}]
      /\ merged \in [Files -> Facts \cup {None}]
      /\ hashes \in [Files -> Contents \cup {None}]
      /\ graph.nodes \in [Files -> Facts \cup {None}]
      /\ recorded \in [Files -> Contents \cup {None}]
  BY <1>3 DEF Init, NoCache, Unmerged, Unhashed
<1>6. tails \in Seq(Files) /\ failures \in Seq(Files)
  BY DEF Init
<1> QED BY <1>1, <1>2, <1>3, <1>4, <1>5, <1>6 DEF Init, StreamTypeOK

-----------------------------------------------------------------------------
(* The steps outside the workers keep the state well typed.                *)
LEMMA EndsTyped ==
    ASSUME StreamTypeOK, NEW how \in {"ok", "error", "killed"}, Ends(how),
           recorded' \in [Files -> Contents \cup {None}]
    PROVE  StreamTypeOK'
<1>1. worker' \in [Workers -> Doing]
  BY IdleTyped DEF Ends
<1>2. channel' \in Seq(Result) /\ Len(channel') <= Capacity
  BY CapacityAssumption DEF Ends
<1>3. /\ cache' \in [Contents -> Facts \cup {None}]
      /\ merged' \in [Files -> Facts \cup {None}]
      /\ hashes' \in [Files -> Contents \cup {None}]
  BY DEF Ends, NoCache, Unmerged, Unhashed
<1>4. tails' \in Seq(Files) /\ failures' \in Seq(Files)
  BY DEF Ends
<1> QED BY <1>1, <1>2, <1>3, <1>4 DEF StreamTypeOK, Ends

LEMMA CommandTyped ==
    ASSUME StreamTypeOK,
           \/ \E f \in Files, c \in Contents \cup {None} : Edit(f, c)
           \/ Begin
           \/ \E b \in BOOLEAN : StartExtraction(b)
           \/ WriteGraph \/ SaveFacts \/ Track \/ Kill
    PROVE  StreamTypeOK'
<1>1. CASE \E f \in Files, c \in Contents \cup {None} : Edit(f, c)
  BY <1>1 DEF Edit, StreamTypeOK
<1>2. CASE Begin
  BY <1>2 DEF Begin, Present, StreamTypeOK
<1>3. CASE \E b \in BOOLEAN : StartExtraction(b)
  BY <1>3 DEF StartExtraction, Present, StreamTypeOK, NoCache
<1>4. CASE WriteGraph
  BY <1>4 DEF WriteGraph, StreamTypeOK
<1>5. CASE SaveFacts
  BY <1>5 DEF SaveFacts, StreamTypeOK
<1>6. CASE Track
  <2>1. \A f \in Files : HashOf(f) \in Contents \cup {None}
    BY DEF HashOf, StreamTypeOK
  <2>2. recorded' \in [Files -> Contents \cup {None}]
    BY <1>6, <2>1 DEF Track, StreamTypeOK
  <2> QED BY <1>6, <2>2, EndsTyped DEF Track
<1>7. CASE Kill
  BY <1>7, EndsTyped DEF Kill, StreamTypeOK
<1> QED BY <1>1, <1>2, <1>3, <1>4, <1>5, <1>6, <1>7

(* The merging thread takes results from the channel.                      *)
LEMMA ReceiveTyped == ASSUME StreamTypeOK, Receive PROVE StreamTypeOK'
<1>1. Head(channel) \in Result /\ Tail(channel) \in Seq(Result)
      /\ Len(Tail(channel)) <= Capacity
  BY CapacityAssumption DEF Receive, StreamTypeOK
<1>2. CASE Head(channel).ok
  <2>1. Head(channel) \in Extraction
    BY <1>1, <1>2 DEF Result, Failure
  <2>2. Head(channel).path \in Files /\ Head(channel).facts \in Facts
        /\ Head(channel).hash \in Contents
    BY <2>1 DEF Extraction
  <2>3. tails' \in Seq(Files)
    <3>1. tails' = Append(tails, Head(channel).path)
      BY <1>2 DEF Receive
    <3> QED BY <3>1, <2>2 DEF StreamTypeOK
  <2>5. merged' \in [Files -> Facts \cup {None}]
    BY <1>2, <2>2 DEF Receive, StreamTypeOK
  <2>6. hashes' \in [Files -> Contents \cup {None}] /\ failures' = failures
    BY <1>2, <2>2 DEF Receive, StreamTypeOK
  <2>4. channel' \in Seq(Result) /\ Len(channel') <= Capacity
    BY <1>1 DEF Receive
  <2> QED BY <2>3, <2>4, <2>5, <2>6 DEF Receive, StreamTypeOK
<1>3. CASE ~Head(channel).ok
  <2>1. Head(channel).path \in Files
    BY <1>1 DEF Result, Extraction, Failure
  <2>2. failures' \in Seq(Files)
    <3>1. failures' = Append(failures, Head(channel).path)
      BY <1>3 DEF Receive
    <3> QED BY <3>1, <2>1 DEF StreamTypeOK
  <2>4. UNCHANGED <<tails, merged, hashes>>
    BY <1>3 DEF Receive
  <2>3. channel' \in Seq(Result) /\ Len(channel') <= Capacity
    BY <1>1 DEF Receive
  <2> QED BY <2>2, <2>3, <2>4 DEF Receive, StreamTypeOK
<1> QED BY <1>2, <1>3

-----------------------------------------------------------------------------
(* The steps of the workers keep the state well typed.                     *)
LEMMA StepTyped ==
    ASSUME StreamTypeOK, NEW w \in Workers, Step(w)
    PROVE  StreamTypeOK'
<1>1. ASSUME NEW f \in Files, Read(w, f) PROVE StreamTypeOK'
  <2>1. [at |-> "read", file |-> f, content |-> source[f]] \in Doing
    BY <1>1 DEF Read, StreamTypeOK, Doing
  <2> QED BY <1>1, <2>1 DEF Read, StreamTypeOK
<1>2. ASSUME NEW f \in Files, ReadFails(w, f) PROVE StreamTypeOK'
  BY <1>2, ResultTyped DEF ReadFails, StreamTypeOK
<1>3. CASE Hit(w)
  <2>1. worker[w].file \in Files /\ worker[w].content \in Contents
    BY <1>3, WorkerHolds DEF Hit
  <2>2. cache[worker[w].content] \in Facts
    BY <1>3, <2>1 DEF Hit, Usable, StreamTypeOK
  <2>3. Extracted(worker[w].file, worker[w].content,
                  [cache[worker[w].content] EXCEPT !.file = worker[w].file]) \in Doing
    BY <2>1, <2>2, FactsTyped, ResultTyped
  <2> QED BY <1>3, <2>3 DEF Hit, StreamTypeOK
<1>4. CASE Miss(w)
  <2>1. worker[w] \in [at : {"read", "parse"}, file : Files, content : Contents]
    BY <1>4 DEF Miss, StreamTypeOK, Doing
  <2>2. [worker[w] EXCEPT !.at = "parse"] \in Doing
    BY <2>1 DEF Doing
  <2> QED BY <1>4, <2>2 DEF Miss, StreamTypeOK
<1>5. CASE Parse(w)
  <2>1. worker[w].file \in Files /\ worker[w].content \in Contents
    BY <1>5, WorkerHolds DEF Parse
  <2>2. Fresh(worker[w].file, worker[w].content) \in Facts
    BY <2>1, FactsTyped
  <2>5. /\ Failed(worker[w].file) \in Doing
        /\ Extracted(worker[w].file, worker[w].content,
                     Fresh(worker[w].file, worker[w].content)) \in Doing
    BY <2>1, <2>2, ResultTyped
  <2>3. worker' \in [Workers -> Doing]
    BY <1>5, <2>5 DEF Parse, StreamTypeOK
  <2>4. cache' \in [Contents -> Facts \cup {None}]
    BY <1>5, <2>2 DEF Parse, StreamTypeOK
  <2> QED BY <1>5, <2>3, <2>4 DEF Parse, StreamTypeOK
<1>6. CASE Send(w)
  <2>1. worker[w].result \in Result
    BY <1>6, WorkerHolds DEF Send
  <2>2. channel' \in Seq(Result) /\ Len(channel') <= Capacity
    BY <1>6, <2>1, CapacityAssumption DEF Send, StreamTypeOK
  <2>3. worker' \in [Workers -> Doing]
    BY <1>6, IdleTyped DEF Send, StreamTypeOK
  <2> QED BY <1>6, <2>2, <2>3 DEF Send, StreamTypeOK
<1> QED BY <1>1, <1>2, <1>3, <1>4, <1>5, <1>6 DEF Step

LEMMA NextTyped == StreamTypeOK /\ [Next]_vars => StreamTypeOK'
<1> SUFFICES ASSUME StreamTypeOK, [Next]_vars PROVE StreamTypeOK'
  OBVIOUS
<1>1. CASE UNCHANGED vars
  BY <1>1 DEF vars, StreamTypeOK
<1>2. CASE Next
  BY <1>2, CommandTyped, ReceiveTyped, StepTyped DEF Next, Finish
<1> QED BY <1>1, <1>2

(* The variables keep their types, and the channel its bound.              *)
THEOREM StreamTyped == Spec => []StreamTypeOK
BY InitTyped, NextTyped, PTL DEF Spec

-----------------------------------------------------------------------------
(* What is merged is what the extraction gives.                            *)

\* Facts that the file f may have, wherever they were extracted.
Sound(facts, f) == facts.file = f /\ (facts.content \notin Empty => facts.stem = Stem[f])

SoundResult(r) == r.ok => Sound(r.facts, r.path) /\ r.facts.content = r.hash

SoundCache(store) ==
    \A c \in Contents : store[c] # None =>
        store[c].content = c /\ Sound(store[c], store[c].file)

SoundInv ==
    /\ SoundCache(cache) /\ SoundCache(saved)
    /\ \A w \in Workers : worker[w].at = "send" => SoundResult(worker[w].result)
    /\ \A i \in 1..Len(channel) : SoundResult(channel[i])
    /\ \A f \in Files : merged[f] # None =>
            Sound(merged[f], f) /\ merged[f].content = hashes[f]

LEMMA SoundImplies ==
    ASSUME Linked = {}, SoundInv PROVE MergedIsExtracted
BY DEF SoundInv, Sound, MergedIsExtracted

LEMMA InitSound == Init => SoundInv
<1> SUFFICES ASSUME Init PROVE SoundInv
  OBVIOUS
<1>1. SoundCache(saved)
  BY DEF Init, Earlier, SoundCache, Sound, Fresh
<1>2. SoundCache(cache)
  BY DEF Init, NoCache, SoundCache
<1> QED BY <1>1, <1>2 DEF Init, SoundInv, Unmerged

LEMMA EndsSound ==
    ASSUME SoundInv, NEW how, Ends(how) PROVE SoundInv'
<1>1. SoundCache(cache') /\ SoundCache(saved')
  BY DEF Ends, NoCache, SoundInv, SoundCache
<1> QED BY <1>1 DEF Ends, SoundInv, Unmerged, SoundCache

LEMMA CommandSound ==
    ASSUME StreamTypeOK, SoundInv,
           \/ \E f \in Files, c \in Contents \cup {None} : Edit(f, c)
           \/ Begin
           \/ \E b \in BOOLEAN : StartExtraction(b)
           \/ WriteGraph \/ SaveFacts \/ Track \/ Kill
    PROVE  SoundInv'
<1>1. CASE (\E f \in Files, c \in Contents \cup {None} : Edit(f, c)) \/ Begin \/ WriteGraph
  BY <1>1 DEF Edit, Begin, WriteGraph, SoundInv, SoundCache
<1>2. CASE \E b \in BOOLEAN : StartExtraction(b)
  <2>1. SoundCache(cache')
    BY <1>2 DEF StartExtraction, NoCache, SoundInv, SoundCache
  <2> QED BY <1>2, <2>1 DEF StartExtraction, SoundInv, SoundCache
<1>3. CASE SaveFacts
  <2>1. SoundCache(saved')
    BY <1>3 DEF SaveFacts, SoundInv
  <2> QED BY <1>3, <2>1 DEF SaveFacts, SoundInv, SoundCache
<1>4. CASE Track \/ Kill
  BY <1>4, EndsSound DEF Track, Kill
<1> QED BY <1>1, <1>2, <1>3, <1>4

LEMMA ReceiveSound == ASSUME StreamTypeOK, SoundInv, Receive PROVE SoundInv'
<1>1. channel # << >> /\ channel \in Seq(Result)
  BY DEF Receive, StreamTypeOK
<1>2. SoundResult(Head(channel)) /\ Head(channel) \in Result
  BY <1>1 DEF SoundInv
<1>3. \A i \in 1..Len(channel') : SoundResult(channel'[i])
  <2> SUFFICES ASSUME NEW i \in 1..Len(channel') PROVE SoundResult(channel'[i])
    OBVIOUS
  <2>1. channel' = Tail(channel)
    BY DEF Receive
  <2>2. channel'[i] = channel[i + 1] /\ i + 1 \in 1..Len(channel)
    BY <1>1, <2>1
  <2> QED BY <2>2 DEF SoundInv
<1>4. \A f \in Files : merged'[f] # None =>
          Sound(merged'[f], f) /\ merged'[f].content = hashes'[f]
  <2> SUFFICES ASSUME NEW f \in Files, merged'[f] # None
               PROVE  Sound(merged'[f], f) /\ merged'[f].content = hashes'[f]
    OBVIOUS
  <2>1. CASE Head(channel).ok /\ Head(channel).path = f
    <3>1. merged'[f] = Head(channel).facts /\ hashes'[f] = Head(channel).hash
      BY <2>1 DEF Receive, StreamTypeOK
    <3> QED BY <1>2, <2>1, <3>1 DEF SoundResult
  <2>2. CASE ~(Head(channel).ok /\ Head(channel).path = f)
    <3>1. merged'[f] = merged[f] /\ hashes'[f] = hashes[f]
      BY <2>2 DEF Receive, StreamTypeOK
    <3> QED BY <3>1 DEF SoundInv
  <2> QED BY <2>1, <2>2
<1> QED BY <1>3, <1>4 DEF Receive, SoundInv, SoundCache

(* A step of a worker: what it sends is sound, whether it comes from the   *)
(* cache or from the parser.                                               *)
LEMMA StepSound ==
    ASSUME StreamTypeOK, SoundInv, NEW w \in Workers, Step(w)
    PROVE  SoundInv'
<1>1. CASE \E f \in Files : Read(w, f) \/ ReadFails(w, f)
  <2>1. \A v \in Workers : worker'[v].at = "send" => SoundResult(worker'[v].result)
    <3>1. PICK f \in Files : Read(w, f) \/ ReadFails(w, f)
      BY <1>1
    <3>2. CASE Read(w, f)
      BY <3>2 DEF Read, SoundInv, StreamTypeOK
    <3>3. CASE ReadFails(w, f)
      BY <3>3 DEF ReadFails, SoundInv, SoundResult, StreamTypeOK
    <3> QED BY <3>1, <3>2, <3>3
  <2> QED BY <1>1, <2>1 DEF Read, ReadFails, SoundInv, SoundCache
<1>2. CASE Hit(w)
  <2> DEFINE f == worker[w].file
             c == worker[w].content
             hit == cache[c]
             facts == [hit EXCEPT !.file = f]
  <2>1. f \in Files /\ c \in Contents
    BY <1>2, WorkerHolds DEF Hit
  <2>2. hit \in Facts /\ hit # None /\ (hit.content \in Empty \/ Stem[hit.file] = Stem[f])
    BY <1>2, <2>1 DEF Hit, Usable, StreamTypeOK
  <2>3. hit.content = c /\ (c \notin Empty => hit.stem = Stem[f])
    BY <2>1, <2>2 DEF SoundInv, SoundCache, Sound
  <2>4. Sound(facts, f) /\ facts.content = c
    BY <2>2, <2>3 DEF Sound, Facts
  <2>5. SoundResult([path |-> f, ok |-> TRUE, hash |-> c, facts |-> facts])
    BY <2>4 DEF SoundResult
  <2>6. \A v \in Workers : worker'[v].at = "send" => SoundResult(worker'[v].result)
    BY <1>2, <2>5 DEF Hit, SoundInv, StreamTypeOK
  <2> QED BY <1>2, <2>6 DEF Hit, SoundInv, SoundCache
<1>3. CASE Miss(w)
  <2>1. worker[w] \in [at : {"read", "parse"}, file : Files, content : Contents]
    BY <1>3 DEF Miss, StreamTypeOK, Doing
  <2>2. [worker[w] EXCEPT !.at = "parse"].at = "parse"
    BY <2>1
  <2>3. \A v \in Workers : worker'[v].at = "send" => SoundResult(worker'[v].result)
    BY <1>3, <2>2 DEF Miss, SoundInv, StreamTypeOK
  <2> QED BY <1>3, <2>3 DEF Miss, SoundInv, SoundCache
<1>4. CASE Parse(w)
  <2> DEFINE f == worker[w].file
             c == worker[w].content
  <2>1. f \in Files /\ c \in Contents
    BY <1>4, WorkerHolds DEF Parse
  <2>2. Fresh(f, c).content = c /\ Sound(Fresh(f, c), f) /\ Fresh(f, c).file = f
    BY DEF Fresh, Sound
  <2>3. SoundCache(cache')
    BY <1>4, <2>1, <2>2 DEF Parse, SoundInv, SoundCache, StreamTypeOK
  <2>4. /\ SoundResult([path |-> f, ok |-> TRUE, hash |-> c, facts |-> Fresh(f, c)])
        /\ SoundResult([path |-> f, ok |-> FALSE])
    BY <2>2 DEF SoundResult
  <2>5. \A v \in Workers : worker'[v].at = "send" => SoundResult(worker'[v].result)
    <3>1. \A v \in Workers \ {w} : worker'[v] = worker[v]
      BY <1>4 DEF Parse, StreamTypeOK
    <3>2. CASE c \in Broken
      <4>1. worker'[w].result = [path |-> f, ok |-> FALSE]
        BY <1>4, <3>2 DEF Parse, StreamTypeOK
      <4> QED BY <2>4, <3>1, <4>1 DEF SoundInv
    <3>3. CASE c \notin Broken
      <4>1. worker'[w].result = [path |-> f, ok |-> TRUE, hash |-> c, facts |-> Fresh(f, c)]
        BY <1>4, <3>3 DEF Parse, StreamTypeOK
      <4> QED BY <2>4, <3>1, <4>1 DEF SoundInv
    <3> QED BY <3>2, <3>3
  <2> QED BY <1>4, <2>3, <2>5 DEF Parse, SoundInv, SoundCache
<1>5. CASE Send(w)
  <2>1. channel' = Append(channel, worker[w].result) /\ SoundResult(worker[w].result)
    BY <1>5 DEF Send, SoundInv
  <2>2. \A i \in 1..Len(channel') : SoundResult(channel'[i])
    <3>1. worker[w].result \in Result /\ channel \in Seq(Result)
      BY <1>5, WorkerHolds DEF Send, StreamTypeOK
    <3>2. /\ Len(channel') = Len(channel) + 1
          /\ channel'[Len(channel) + 1] = worker[w].result
          /\ \A i \in 1..Len(channel) : channel'[i] = channel[i]
      BY <2>1, <3>1
    <3> QED BY <2>1, <3>1, <3>2 DEF SoundInv
  <2>3. \A v \in Workers : worker'[v].at = "send" => SoundResult(worker'[v].result)
    BY <1>5 DEF Send, SoundInv, StreamTypeOK
  <2> QED BY <1>5, <2>2, <2>3 DEF Send, SoundInv, SoundCache
<1> QED BY <1>1, <1>2, <1>3, <1>4, <1>5 DEF Step

LEMMA NextSound == StreamTypeOK /\ SoundInv /\ [Next]_vars => SoundInv'
<1> SUFFICES ASSUME StreamTypeOK, SoundInv, [Next]_vars PROVE SoundInv'
  OBVIOUS
<1>1. CASE UNCHANGED vars
  BY <1>1 DEF vars, SoundInv, SoundCache
<1>2. CASE Next
  BY <1>2, CommandSound, ReceiveSound, StepSound DEF Next, Finish
<1> QED BY <1>1, <1>2

(* If the plugins look at no more of a path than the stem of the name,     *)
(* what is merged for a file is what its extraction gives.                 *)
THEOREM MergedExtracted == Linked = {} => (Spec => []MergedIsExtracted)
<1> SUFFICES ASSUME Linked = {} PROVE Spec => []MergedIsExtracted
  OBVIOUS
<1>1. SoundInv => MergedIsExtracted
  BY SoundImplies
<1> QED BY InitTyped, NextTyped, InitSound, NextSound, <1>1, PTL DEF Spec

-----------------------------------------------------------------------------
(* The hashes recorded are those of the graph.                             *)

HashInv ==
    /\ pc # "idle" => outcome = "none"
    /\ pc \in {"save", "track"} => graph.nodes = merged
    /\ RecordedIsMerged

LEMMA InitHash == Init => HashInv
BY DEF Init, HashInv, RecordedIsMerged

LEMMA TrackHash == ASSUME StreamTypeOK, SoundInv, HashInv, Track PROVE HashInv'
<1>1. pc' = "idle" /\ merged' = Unmerged /\ graph' = graph /\ graph.nodes = merged
  BY DEF Track, Ends, HashInv
<1>2. ASSUME outcome' = "ok", NEW f \in Files, graph.nodes[f] # None, recorded'[f] # None
      PROVE  recorded'[f] = graph.nodes[f].content
  <2>1. recorded' = [g \in Files |-> IF g \in listed THEN HashOf(g) ELSE None]
    BY <1>2 DEF Track, Ends
  <2>2. recorded'[f] = HashOf(f)
    BY <1>2, <2>1
  <2>3. hashes[f] = merged[f].content /\ merged[f] \in Facts
    BY <1>1, <1>2 DEF SoundInv, StreamTypeOK
  <2>4. hashes[f] # None
    BY <2>3, NoneAssumption DEF Facts
  <2> QED BY <1>1, <2>2, <2>3, <2>4 DEF HashOf
<1> QED BY <1>1, <1>2 DEF HashInv, RecordedIsMerged

LEMMA NextHash == StreamTypeOK /\ SoundInv /\ HashInv /\ [Next]_vars => HashInv'
<1> SUFFICES ASSUME StreamTypeOK, SoundInv, HashInv, [Next]_vars PROVE HashInv'
  OBVIOUS
<1>1. CASE UNCHANGED vars
  BY <1>1 DEF vars, HashInv, RecordedIsMerged
<1>2. CASE \E f \in Files, c \in Contents \cup {None} : Edit(f, c)
  BY <1>2 DEF Edit, HashInv, RecordedIsMerged
<1>3. CASE Begin \/ \E b \in BOOLEAN : StartExtraction(b)
  BY <1>3 DEF Begin, StartExtraction, HashInv, RecordedIsMerged
<1>4. CASE \E w \in Workers : Step(w)
  BY <1>4 DEF Step, Read, ReadFails, Hit, Miss, Parse, Send, HashInv, RecordedIsMerged
<1>5. CASE Receive \/ WriteGraph
  BY <1>5 DEF Receive, WriteGraph, HashInv, RecordedIsMerged
<1>6. CASE SaveFacts
  BY <1>6 DEF SaveFacts, HashInv, RecordedIsMerged
<1>7. CASE Kill
  BY <1>7 DEF Kill, Ends, HashInv, RecordedIsMerged
<1> QED BY <1>1, <1>2, <1>3, <1>4, <1>5, <1>6, <1>7, TrackHash DEF Next, Finish

(* The hash recorded for a file of the graph is that of the bytes its      *)
(* symbols were extracted from, however the file changed meanwhile.        *)
THEOREM RecordedMerged == Spec => []RecordedIsMerged
<1>1. HashInv => RecordedIsMerged
  BY DEF HashInv
<1> QED BY InitTyped, NextTyped, InitSound, NextSound, InitHash, NextHash, <1>1, PTL DEF Spec

-----------------------------------------------------------------------------
(* The stream implements FileIndexing: no file is lost or counted twice.   *)
(* A file is in one place: still to be taken, with one worker, at one      *)
(* place of the channel, merged or failed.                                 *)

Busy(w) == worker[w].at # "idle"

HeldFile(w) == IF worker[w].at = "send" THEN worker[w].result.path ELSE worker[w].file

Ended == ToSet(tails) \cup ToSet(failures)

PlaceInv ==
    /\ pc # "extract" =>
        /\ todo = {} /\ channel = << >>
        /\ \A w \in Workers : ~Busy(w)
    /\ pc \in {"idle", "list"} => tails = << >> /\ failures = << >>
    /\ pc \in {"save", "track"} => files \subseteq Ended
    /\ \A w \in Workers : Busy(w) => HeldFile(w) \in files \ (todo \cup Ended)
    /\ \A w, v \in Workers : Busy(w) /\ Busy(v) /\ w # v => HeldFile(w) # HeldFile(v)
    /\ \A i \in 1..Len(channel) :
        /\ channel[i].path \in files \ (todo \cup Ended)
        /\ \A w \in Workers : Busy(w) => HeldFile(w) # channel[i].path
        /\ \A j \in 1..Len(channel) : i # j => channel[i].path # channel[j].path
    /\ todo \cap Ended = {}
    /\ \A f \in files : \/ f \in todo \cup Ended
                        \/ \E w \in Workers : Busy(w) /\ HeldFile(w) = f
                        \/ \E i \in 1..Len(channel) : channel[i].path = f
    /\ \A f \in Files : merged[f] # None <=> f \in ToSet(tails)

LEMMA ToSetAppend ==
    ASSUME NEW S, NEW s \in Seq(S), NEW x \in S
    PROVE  ToSet(Append(s, x)) = ToSet(s) \cup {x}
<1>1. /\ DOMAIN s = 1..Len(s) /\ DOMAIN Append(s, x) = 1..(Len(s) + 1)
      /\ Len(s) \in Nat
  OBVIOUS
<1>2. \A i \in 1..Len(s) : Append(s, x)[i] = s[i]
  OBVIOUS
<1>3. Append(s, x)[Len(s) + 1] = x
  OBVIOUS
<1> QED BY <1>1, <1>2, <1>3 DEF ToSet

LEMMA ToSetEmpty == ToSet(<< >>) = {}
BY DEF ToSet

LEMMA InitPlace == Init => PlaceInv
<1> SUFFICES ASSUME Init PROVE PlaceInv
  OBVIOUS
<1>1. Ended = {} /\ ToSet(tails) = {}
  BY ToSetEmpty DEF Init, Ended
<1>2. \A w \in Workers : ~Busy(w)
  BY DEF Init, Busy
<1> QED BY <1>1, <1>2 DEF Init, PlaceInv, Unmerged

(* Nothing is anywhere once the process has ended.                         *)
LEMMA EndsPlace == ASSUME NEW how, Ends(how) PROVE PlaceInv'
<1>1. Ended' = {} /\ ToSet(tails)' = {}
  BY ToSetEmpty DEF Ends, Ended
<1>2. \A w \in Workers : ~Busy(w)'
  BY DEF Ends, Busy
<1> QED BY <1>1, <1>2 DEF Ends, PlaceInv, Unmerged

LEMMA CommandPlace ==
    ASSUME StreamTypeOK, PlaceInv,
           \/ \E f \in Files, c \in Contents \cup {None} : Edit(f, c)
           \/ Begin
           \/ \E b \in BOOLEAN : StartExtraction(b)
           \/ WriteGraph \/ SaveFacts \/ Track \/ Kill
    PROVE  PlaceInv'
<1>1. CASE \/ \E f \in Files, c \in Contents \cup {None} : Edit(f, c)
           \/ Begin \/ SaveFacts
  BY <1>1 DEF Edit, Begin, SaveFacts, PlaceInv, Busy, HeldFile, Ended
<1>2. CASE \E b \in BOOLEAN : StartExtraction(b)
  <2>1. /\ tails = << >> /\ failures = << >> /\ channel = << >> /\ todo' = files'
        /\ UNCHANGED <<tails, failures, channel, worker, merged>> /\ pc' = "extract"
        /\ \A w \in Workers : ~Busy(w)
    BY <1>2 DEF StartExtraction, PlaceInv
  <2>2. Ended' = {}
    BY <2>1, ToSetEmpty DEF Ended
  <2>3. \A w \in Workers : ~Busy(w)'
    BY <2>1 DEF Busy
  <2> QED BY <2>1, <2>2, <2>3 DEF PlaceInv
<1>3. CASE WriteGraph
  <2>1. files \subseteq Ended
    BY <1>3 DEF WriteGraph, Closed, PlaceInv, Busy
  <2>2. \A w \in Workers : ~Busy(w)
    BY <1>3 DEF WriteGraph, Closed, Busy
  <2> QED BY <1>3, <2>1, <2>2 DEF WriteGraph, Closed, PlaceInv, Busy, HeldFile, Ended
<1>4. CASE Track \/ Kill
  BY <1>4, EndsPlace DEF Track, Kill
<1> QED BY <1>1, <1>2, <1>3, <1>4

(* A worker takes a file, and keeps it.                                    *)
LEMMA TakePlace ==
    ASSUME StreamTypeOK, PlaceInv, NEW w \in Workers, NEW f \in Files,
           Read(w, f) \/ ReadFails(w, f)
    PROVE  PlaceInv'
<1>1. /\ ~Busy(w) /\ f \in todo /\ todo' = todo \ {f}
      /\ UNCHANGED <<pc, files, tails, failures, channel, merged>>
  BY DEF Read, ReadFails, Busy
<1>2. Busy(w)' /\ HeldFile(w)' = f
  BY DEF Read, ReadFails, StreamTypeOK, Busy, HeldFile
<1>3. \A v \in Workers \ {w} : worker'[v] = worker[v]
  BY DEF Read, ReadFails, StreamTypeOK
<1>4. \A v \in Workers \ {w} : (Busy(v)' <=> Busy(v)) /\ HeldFile(v)' = HeldFile(v)
  BY <1>3 DEF Busy, HeldFile
<1>5. Ended' = Ended /\ f \in files
  BY <1>1 DEF Ended, StreamTypeOK
<1>6. pc = "extract"
  BY <1>1 DEF PlaceInv
<1> QED BY <1>1, <1>2, <1>4, <1>5, <1>6 DEF PlaceInv

LEMMA KeepPlace ==
    ASSUME StreamTypeOK, PlaceInv, NEW w \in Workers, Hit(w) \/ Miss(w) \/ Parse(w)
    PROVE  PlaceInv'
<1>1. /\ Busy(w)
      /\ UNCHANGED <<pc, files, todo, tails, failures, channel, merged>>
  BY DEF Hit, Miss, Parse, Busy
<1>2. Busy(w)' /\ HeldFile(w)' = HeldFile(w)
  <2>1. CASE Hit(w)
    BY <2>1 DEF Hit, StreamTypeOK, Busy, HeldFile
  <2>2. CASE Miss(w)
    <3>1. worker[w] \in [at : {"read", "parse"}, file : Files, content : Contents]
      BY <2>2 DEF Miss, StreamTypeOK, Doing
    <3>2. worker'[w].at = "parse" /\ worker'[w].file = worker[w].file
      BY <2>2, <3>1 DEF Miss, StreamTypeOK
    <3> QED BY <2>2, <3>2 DEF Miss, Busy, HeldFile
  <2>3. CASE Parse(w)
    <3>1. worker'[w].at = "send" /\ worker'[w].result.path = worker[w].file
      BY <2>3 DEF Parse, StreamTypeOK
    <3> QED BY <2>3, <3>1 DEF Parse, Busy, HeldFile
  <2> QED BY <2>1, <2>2, <2>3
<1>3. \A v \in Workers \ {w} : worker'[v] = worker[v]
  BY DEF Hit, Miss, Parse, StreamTypeOK
<1>4. \A v \in Workers : (Busy(v)' <=> Busy(v)) /\ HeldFile(v)' = HeldFile(v)
  BY <1>1, <1>2, <1>3 DEF Busy, HeldFile
<1> QED BY <1>1, <1>4 DEF PlaceInv, Ended

(* What a worker held is last in the channel.                              *)
LEMMA SendPlace ==
    ASSUME StreamTypeOK, PlaceInv, NEW w \in Workers, Send(w)
    PROVE  PlaceInv'
<1> DEFINE n == Len(channel)
<1>1. worker[w].result \in Result /\ channel \in Seq(Result)
  BY WorkerHolds DEF Send, StreamTypeOK
<1>2. /\ channel' = Append(channel, worker[w].result)
      /\ UNCHANGED <<pc, files, todo, tails, failures, merged>>
  BY DEF Send
<1>3. /\ n \in Nat /\ Len(channel') = n + 1
      /\ channel'[n + 1] = worker[w].result
      /\ \A i \in 1..n : channel'[i] = channel[i]
  BY <1>1, <1>2
<1>4. Busy(w) /\ HeldFile(w) = channel'[n + 1].path
  BY <1>3 DEF Send, Busy, HeldFile
<1>5. ~Busy(w)'
  BY DEF Send, StreamTypeOK, Busy
<1>6. \A v \in Workers \ {w} : worker'[v] = worker[v]
  BY DEF Send, StreamTypeOK
<1>7. \A v \in Workers \ {w} : (Busy(v)' <=> Busy(v)) /\ HeldFile(v)' = HeldFile(v)
  BY <1>6 DEF Busy, HeldFile
<1>8. Ended' = Ended /\ pc = "extract"
  BY <1>2, <1>4 DEF Ended, PlaceInv
<1>9. \A i \in 1..Len(channel') :
        /\ channel'[i].path \in files \ (todo \cup Ended)
        /\ \A v \in Workers : Busy(v)' => HeldFile(v)' # channel'[i].path
        /\ \A j \in 1..Len(channel') : i # j => channel'[i].path # channel'[j].path
  <2> SUFFICES ASSUME NEW i \in 1..(n + 1)
      PROVE  /\ channel'[i].path \in files \ (todo \cup Ended)
             /\ \A v \in Workers : Busy(v)' => HeldFile(v)' # channel'[i].path
             /\ \A j \in 1..(n + 1) : i # j => channel'[i].path # channel'[j].path
    BY <1>3
  <2>1. CASE i = n + 1
    <3>1. \A j \in 1..n : channel'[j].path # HeldFile(w)
      BY <1>3, <1>4 DEF PlaceInv
    <3>2. \A j \in 1..(n + 1) : i # j => j \in 1..n
      BY <1>3, <2>1
    <3> QED BY <2>1, <3>1, <3>2, <1>4, <1>5, <1>7 DEF PlaceInv
  <2>2. CASE i # n + 1
    <3>1. i \in 1..n /\ channel'[i] = channel[i]
      BY <1>3, <2>2
    <3>2. \A j \in 1..(n + 1) : j # n + 1 => j \in 1..n
      BY <1>3
    <3> QED BY <3>1, <3>2, <1>3, <1>4, <1>5, <1>7 DEF PlaceInv
  <2> QED BY <2>1, <2>2
<1>10. \A f \in files : \/ f \in todo \cup Ended
                        \/ \E v \in Workers : Busy(v)' /\ HeldFile(v)' = f
                        \/ \E i \in 1..Len(channel') : channel'[i].path = f
  <2> SUFFICES ASSUME NEW f \in files, f \notin todo \cup Ended,
                      ~\E v \in Workers : Busy(v)' /\ HeldFile(v)' = f
               PROVE  \E i \in 1..(n + 1) : channel'[i].path = f
    BY <1>3
  <2>1. CASE HeldFile(w) = f
    BY <2>1, <1>3, <1>4
  <2>2. CASE HeldFile(w) # f
    <3>1. \E i \in 1..n : channel[i].path = f
      BY <2>2, <1>7 DEF PlaceInv
    <3> QED BY <3>1, <1>3
  <2> QED BY <2>1, <2>2
<1> QED BY <1>2, <1>5, <1>7, <1>8, <1>9, <1>10 DEF PlaceInv

(* What was first in the channel is merged or failed.                      *)
LEMMA ReceivePlace ==
    ASSUME StreamTypeOK, PlaceInv, Receive
    PROVE  /\ PlaceInv'
           /\ Head(channel).path \in files \ Ended
           /\ Head(channel).ok =>
                ToSet(tails') = ToSet(tails) \cup {Head(channel).path}
                /\ failures' = failures
           /\ ~Head(channel).ok =>
                ToSet(failures') = ToSet(failures) \cup {Head(channel).path}
                /\ tails' = tails
<1> DEFINE n == Len(channel)
           f == Head(channel).path
<1>1. channel \in Seq(Result) /\ channel # << >> /\ channel' = Tail(channel)
      /\ UNCHANGED <<pc, files, todo, worker>> /\ pc = "extract"
  BY DEF Receive, StreamTypeOK
<1>2. /\ n \in Nat /\ n >= 1 /\ Len(channel') = n - 1 /\ f = channel[1].path
      /\ \A i \in 1..(n - 1) : channel'[i] = channel[i + 1]
  BY <1>1
<1>3. f \in files \ (todo \cup Ended) /\ f \in Files
  BY <1>2 DEF PlaceInv, StreamTypeOK
<1>4. Head(channel).ok =>
        ToSet(tails') = ToSet(tails) \cup {f} /\ failures' = failures
  <2>1. Head(channel).ok => tails' = Append(tails, f) /\ failures' = failures
    BY DEF Receive
  <2>2. tails \in Seq(Files) /\ f \in Files
    BY <1>3 DEF StreamTypeOK
  <2>3. ToSet(Append(tails, f)) = ToSet(tails) \cup {f}
    BY <2>2, ToSetAppend
  <2> QED BY <2>1, <2>3
<1>5. ~Head(channel).ok =>
        ToSet(failures') = ToSet(failures) \cup {f} /\ tails' = tails
  <2>1. ~Head(channel).ok => failures' = Append(failures, f) /\ tails' = tails
    BY DEF Receive
  <2>2. failures \in Seq(Files) /\ f \in Files
    BY <1>3 DEF StreamTypeOK
  <2>3. ToSet(Append(failures, f)) = ToSet(failures) \cup {f}
    BY <2>2, ToSetAppend
  <2> QED BY <2>1, <2>3
<1>6. Ended' = Ended \cup {f}
  BY <1>4, <1>5 DEF Ended
<1>7. \A i \in 1..Len(channel') :
        /\ channel'[i] = channel[i + 1] /\ i + 1 \in 1..n /\ i + 1 # 1
        /\ channel'[i].path # f
  BY <1>2 DEF PlaceInv
<1>8. \A i \in 1..Len(channel') :
        /\ channel'[i].path \in files \ (todo \cup Ended')
        /\ \A w \in Workers : Busy(w) => HeldFile(w) # channel'[i].path
        /\ \A j \in 1..Len(channel') : i # j => channel'[i].path # channel'[j].path
  <2> SUFFICES ASSUME NEW i \in 1..Len(channel')
      PROVE  /\ channel'[i].path \in files \ (todo \cup Ended')
             /\ \A w \in Workers : Busy(w) => HeldFile(w) # channel'[i].path
             /\ \A j \in 1..Len(channel') : i # j => channel'[i].path # channel'[j].path
    OBVIOUS
  <2>1. channel'[i].path \in files \ (todo \cup Ended')
    BY <1>6, <1>7 DEF PlaceInv
  <2>2. \A w \in Workers : Busy(w) => HeldFile(w) # channel'[i].path
    BY <1>7 DEF PlaceInv
  <2>3. ASSUME NEW j \in 1..Len(channel'), i # j
        PROVE  channel'[i].path # channel'[j].path
    <3>1. i + 1 # j + 1
      BY <1>2, <2>3
    <3> QED BY <1>7, <3>1 DEF PlaceInv
  <2> QED BY <2>1, <2>2, <2>3
<1>9. \A w \in Workers : (Busy(w)' <=> Busy(w)) /\ HeldFile(w)' = HeldFile(w)
  BY <1>1 DEF Busy, HeldFile
<1>10. \A w \in Workers : Busy(w) => HeldFile(w) # f
  BY <1>2 DEF PlaceInv
<1>11. \A g \in files : \/ g \in todo \cup Ended'
                        \/ \E w \in Workers : Busy(w) /\ HeldFile(w) = g
                        \/ \E i \in 1..Len(channel') : channel'[i].path = g
  <2> SUFFICES ASSUME NEW g \in files, g \notin todo \cup Ended', g # f,
                      ~\E w \in Workers : Busy(w) /\ HeldFile(w) = g
               PROVE  \E i \in 1..Len(channel') : channel'[i].path = g
    BY <1>6
  <2>1. PICK i \in 1..n : channel[i].path = g
    BY <1>6 DEF PlaceInv
  <2>2. i # 1 /\ i - 1 \in 1..(n - 1)
    BY <1>2, <2>1
  <2>3. channel'[i - 1] = channel[i]
    BY <1>2, <2>2
  <2> QED BY <1>2, <2>1, <2>2, <2>3
<1>12. \A g \in Files : merged'[g] # None <=> g \in ToSet(tails')
  <2>1. CASE Head(channel).ok
    <3>4. Head(channel) \in Result
      BY <1>1
    <3>1. Head(channel) \in Extraction
      BY <2>1, <3>4 DEF Result, Failure
    <3>2. Head(channel).facts # None
      BY <3>1, NoneAssumption DEF Extraction
    <3>3. merged' = [merged EXCEPT ![f] = Head(channel).facts]
      BY <2>1 DEF Receive
    <3> QED BY <1>3, <1>4, <2>1, <3>2, <3>3 DEF PlaceInv, StreamTypeOK
  <2>2. CASE ~Head(channel).ok
    BY <1>5, <2>2 DEF Receive, PlaceInv
  <2> QED BY <2>1, <2>2
<1>13. PlaceInv'
  BY <1>1, <1>3, <1>6, <1>8, <1>9, <1>10, <1>11, <1>12 DEF PlaceInv
<1> QED BY <1>3, <1>4, <1>5, <1>13

LEMMA NextPlace == StreamTypeOK /\ PlaceInv /\ [Next]_vars => PlaceInv'
<1> SUFFICES ASSUME StreamTypeOK, PlaceInv, [Next]_vars PROVE PlaceInv'
  OBVIOUS
<1>1. CASE UNCHANGED vars
  BY <1>1 DEF vars, PlaceInv, Busy, HeldFile, Ended
<1>2. CASE Next
  BY <1>2, CommandPlace, ReceivePlace, TakePlace, KeepPlace, SendPlace
     DEF Next, Finish, Step
<1> QED BY <1>1, <1>2

-----------------------------------------------------------------------------
LEMMA InitRefines == Init => Indexing!Init
BY ToSetEmpty DEF Init, Indexing!Init, Unmerged

LEMMA NextRefines ==
    StreamTypeOK /\ PlaceInv /\ [Next]_vars => [Indexing!Next]_(Indexing!vars)
<1> SUFFICES ASSUME StreamTypeOK, PlaceInv, [Next]_vars
             PROVE  Indexing!Next \/ UNCHANGED Indexing!vars
  BY DEF Indexing!vars
<1> USE DEF Indexing!Next, Indexing!vars, Indexing!Begin, Indexing!Merge,
            Indexing!Fail, Indexing!Publish, Indexing!GiveUp
<1>1. CASE UNCHANGED vars
  BY <1>1 DEF vars
<1>2. CASE (\E f \in Files, c \in Contents \cup {None} : Edit(f, c)) \/ Begin
           \/ SaveFacts \/ \E w \in Workers : Step(w)
  <2>1. UNCHANGED <<files, tails, failures, graph>>
    BY <1>2 DEF Edit, Begin, SaveFacts, Step, Read, ReadFails, Hit, Miss, Parse, Send
  <2>2. pc' = "extract" <=> pc = "extract"
    BY <1>2 DEF Edit, Begin, SaveFacts, Step, Read, ReadFails, Hit, Miss, Parse, Send
  <2> QED BY <2>1, <2>2
<1>3. CASE \E b \in BOOLEAN : StartExtraction(b)
  <2>1. /\ pc = "list" /\ pc' = "extract" /\ files' = Present
        /\ tails = << >> /\ failures = << >> /\ UNCHANGED <<tails, failures, graph>>
    BY <1>3 DEF StartExtraction, PlaceInv
  <2>2. Present \subseteq Files
    BY DEF Present
  <2> QED BY <2>1, <2>2, ToSetEmpty
<1>4. CASE Receive
  <2> DEFINE f == Head(channel).path
  <2>1. pc = "extract" /\ UNCHANGED <<pc, files, graph>>
    BY <1>4 DEF Receive
  <2>2. f \in files \ Ended /\ f \in Files
    BY <1>4, ReceivePlace DEF StreamTypeOK
  <2>3. CASE Head(channel).ok
    <3>1. ToSet(tails') = ToSet(tails) \cup {f} /\ failures' = failures
      BY <1>4, <2>3, ReceivePlace
    <3> QED BY <2>1, <2>2, <3>1 DEF Ended
  <2>4. CASE ~Head(channel).ok
    <3>1. ToSet(failures') = ToSet(failures) \cup {f} /\ tails' = tails
      BY <1>4, <2>4, ReceivePlace
    <3> QED BY <2>1, <2>2, <3>1 DEF Ended
  <2> QED BY <2>3, <2>4
<1>5. CASE WriteGraph
  <2>1. /\ pc = "extract" /\ pc' = "save" /\ UNCHANGED <<files, tails, failures>>
        /\ graph'.nodes = merged
    BY <1>5 DEF WriteGraph
  <2>2. files \subseteq Ended
    BY <1>5 DEF WriteGraph, Closed, PlaceInv, Busy
  <2>3. {g \in Files : graph'.nodes[g] # None} = ToSet(tails)
    <3>1. ToSet(tails) \subseteq Files
      BY DEF ToSet, StreamTypeOK
    <3> QED BY <2>1, <3>1 DEF PlaceInv
  <2> QED BY <2>1, <2>2, <2>3 DEF Ended
<1>6. CASE Track \/ Kill
  <2>1. pc' = "idle" /\ tails' = << >> /\ failures' = << >> /\ graph' = graph
    BY <1>6 DEF Track, Kill, Ends
  <2> QED BY <2>1, ToSetEmpty
<1> QED BY <1>1, <1>2, <1>3, <1>4, <1>5, <1>6 DEF Next, Finish

(* The stream merges each file or reports it, once, whatever the workers   *)
(* do, and the graph has all that were merged.                             *)
THEOREM Streams == Spec => IndexesEachOnce
BY InitTyped, NextTyped, InitPlace, NextPlace, InitRefines, NextRefines, PTL
   DEF Spec, IndexesEachOnce, Indexing!Spec

-----------------------------------------------------------------------------
(* Distinct numbers have a rank each: how many of them are not larger.     *)
LEMMA Ranks ==
    ASSUME NEW n \in Nat, NEW s \in [1..n -> Nat],
           \A i, j \in 1..n : i # j => s[i] # s[j]
    PROVE  \E r \in [1..n -> 1..n] :
             /\ \A i, j \in 1..n : s[i] < s[j] => r[i] < r[j]
             /\ \A k \in 1..n : \E i \in 1..n : r[i] = k
<1> DEFINE P == 1..n
           UpTo(i) == {j \in P : s[j] <= s[i]}
           r == [i \in P |-> Cardinality(UpTo(i))]
<1>1. IsFiniteSet(P) /\ Cardinality(P) = n
  BY FS_Interval
<1>2. \A i \in P : IsFiniteSet(UpTo(i)) /\ Cardinality(UpTo(i)) \in Nat /\ Cardinality(UpTo(i)) <= n
  <2> SUFFICES ASSUME NEW i \in P
      PROVE  IsFiniteSet(UpTo(i)) /\ Cardinality(UpTo(i)) \in Nat /\ Cardinality(UpTo(i)) <= n
    OBVIOUS
  <2>1. UpTo(i) \in SUBSET P OBVIOUS
  <2>2. IsFiniteSet(UpTo(i)) /\ Cardinality(UpTo(i)) <= Cardinality(P)
    BY <1>1, <2>1, FS_Subset
  <2> QED BY <1>1, <2>2, FS_CardinalityType
<1>3. \A i \in P : Cardinality(UpTo(i)) # 0
  <2> SUFFICES ASSUME NEW i \in P PROVE UpTo(i) # {}
    BY <1>2, FS_EmptySet
  <2> QED OBVIOUS
<1>4. r \in [P -> P]
  <2> HIDE DEF UpTo
  <2>1. \A i \in P : Cardinality(UpTo(i)) \in P BY <1>2, <1>3
  <2> QED BY <2>1
<1>5. \A i, j \in P : s[i] < s[j] => r[i] < r[j]
  <2> SUFFICES ASSUME NEW i \in P, NEW j \in P, s[i] < s[j]
               PROVE  Cardinality(UpTo(i)) < Cardinality(UpTo(j))
    OBVIOUS
  <2>1. UpTo(i) \in SUBSET UpTo(j) /\ j \in UpTo(j) /\ j \notin UpTo(i)
    OBVIOUS
  <2>2. UpTo(i) # UpTo(j)
    BY <2>1
  <2>3. /\ Cardinality(UpTo(i)) <= Cardinality(UpTo(j))
        /\ Cardinality(UpTo(i)) # Cardinality(UpTo(j))
    BY <1>2, <2>1, <2>2, FS_Subset
  <2>4. Cardinality(UpTo(i)) \in Nat /\ Cardinality(UpTo(j)) \in Nat
    BY <1>2
  <2> HIDE DEF UpTo
  <2> QED BY <2>3, <2>4
<1> HIDE DEF r
<1>6. r \in Injection(P, P)
  <2>1. ASSUME NEW i \in P, NEW j \in P, i # j PROVE r[i] # r[j]
    <3>1. s[i] < s[j] \/ s[j] < s[i] BY <2>1
    <3>2. r[i] \in P /\ r[j] \in P BY <1>4
    <3> QED BY <3>1, <3>2, <1>5
  <2> QED BY <1>4, <2>1 DEF Injection, IsInjective
<1>7. r \in Surjection(P, P)
  BY <1>1, <1>6, FS_Injection
<1>8. \A k \in P : \E i \in P : r[i] = k
  BY <1>7 DEF Surjection
<1> QED BY <1>4, <1>5, <1>8

(* Distinct paths are sorted without losing or repeating one.              *)
LEMMA PathOrderSorts ==
    ASSUME NEW S \in SUBSET Nat, NEW s \in Seq(S),
           \A i, j \in 1..Len(s) : i # j => s[i] # s[j]
    PROVE  /\ DOMAIN PathOrder(s) = 1..Len(s) /\ Len(PathOrder(s)) = Len(s)
           /\ \A i, j \in 1..Len(s) : i < j => PathOrder(s)[i] < PathOrder(s)[j]
           /\ {PathOrder(s)[i] : i \in 1..Len(s)} = {s[i] : i \in 1..Len(s)}
<1> DEFINE n == Len(s)
           P == 1..n
           Sorted(order) == \A i, j \in P : i < j => order[i] <= order[j]
           orders == {[i \in P |-> s[p[i]]] : p \in Bijection(P, P)}
<1>1. n \in Nat /\ s \in [P -> Nat]
  <2>1. n \in Nat /\ s \in [1..n -> S] BY LenProperties
  <2> QED BY <2>1
<1>2. PICK r \in [P -> P] :
        /\ \A i, j \in P : s[i] < s[j] => r[i] < r[j]
        /\ \A k \in P : \E i \in P : r[i] = k
  BY <1>1, Ranks
<1> DEFINE p == [k \in P |-> CHOOSE i \in P : r[i] = k]
           best == [k \in P |-> s[p[k]]]
<1>3. \A k \in P : p[k] \in P /\ r[p[k]] = k
  BY <1>2
<1>4. p \in Injection(P, P)
  BY <1>3 DEF Injection, IsInjective
<1>5. p \in Bijection(P, P)
  <2>1. IsFiniteSet(P) BY <1>1, FS_Interval
  <2>2. p \in Surjection(P, P) BY <2>1, <1>4, FS_Injection
  <2> QED BY <1>4, <2>2 DEF Bijection
<1>6. Sorted(best)
  <2> SUFFICES ASSUME NEW i \in P, NEW j \in P, i < j, ~(best[i] <= best[j]) PROVE FALSE
    OBVIOUS
  <2> HIDE DEF p
  <2>1. best[i] = s[p[i]] /\ best[j] = s[p[j]] /\ p[i] \in P /\ p[j] \in P
    BY <1>3
  <2>2. s[p[i]] \in Nat /\ s[p[j]] \in Nat BY <1>1, <2>1
  <2>3. s[p[j]] < s[p[i]] BY <2>1, <2>2
  <2>4. r[p[j]] < r[p[i]] BY <1>2, <2>1, <2>3
  <2> QED BY <1>3, <2>4
<1>7. best \in orders
  <2> HIDE DEF p
  <2> QED BY <1>5
<1>8. PathOrder(s) = CHOOSE order \in orders : Sorted(order)
  BY DEF PathOrder
<1> HIDE DEF best, Sorted, orders
<1>9. PathOrder(s) \in orders /\ Sorted(PathOrder(s))
  BY <1>6, <1>7, <1>8
<1> HIDE DEF p
<1>10. PICK q \in Bijection(P, P) : PathOrder(s) = [i \in P |-> s[q[i]]]
  BY <1>9 DEF orders
<1>11. /\ q \in [P -> P]
       /\ \A i, j \in P : q[i] = q[j] => i = j
       /\ \A k \in P : \E i \in P : q[i] = k
  BY <1>10 DEF Bijection, Injection, Surjection, IsInjective
<1>12. ASSUME NEW i \in P, NEW j \in P, i < j PROVE PathOrder(s)[i] < PathOrder(s)[j]
  <2>1. PathOrder(s)[i] <= PathOrder(s)[j] BY <1>9, <1>12 DEF Sorted
  <2>2. q[i] \in P /\ q[j] \in P /\ q[i] # q[j]
    <3>1. i # j BY <1>1, <1>12
    <3> HIDE DEF P
    <3> QED BY <1>11, <3>1
  <2>3. PathOrder(s)[i] = s[q[i]] /\ PathOrder(s)[j] = s[q[j]] BY <1>10
  <2>4. s[q[i]] # s[q[j]] /\ s[q[i]] \in Nat /\ s[q[j]] \in Nat BY <1>1, <2>2
  <2> QED BY <2>1, <2>3, <2>4
<1>13. {PathOrder(s)[i] : i \in P} = {s[i] : i \in P}
  <2> HIDE DEF P
  <2>1. \A i \in P : PathOrder(s)[i] = s[q[i]] /\ q[i] \in P BY <1>10, <1>11
  <2>2. \A k \in P : \E i \in P : PathOrder(s)[i] = s[k] BY <2>1, <1>11
  <2> QED BY <2>1, <2>2
<1>14. DOMAIN PathOrder(s) = P /\ Len(PathOrder(s)) = n
  <2>1. PathOrder(s) \in [1..n -> Nat] BY <1>1, <1>10, <1>11
  <2>2. PathOrder(s) \in Seq(Nat) BY <1>1, <2>1
  <2> QED BY <1>1, <2>1, <2>2
<1> QED BY <1>12, <1>13, <1>14

(* OrderIsOfPaths is not inductive: what keeps it is that no file is       *)
(* merged twice, because a file has one place at a time (PlaceInv).        *)
MergedOnce == \A i, j \in 1..Len(tails) : i # j => tails[i] # tails[j]
OrderInv == MergedOnce /\ OrderIsOfPaths

LEMMA InitOrder == Init => OrderInv
BY DEF Init, OrderInv, MergedOnce, OrderIsOfPaths, Unmerged

(* A file that is merged was not merged before.                            *)
LEMMA ReceiveOnce ==
    ASSUME StreamTypeOK, PlaceInv, MergedOnce, Receive PROVE MergedOnce'
<1>1. CASE ~Head(channel).ok
  BY <1>1 DEF Receive, MergedOnce
<1>2. CASE Head(channel).ok
  <2> DEFINE f == Head(channel).path
             n == Len(tails)
  <2>1. tails' = Append(tails, f) /\ tails \in Seq(Files) /\ f \in Files \ ToSet(tails)
    BY <1>2, ReceivePlace DEF Receive, StreamTypeOK, Ended
  <2>2. /\ n \in Nat /\ Len(tails') = n + 1 /\ tails'[n + 1] = f
        /\ \A i \in 1..n : tails'[i] = tails[i] /\ tails[i] \in ToSet(tails)
    BY <2>1 DEF ToSet
  <2> SUFFICES ASSUME NEW i \in 1..(n + 1), NEW j \in 1..(n + 1), i # j
               PROVE  tails'[i] # tails'[j]
    BY <2>2 DEF MergedOnce
  <2>3. CASE i \in 1..n /\ j \in 1..n
    BY <2>2, <2>3 DEF MergedOnce
  <2>4. CASE i = n + 1
    <3>1. j \in 1..n BY <2>2, <2>4
    <3> QED BY <2>1, <2>2, <2>4, <3>1
  <2>5. CASE j = n + 1
    <3>1. i \in 1..n BY <2>2, <2>5
    <3> QED BY <2>1, <2>2, <2>5, <3>1
  <2> QED BY <2>2, <2>3, <2>4, <2>5
<1> QED BY <1>1, <1>2

LEMMA NextOrder == StreamTypeOK /\ PlaceInv /\ OrderInv /\ [Next]_vars => OrderInv'
<1> SUFFICES ASSUME StreamTypeOK, PlaceInv, MergedOnce, OrderIsOfPaths, [Next]_vars
             PROVE  MergedOnce' /\ OrderIsOfPaths'
  BY DEF OrderInv
<1>1. CASE UNCHANGED vars
  BY <1>1 DEF vars, MergedOnce, OrderIsOfPaths
<1>2. CASE \/ \E f \in Files, c \in Contents \cup {None} : Edit(f, c)
           \/ Begin \/ SaveFacts
           \/ \E b \in BOOLEAN : StartExtraction(b)
           \/ \E w \in Workers : Step(w)
  <2>1. UNCHANGED <<tails, graph>>
    BY <1>2 DEF Edit, Begin, SaveFacts, StartExtraction, Step, Read, ReadFails, Hit, Miss,
                Parse, Send
  <2> QED BY <2>1 DEF MergedOnce, OrderIsOfPaths
<1>3. CASE Receive
  BY <1>3, ReceiveOnce DEF Receive, OrderIsOfPaths
<1>4. CASE WriteGraph
  <2> DEFINE order == PathOrder(tails)
  <2>1. /\ graph' = [nodes |-> merged, order |-> order] /\ UNCHANGED tails
    BY <1>4 DEF WriteGraph
  <2>2. Files \in SUBSET Nat /\ tails \in Seq(Files)
    BY FilesAssumption DEF StreamTypeOK
  <2>3. /\ Len(order) = Len(tails)
        /\ \A i, j \in 1..Len(tails) : i < j => order[i] < order[j]
        /\ {order[i] : i \in 1..Len(tails)} = {tails[i] : i \in 1..Len(tails)}
    BY <2>2, PathOrderSorts DEF MergedOnce
  <2>4. {tails[i] : i \in 1..Len(tails)} = ToSet(tails)
    BY <2>2 DEF ToSet
  <2>5. ToSet(tails) = {f \in Files : merged[f] # None}
    <3>1. ToSet(tails) \subseteq Files BY <2>2 DEF ToSet
    <3> QED BY <3>1 DEF PlaceInv
  <2> HIDE DEF order
  <2>6. graph'.nodes = merged /\ graph'.order = order
    BY <2>1
  <2>7. {order[i] : i \in 1..Len(order)} = {f \in Files : graph'.nodes[f] # None}
    BY <2>3, <2>4, <2>5, <2>6
  <2>8. OrderIsOfPaths'
    BY <2>3, <2>6, <2>7 DEF OrderIsOfPaths
  <2>9. MergedOnce'
    BY <2>1 DEF MergedOnce
  <2> QED BY <2>8, <2>9
<1>5. CASE Track \/ Kill
  <2>1. tails' = << >> /\ graph' = graph
    BY <1>5 DEF Track, Kill, Ends
  <2> QED BY <2>1 DEF MergedOnce, OrderIsOfPaths
<1> QED BY <1>1, <1>2, <1>3, <1>4, <1>5 DEF Next, Finish

(* The relations are added in the order of the paths, each file's once,    *)
(* however the workers were scheduled.                                     *)
THEOREM OrderedByPath == Spec => []OrderIsOfPaths
<1>1. OrderInv => OrderIsOfPaths
  BY DEF OrderInv
<1> QED BY <1>1, InitTyped, NextTyped, InitPlace, NextPlace, InitOrder, NextOrder, PTL DEF Spec
-----------------------------------------------------------------------------
(***************************************************************************)
(* The extraction of finitely many files ends: every step of it moves one  *)
(* file on, to a worker, through its hands, to the channel and out of it.  *)
(***************************************************************************)
Held(f, doing) == \E w \in Workers : worker[w].at = doing /\ HeldFile(w) = f

Stage(f) ==
    IF f \in todo THEN 0
    ELSE IF Held(f, "read") THEN 1
    ELSE IF Held(f, "parse") THEN 2
    ELSE IF Held(f, "send") THEN 3
    ELSE IF f \notin Ended THEN 4 ELSE 5

(* Where a file is tells its stage, as it is nowhere else.                 *)
StageFacts ==
    \A f \in files :
        /\ f \in todo => Stage(f) = 0
        /\ \A w \in Workers : Busy(w) /\ HeldFile(w) = f =>
              /\ worker[w].at = "read" => Stage(f) = 1
              /\ worker[w].at = "parse" => Stage(f) = 2
              /\ worker[w].at = "send" => Stage(f) = 3
        /\ (\E i \in 1..Len(channel) : channel[i].path = f) => Stage(f) = 4
        /\ f \in Ended => Stage(f) = 5

LEMMA StageOf == PlaceInv => StageFacts
<1> SUFFICES ASSUME PlaceInv, NEW f \in files
             PROVE  /\ f \in todo => Stage(f) = 0
                    /\ \A w \in Workers : Busy(w) /\ HeldFile(w) = f =>
                          /\ worker[w].at = "read" => Stage(f) = 1
                          /\ worker[w].at = "parse" => Stage(f) = 2
                          /\ worker[w].at = "send" => Stage(f) = 3
                    /\ (\E i \in 1..Len(channel) : channel[i].path = f) => Stage(f) = 4
                    /\ f \in Ended => Stage(f) = 5
  BY DEF StageFacts
<1>1. ASSUME NEW w \in Workers, Busy(w), HeldFile(w) = f
      PROVE  f \notin todo /\ \A doing \in {"read", "parse", "send"} :
                Held(f, doing) <=> worker[w].at = doing
  <2>1. \A v \in Workers : Busy(v) /\ HeldFile(v) = f => v = w
    BY <1>1 DEF PlaceInv
  <2> QED BY <1>1, <2>1 DEF PlaceInv, Held, Busy
<1>2. ASSUME NEW doing \in {"read", "parse", "send"}, Held(f, doing)
      PROVE  \E w \in Workers : Busy(w) /\ HeldFile(w) = f
  BY <1>2 DEF Held, Busy
<1>3. ASSUME \E i \in 1..Len(channel) : channel[i].path = f
      PROVE  f \notin todo \cup Ended /\ \A doing \in {"read", "parse", "send"} : ~Held(f, doing)
  BY <1>2, <1>3 DEF PlaceInv
<1>4. ASSUME f \in Ended
      PROVE  f \notin todo /\ \A doing \in {"read", "parse", "send"} : ~Held(f, doing)
  BY <1>2, <1>4 DEF PlaceInv
<1>5. ASSUME NEW w \in Workers, Busy(w), HeldFile(w) = f
      PROVE  /\ worker[w].at = "read" => Stage(f) = 1
             /\ worker[w].at = "parse" => Stage(f) = 2
             /\ worker[w].at = "send" => Stage(f) = 3
  BY <1>1, <1>5 DEF Stage
<1>6. (\E i \in 1..Len(channel) : channel[i].path = f) => Stage(f) = 4
  BY <1>3 DEF Stage
<1>7. (f \in Ended => Stage(f) = 5) /\ (f \in todo => Stage(f) = 0)
  BY <1>4 DEF Stage
<1> QED BY <1>5, <1>6, <1>7

LEMMA StageOfNext == (PlaceInv => StageFacts)'
BY StageOf, PTL

(* A worker that does not hold a file has no effect on its stage.          *)
LEMMA OthersStay ==
    ASSUME NEW w \in Workers, \A v \in Workers \ {w} : worker'[v] = worker[v], NEW g,
           Busy(w) => HeldFile(w) # g, Busy(w)' => HeldFile(w)' # g,
           g \in todo' <=> g \in todo, g \in Ended' <=> g \in Ended
    PROVE  Stage(g)' = Stage(g)
<1>1. \A v \in Workers \ {w} : HeldFile(v)' = HeldFile(v)
  BY DEF HeldFile
<1>2. \A doing \in {"read", "parse", "send"} : Held(g, doing)' <=> Held(g, doing)
  BY <1>1 DEF Held, Busy
<1> QED BY <1>2 DEF Stage

(* A step moves one file on, and no other.                                 *)
Moves(f) == Stage(f) < Stage(f)' /\ \A g \in files \ {f} : Stage(g)' = Stage(g)

LEMMA TakeMoves ==
    ASSUME StreamTypeOK, PlaceInv, PlaceInv', NEW w \in Workers, NEW f \in Files,
           Read(w, f) \/ ReadFails(w, f)
    PROVE  \E g \in files : Moves(g)
<1>1. /\ ~Busy(w) /\ f \in todo /\ todo' = todo \ {f} /\ f \in files /\ files' = files
      /\ Ended' = Ended /\ \A v \in Workers \ {w} : worker'[v] = worker[v]
  BY DEF Read, ReadFails, Busy, StreamTypeOK, Ended
<1>2. Busy(w)' /\ HeldFile(w)' = f /\ worker'[w].at \in {"read", "send"}
  BY DEF Read, ReadFails, StreamTypeOK, Busy, HeldFile
<1>3. Stage(f) = 0
  BY <1>1, StageOf DEF StageFacts
<1>4. Stage(f)' \in {1, 3}
  BY <1>1, <1>2, StageOfNext DEF StageFacts
<1>5. ASSUME NEW g \in files \ {f} PROVE Stage(g)' = Stage(g)
  BY <1>1, <1>2, <1>5, OthersStay
<1> QED BY <1>1, <1>3, <1>4, <1>5 DEF Moves

LEMMA WorkMoves ==
    ASSUME StreamTypeOK, PlaceInv, PlaceInv', NEW w \in Workers,
           Hit(w) \/ Miss(w) \/ Parse(w)
    PROVE  \E g \in files : Moves(g)
<1>1. /\ Busy(w) /\ todo' = todo /\ files' = files /\ Ended' = Ended /\ HeldFile(w) \in files
      /\ \A v \in Workers \ {w} : worker'[v] = worker[v]
  BY DEF Hit, Miss, Parse, Busy, StreamTypeOK, Ended, PlaceInv
<1>2. PICK f \in files : f = HeldFile(w)
  BY <1>1
<1>3. /\ Busy(w)' /\ HeldFile(w)' = f
      /\ \/ worker[w].at = "read" /\ worker'[w].at \in {"parse", "send"}
         \/ worker[w].at = "parse" /\ worker'[w].at = "send"
  <2>1. CASE Hit(w)
    BY <1>2, <2>1 DEF Hit, StreamTypeOK, Busy, HeldFile
  <2>2. CASE Miss(w)
    <3>1. worker[w] \in [at : {"read", "parse"}, file : Files, content : Contents]
      BY <2>2 DEF Miss, StreamTypeOK, Doing
    <3>2. worker'[w].at = "parse" /\ worker'[w].file = worker[w].file
      BY <2>2, <3>1 DEF Miss, StreamTypeOK
    <3> QED BY <1>2, <2>2, <3>2 DEF Miss, Busy, HeldFile
  <2>3. CASE Parse(w)
    <3>1. worker'[w].at = "send" /\ worker'[w].result.path = worker[w].file
      BY <2>3 DEF Parse, StreamTypeOK
    <3> QED BY <1>2, <2>3, <3>1 DEF Parse, Busy, HeldFile
  <2> QED BY <2>1, <2>2, <2>3
<1>4. /\ worker[w].at = "read" => Stage(f) = 1
      /\ worker[w].at = "parse" => Stage(f) = 2
  BY <1>1, <1>2, StageOf DEF StageFacts
<1>5. /\ worker'[w].at = "parse" => Stage(f)' = 2
      /\ worker'[w].at = "send" => Stage(f)' = 3
  BY <1>1, <1>3, StageOfNext DEF StageFacts
<1>6. ASSUME NEW g \in files \ {f} PROVE Stage(g)' = Stage(g)
  BY <1>1, <1>2, <1>3, <1>6, OthersStay
<1> QED BY <1>3, <1>4, <1>5, <1>6 DEF Moves

LEMMA SendMoves ==
    ASSUME StreamTypeOK, PlaceInv, PlaceInv', NEW w \in Workers, Send(w)
    PROVE  \E g \in files : Moves(g)
<1>1. worker[w].result \in Result /\ channel \in Seq(Result)
  BY WorkerHolds DEF Send, StreamTypeOK
<1>2. /\ Busy(w) /\ todo' = todo /\ files' = files /\ Ended' = Ended /\ HeldFile(w) \in files
      /\ ~Busy(w)' /\ \A v \in Workers \ {w} : worker'[v] = worker[v]
  BY DEF Send, Busy, StreamTypeOK, Ended, PlaceInv
<1>3. PICK f \in files : f = HeldFile(w)
  BY <1>2
<1>4. Len(channel') \in 1..Len(channel') /\ channel'[Len(channel')].path = f
  BY <1>1, <1>3 DEF Send, HeldFile
<1>5. Stage(f) = 3
  BY <1>2, <1>3, StageOf DEF StageFacts, Send
<1>6. Stage(f)' = 4
  BY <1>2, <1>4, StageOfNext DEF StageFacts
<1>7. ASSUME NEW g \in files \ {f} PROVE Stage(g)' = Stage(g)
  BY <1>2, <1>3, <1>7, OthersStay
<1> QED BY <1>5, <1>6, <1>7 DEF Moves

LEMMA ReceiveMoves ==
    ASSUME StreamTypeOK, PlaceInv, PlaceInv', Receive
    PROVE  \E g \in files : Moves(g)
<1>1. PICK f \in files : f = Head(channel).path
  BY ReceivePlace
<1>2. Ended' = Ended \cup {f}
  BY <1>1, ReceivePlace DEF Ended
<1>3. todo' = todo /\ files' = files /\ worker' = worker
  BY DEF Receive
<1>4. 1 \in 1..Len(channel) /\ channel[1].path = f
  BY <1>1 DEF Receive, StreamTypeOK
<1>5. Stage(f) = 4
  BY <1>4, StageOf DEF StageFacts
<1>6. Stage(f)' = 5
  BY <1>2, <1>3, StageOfNext DEF StageFacts
<1>7. ASSUME NEW g \in files \ {f} PROVE Stage(g)' = Stage(g)
  <2>1. \A doing \in {"read", "parse", "send"} : Held(g, doing)' <=> Held(g, doing)
    BY <1>3 DEF Held, HeldFile
  <2> QED BY <1>2, <1>3, <1>7, <2>1 DEF Stage
<1> QED BY <1>5, <1>6, <1>7 DEF Moves

\* Every step of a worker, and every result received, moves one file on and
\* leaves the others: no file is taken back or done again, so that finitely
\* many steps extract them all (stream_into_graph).
FilesGoForward == [][(\E w \in Workers : Step(w)) \/ Receive => \E f \in files : Moves(f)]_vars

(* For every set of files, pool and capacity.                              *)
THEOREM FilesAdvance == Spec => FilesGoForward
<1>1. StreamTypeOK /\ PlaceInv /\ PlaceInv' =>
        ((\E w \in Workers : Step(w)) \/ Receive => \E f \in files : Moves(f))
  BY TakeMoves, WorkMoves, SendMoves, ReceiveMoves DEF Step
<1> QED BY <1>1, InitTyped, NextTyped, InitPlace, NextPlace, PTL DEF Spec, FilesGoForward
=============================================================================
