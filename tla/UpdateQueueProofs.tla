-------------------------- MODULE UpdateQueueProofs --------------------------
(***************************************************************************)
(* Theorems about UpdateQueue for every set of clients, files and          *)
(* requests and every bound: type correctness; that no request is applied  *)
(* twice (AtMostOnce is not inductive, OnePlace strengthens it: what is on *)
(* disk or drained was not served, and nothing is in two files); that a    *)
(* client which names its files and is told ok reads a graph that has      *)
(* them; that no edit is forgotten and no request set back while the       *)
(* watcher is up; and that the queue implements UpdateRequests.  Those     *)
(* about where a request is assume that a drained file can be removed:     *)
(* without that they are false (MCUpdateQueueServed.cfg, with AtMostOnce). *)
(***************************************************************************)
EXTENDS UpdateQueue, TLAPS

USE DEF Asking, Told, Lines, ClientGoto, WatcherGoto, CanFault, Follow, Serve,
        clientVars, fileVars, watchVars, repoVars

(* What the files a request may name are, and that NoFile is no file.      *)
LEMMA ConstantFacts ==
    /\ \A lines \in SUBSET Clients : NoFile # lines
    /\ \A c \in Clients : Request[c].paths \in SUBSET Paths
BY ClientsAssumption, NoFileAssumption DEF Requests

(* The initial state is well typed.                                        *)
LEMMA InitTyped == Init => TypeOK
BY DEF Init, TypeOK, Nothing

(* The steps of a client keep the state well typed.                        *)
LEMMA ClientTyped ==
    ASSUME TypeOK, NEW c \in Clients,
           ClientStep(c) \/ Timeout(c) \/ Interrupt(c)
    PROVE  TypeOK'
<1>1. CASE Submit(c) BY <1>1 DEF Submit, TypeOK
<1>2. CASE CountLines(c) BY <1>2 DEF CountLines, TypeOK
<1>3. CASE Open(c) BY <1>3, ConstantFacts DEF Open, TypeOK
<1>4. CASE Append(c) BY <1>4, ConstantFacts DEF Append, TypeOK
<1>5. CASE ReadResult(c) BY <1>5 DEF ReadResult, TypeOK
<1>6. CASE Timeout(c) BY <1>6 DEF Timeout, TypeOK
<1>7. CASE Interrupt(c) BY <1>7 DEF Interrupt, TypeOK
<1> QED BY <1>1, <1>2, <1>3, <1>4, <1>5, <1>6, <1>7 DEF ClientStep

(* The steps of the watcher, and what happens to it, keep it well typed.   *)
LEMMA WatcherTyped ==
    ASSUME TypeOK, WatchStep \/ RemoveFails \/ ApplyFails \/ WriteFails \/ Crash \/ Restart
    PROVE  TypeOK'
<1>1. ASSUME NEW p \in Paths, Receive(p) PROVE TypeOK' BY <1>1 DEF Receive, TypeOK
<1>2. CASE Wake BY <1>2 DEF Wake, TypeOK
<1>3. CASE Drain BY <1>3, ConstantFacts DEF Drain, TypeOK
<1>4. CASE ReadBatch BY <1>4 DEF ReadBatch, TypeOK
<1>5. CASE Remove BY <1>5 DEF Remove, TypeOK
<1>6. CASE Gather
  <2>1. \A fs \in SUBSET Paths : Work(fs) \subseteq SUBSET Paths
    BY ConstantFacts DEF TypeOK, Work, Changed
  <2> QED BY <1>6, <2>1 DEF Gather, TypeOK
<1>7. CASE Extract BY <1>7 DEF Extract, TypeOK
<1>8. CASE AlreadyCurrent BY <1>8 DEF AlreadyCurrent, TypeOK
<1>9. CASE Index BY <1>9 DEF Index, TypeOK
<1>10. ASSUME NEW c \in Clients, WriteResult(c) PROVE TypeOK'
  BY <1>10 DEF WriteResult, TypeOK
<1>11. CASE ResultsWritten BY <1>11 DEF ResultsWritten, TypeOK
<1>12. CASE Absorb BY <1>12 DEF Absorb, TypeOK
<1>13. CASE ApplyFails BY <1>13 DEF ApplyFails, TypeOK
<1>14. CASE WriteFails BY <1>14 DEF WriteFails, TypeOK
<1>15. CASE Crash BY <1>15 DEF Crash, TypeOK
<1>16. CASE Restart BY <1>16 DEF Restart, TypeOK
<1>17. CASE RemoveFails BY <1>17 DEF RemoveFails, TypeOK
<1> QED
  BY <1>1, <1>2, <1>3, <1>4, <1>5, <1>6, <1>7, <1>8, <1>9, <1>10, <1>11,
     <1>12, <1>13, <1>14, <1>15, <1>16, <1>17 DEF WatchStep

(* An edit keeps the state well typed.                                     *)
LEMMA EditTyped == ASSUME TypeOK, NEW p \in Paths, Edit(p) PROVE TypeOK'
BY DEF Edit, TypeOK

(* Type correctness, for every instance.                                   *)
THEOREM TypeCorrect == Spec => []TypeOK
<1>1. TypeOK /\ [Next]_vars => TypeOK'
  <2> SUFFICES ASSUME TypeOK, [Next]_vars PROVE TypeOK'
    OBVIOUS
  <2>1. CASE UNCHANGED vars BY <2>1 DEF vars, TypeOK
  <2>2. CASE Next BY <2>2, ClientTyped, WatcherTyped, EditTyped DEF Next
  <2> QED BY <2>1, <2>2
<1> QED BY InitTyped, <1>1, PTL DEF Spec

-----------------------------------------------------------------------------
(* The inductive invariant behind AtMostOnce.  It needs ~RemovalFails: a   *)
(* file that stays behind holds requests that are also in a batch.         *)
IInv == TypeOK /\ OnePlace /\ AtMostOnce

(* Initially no request is anywhere.                                       *)
LEMMA InitPlaced == Init => OnePlace /\ AtMostOnce
BY DEF Init, OnePlace, AtMostOnce

(* A client's step moves its request only from the client to a file.       *)
LEMMA ClientPlaced ==
    ASSUME IInv, NEW c \in Clients, ClientStep(c) \/ Timeout(c) \/ Interrupt(c)
    PROVE  OnePlace' /\ AtMostOnce'
<1> USE DEF IInv
<1>1. CASE Submit(c) BY <1>1 DEF Submit, TypeOK, OnePlace, AtMostOnce
<1>2. CASE CountLines(c) BY <1>2 DEF CountLines, TypeOK, OnePlace, AtMostOnce
<1>3. CASE Open(c) BY <1>3, ConstantFacts DEF Open, TypeOK, OnePlace, AtMostOnce
<1>4. CASE Append(c) BY <1>4, ConstantFacts DEF Append, TypeOK, OnePlace, AtMostOnce
<1>5. CASE ReadResult(c) BY <1>5 DEF ReadResult, TypeOK, OnePlace, AtMostOnce
<1>6. CASE Timeout(c) BY <1>6 DEF Timeout, TypeOK, OnePlace, AtMostOnce
<1>7. CASE Interrupt(c) BY <1>7 DEF Interrupt, TypeOK, OnePlace, AtMostOnce
<1> QED BY <1>1, <1>2, <1>3, <1>4, <1>5, <1>6, <1>7 DEF ClientStep

(* A watcher's step moves requests only forward: from the queue file to    *)
(* the processing file, to the batch, to a verdict.                        *)
LEMMA WatcherPlaced ==
    ASSUME ~RemovalFails, IInv, WatchStep \/ RemoveFails \/ ApplyFails \/ WriteFails \/ Crash \/ Restart
    PROVE  OnePlace' /\ AtMostOnce'
<1> USE DEF IInv
<1>1. ASSUME NEW p \in Paths, Receive(p) PROVE OnePlace' /\ AtMostOnce'
  BY <1>1 DEF Receive, TypeOK, OnePlace, AtMostOnce
<1>2. CASE Wake BY <1>2 DEF Wake, TypeOK, OnePlace, AtMostOnce
<1>3. CASE Drain BY <1>3, ConstantFacts DEF Drain, TypeOK, OnePlace, AtMostOnce
<1>4. CASE ReadBatch BY <1>4 DEF ReadBatch, TypeOK, OnePlace, AtMostOnce
<1>5. CASE Remove BY <1>5 DEF Remove, TypeOK, OnePlace, AtMostOnce
<1>6. CASE Gather BY <1>6 DEF Gather, TypeOK, OnePlace, AtMostOnce
<1>7. CASE Extract BY <1>7 DEF Extract, TypeOK, OnePlace, AtMostOnce
<1>8. CASE AlreadyCurrent BY <1>8 DEF AlreadyCurrent, TypeOK, OnePlace, AtMostOnce
<1>9. CASE Index BY <1>9 DEF Index, TypeOK, OnePlace, AtMostOnce
<1>10. ASSUME NEW c \in Clients, WriteResult(c) PROVE OnePlace' /\ AtMostOnce'
  BY <1>10 DEF WriteResult, TypeOK, OnePlace, AtMostOnce
<1>11. CASE ResultsWritten BY <1>11 DEF ResultsWritten, TypeOK, OnePlace, AtMostOnce
<1>12. CASE Absorb BY <1>12 DEF Absorb, TypeOK, OnePlace, AtMostOnce
<1>13. CASE ApplyFails BY <1>13 DEF ApplyFails, TypeOK, OnePlace, AtMostOnce
<1>14. CASE WriteFails BY <1>14 DEF WriteFails, TypeOK, OnePlace, AtMostOnce
<1>15. CASE Crash BY <1>15 DEF Crash, TypeOK, OnePlace, AtMostOnce
<1>16. CASE Restart BY <1>16 DEF Restart, TypeOK, OnePlace, AtMostOnce
<1>17. CASE RemoveFails BY <1>17 DEF RemoveFails
<1> QED
  BY <1>1, <1>2, <1>3, <1>4, <1>5, <1>6, <1>7, <1>8, <1>9, <1>10, <1>11,
     <1>12, <1>13, <1>14, <1>15, <1>16, <1>17 DEF WatchStep

(* An edit moves no request.                                               *)
LEMMA EditPlaced ==
    ASSUME IInv, NEW p \in Paths, Edit(p) PROVE OnePlace' /\ AtMostOnce'
BY DEF IInv, Edit, TypeOK, OnePlace, AtMostOnce

(* IInv holds in every reachable state.                                    *)
THEOREM Placement == ASSUME ~RemovalFails PROVE Spec => []IInv
<1>1. IInv /\ [Next]_vars => OnePlace' /\ AtMostOnce'
  <2> SUFFICES ASSUME IInv, [Next]_vars PROVE OnePlace' /\ AtMostOnce'
    OBVIOUS
  <2>1. CASE UNCHANGED vars BY <2>1 DEF vars, IInv, TypeOK, OnePlace, AtMostOnce
  <2>2. CASE Next BY <2>2, ClientPlaced, WatcherPlaced, EditPlaced DEF Next
  <2> QED BY <2>1, <2>2
<1>2. OnePlace /\ AtMostOnce /\ []TypeOK /\ [][Next]_vars => [](OnePlace /\ AtMostOnce)
  BY <1>1, PTL DEF IInv
<1> QED BY InitPlaced, TypeCorrect, <1>2, PTL DEF Spec, IInv

(* A request is in one place at a time, and unserved while it is on disk.  *)
THEOREM RequestsInOnePlace == ASSUME ~RemovalFails PROVE Spec => []OnePlace
BY Placement, PTL DEF IInv

(* No request is applied twice: not after a crash between the reading and  *)
(* the removal of the processing file, not when a line lands late.         *)
THEOREM ServedAtMostOnce == ASSUME ~RemovalFails PROVE Spec => []AtMostOnce
BY Placement, PTL DEF IInv

-----------------------------------------------------------------------------
(* The queue implements UpdateRequests.  The refinement needs one more     *)
(* invariant: wherever a verdict is, it is the one the request was served  *)
(* with.                                                                   *)
Verdicts ==
    /\ watcher = "results" => outcome \in Told /\ \A c \in batch : served[c] = outcome
    /\ \A c \in Clients : results[c] # "none" => results[c] = served[c]
    /\ \A c \in Clients : client[c] \in Told => client[c] = served[c]

(* Verdicts is preserved by every step.                                    *)
LEMMA VerdictsStep ==
    ASSUME ~RemovalFails, IInv, Verdicts, [Next]_vars PROVE Verdicts'
<1> USE DEF IInv, TypeOK, Verdicts
<1>1. CASE UNCHANGED vars BY <1>1 DEF vars
<1>2. ASSUME NEW c \in Clients, ClientStep(c) \/ Timeout(c) \/ Interrupt(c) PROVE Verdicts'
  <2>1. CASE Submit(c) BY <2>1 DEF Submit
  <2>2. CASE CountLines(c) BY <2>2 DEF CountLines
  <2>3. CASE Open(c) BY <2>3 DEF Open
  <2>4. CASE Append(c) BY <2>4 DEF Append
  <2>5. CASE ReadResult(c) BY <2>5 DEF ReadResult
  <2>6. CASE Timeout(c) BY <2>6 DEF Timeout
  <2>7. CASE Interrupt(c) BY <2>7 DEF Interrupt
  <2> QED BY <1>2, <2>1, <2>2, <2>3, <2>4, <2>5, <2>6, <2>7 DEF ClientStep
<1>3. CASE WatchStep
  <2>1. ASSUME NEW p \in Paths, Receive(p) PROVE Verdicts' BY <2>1 DEF Receive
  <2>2. CASE Wake BY <2>2 DEF Wake
  <2>3. CASE Drain BY <2>3 DEF Drain
  <2>4. CASE ReadBatch BY <2>4 DEF ReadBatch
  <2>5. CASE Remove BY <2>5 DEF Remove
  <2>6. CASE Gather BY <2>6 DEF Gather
  <2>7. CASE Extract BY <2>7 DEF Extract
  <2>8. CASE AlreadyCurrent
    <3>1. \A c \in batch : served[c] = "no" BY <2>8 DEF AlreadyCurrent, OnePlace
    <3> QED BY <2>8, <3>1 DEF AlreadyCurrent
  <2>9. CASE Index
    <3>1. \A c \in batch : served[c] = "no" BY <2>9 DEF Index, OnePlace
    <3> QED BY <2>9, <3>1 DEF Index
  <2>10. ASSUME NEW c \in Clients, WriteResult(c) PROVE Verdicts' BY <2>10 DEF WriteResult
  <2>11. CASE ResultsWritten BY <2>11 DEF ResultsWritten
  <2>12. CASE Absorb BY <2>12 DEF Absorb
  <2> QED
    BY <1>3, <2>1, <2>2, <2>3, <2>4, <2>5, <2>6, <2>7, <2>8, <2>9, <2>10, <2>11, <2>12 DEF WatchStep
<1>4. CASE ApplyFails
  <2>1. \A c \in batch : served[c] = "no" BY <1>4 DEF ApplyFails, OnePlace
  <2> QED BY <1>4, <2>1 DEF ApplyFails
<1>5. CASE WriteFails BY <1>5 DEF WriteFails
<1>6. ASSUME NEW p \in Paths, Edit(p) PROVE Verdicts' BY <1>6 DEF Edit
<1>7. CASE Crash BY <1>7 DEF Crash
<1>8. CASE Restart BY <1>8 DEF Restart
<1>9. CASE RemoveFails BY <1>9 DEF RemoveFails
<1> QED BY <1>1, <1>2, <1>3, <1>4, <1>5, <1>6, <1>7, <1>8, <1>9 DEF Next

(* Every verdict anywhere is the verdict of the request.                   *)
THEOREM VerdictsAgree == ASSUME ~RemovalFails PROVE Spec => []Verdicts
<1>1. Init => Verdicts BY DEF Init, Verdicts
<1> QED BY <1>1, VerdictsStep, Placement, PTL DEF Spec

-----------------------------------------------------------------------------
(* OkMeansFresh holds when every client names its files: an update that    *)
(* follows the recorded hashes may miss a file, as MCUpdateQueueStale.cfg  *)
(* shows.  It is not inductive: the update in progress has every file of   *)
(* its batch among its targets, what it extracts is never older than what  *)
(* was asked for, and no result waits for a client that has not asked yet. *)
(* Nothing here rests on OnePlace: an answer is fresh also when a file     *)
(* that could not be removed is applied again.                             *)
NamesFiles == \A c \in Clients : Request[c].mode = "paths"

FreshFor(c) == \A p \in Asked(c) : graph[p] >= wanted[c][p]

Fresh ==
    /\ \A p \in Paths : graph[p] <= disk[p]
    /\ \A c \in Clients, p \in Paths : wanted[c][p] <= disk[p]
    /\ watcher = "apply" => \A c \in batch : Asked(c) \subseteq targets
    /\ watcher = "index" => \A c \in batch : FreshFor(c)
    /\ watcher = "results" /\ outcome = "ok" => \A c \in batch : FreshFor(c)
    /\ \A c \in Clients : "ok" \in {results[c], client[c]} => FreshFor(c)

\* A client that has not written its line yet is nowhere in the queue.
Unsent ==
    \A c \in Clients : client[c] \in {"idle"} \cup Asking =>
        c \notin Lines(queue) \cup Lines(processing) \cup batch /\ results[c] = "none"

(* Unsent is preserved by every step.                                      *)
LEMMA UnsentStep == ASSUME TypeOK, Unsent, [Next]_vars PROVE Unsent'
<1> USE DEF TypeOK, Unsent
<1>1. CASE UNCHANGED vars BY <1>1 DEF vars
<1>2. ASSUME NEW c \in Clients, ClientStep(c) \/ Timeout(c) \/ Interrupt(c) PROVE Unsent'
  <2>1. CASE Submit(c) BY <2>1 DEF Submit
  <2>2. CASE CountLines(c) BY <2>2 DEF CountLines
  <2>3. CASE Open(c) BY <2>3, ConstantFacts DEF Open
  <2>4. CASE Append(c) BY <2>4, ConstantFacts DEF Append
  <2>5. CASE ReadResult(c) BY <2>5 DEF ReadResult
  <2>6. CASE Timeout(c) BY <2>6 DEF Timeout
  <2>7. CASE Interrupt(c) BY <2>7 DEF Interrupt
  <2> QED BY <1>2, <2>1, <2>2, <2>3, <2>4, <2>5, <2>6, <2>7 DEF ClientStep
<1>3. CASE WatchStep
  <2>1. CASE Wake \/ Drain \/ ReadBatch \/ Remove
    BY <2>1, ConstantFacts DEF Wake, Drain, ReadBatch, Remove
  <2>2. CASE Gather \/ Extract \/ AlreadyCurrent \/ Index
    BY <2>2 DEF Gather, Extract, AlreadyCurrent, Index
  <2>3. ASSUME NEW c \in Clients, WriteResult(c) PROVE Unsent' BY <2>3 DEF WriteResult
  <2>4. ASSUME NEW p \in Paths, Receive(p) PROVE Unsent' BY <2>4 DEF Receive
  <2>5. CASE ResultsWritten \/ Absorb BY <2>5 DEF ResultsWritten, Absorb
  <2> QED BY <1>3, <2>1, <2>2, <2>3, <2>4, <2>5 DEF WatchStep
<1>4. CASE RemoveFails \/ ApplyFails \/ WriteFails \/ Crash \/ Restart
  BY <1>4 DEF RemoveFails, ApplyFails, WriteFails, Crash, Restart
<1>5. ASSUME NEW p \in Paths, Edit(p) PROVE Unsent' BY <1>5 DEF Edit
<1> QED BY <1>1, <1>2, <1>3, <1>4, <1>5 DEF Next

(* A client that names its files asks for some.                            *)
LEMMA AskedPaths ==
    ASSUME NamesFiles, NEW c \in Clients
    PROVE  Asked(c) = Request[c].paths /\ Asked(c) \in (SUBSET Paths) \ {{}}
BY ClientsAssumption DEF NamesFiles, Asked, Requests

(* An answer stays fresh while the graph only gets newer.                  *)
LEMMA FreshStays ==
    ASSUME NamesFiles, TypeOK, TypeOK', NEW c \in Clients, FreshFor(c),
           \A p \in Paths : graph'[p] >= graph[p] /\ wanted'[c][p] = wanted[c][p]
    PROVE  FreshFor(c)'
<1> SUFFICES ASSUME NEW p \in Asked(c) PROVE graph'[p] >= wanted'[c][p]
  BY DEF FreshFor, Asked
<1>1. p \in Paths BY AskedPaths
<1>2. /\ graph[p] \in Nat /\ graph'[p] \in Nat /\ wanted[c][p] \in Nat
      /\ graph[p] >= wanted[c][p]
  BY <1>1 DEF TypeOK, FreshFor
<1> QED BY <1>1, <1>2

(* The steps that touch no file and no target, and tell only what is fresh, *)
(* keep Fresh.                                                             *)
LEMMA FreshKept ==
    ASSUME NamesFiles, TypeOK, TypeOK', Fresh,
           UNCHANGED <<disk, graph, wanted, targets, outcome>>, batch' \subseteq batch,
           watcher' \in {"apply", "index", "results"} => watcher' = watcher,
           \A c \in Clients : "ok" \in {results'[c], client'[c]} =>
               "ok" \in {results[c], client[c]} \/ FreshFor(c)
    PROVE  Fresh'
<1>1. \A c \in Clients : FreshFor(c)' <=> FreshFor(c)
  BY DEF FreshFor, Asked
<1>2. batch \subseteq Clients BY DEF TypeOK
<1>3. \A c \in Clients : "ok" \in {results'[c], client'[c]} => FreshFor(c)
  BY DEF Fresh
<1> QED BY <1>1, <1>2, <1>3 DEF Fresh, Asked

(* The end of an update whose batch is fresh, or that failed, keeps Fresh. *)
LEMMA FreshServed ==
    ASSUME NamesFiles, TypeOK, Fresh, UNCHANGED <<disk, graph, wanted, batch, results, client>>,
           NEW verdict, Serve(verdict), watcher' = "results",
           verdict = "ok" => \A c \in batch : FreshFor(c)
    PROVE  Fresh'
<1>1. \A c \in Clients : FreshFor(c)' <=> FreshFor(c)
  BY DEF FreshFor, Asked
<1>2. batch \subseteq Clients BY DEF TypeOK
<1> QED BY <1>1, <1>2 DEF Fresh

(* Fresh is preserved by every step.                                       *)
LEMMA FreshStep ==
    ASSUME NamesFiles, TypeOK, TypeOK', Unsent, Fresh, [Next]_vars PROVE Fresh'
<1>1. CASE UNCHANGED vars BY <1>1, FreshKept DEF vars, TypeOK
<1>2. ASSUME NEW c \in Clients, ClientStep(c) \/ Timeout(c) \/ Interrupt(c) PROVE Fresh'
  <2>1. CASE Submit(c)
    <3>1. /\ UNCHANGED <<disk, graph, results, batch, targets, outcome, watcher>>
          /\ wanted' = [wanted EXCEPT ![c] = disk]
          /\ results[c] = "none" /\ client'[c] # "ok" /\ c \notin batch
          /\ \A d \in Clients \ {c} : client'[d] = client[d]
      BY <2>1 DEF Submit, Unsent, TypeOK
    <3>2. \A d \in Clients \ {c} : wanted'[d] = wanted[d] /\ (FreshFor(d)' <=> FreshFor(d))
      BY <3>1 DEF TypeOK, FreshFor, Asked
    <3>3. wanted'[c] = disk BY <3>1 DEF TypeOK
    <3>4. \A d \in Clients, p \in Paths : wanted'[d][p] <= disk'[p]
      BY <3>1, <3>2, <3>3 DEF Fresh, TypeOK
    <3>5. batch \subseteq Clients BY DEF TypeOK
    <3>6. \A d \in Clients : "ok" \in {results'[d], client'[d]} => FreshFor(d)'
      BY <3>1, <3>2 DEF Fresh
    <3> QED BY <3>1, <3>2, <3>4, <3>5, <3>6 DEF Fresh, Asked
  <2>2. CASE ~Submit(c)
    <3>1. UNCHANGED <<disk, graph, wanted, targets, outcome, batch, watcher>>
      BY <1>2, <2>2 DEF ClientStep, CountLines, Open, Append, ReadResult, Timeout, Interrupt
    <3>2. \A d \in Clients : "ok" \in {results'[d], client'[d]} => "ok" \in {results[d], client[d]}
      BY <1>2, <2>2 DEF TypeOK, ClientStep, CountLines, Open, Append, ReadResult, Timeout, Interrupt
    <3> QED BY <3>1, <3>2, FreshKept
  <2> QED BY <2>1, <2>2
<1>3. CASE WatchStep
  <2>1. ASSUME NEW p \in Paths, Receive(p) PROVE Fresh' BY <2>1, FreshKept DEF Receive
  <2>2. CASE Wake \/ Drain \/ Remove \/ Absorb
    BY <2>2, FreshKept DEF Wake, Drain, Remove, Absorb
  <2>3. CASE ReadBatch
    <3>1. \A c \in Clients : FreshFor(c)' <=> FreshFor(c)
      BY <2>3 DEF ReadBatch, FreshFor, Asked
    <3> QED BY <2>3, <3>1 DEF ReadBatch, Fresh
  <2>4. CASE Gather
    <3>1. UNCHANGED <<disk, graph, wanted, results, client, batch>> /\ watcher' \in {"absorb", "apply"}
      BY <2>4 DEF Gather
    <3>2. \A c \in Clients : FreshFor(c)' <=> FreshFor(c)
      BY <3>1 DEF FreshFor, Asked
    <3>3. watcher' = "apply" => targets' = pending \cup UNION {Request[c].paths : c \in batch}
      <4>1. \A c \in batch : Request[c].mode = "paths" BY DEF TypeOK, NamesFiles
      <4> QED BY <2>4, <4>1 DEF Gather, Work, Mode
    <3>4. watcher' = "apply" => \A c \in batch : Asked(c) \subseteq targets'
      <4>1. \A c \in batch : Asked(c) = Request[c].paths BY AskedPaths DEF TypeOK
      <4> QED BY <3>3, <4>1
    <3> QED BY <3>1, <3>2, <3>4 DEF Fresh, Asked
  <2>5. CASE Extract
    <3>1. /\ UNCHANGED <<disk, wanted, results, client, batch, targets>>
          /\ watcher = "apply" /\ watcher' = "index"
          /\ \A p \in Paths : graph'[p] = IF p \in targets THEN disk[p] ELSE graph[p]
      BY <2>5 DEF Extract
    <3>2. \A p \in Paths : graph'[p] <= disk'[p] /\ graph'[p] >= graph[p]
      BY <3>1 DEF Fresh, TypeOK
    <3>3. \A c \in Clients : FreshFor(c) => FreshFor(c)'
      BY <3>1, <3>2, FreshStays
    <3>4. ASSUME NEW c \in batch PROVE FreshFor(c)'
      <4>1. c \in Clients /\ Asked(c) \subseteq targets BY <3>1 DEF Fresh, TypeOK
      <4>2. \A p \in Asked(c) : p \in Paths /\ graph'[p] = disk[p] BY <3>1, <4>1, AskedPaths
      <4>3. \A p \in Asked(c) : disk[p] >= wanted[c][p] BY <4>1, <4>2 DEF Fresh, TypeOK
      <4> QED BY <3>1, <4>2, <4>3 DEF FreshFor, Asked
    <3> QED BY <3>1, <3>2, <3>3, <3>4 DEF Fresh
  <2>6. CASE AlreadyCurrent
    <3>1. ASSUME NEW c \in batch PROVE Asked(c) # {}
      <4>1. c \in Clients BY DEF TypeOK
      <4>2. Asked(c) \in (SUBSET Paths) \ {{}} BY <4>1, AskedPaths
      <4> QED BY <4>2
    <3>2. \A c \in batch : Asked(c) = {} BY <2>6 DEF AlreadyCurrent, Fresh
    <3>3. batch = {} BY <3>1, <3>2
    <3> QED BY <2>6, <3>3, FreshServed DEF AlreadyCurrent
  <2>7. CASE Index BY <2>7, FreshServed DEF Index, Fresh
  <2>8. ASSUME NEW c \in Clients, WriteResult(c) PROVE Fresh'
    <3>1. outcome = "ok" => FreshFor(c) BY <2>8 DEF WriteResult, Fresh
    <3> QED BY <2>8, <3>1, FreshKept DEF WriteResult, TypeOK
  <2>9. CASE ResultsWritten
    <3>1. \A c \in Clients : FreshFor(c)' <=> FreshFor(c)
      BY <2>9 DEF ResultsWritten, FreshFor, Asked
    <3> QED BY <2>9, <3>1 DEF ResultsWritten, Fresh
  <2> QED
    BY <1>3, <2>1, <2>2, <2>3, <2>4, <2>5, <2>6, <2>7, <2>8, <2>9 DEF WatchStep
<1>4. CASE ApplyFails BY <1>4, FreshServed DEF ApplyFails
<1>5. CASE WriteFails \/ Crash
  <2>1. \A c \in Clients : FreshFor(c)' <=> FreshFor(c)
    BY <1>5 DEF WriteFails, Crash, FreshFor, Asked
  <2> QED BY <1>5, <2>1 DEF WriteFails, Crash, Fresh
<1>6. ASSUME NEW p \in Paths, Edit(p) PROVE Fresh'
  <2>1. /\ UNCHANGED <<graph, wanted, results, client, batch, targets, outcome, watcher>>
        /\ \A q \in Paths : disk'[q] >= disk[q]
    BY <1>6 DEF Edit, TypeOK
  <2>2. \A c \in Clients : FreshFor(c)' <=> FreshFor(c)
    BY <2>1 DEF FreshFor, Asked
  <2>3. \A q \in Paths : graph'[q] <= disk'[q]
    BY <2>1 DEF Fresh, TypeOK
  <2>4. \A c \in Clients, q \in Paths : wanted'[c][q] <= disk'[q]
    BY <2>1 DEF Fresh, TypeOK
  <2>5. batch \subseteq Clients BY DEF TypeOK
  <2> QED BY <2>1, <2>2, <2>3, <2>4, <2>5 DEF Fresh, Asked
<1>7. CASE Restart BY <1>7, FreshKept DEF Restart
<1>8. CASE RemoveFails BY <1>8, FreshKept DEF RemoveFails
<1> QED BY <1>1, <1>2, <1>3, <1>4, <1>5, <1>6, <1>7, <1>8 DEF Next

(* A client that names its files and is told that its update succeeded     *)
(* reads a graph at least as new as those files were when it asked, for    *)
(* every instance in which all clients do, whatever edits, crashes and     *)
(* failures come in between, also failures to remove a drained file.       *)
THEOREM OkIsFresh == ASSUME NamesFiles PROVE Spec => []OkMeansFresh
<1>1. Init => Unsent /\ Fresh BY DEF Init, Unsent, Fresh, Nothing
<1>2. Spec => []Unsent
  BY <1>1, UnsentStep, TypeCorrect, PTL DEF Spec
<1>3. Spec => []Fresh
  BY <1>1, <1>2, FreshStep, TypeCorrect, PTL DEF Spec
<1>4. Fresh => OkMeansFresh
  BY DEF Fresh, FreshFor, OkMeansFresh
<1> QED BY <1>3, <1>4, PTL

-----------------------------------------------------------------------------
\* What the abstract specification sees of a state.
View(c) == <<StageOf(c), AnswerOf(c)>>
Unseen == \A c \in Clients : View(c)' = View(c)
Abs == Abstract!Next

(* A step the abstract specification does not see is a stutter.            *)
LEMMA Stutter == Unseen => UNCHANGED Abstract!avars
BY DEF Unseen, View, Abstract!avars

(* A step that moves the stage of a group of requests and tells nobody     *)
(* anything is the abstract move.                                          *)
LEMMA Moves ==
    ASSUME NEW group \in SUBSET Clients, NEW from, NEW to,
           \A c \in group : StageOf(c) = from /\ StageOf(c)' = to,
           \A c \in Clients \ group : StageOf(c)' = StageOf(c),
           \A c \in Clients : AnswerOf(c)' = AnswerOf(c)
    PROVE  Abstract!Move(group, from, to)
BY DEF Abstract!Move

(* Each step of a client is an abstract step or a stutter.                 *)
LEMMA ClientRefines ==
    ASSUME IInv, Verdicts, NEW c \in Clients, ClientStep(c) \/ Timeout(c) \/ Interrupt(c)
    PROVE  Abs \/ UNCHANGED Abstract!avars
<1> USE DEF IInv, TypeOK, OnePlace, StageOf, AnswerOf, Unseen, View
<1>1. CASE Submit(c) BY <1>1, Stutter DEF Submit
<1>2. CASE CountLines(c) BY <1>2, Stutter DEF CountLines
<1>3. CASE Open(c) BY <1>3, ConstantFacts, Stutter DEF Open
<1>4. CASE Append(c)
  <2>1. StageOf(c) = "new" BY <1>4 DEF Append
  <2>2. StageOf(c)' \in {"accepted", "lost"} BY <1>4, ConstantFacts DEF Append
  <2>3. \A d \in Clients \ {c} : StageOf(d)' = StageOf(d) BY <1>4, ConstantFacts DEF Append
  <2>4. \A d \in Clients : AnswerOf(d)' = AnswerOf(d) BY <1>4 DEF Append
  <2>5. Abstract!Move({c}, "new", "accepted") \/ Abstract!Move({c}, "new", "lost")
    BY <2>1, <2>2, <2>3, <2>4, Moves
  <2> QED BY <2>5 DEF Abs, Abstract!Next, Abstract!Submit
<1>5. CASE ReadResult(c)
  <2>1. StageOf(c) \in Told /\ client'[c] = StageOf(c) BY <1>5 DEF ReadResult, Verdicts
  <2>2. \A d \in Clients : StageOf(d)' = StageOf(d) BY <1>5, <2>1 DEF ReadResult
  <2>3. AnswerOf(c) = "none" /\ \A d \in Clients : AnswerOf(d)' = IF d = c THEN StageOf(c) ELSE AnswerOf(d)
    BY <1>5, <2>1 DEF ReadResult
  <2>4. Abstract!Tell(c)
    BY <2>1, <2>2, <2>3 DEF Abstract!Tell, Abstract!Verdict
  <2> QED BY <2>4 DEF Abs, Abstract!Next
<1>6. CASE Timeout(c) BY <1>6, Stutter DEF Timeout
<1>7. CASE Interrupt(c)
  <2>1. CASE client[c] = "waiting" BY <1>7, <2>1, Stutter DEF Interrupt
  <2>2. CASE client[c] # "waiting"
    <3>1. StageOf(c) = "new" /\ StageOf(c)' = "lost" BY <1>7, <2>2 DEF Interrupt
    <3>2. \A d \in Clients \ {c} : StageOf(d)' = StageOf(d) BY <1>7 DEF Interrupt
    <3>3. \A d \in Clients : AnswerOf(d)' = AnswerOf(d) BY <1>7, <2>2 DEF Interrupt
    <3>4. Abstract!Move({c}, "new", "lost") BY <3>1, <3>2, <3>3, Moves
    <3> QED BY <3>4 DEF Abs, Abstract!Next, Abstract!Submit
  <2> QED BY <2>1, <2>2
<1> QED BY <1>1, <1>2, <1>3, <1>4, <1>5, <1>6, <1>7 DEF ClientStep

(* The end of an update is the abstract serving of its batch.              *)
LEMMA ServeRefines ==
    ASSUME IInv, Verdicts, NEW verdict \in Told, Serve(verdict),
           watcher \in {"apply", "index"},
           UNCHANGED <<queue, processing, client, batch>>
    PROVE  Abs
<1> USE DEF IInv, TypeOK, OnePlace, StageOf, AnswerOf
<1>1. \A c \in batch : StageOf(c) = "accepted" /\ StageOf(c)' = verdict OBVIOUS
<1>2. \A c \in Clients \ batch : StageOf(c)' = StageOf(c) OBVIOUS
<1>3. \A c \in Clients : AnswerOf(c)' = AnswerOf(c) OBVIOUS
<1>4. Abstract!Move(batch, "accepted", verdict) BY <1>1, <1>2, <1>3, Moves
<1> QED BY <1>4 DEF Abs, Abstract!Next, Abstract!Serve, Abstract!Verdict

\* A client that sent its request and was told nothing.
Sent(c) == client[c] \in {"waiting", "detached", "timeout", "interrupted"}

\* Where the request of a client can be.
Somewhere == Lines(queue) \cup Lines(processing) \cup batch

(* A request that is somewhere and was not served was sent.                *)
LEMMA SomewhereIsSent ==
    ASSUME IInv, Verdicts, NEW c \in Somewhere, served[c] = "no"
    PROVE  c \in Clients /\ Sent(c)
BY DEF IInv, TypeOK, OnePlace, Verdicts, Sent, Somewhere

(* Requests that disappear from the files and the batch are lost.          *)
LEMMA LoseRefines ==
    ASSUME IInv, Verdicts, UNCHANGED <<client, served>>,
           Somewhere' \subseteq Somewhere,
           \A c \in Somewhere \ Somewhere' : served[c] = "no"
    PROVE  Abs
<1> DEFINE group == Somewhere \ Somewhere'
<1>0. group \in SUBSET Clients BY DEF Somewhere, IInv, TypeOK
<1>1. \A c \in group : StageOf(c) = "accepted" /\ StageOf(c)' = "lost"
  BY SomewhereIsSent DEF StageOf, Sent, Somewhere
<1>2. \A c \in Clients \ group : StageOf(c)' = StageOf(c) BY DEF StageOf, Somewhere
<1>3. \A c \in Clients : AnswerOf(c)' = AnswerOf(c) BY DEF AnswerOf
<1>4. Abstract!Move(group, "accepted", "lost") BY <1>0, <1>1, <1>2, <1>3, Moves
<1> QED BY <1>0, <1>4 DEF Abs, Abstract!Next, Abstract!Lose

(* Each step of the watcher is an abstract step or a stutter.              *)
LEMMA WatcherRefines ==
    ASSUME ~RemovalFails, IInv, Verdicts, WatchStep \/ RemoveFails \/ ApplyFails \/ WriteFails \/ Crash \/ Restart
    PROVE  Abs \/ UNCHANGED Abstract!avars
<1> USE DEF StageOf, AnswerOf, Unseen, View
<1>1. ASSUME NEW p \in Paths, Receive(p) PROVE Unseen BY <1>1 DEF Receive
<1>2. CASE Wake BY <1>2, Stutter DEF Wake
<1>3. CASE Drain BY <1>3, ConstantFacts, Stutter DEF Drain
<1>4. CASE ReadBatch BY <1>4, Stutter DEF ReadBatch, IInv, OnePlace
<1>5. CASE Remove
  <2>1. Somewhere' \subseteq Somewhere BY <1>5 DEF Remove, Somewhere
  <2>2. \A c \in Somewhere \ Somewhere' : served[c] = "no"
    BY <1>5 DEF Remove, Somewhere, IInv, OnePlace
  <2> QED BY <1>5, <2>1, <2>2, LoseRefines DEF Remove
<1>6. CASE Gather BY <1>6, Stutter DEF Gather
<1>7. CASE Extract BY <1>7, Stutter DEF Extract
<1>8. CASE AlreadyCurrent BY <1>8, ServeRefines DEF AlreadyCurrent
<1>9. CASE Index BY <1>9, ServeRefines DEF Index
<1>10. ASSUME NEW c \in Clients, WriteResult(c) PROVE Unseen
  <2>1. served[c] \in Told BY <1>10 DEF WriteResult, Verdicts
  <2> QED BY <1>10, <2>1 DEF WriteResult
<1>11. CASE ResultsWritten BY <1>11, Stutter DEF ResultsWritten
<1>12. CASE Absorb BY <1>12, Stutter DEF Absorb
<1>13. CASE ApplyFails BY <1>13, ServeRefines DEF ApplyFails
<1>14. CASE WriteFails
  <2>1. \A c \in batch : served[c] \in Told BY <1>14 DEF WriteFails, Verdicts
  <2> QED BY <1>14, <2>1, Stutter DEF WriteFails
<1>15. CASE Crash
  <2>1. Somewhere' \subseteq Somewhere BY <1>15 DEF Crash, Somewhere
  <2>2. CASE watcher = "results"
    <3>1. \A c \in batch : served[c] \in Told BY <2>2 DEF Verdicts
    <3> QED BY <1>15, <3>1, Stutter DEF Crash
  <2>3. CASE watcher # "results"
    <3>1. \A c \in Somewhere \ Somewhere' : served[c] = "no"
      BY <1>15, <2>3 DEF Crash, Somewhere, IInv, OnePlace
    <3> QED BY <1>15, <2>1, <3>1, LoseRefines DEF Crash
  <2> QED BY <2>2, <2>3
<1>16. CASE Restart BY <1>16, Stutter DEF Restart
<1>17. CASE RemoveFails BY <1>17 DEF RemoveFails
<1> QED
  BY <1>1, <1>2, <1>3, <1>4, <1>5, <1>6, <1>7, <1>8, <1>9, <1>10, <1>11,
     <1>12, <1>13, <1>14, <1>15, <1>16, <1>17, Stutter DEF WatchStep

(* An edit is a stutter of the abstract specification.                     *)
LEMMA EditRefines == ASSUME NEW p \in Paths, Edit(p) PROVE UNCHANGED Abstract!avars
BY Stutter DEF Edit, Unseen, View, StageOf, AnswerOf

(* The queue, with its files, handles, crashes and failures, implements    *)
(* the promise of UpdateRequests.                                          *)
THEOREM Refinement == ASSUME ~RemovalFails PROVE Spec => AbstractSpec
<1>1. Init => Abstract!Init
  BY DEF Init, Abstract!Init, StageOf, AnswerOf
<1>2. IInv /\ Verdicts /\ [Next]_vars => [Abstract!Next]_(Abstract!avars)
  <2> SUFFICES ASSUME IInv, Verdicts, [Next]_vars
               PROVE  Abs \/ UNCHANGED Abstract!avars
    BY DEF Abs
  <2>1. CASE UNCHANGED vars
    BY <2>1, Stutter DEF vars, Unseen, View, StageOf, AnswerOf
  <2>2. CASE Next BY <2>2, ClientRefines, WatcherRefines, EditRefines DEF Next
  <2> QED BY <2>1, <2>2
<1> QED BY <1>1, <1>2, Placement, VerdictsAgree, PTL DEF Spec, AbstractSpec, Abstract!Spec

-----------------------------------------------------------------------------
(* The part of the two liveness properties that is not fairness: what the  *)
(* watcher still has to do is written down somewhere, and only gets        *)
(* nearer.                                                                 *)

(* No edit is forgotten: while the watcher neither dies nor fails, a file  *)
(* the snapshot does not describe is in the notifier's channel, among the  *)
(* pending paths, or a target of the update about to extract (watch_loop,  *)
(* apply_cycle).  When none of the three holds a path, graph = disk, which *)
(* is what Converges waits for.                                            *)
Due == events \cup pending \cup (IF watcher = "apply" THEN targets ELSE {})

EditKept == Undisturbed => \A p \in Paths : graph[p] # disk[p] => p \in Due

(* A watcher that is down was killed.                                      *)
Watched == watcher = "down" => ~Undisturbed

(* Watched is preserved by every step.                                     *)
LEMMA WatchedStep == ASSUME TypeOK, Watched, [Next]_vars PROVE Watched'
<1> USE DEF TypeOK, Watched, Undisturbed
<1>1. CASE UNCHANGED vars BY <1>1 DEF vars
<1>2. ASSUME NEW c \in Clients, ClientStep(c) \/ Timeout(c) \/ Interrupt(c) PROVE Watched'
  BY <1>2 DEF ClientStep, Submit, CountLines, Open, Append, ReadResult, Timeout, Interrupt
<1>3. CASE WatchStep
  BY <1>3 DEF WatchStep, Receive, Wake, Drain, ReadBatch, Remove, Gather, Extract,
              AlreadyCurrent, Index, WriteResult, ResultsWritten, Absorb
<1>4. CASE RemoveFails \/ ApplyFails \/ WriteFails \/ Crash \/ Restart
  BY <1>4 DEF RemoveFails, ApplyFails, WriteFails, Crash, Restart
<1>5. ASSUME NEW p \in Paths, Edit(p) PROVE Watched' BY <1>5 DEF Edit
<1> QED BY <1>1, <1>2, <1>3, <1>4, <1>5 DEF Next

(* EditKept is preserved by every step.                                    *)
LEMMA EditKeptStep ==
    ASSUME NamesFiles, TypeOK, Watched, EditKept, [Next]_vars PROVE EditKept'
<1> SUFFICES ASSUME Undisturbed', NEW p \in Paths, graph'[p] # disk'[p] PROVE p \in Due'
  BY DEF EditKept
<1> USE DEF Due, Undisturbed, EditKept
<1>1. CASE UNCHANGED vars BY <1>1 DEF vars
<1>2. ASSUME NEW c \in Clients, ClientStep(c) \/ Timeout(c) \/ Interrupt(c) PROVE p \in Due'
  <2>1. UNCHANGED <<watchVars, repoVars, faults>>
    BY <1>2 DEF ClientStep, Submit, CountLines, Open, Append, ReadResult, Timeout, Interrupt
  <2> QED BY <2>1
<1>3. CASE WatchStep
  <2>1. ASSUME NEW q \in Paths, Receive(q) PROVE p \in Due' BY <2>1 DEF Receive
  <2>2. CASE Wake \/ Drain \/ ReadBatch \/ Remove
    BY <2>2 DEF Wake, Drain, ReadBatch, Remove
  <2>3. CASE Gather
    <3>1. p \in events \cup pending BY <2>3 DEF Gather
    <3>2. watcher' = "apply" => pending \subseteq targets'
      <4>1. \A c \in batch : Request[c].mode = "paths" BY DEF TypeOK, NamesFiles
      <4> QED BY <2>3, <4>1 DEF Gather, Work, Mode
    <3> QED BY <2>3, <3>1, <3>2 DEF Gather
  <2>4. CASE Extract BY <2>4 DEF Extract
  <2>5. CASE AlreadyCurrent BY <2>5 DEF AlreadyCurrent
  <2>6. CASE Index BY <2>6 DEF Index
  <2>7. ASSUME NEW c \in Clients, WriteResult(c) PROVE p \in Due' BY <2>7 DEF WriteResult
  <2>8. CASE ResultsWritten BY <2>8 DEF ResultsWritten
  <2>9. CASE Absorb BY <2>9 DEF Absorb
  <2> QED BY <1>3, <2>1, <2>2, <2>3, <2>4, <2>5, <2>6, <2>7, <2>8, <2>9 DEF WatchStep
<1>4. CASE RemoveFails \/ ApplyFails \/ WriteFails \/ Crash
  BY <1>4 DEF TypeOK, RemoveFails, ApplyFails, WriteFails, Crash
<1>5. ASSUME NEW q \in Paths, Edit(q) PROVE p \in Due'
  <2>1. watcher # "down" BY <1>5 DEF Edit, Watched
  <2> QED BY <1>5, <2>1 DEF Edit, TypeOK
<1>6. CASE Restart BY <1>6 DEF Restart
<1> QED BY <1>1, <1>2, <1>3, <1>4, <1>5, <1>6 DEF Next

(* No edit is forgotten, in every instance in which all clients name their *)
(* files: an update that follows the recorded hashes can forget one.       *)
THEOREM EditsAreKept == ASSUME NamesFiles PROVE Spec => []EditKept
<1>1. Init => Watched /\ EditKept BY DEF Init, Watched, EditKept, Nothing
<1> QED BY <1>1, WatchedStep, EditKeptStep, TypeCorrect, PTL DEF Spec

(* How near its answer a request is: in the queue file, in the drained     *)
(* file before it is read, in the batch, in its result file.  A line that  *)
(* reached the drained file after it was read has no leg.                  *)
Leg(c) ==
    IF results[c] # "none" THEN 4
    ELSE IF c \in batch THEN 3
    ELSE IF watcher = "read" /\ c \in Lines(processing) THEN 2
    ELSE IF c \in Lines(queue) THEN 1 ELSE 0

(* While the watcher neither dies nor fails and the client waits, a        *)
(* request whose line is in the queue file is never set back and never     *)
(* lost, whatever other clients, edits and updates come in between         *)
(* (drain_queue, apply_queue_batch, write_result).                         *)
RequestsGoForward ==
    [][\A c \in Clients :
         client[c] = "waiting" /\ client'[c] = "waiting" /\ Undisturbed' /\ Leg(c) > 0
            => Leg(c)' >= Leg(c)]_vars

(* No step sets a waiting client's request back.                           *)
LEMMA LegStep ==
    ASSUME IInv, Verdicts, Watched, [Next]_vars, Undisturbed', NEW c \in Clients,
           client[c] = "waiting", client'[c] = "waiting", Leg(c) > 0
    PROVE  Leg(c)' >= Leg(c)
<1> USE DEF Leg, IInv, TypeOK
<1>1. CASE UNCHANGED vars BY <1>1 DEF vars
<1>2. ASSUME NEW d \in Clients, ClientStep(d) \/ Timeout(d) \/ Interrupt(d)
      PROVE  Leg(c)' >= Leg(c)
  <2>1. CASE Submit(d) BY <2>1 DEF Submit
  <2>2. CASE CountLines(d) BY <2>2 DEF CountLines
  <2>3. CASE Open(d) BY <2>3, ConstantFacts DEF Open
  <2>4. CASE Append(d) BY <2>4, ConstantFacts DEF Append
  <2>5. CASE ReadResult(d) BY <2>5 DEF ReadResult
  <2>6. CASE Timeout(d) BY <2>6 DEF Timeout
  <2>7. CASE Interrupt(d) BY <2>7 DEF Interrupt
  <2> QED BY <1>2, <2>1, <2>2, <2>3, <2>4, <2>5, <2>6, <2>7 DEF ClientStep
<1>3. CASE WatchStep
  <2>1. ASSUME NEW p \in Paths, Receive(p) PROVE Leg(c)' >= Leg(c) BY <2>1 DEF Receive
  <2>2. CASE Wake BY <2>2 DEF Wake
  <2>3. CASE Drain BY <2>3, ConstantFacts DEF Drain
  <2>4. CASE ReadBatch BY <2>4 DEF ReadBatch, OnePlace
  <2>5. CASE Remove BY <2>5 DEF Remove
  <2>6. CASE Gather BY <2>6 DEF Gather
  <2>7. CASE Extract BY <2>7 DEF Extract
  <2>8. CASE AlreadyCurrent BY <2>8 DEF AlreadyCurrent
  <2>9. CASE Index BY <2>9 DEF Index
  <2>10. ASSUME NEW d \in Clients, WriteResult(d) PROVE Leg(c)' >= Leg(c)
    <3>1. watcher = "results" /\ outcome \in Told BY <2>10 DEF WriteResult, Verdicts
    <3> QED BY <2>10, <3>1 DEF WriteResult
  <2>11. CASE ResultsWritten BY <2>11 DEF ResultsWritten
  <2>12. CASE Absorb BY <2>12 DEF Absorb
  <2> QED BY <1>3, <2>1, <2>2, <2>3, <2>4, <2>5, <2>6, <2>7, <2>8, <2>9, <2>10, <2>11, <2>12 DEF WatchStep
<1>4. CASE RemoveFails \/ ApplyFails \/ WriteFails \/ Crash
  BY <1>4 DEF RemoveFails, ApplyFails, WriteFails, Crash, Undisturbed
<1>5. ASSUME NEW p \in Paths, Edit(p) PROVE Leg(c)' >= Leg(c) BY <1>5 DEF Edit
<1>6. CASE Restart BY <1>6 DEF Restart, Watched, Undisturbed
<1> QED BY <1>1, <1>2, <1>3, <1>4, <1>5, <1>6 DEF Next

(* Requests only get nearer their answers, for every instance.             *)
THEOREM RequestsAdvance == ASSUME ~RemovalFails PROVE Spec => RequestsGoForward
<1>1. Init => Watched BY DEF Init, Watched
<1>2. Spec => []Watched BY <1>1, WatchedStep, TypeCorrect, PTL DEF Spec
<1>3. IInv /\ Verdicts /\ Watched /\ [Next]_vars =>
        [\A c \in Clients :
           client[c] = "waiting" /\ client'[c] = "waiting" /\ Undisturbed' /\ Leg(c) > 0
              => Leg(c)' >= Leg(c)]_vars
  BY LegStep
<1> QED BY <1>2, <1>3, Placement, VerdictsAgree, PTL DEF Spec, RequestsGoForward

=============================================================================
