--------------------------- MODULE UpdateRequests ---------------------------
(***************************************************************************)
(* What the update queue promises its clients, without files, watchers or  *)
(* crashes.  A request is served at most once, together with the requests  *)
(* it was coalesced with and with the same verdict; it may be lost on the  *)
(* way; and a client that is told a verdict is told the verdict of its own *)
(* request.                                                                *)
(***************************************************************************)
CONSTANTS Clients

Verdict == {"ok", "err"}

VARIABLES
    stage,      \* what became of each client's request
    answer      \* what each client was told

avars == <<stage, answer>>

Init ==
    /\ stage = [c \in Clients |-> "new"]
    /\ answer = [c \in Clients |-> "none"]

Move(group, from, to) ==
    /\ \A c \in group : stage[c] = from
    /\ stage' = [c \in Clients |-> IF c \in group THEN to ELSE stage[c]]
    /\ UNCHANGED answer

\* A request arrives, or is lost before anybody could see it.
Submit(c) == Move({c}, "new", "accepted") \/ Move({c}, "new", "lost")

\* The requests of one batch share one verdict.
Serve(batch, verdict) == Move(batch, "accepted", verdict)

\* Requests that were accepted may be forgotten.
Lose(batch) == Move(batch, "accepted", "lost")

\* A client learns the verdict of its request, once.
Tell(c) ==
    /\ answer[c] = "none"
    /\ stage[c] \in Verdict
    /\ answer' = [answer EXCEPT ![c] = stage[c]]
    /\ UNCHANGED stage

Next ==
    \/ \E c \in Clients : Submit(c) \/ Tell(c)
    \/ \E batch \in SUBSET Clients :
        Lose(batch) \/ \E verdict \in Verdict : Serve(batch, verdict)

Spec == Init /\ [][Next]_avars

=============================================================================
