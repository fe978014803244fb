------------------------- MODULE AnnounceRequests -------------------------
(***************************************************************************)
(* What trackers promise about their requests, whatever the network does:  *)
(* an answer is taken only while a request is open, and it closes that     *)
(* request, so that a lost, late or repeated datagram is never taken for   *)
(* the answer to another request.  One step may concern several trackers:  *)
(* the failure of one makes another ask.                                   *)
(***************************************************************************)
EXTENDS Naturals

CONSTANT Asker    \* the trackers

VARIABLES
    asked,   \* asked[t]: the number of the last request of t, 0 if there is none
    open,    \* open[t]: that request is not answered yet
    taken    \* taken[t]: how many answers t has taken

Init ==
    /\ asked = [t \in Asker |-> 0]
    /\ open = [t \in Asker |-> FALSE]
    /\ taken = [t \in Asker |-> 0]

\* A new request, whether or not the one before was answered
Asks(t) == asked'[t] > asked[t] /\ open'[t]
Rests(t) == asked'[t] = asked[t]

Keep(t) == Rests(t) /\ open'[t] = open[t] /\ taken'[t] = taken[t]
Ask(t) == Asks(t) /\ taken'[t] = taken[t]
Answer(t) == Rests(t) /\ open[t] /\ ~open'[t] /\ taken'[t] = taken[t] + 1

\* The answer leads to the next request at once
AnswerAndAsk(t) == open[t] /\ Asks(t) /\ taken'[t] = taken[t] + 1

Next == \A t \in Asker : Keep(t) \/ Ask(t) \/ Answer(t) \/ AnswerAndAsk(t)

Spec == Init /\ [][Next]_<<asked, open, taken>>
=============================================================================
