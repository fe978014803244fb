---------------------------- MODULE SocketGroup ----------------------------
(***************************************************************************)
(* Sharing a rate limit among sockets: one update() of a network thread    *)
(* once it knows which sockets are ready.  net::NetworkThread::doGroups    *)
(* hands the allowance of the update to the net::SocketGroups, which have  *)
(* limits of their own, and processLimited shares each portion out among   *)
(* the sockets of a group, round after round.  The thread holds the mutex  *)
(* of the monitor throughout; the kernel receives data, and the main       *)
(* thread queues it, at any time in between.                               *)
(*                                                                         *)
(* Time is abstracted: an allowance, ceil(1.02 * limit * elapsed), is some *)
(* number the update starts with.                                          *)
(***************************************************************************)
EXTENDS Naturals, Sequences, FiniteSets, SequencesExt, FiniteSetsExt

CONSTANTS
    Sockets,        \* the list of the monitor, in its order
    Groups,         \* group ids, in the order of the PtrMap: 0 is the default
    GroupOf,        \* the group of each socket
    Limited,        \* groups with a limit > 0
    MaxAllowance,   \* bound on an allowance
    MaxAvail        \* bound on the bytes a socket has ready

ASSUME GroupsAssumption ==
    /\ Groups \in Seq(Nat) /\ Sockets \in Seq(DOMAIN GroupOf)
    /\ GroupOf \in [DOMAIN GroupOf -> Range(Groups)]
    /\ Limited \subseteq Range(Groups)
ASSUME BoundsAssumption == MaxAllowance \in Nat /\ MaxAvail \in Nat

VARIABLES
    up,                 \* which thread this is: TRUE the upload thread, FALSE the download thread
    cap,                \* dcap or ucap > 0, as the update under way read it
    sockets,            \* SocketGroup::sockets of each group
    group_allowance,    \* SocketGroup::group_allowance of each group
    allowance,          \* what is left of the global allowance, 0 without a cap
    num_ready,          \* num_ready of doGroups
    num_still_ready,    \* of the pass of doGroupsLimited under way
    at,                 \* the group the pass is at, as an index into Groups
    frame,              \* the processLimited or processUnlimited under way
    avail,              \* bytes each socket has to read, or to write
    open,               \* Socket::ok()
    eof,                \* the remote side has closed
    budget, group_budget,   \* history: the allowances this update began with
    moved, group_moved      \* history: the bytes it has moved so far

kernel == <<avail, open, eof>>
history == <<budget, group_budget, moved, group_moved>>
vars == <<up, cap, sockets, group_allowance, allowance, num_ready, num_still_ready, at, frame,
          kernel, history>>

NoFrame == [pc |-> "none", itr |-> 0, left |-> 0, given |-> 0, slot |-> 0]
Done == Len(Groups) + 1     \* the iterator is at the end of the map

Least(a, b) == IF a <= b THEN a ELSE b
CeilDiv(a, b) == (a + b - 1) \div b
Group == Groups[at]

-----------------------------------------------------------------------------
(* What happens around the thread *)

Arrive(s) ==
    /\ open[s] /\ ~eof[s] /\ avail[s] < MaxAvail
    /\ avail' = [avail EXCEPT ![s] = @ + 1]
    /\ UNCHANGED <<up, cap, sockets, group_allowance, allowance, num_ready, num_still_ready, at,
                   frame, open, eof, history>>

RemoteCloses(s) ==
    /\ ~up /\ open[s] /\ ~eof[s]
    /\ eof' = [eof EXCEPT ![s] = TRUE]
    /\ UNCHANGED <<up, cap, sockets, group_allowance, allowance, num_ready, num_still_ready, at,
                   frame, avail, open, history>>

-----------------------------------------------------------------------------
(* update and doGroups *)

\* poll() reports a socket to read from when it has data or was closed
Ready(s) == open[s] /\ (avail[s] > 0 \/ (~up /\ eof[s]))

NoSockets == [g \in Range(Groups) |-> <<>>]

\* the loop over the monitor's list: a ready socket is added to its group
Listed ==
    LET upTo[n \in 0..Len(Sockets)] ==
            IF n = 0 THEN NoSockets
            ELSE IF Ready(Sockets[n])
            THEN [upTo[n - 1] EXCEPT ![GroupOf[Sockets[n]]] = Append(@, Sockets[n])]
            ELSE upTo[n - 1]
    IN upTo[Len(Sockets)]

Update ==
    /\ at = Done /\ num_ready = 0
    /\ \E s \in Range(Sockets) : Ready(s)
    /\ num_ready' = Cardinality({s \in Range(Sockets) : Ready(s)})
    /\ sockets' = Listed
    /\ cap' \in BOOLEAN
    /\ allowance' \in IF cap' THEN 0..MaxAllowance ELSE {0}
    /\ \E b \in [Limited -> 0..MaxAllowance] :
          group_allowance' = [g \in Range(Groups) |-> IF g \in Limited THEN b[g] ELSE 0]
    /\ budget' = allowance' /\ group_budget' = group_allowance'
    /\ moved' = 0 /\ group_moved' = [g \in Range(Groups) |-> 0]
    /\ at' = 1 /\ num_still_ready' = 0
    /\ UNCHANGED <<up, frame, kernel>>

Begin(given, slot) == [pc |-> "process", itr |-> 1, left |-> given, given |-> given,
                       slot |-> slot]

\* what doGroupsLimited offers a group: its share, never 0 and never too much
Portion ==
    LET share == CeilDiv(Len(sockets[Group]) * allowance, num_ready)
    IN IF share > allowance \/ share = 0 THEN allowance ELSE share

\* mutant: the limit of the group is overlooked when there is a global one
EnteredByPortion(portion) ==
    IF portion = 0 THEN group_allowance[Group] ELSE portion

\* SocketGroup::process: how much processLimited may move; the group's own
\* allowance counts only in a group with a limit
Entered(portion) ==
    IF Group \notin Limited THEN portion
    ELSE IF portion = 0 \/ group_allowance[Group] < portion THEN group_allowance[Group]
    ELSE portion

EnterGroup ==
    LET portion == IF cap THEN Portion ELSE 0
        given == Entered(portion)
    IN /\ frame.pc = "none" /\ at < Done /\ (cap => allowance > 0)
       /\ sockets[Group] # <<>>
       /\ frame' = IF ~cap /\ Group \notin Limited
                   THEN [NoFrame EXCEPT !.pc = "unlimited", !.itr = 1]
                   ELSE Begin(given, given \div Len(sockets[Group]) + 1)
       /\ UNCHANGED <<up, cap, sockets, group_allowance, allowance, num_ready, num_still_ready, at,
                      kernel, history>>

SkipGroup ==
    /\ frame.pc = "none" /\ at < Done /\ (cap => allowance > 0)
    /\ sockets[Group] = <<>>
    /\ at' = at + 1
    /\ UNCHANGED <<up, cap, sockets, group_allowance, allowance, num_ready, num_still_ready,
                   frame, kernel, history>>

\* one pass is over: another one, or every group is cleared and update returns;
\* doGroupsLimited returns num_still_ready > 0
PassDone == frame.pc = "none" /\ (at = Done \/ (cap /\ allowance = 0)) /\ num_ready > 0

NextPass ==
    /\ PassDone /\ cap /\ allowance > 0 /\ num_still_ready > 0
    /\ num_ready' = 1 /\ num_still_ready' = 0 /\ at' = 1
    /\ UNCHANGED <<up, cap, sockets, group_allowance, allowance, frame, kernel, history>>

Return ==
    /\ PassDone /\ (cap => allowance = 0 \/ num_still_ready = 0)
    /\ sockets' = NoSockets
    /\ num_ready' = 0 /\ num_still_ready' = 0 /\ at' = Done
    /\ cap' = FALSE /\ allowance' = 0 /\ budget' = 0 /\ moved' = 0
    /\ group_budget' = [g \in Range(Groups) |-> 0]
    /\ group_moved' = [g \in Range(Groups) |-> 0]
    /\ UNCHANGED <<up, group_allowance, frame, kernel>>

-----------------------------------------------------------------------------
(* processLimited and processUnlimited: one socket per step *)

\* what readBuffered(max) and writeBuffered(max) do to the socket, as far as
\* this module sees it: m bytes are moved; readBuffered closes a socket that has
\* nothing to read.  max = 0: no limit.
Moves(s, max) ==
    LET most == IF max = 0 THEN avail[s] ELSE Least(avail[s], max)
    IN IF up THEN 0..most ELSE {most}

Transfer(s, m) ==
    /\ avail' = [avail EXCEPT ![s] = @ - m]
    /\ open' = [open EXCEPT ![s] = @ /\ (up \/ avail[s] > 0)]
    /\ moved' = moved + m
    /\ group_moved' = [group_moved EXCEPT ![Group] = @ + m]
    /\ UNCHANGED <<eof, budget, group_budget>>

Wrapped(i, list) == IF i > Len(list) THEN 1 ELSE i

\* mutant: a socket that cannot use its slot up stays in the list
ProcessLimitedKeepsAll ==
    LET s == sockets[Group][frame.itr]
        as == Least(frame.slot, frame.left)
    IN /\ frame.pc = "process" /\ frame.left > 0 /\ sockets[Group] # <<>>
       /\ \E m \in Moves(s, as) :
             /\ Transfer(s, m)
             /\ frame' = [frame EXCEPT !.itr = Wrapped(@ + 1, sockets[Group]), !.left = @ - m]
       /\ UNCHANGED <<up, cap, sockets, group_allowance, allowance, num_ready, num_still_ready, at>>

\* a socket that did not use its slot up is erased, the others get another turn
processLimited ==
    LET s == sockets[Group][frame.itr]
        as == Least(frame.slot, frame.left)
    IN /\ frame.pc = "process" /\ frame.left > 0 /\ sockets[Group] # <<>>
       /\ \E m \in Moves(s, as) :
             LET list == IF m = as THEN sockets[Group] ELSE RemoveAt(sockets[Group], frame.itr)
                 itr == IF m = as THEN frame.itr + 1 ELSE frame.itr
             IN /\ Transfer(s, m)
                /\ sockets' = [sockets EXCEPT ![Group] = list]
                /\ frame' = [frame EXCEPT !.itr = Wrapped(itr, list), !.left = @ - m]
       /\ UNCHANGED <<up, cap, group_allowance, allowance, num_ready, num_still_ready, at>>

processUnlimited ==
    LET s == sockets[Group][frame.itr]
    IN /\ frame.pc = "unlimited" /\ frame.itr <= Len(sockets[Group])
       /\ \E m \in Moves(s, 0) : Transfer(s, m)
       /\ frame' = [frame EXCEPT !.itr = @ + 1]
       /\ UNCHANGED <<up, cap, sockets, group_allowance, allowance, num_ready, num_still_ready, at>>

FrameDone ==
    \/ frame.pc = "process" /\ (frame.left = 0 \/ sockets[Group] = <<>>)
    \/ frame.pc = "unlimited" /\ frame.itr > Len(sockets[Group])

Charged(used) == IF cap THEN allowance - used ELSE 0

\* back in process, then in doGroupsLimited or doGroups: the allowances are
\* charged and a group that is done, or whose allowance is used up, is cleared
LeaveGroup ==
    LET used == frame.given - frame.left
        own == IF Group \in Limited THEN group_allowance[Group] - used ELSE 0
        again == cap /\ sockets[Group] # <<>> /\ (Group \in Limited => own > 0)
    IN /\ FrameDone
       /\ group_allowance' = [group_allowance EXCEPT ![Group] = own]
       /\ allowance' = Charged(used)
       /\ sockets' = [sockets EXCEPT ![Group] = IF again THEN @ ELSE <<>>]
       /\ num_still_ready' = num_still_ready + (IF again THEN Len(sockets[Group]) ELSE 0)
       /\ at' = at + 1
       /\ frame' = NoFrame
       /\ UNCHANGED <<up, cap, num_ready, kernel, history>>

-----------------------------------------------------------------------------
Init ==
    /\ up \in BOOLEAN /\ cap = FALSE
    /\ sockets = NoSockets
    /\ group_allowance = [g \in Range(Groups) |-> 0]
    /\ allowance = 0 /\ num_ready = 0 /\ num_still_ready = 0
    /\ at = Done
    /\ frame = NoFrame
    /\ avail = [s \in Range(Sockets) |-> 0]
    /\ open = [s \in Range(Sockets) |-> TRUE]
    /\ eof = [s \in Range(Sockets) |-> FALSE]
    /\ budget = 0 /\ moved = 0
    /\ group_budget = [g \in Range(Groups) |-> 0]
    /\ group_moved = [g \in Range(Groups) |-> 0]

doGroups ==
    \/ EnterGroup \/ SkipGroup \/ processLimited \/ processUnlimited \/ LeaveGroup
    \/ NextPass \/ Return

Next ==
    \/ \E s \in Range(Sockets) : Arrive(s) \/ RemoteCloses(s)
    \/ Update \/ doGroups

Spec == Init /\ [][Next]_vars

\* The thread runs on while it is inside doGroups.
FairSpec == Spec /\ WF_vars(doGroups)

-----------------------------------------------------------------------------
(* Properties *)

\* Every variable has its type; the iterator of a group stays inside its list.
TypeOK ==
    /\ up \in BOOLEAN /\ cap \in BOOLEAN
    /\ sockets \in [Range(Groups) -> Seq(Range(Sockets))]
    /\ group_allowance \in [Range(Groups) -> 0..MaxAllowance]
    /\ allowance \in 0..MaxAllowance
    /\ num_ready \in Nat /\ num_still_ready \in Nat
    /\ at \in 1..Done
    /\ frame \in [pc : {"none", "process", "unlimited"}, itr : Nat, left : Nat, given : Nat,
                  slot : Nat]
    /\ frame.pc = "process" /\ sockets[Group] # <<>> => frame.itr \in DOMAIN sockets[Group]
    /\ avail \in [Range(Sockets) -> 0..MaxAvail]

\* With a cap, an update moves exactly what it takes off its allowance, over all
\* passes, groups and turns, and never more than it began with.
CapIsKept ==
    cap /\ frame.pc = "none" /\ num_ready > 0 => allowance + moved = budget

\* A group with a limit never moves more than its own allowance, however large
\* the portions of the global allowance that it is offered in each pass.
GroupLimitIsKept ==
    \A g \in Limited : group_moved[g] <= group_budget[g]

\* Both limits a user sets hold at once: one is shared out without being exceeded
\* by the rounding of the shares, the other not by a larger share.
LimitsAreKept == TypeOK /\ CapIsKept /\ GroupLimitIsKept

\* The work of an update ends: rounds in which nobody moves anything do not go
\* on for ever, although a ready socket may turn out to have nothing.
UpdateEnds == (num_ready > 0) ~> (num_ready = 0)
=============================================================================
