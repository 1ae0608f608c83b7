---------------------------- MODULE AsyncService ----------------------------
(***************************************************************************)
(* What the asynchronous mode promises its user, without buffers, line or  *)
(* board: accepted tasks wait for the one they depend on, are outstanding  *)
(* in one queue, are answered from its head, and give their results to the *)
(* user once.  TaskExecutor implements it (see TaskExecutorRefinement).    *)
(***************************************************************************)
EXTENDS Naturals, Sequences

CONSTANT Task    \* the tasks that can be accepted

VARIABLES
    accepted,    \* tasks whose number the user was given
    waiting,     \* pairs <<task, task it waits for>>
    outstanding, \* tasks requested and not yet answered, in order
    answered,    \* tasks the board has answered
    given        \* tasks whose results the user has

vars == <<accepted, waiting, outstanding, answered, given>>

Init ==
    /\ accepted = {}
    /\ waiting = {}
    /\ outstanding = << >>
    /\ answered = {}
    /\ given = {}

\* A new task is requested at once or waits for an unanswered one.
Accept(n) ==
    /\ n \notin accepted
    /\ accepted' = accepted \cup {n}
    /\ \/ outstanding' = Append(outstanding, n) /\ UNCHANGED waiting
       \/ /\ \E d \in accepted \ answered : waiting' = waiting \cup {<<n, d>>}
          /\ UNCHANGED outstanding
    /\ UNCHANGED <<answered, given>>

\* The answer to the oldest request; its results may be given at once.
Answer ==
    /\ outstanding # << >>
    /\ outstanding' = Tail(outstanding)
    /\ answered' = answered \cup {Head(outstanding)}
    /\ given' \in {given, given \cup {Head(outstanding)}}
    /\ UNCHANGED <<accepted, waiting>>

\* A request that failed is made again behind all others, or given up.
Repeat ==
    /\ outstanding # << >>
    /\ outstanding' \in {Append(Tail(outstanding), Head(outstanding)), Tail(outstanding)}
    /\ UNCHANGED <<accepted, waiting, answered, given>>

\* A waiting task is requested, or given up, once its turn has come.
Release(n, d) ==
    /\ <<n, d>> \in waiting
    /\ d \in answered
    /\ waiting' = waiting \ {<<n, d>>}
    /\ outstanding' \in {Append(outstanding, n), outstanding}
    /\ UNCHANGED <<accepted, answered, given>>

\* Everything answered so far is written back to the user.
Deliver ==
    /\ given' = answered
    /\ UNCHANGED <<accepted, waiting, outstanding, answered>>

Next ==
    \/ \E n \in Task : Accept(n)
    \/ Answer
    \/ Repeat
    \/ \E n, d \in Task : Release(n, d)
    \/ Deliver

Spec == Init /\ [][Next]_vars
=============================================================================
