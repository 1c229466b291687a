---------------------------- MODULE TaskDispatch ----------------------------
(***************************************************************************)
(* What a pool of worker threads promises about the tasks handed to it:   *)
(* the pool keeps one first-in first-out queue; a task is either run by   *)
(* the caller at once or appended, and the pool hands tasks out from the  *)
(* head of the queue, one at a time.  `out[t]` counts how often task t    *)
(* was handed out (to a worker or to the caller); when it then runs, and  *)
(* in what order the workers finish, is left open.  The pool may stop     *)
(* with tasks still queued.                                               *)
(***************************************************************************)
EXTENDS Naturals, Sequences

CONSTANTS Tasks

VARIABLES queue, out

vars == <<queue, out>>

Init ==
    /\ queue = <<>>
    /\ out = [t \in Tasks |-> 0]

\* The task goes to the back of the queue.
Submit(t) ==
    /\ queue' = Append(queue, t)
    /\ UNCHANGED out

\* The caller runs the task itself, the queue untouched.
RunInline(t) ==
    /\ out' = [out EXCEPT ![t] = @ + 1]
    /\ UNCHANGED queue

\* The task at the head of the queue is handed out.
HandOut ==
    /\ queue # <<>>
    /\ out' = [out EXCEPT ![Head(queue)] = @ + 1]
    /\ queue' = Tail(queue)

Next == HandOut \/ \E t \in Tasks : Submit(t) \/ RunInline(t)

Spec == Init /\ [][Next]_vars
=============================================================================
