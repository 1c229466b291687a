----------------------------- MODULE TaskQueue -----------------------------
(***************************************************************************)
(* What an EventLoop promises about the functors handed to it: every      *)
(* loop keeps one first-in first-out queue.  Any thread may append to     *)
(* it; the loop runs the head of the queue, and a functor that runs may   *)
(* run one more functor directly (runInLoop from the owner thread) or     *)
(* append one more to the queue (queueInLoop).  A callback that runs on   *)
(* the loop outside the queue (an I/O callback) may also run a functor    *)
(* directly.  Nothing is ever run twice, run out of order or taken out of *)
(* the queue without being run; the loop may stop with work still queued. *)
(***************************************************************************)
EXTENDS Naturals, Sequences

CONSTANTS Loops, Ids

VARIABLES queue, done

vars == <<queue, done>>

\* Nothing, or one functor id: what one functor may add while it runs.
Opt == {<<>>} \cup {<<i>> : i \in Ids}

TypeOK ==
    /\ queue \in [Loops -> Seq(Ids)]
    /\ done \in [Loops -> Seq(Ids)]

Init ==
    /\ queue = [l \in Loops |-> <<>>]
    /\ done = [l \in Loops |-> <<>>]

Submit(l, i) ==
    /\ queue' = [queue EXCEPT ![l] = Append(@, i)]
    /\ UNCHANGED done

RunHead(l) ==
    /\ queue[l] # <<>>
    /\ \E direct, queued \in Opt :
          /\ done' = [done EXCEPT ![l] = (@ \o <<Head(queue[l])>>) \o direct]
          /\ queue' = [queue EXCEPT ![l] = Tail(@) \o queued]

RunDirect(l, i) ==
    /\ done' = [done EXCEPT ![l] = Append(@, i)]
    /\ UNCHANGED queue

Next ==
    \E l \in Loops :
        \/ \E i \in Ids : Submit(l, i) \/ RunDirect(l, i)
        \/ RunHead(l)

Spec == Init /\ [][Next]_vars
=============================================================================
