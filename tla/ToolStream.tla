----------------------------- MODULE ToolStream -----------------------------
(***************************************************************************)
(* What the IDE may rely on in a streaming tools/call, however the relay,  *)
(* the pump and the cancellations interleave: notifications arrive between *)
(* a request and its answer, there is one answer, a final response comes   *)
(* after all the notifications the skill sent before it, and "cancelled"   *)
(* is said only of a call that somebody cancelled.                         *)
(***************************************************************************)
EXTENDS Naturals

CONSTANTS Task, Id, None

VARIABLE view    \* what the IDE has seen of each request

NoCall == [status |-> "free", id |-> None, seen |-> 0, asked |-> FALSE,
           answer |-> "none", n |-> 0]

Init == view = [t \in Task |-> NoCall]

\* An id is given to one unanswered request at a time.
Begin(t, i) ==
    /\ view[t].status = "free"
    /\ \A u \in Task : view[u].status = "open" => view[u].id # i
    /\ view' = [view EXCEPT ![t] = [NoCall EXCEPT !.status = "open", !.id = i]]

Notify(t) ==
    /\ view[t].status = "open"
    /\ view' = [view EXCEPT ![t].seen = @ + 1]

Ask(t) ==
    /\ view[t].status # "free"
    /\ view' = [view EXCEPT ![t].asked = TRUE]

\* `n` is the place of the answer in what the skill sent.
Answer(t) ==
    /\ view[t].status = "open"
    /\ view'[t].answer = "cancelled" => view[t].asked
    /\ view'[t].answer = "final" => view'[t].n = view[t].seen + 1
    /\ view' = [view EXCEPT ![t] = [@ EXCEPT !.status = "answered",
                                             !.answer = view'[t].answer,
                                             !.n = view'[t].n]]

Close(t) ==
    /\ view[t].status = "answered"
    /\ view' = [view EXCEPT ![t] = NoCall]

Next ==
    \E t \in Task :
        \/ \E i \in Id : Begin(t, i)
        \/ Notify(t)
        \/ Ask(t)
        \/ Answer(t)
        \/ Close(t)

Spec == Init /\ [][Next]_view
=============================================================================
