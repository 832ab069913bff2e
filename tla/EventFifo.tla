----------------------------- MODULE EventFifo -----------------------------
(***************************************************************************)
(* What the event queue of a client process promises to the two threads    *)
(* that share it: a first-in first-out queue whose consumer works on one   *)
(* event at a time and whose queued events are all taken eventually.       *)
(* EventQueue implements it (see EventQueue!Fifo).                         *)
(***************************************************************************)
EXTENDS Sequences

CONSTANTS
    Event,          \* what can be queued: a message type with its data
    Idle            \* the consumer holds no event; not a member of Event

VARIABLES
    queue,          \* events pushed and not yet taken, oldest first
    taken           \* the event the consumer works on, or Idle

vars == <<queue, taken>>

Init ==
    /\ queue = <<>>
    /\ taken = Idle

\* A producer adds an event at the end.
Put(e) ==
    /\ queue' = Append(queue, e)
    /\ UNCHANGED taken

\* The consumer, holding nothing, takes the oldest event.
Take ==
    /\ taken = Idle
    /\ queue # <<>>
    /\ taken' = Head(queue)
    /\ queue' = Tail(queue)

\* The consumer has handled and released the event it held.
Done ==
    /\ taken # Idle
    /\ taken' = Idle
    /\ UNCHANGED queue

Next == (\E e \in Event : Put(e)) \/ Take \/ Done

\* Nothing obliges a producer to push; what is pushed is taken and handled.
Fairness == WF_vars(Take) /\ WF_vars(Done)

SafetySpec == Init /\ [][Next]_vars

Spec == SafetySpec /\ Fairness
=============================================================================
