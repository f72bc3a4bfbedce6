------------------------------ MODULE EventFifo ------------------------------
(***************************************************************************)
(* What the queue of Hall events promises                                  *)
(* (lib/motor_control/src/hall_capture.hpp): events leave in the order     *)
(* they came, each once, the newest is refused while the queue is full,    *)
(* and the consumer can drop what is queued.                               *)
(***************************************************************************)
EXTENDS Naturals, Sequences

CONSTANTS Events, Capacity, NoEvent

VARIABLES
    fifo,   \* the queued events, oldest first
    got     \* the event the consumer took last

Init == fifo = <<>> /\ got = NoEvent

Push(event) ==
    /\ Len(fifo) < Capacity
    /\ fifo' = Append(fifo, event)
    /\ UNCHANGED got

Pop ==
    /\ fifo # <<>>
    /\ got' = Head(fifo)
    /\ fifo' = Tail(fifo)

Clear == fifo' = <<>> /\ UNCHANGED got

Next == (\E event \in Events : Push(event)) \/ Pop \/ Clear

Spec == Init /\ [][Next]_<<fifo, got>>
=============================================================================
