------------------------------ MODULE HallQueue ------------------------------
(***************************************************************************)
(* Capture of the Hall codes on the BCC: the edge interrupt and InitHall() *)
(* (hardware/zephyr_bcc/hardware_interface.cpp) push into the lock-free    *)
(* queue (lib/motor_control/src/hall_capture.hpp), the observer pops, each *)
(* access by access.  An event is reduced to its code.                     *)
(*                                                                         *)
(* The observer and the edge interrupt may preempt each other, and both    *)
(* preempt the thread that runs Initialize(), which starts the timer       *)
(* before InitHall().                                                      *)
(***************************************************************************)
EXTENDS Integers, Sequences

CONSTANTS
    HallCodes,          \* Hall codes
    NoCode,
    N,              \* capacity of HallEventQueue, a power of two
    IndexModulus,   \* values of head_ and tail_ (2^32)
    TurnsInInit     \* the shaft may turn while InitHall() runs

ASSUME HallQueueAssumption ==
    /\ N \in Nat \ {0, 1} /\ IndexModulus \in Nat /\ IndexModulus % N = 0
    /\ IndexModulus > N
    /\ NoCode \notin HallCodes /\ TurnsInInit \in BOOLEAN

VARIABLES
    sensors,        \* what the three sensors show
    edge,           \* the edge interrupt is pending
    head, tail, places, latest,  \* head_, tail_, events_, latest_code_
    refused,        \* history: a push found the queue full since InitHall()
    isr, init,      \* the two callers of Push(): where they are, and their locals
    obs,            \* the observer in Pop()
    got             \* the code it took last

queueVars == <<head, tail, places, latest, refused>>
hallQueueVars == <<sensors, edge, queueVars, isr, init, obs, got>>

Index == 0..(IndexModulus - 1)
Slot(i) == i % N
Queued(h, t) == (h - t) % IndexModulus

\* The producer's locals: event, kHead, kTail.
Idle == [pc |-> "idle", event |-> NoCode, head |-> 0, tail |-> 0]
PushPcs == {"idle", "load", "slot", "publish"}
NoPop == [pc |-> "idle", event |-> NoCode, tail |-> 0]

QueueInit ==
    /\ sensors \in HallCodes /\ edge = FALSE
    /\ head = 0 /\ tail = 0 /\ places = [s \in 0..(N - 1) |-> NoCode] /\ latest = NoCode
    /\ refused = FALSE
    /\ isr = Idle /\ init = [Idle EXCEPT !.pc = "clear"] /\ obs = NoPop
    /\ got = NoCode

-----------------------------------------------------------------------------
(* HallEventQueue::Push(), of a producer p                                 *)

\* Mutant: the full queue takes one more event.
IsFull_OneMore(h, t) == Queued(h, t) > N

IsFull(h, t) == Queued(h, t) >= N

\* The code is stored first, also of an event that is dropped.
Enter(p) == [p EXCEPT !.pc = "load", !.event = sensors]

\* Where a producer goes once it has loaded the two indices.
Loaded(p) ==
    IF IsFull(head, tail) THEN Idle
    ELSE [p EXCEPT !.pc = "slot", !.head = head, !.tail = tail]

Store(p) == places' = [places EXCEPT ![Slot(p.head)] = p.event]

Publish(p) == head' = (p.head + 1) % IndexModulus

-----------------------------------------------------------------------------
(* The edge interrupt                                                      *)

\* The shaft turns; an edge while the interrupt is pending is merged into it.
TurnShaft ==
    /\ TurnsInInit \/ init.pc = "idle"
    /\ \E c \in HallCodes \ {sensors} : sensors' = c
    /\ edge' = TRUE
    /\ UNCHANGED <<queueVars, isr, init, obs, got>>

OnHallEdge ==
    /\ edge /\ isr.pc = "idle"
    /\ edge' = FALSE
    /\ isr' = Enter(isr) /\ latest' = sensors
    /\ UNCHANGED <<sensors, head, tail, places, refused, init, obs, got>>

IsrLoads ==
    /\ isr.pc = "load"
    /\ isr' = Loaded(isr)
    /\ refused' = (refused \/ IsFull(head, tail))
    /\ UNCHANGED <<sensors, edge, head, tail, places, latest, init, obs, got>>

IsrStores ==
    /\ isr.pc = "slot" /\ isr' = [isr EXCEPT !.pc = "publish"]
    /\ Store(isr)
    /\ UNCHANGED <<sensors, edge, head, tail, latest, refused, init, obs, got>>

IsrPublishes ==
    /\ isr.pc = "publish" /\ isr' = Idle
    /\ Publish(isr)
    /\ UNCHANGED <<sensors, edge, tail, places, latest, refused, init, obs, got>>

-----------------------------------------------------------------------------
(* InitHall() in the thread, below both interrupts                         *)

ThreadRuns == isr.pc = "idle" /\ ~edge /\ obs.pc = "idle"

\* A settings restart runs Initialize() again.
RestartCapture ==
    /\ ThreadRuns /\ init.pc = "idle"
    /\ init' = [Idle EXCEPT !.pc = "clear"]
    /\ UNCHANGED <<sensors, edge, queueVars, isr, obs, got>>

\* Clear() loads head_ ...
InitClears ==
    /\ ThreadRuns /\ init.pc = "clear"
    /\ init' = [init EXCEPT !.pc = "cleared", !.head = head]
    /\ UNCHANGED <<sensors, edge, queueVars, isr, obs, got>>

\* ... and stores it into tail_.
InitCleared ==
    /\ ThreadRuns /\ init.pc = "cleared"
    /\ init' = [init EXCEPT !.pc = "read"]
    /\ tail' = init.head
    /\ refused' = FALSE
    /\ UNCHANGED <<sensors, edge, head, places, latest, isr, obs, got>>

InitReads ==
    /\ ThreadRuns /\ init.pc = "read"
    /\ init' = Enter(init) /\ latest' = sensors
    /\ UNCHANGED <<sensors, edge, head, tail, places, refused, isr, obs, got>>

InitLoads ==
    /\ ThreadRuns /\ init.pc = "load"
    /\ init' = Loaded(init)
    /\ refused' = (refused \/ IsFull(head, tail))
    /\ UNCHANGED <<sensors, edge, head, tail, places, latest, isr, obs, got>>

InitStores ==
    /\ ThreadRuns /\ init.pc = "slot" /\ init' = [init EXCEPT !.pc = "publish"]
    /\ Store(init)
    /\ UNCHANGED <<sensors, edge, head, tail, latest, refused, isr, obs, got>>

InitPublishes ==
    /\ ThreadRuns /\ init.pc = "publish" /\ init' = Idle
    /\ Publish(init)
    /\ UNCHANGED <<sensors, edge, tail, places, latest, refused, isr, obs, got>>

-----------------------------------------------------------------------------
(* HallEventQueue::Pop() in the observer                                   *)

PopLoads ==
    /\ obs.pc = "idle" /\ head # tail
    /\ obs' = [obs EXCEPT !.pc = "copy", !.tail = tail]
    /\ UNCHANGED <<sensors, edge, queueVars, isr, init, got>>

PopCopies ==
    /\ obs.pc = "copy"
    /\ obs' = [obs EXCEPT !.pc = "release", !.event = places[Slot(obs.tail)]]
    /\ UNCHANGED <<sensors, edge, queueVars, isr, init, got>>

PopReleases ==
    /\ obs.pc = "release" /\ obs' = NoPop
    /\ tail' = (obs.tail + 1) % IndexModulus
    /\ got' = obs.event
    /\ UNCHANGED <<sensors, edge, head, places, latest, refused, isr, init>>

QueueNext ==
    \/ TurnShaft \/ OnHallEdge \/ IsrLoads \/ IsrStores \/ IsrPublishes
    \/ RestartCapture \/ InitClears \/ InitCleared \/ InitReads \/ InitLoads
    \/ InitStores \/ InitPublishes
    \/ PopLoads \/ PopCopies \/ PopReleases

QueueSpec == QueueInit /\ [][QueueNext]_hallQueueVars

-----------------------------------------------------------------------------
(* Properties                                                              *)

QueueTypeOK ==
    /\ sensors \in HallCodes /\ edge \in BOOLEAN
    /\ head \in Index /\ tail \in Index
    /\ places \in [0..(N - 1) -> HallCodes \cup {NoCode}] /\ latest \in HallCodes \cup {NoCode}
    /\ refused \in BOOLEAN /\ got \in HallCodes \cup {NoCode}
    /\ isr.pc \in PushPcs /\ init.pc \in PushPcs \cup {"clear", "cleared", "read"}
    /\ obs.pc \in {"idle", "copy", "release"}

\* The queue as the consumer sees it.
Contents ==
    [i \in 1..Queued(head, tail) |-> places[Slot((tail + i - 1) % IndexModulus)]]

Fifo == INSTANCE EventFifo
    WITH Events <- HallCodes, Capacity <- N, NoEvent <- NoCode, fifo <- Contents

\* "Neither side blocks or takes a lock, so either may preempt the other": access by
\* access, across wraps of the indices, the queue is the FIFO it stands for.  One
\* producer at a time: the shaft does not turn inside InitHall().
QueueIsFifo == Fifo!Spec

\* Nothing is on its way from the sensors to the observer.
Settled ==
    /\ init.pc = "idle" /\ isr.pc = "idle" /\ ~edge
    /\ obs.pc = "idle" /\ head = tail

\* hall_capture.hpp: "When the queue is full the newest event is dropped and counted;
\* the observer then still sees the newest code through LatestCode()".
NewestCodeSeen == Settled => got = sensors
=============================================================================
