------------------------------- MODULE CanTx -------------------------------
(***************************************************************************)
(* The transmit side of CanardTransport (lib/cyphal/canard_transport.cpp): *)
(* one queue of frames per redundant CAN interface, filled by Send() and   *)
(* emptied by Process() into the mailbox of the controller                 *)
(* (hardware/zephyr_common/zephyr_can_media.cpp).  Deadlines are kept      *)
(* relative to the present time, so that time needs no bound: a frame      *)
(* carries the ticks it has left, negative once its deadline passed (-2    *)
(* stands for any longer ago).  A tick is the period of the Cyphal thread. *)
(* Payloads, transfer-IDs and the statistics (tx_dropped_, out_of_memory_) *)
(* are left out.                                                           *)
(***************************************************************************)
EXTENDS Integers, Sequences, FiniteSets, SequencesExt

CONSTANTS
  Interfaces,   \* the CAN interfaces by number, at most kMaxInterfaces
  Healthy,      \* the interfaces whose bus takes a frame in every tick
  Capacity,     \* kTxQueueCapacity
  TimeoutTicks, \* kDefaultTxTimeoutUs in ticks
  MaxFrames     \* the longest transfer sent [frames]

ASSUME CanTxAssumption ==
  /\ Interfaces \subseteq Nat /\ IsFiniteSet(Interfaces) /\ Healthy \subseteq Interfaces
  /\ {Capacity, TimeoutTicks, MaxFrames} \subseteq Nat \ {0}
  /\ MaxFrames <= Capacity
  /\ Capacity <= TimeoutTicks  \* 64 frames, 100 ticks

VARIABLES
  txq,     \* tx_queues_: per interface, the frames in the order of canardTxPeek
  mailbox, \* the controller: "free", or how the frame in it got there
  lag,     \* ticks by which now_us_ is behind the time: 1 until Process() runs
  overdue  \* interfaces that dropped a frame of the highest rank

txVars == <<txq, mailbox, lag, overdue>>

(* The rank of a transfer: its CAN-ID, by which libcanard orders a queue   *)
(* and of which the priority is the highest part; the lower value wins.    *)
Priorities == {0, 1}

Frame == [prio : Priorities, left : -2 .. TimeoutTicks]

TxTypeOK ==
  /\ txq \in [Interfaces -> BoundedSeq(Frame, Capacity)]
  /\ mailbox \in [Interfaces -> {"free", "timely", "late"}]
  /\ lag \in {0, 1}
  /\ overdue \subseteq Interfaces

TxInit ==
  /\ txq = [i \in Interfaces |-> <<>>]
  /\ mailbox = [i \in Interfaces |-> "free"]
  /\ lag = 1
  /\ overdue = {}

(* The frame's deadline lies before the clock of the transport.            *)
Expired(f) == f.left + lag < 0

(* The frames of q at the places in S, in their order.                     *)
FramesAt(q, S) ==
  LET upTo[k \in 0 .. Len(q)] ==
        IF k = 0 THEN <<>>
        ELSE IF k \in S THEN Append(upTo[k - 1], q[k]) ELSE upTo[k - 1]
  IN  upTo[Len(q)]

(* canardTxPush drops the expired frames of the queue first.               *)
Flushed(q) == FramesAt(q, {k \in 1 .. Len(q) : ~Expired(q[k])})

(* The queue is ordered by rank, and by age within one; all the frames of  *)
(* a transfer go in, or none.                                              *)
Queued(q, prio, n) ==
  LET ahead == {k \in 1 .. Len(q) : q[k].prio <= prio}
      new == [k \in 1 .. n |-> [prio |-> prio, left |-> TimeoutTicks - lag]]
  IN  IF Len(q) + n > Capacity THEN q
      ELSE FramesAt(q, ahead) \o new \o FramesAt(q, (1 .. Len(q)) \ ahead)

(* An expired frame of the highest rank is in the queue.                   *)
Dropped(q) == \E k \in 1 .. Len(q) : q[k].prio = 0 /\ Expired(q[k])

(* Send(): every interface queues the transfer on its own; a full queue of *)
(* one does not keep it from the other.                                    *)
Send(prio, n) ==
  /\ txq' = [i \in Interfaces |-> Queued(Flushed(txq[i]), prio, n)]
  /\ overdue' = overdue \cup {i \in Interfaces : Dropped(txq[i])}
  /\ UNCHANGED <<mailbox, lag>>

(* The inner loop of Process() for one interface, from the frames q still  *)
(* queued: expired frames are dropped, frames are pushed until the         *)
(* controller refuses one.  The controller has one mailbox here, so that   *)
(* at most one frame is pushed.                                            *)
Drained(q, mb) ==
  LET due == {k \in 1 .. Len(q) : q[k].left >= 0}
      pushed == {k \in due : mb = "free" /\ \A j \in due : k <= j}
      refused == due \ pushed
      \* The loop stops at the refused frame: what is behind it stays queued.
      stop == IF refused = {} THEN Len(q) + 1
              ELSE CHOOSE k \in refused : \A j \in refused : k <= j
  IN  [queue |-> SubSeq(q, stop, Len(q)),
       mailbox |-> IF pushed = {} THEN mb
                   ELSE IF \E k \in pushed : q[k].left < 0 THEN "late" ELSE "timely",
       dropped |-> \E k \in 1 .. stop - 1 : q[k].prio = 0 /\ q[k].left < 0]

(* A slip: a refused frame ends Process() for the interfaces behind it.    *)
Process_StopsAtRefusal ==
  LET done == [i \in Interfaces |-> Drained(txq[i], mailbox[i])]
      reached == {i \in Interfaces : \A j \in Interfaces : j < i => done[j].queue = <<>>}
  IN  /\ lag' = 0
      /\ txq' = [i \in Interfaces |-> IF i \in reached THEN done[i].queue ELSE txq[i]]
      /\ mailbox' = [i \in Interfaces |-> IF i \in reached THEN done[i].mailbox ELSE mailbox[i]]
      /\ overdue' = overdue \cup {i \in reached : done[i].dropped}

(* Process(): the clock is taken over, then every interface is drained on  *)
(* its own.                                                                *)
Process ==
  LET done == [i \in Interfaces |-> Drained(txq[i], mailbox[i])]
  IN  /\ lag' = 0
      /\ txq' = [i \in Interfaces |-> done[i].queue]
      /\ mailbox' = [i \in Interfaces |-> done[i].mailbox]
      /\ overdue' = overdue \cup {i \in Interfaces : done[i].dropped}

(* The controller puts its frame on the bus, or gives it up.               *)
Transmitted(i) ==
  /\ mailbox[i] # "free"
  /\ mailbox' = [mailbox EXCEPT ![i] = "free"]
  /\ UNCHANGED <<txq, lag, overdue>>

(* A period of the thread passes: it has called Process(), and a healthy   *)
(* bus has taken the frame it was given.                                   *)
PeriodPasses ==
  /\ lag = 0
  /\ \A i \in Healthy : mailbox[i] = "free"
  /\ lag' = 1
  /\ txq' = [i \in Interfaces |->
               [k \in 1 .. Len(txq[i]) |->
                  [txq[i][k] EXCEPT !.left = IF @ = -2 THEN @ ELSE @ - 1]]]
  /\ UNCHANGED <<mailbox, overdue>>

TxNext ==
  \/ \E prio \in Priorities, n \in 1 .. MaxFrames : Send(prio, n)
  \/ Process
  \/ \E i \in Interfaces : Transmitted(i)
  \/ PeriodPasses

TxSpec == TxInit /\ [][TxNext]_txVars

(* What a node has to say arrives in time or not at all.  No frame reaches *)
(* a controller after its deadline, so a receiver acts on nothing the node *)
(* meant to say long ago; and an interface that is bus-off or busy does    *)
(* not hold up the other: on a bus that takes frames no frame of the       *)
(* highest rank waits until its deadline passes (Send() and Process(),     *)
(* canard_transport.cpp).                                                  *)
DeliveredInTime ==
  /\ \A i \in Interfaces : mailbox[i] # "late"
  /\ overdue \cap Healthy = {}
=============================================================================
