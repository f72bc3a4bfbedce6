------------------------------- MODULE CanRx -------------------------------
(***************************************************************************)
(* The receive side of the CAN transport and the watch on the bus.         *)
(* Interrupts of the controllers fill the receive queues and note the bus  *)
(* states (OnFrame and OnStateChange of zephyr_can_media.cpp).  The Cyphal *)
(* thread pops frames from the interfaces in turn (Receive,                *)
(* canard_transport.cpp), dispatches the transfers they complete (Spin,    *)
(* node.cpp), looks at the bus (WatchBus, drive_node.cpp) and lets the     *)
(* cart control use what it was told (SpinLocalControl).  An interrupt may *)
(* come between any two accesses of the thread.  bus_off_count_ of the     *)
(* drive node is the sum of the counts of the last look; the counts are    *)
(* kept relative to it.                                                    *)
(***************************************************************************)
EXTENDS Integers, Sequences, FiniteSets, FiniteSetsExt

CONSTANTS
  InterfaceCount,       \* interface_count_
  RxQueueLength,        \* kRxQueueLength
  MaxFramesPerReceive,  \* kMaxFramesPerReceive
  MaxTransfersPerSpin,  \* kMaxTransfersPerSpin
  OffsPerSpin           \* bound: bus-off events between two looks at the bus

ASSUME CanRxAssumption ==
  /\ {InterfaceCount, RxQueueLength, MaxFramesPerReceive, MaxTransfersPerSpin}
       \subseteq Nat \ {0}
  /\ OffsPerSpin \in Nat

(* CanBusState, in the order std::min compares.  The two states between    *)
(* differ from kErrorActive for nobody who reads them.                     *)
kErrorActive == 0
kBusOff == 3
BusStates == {kErrorActive, kBusOff}

Ifaces == 0 .. InterfaceCount - 1

(* A frame that completes a subscribed transfer of the cart, or one that   *)
(* completes nothing: a foreign port, a duplicate of the other interface,  *)
(* the start of a longer transfer.                                         *)
RxFrames == {"transfer", "other"}

VARIABLES
  rxQueue,    \* per interface, rx_queue_
  busState,   \* per interface, bus_state_
  offCount,   \* per interface, bus_off_count_ beyond what the last look read
  thread,     \* where the Cyphal thread is, with the locals of its loops
  nextRx,     \* next_rx_interface_
  busLost,    \* DriveNode::bus_lost_
  trusted,    \* the cart control holds data from the bus
  suspect,    \* bus-off events since that data was dispatched: "none", one
              \* the thread may still miss ("new"), one before its look ("old")
  again,      \* the bus went off while it was known to be lost
  offs        \* bus-off events since the last look at the bus

rxVars == <<rxQueue, busState, offCount, thread, nextRx, busLost,
            trusted, suspect, again, offs>>

AtReceive(n) == [at |-> "receive", got |-> n, attempt |-> 0, idle |-> 0]
AtWatch == [at |-> "watch", iface |-> 0, half |-> "state", state |-> kBusOff,
            count |-> [i \in Ifaces |-> 0]]
Elsewhere(where) == [at |-> where]

RxTypeOK ==
  /\ rxQueue \in [Ifaces -> UNION {[1 .. n -> RxFrames] : n \in 0 .. RxQueueLength}]
  /\ busState \in [Ifaces -> BusStates]
  /\ offCount \in [Ifaces -> 0 .. 2 * OffsPerSpin]
  /\ thread.at \in {"wait", "receive", "watch", "local"}
  /\ nextRx \in Ifaces
  /\ {busLost, trusted, again} \subseteq BOOLEAN
  /\ suspect \in {"none", "new", "old"}
  /\ offs \in 0 .. OffsPerSpin

RxInit ==
  /\ rxQueue = [i \in Ifaces |-> <<>>]
  /\ busState = [i \in Ifaces |-> kErrorActive]
  /\ offCount = [i \in Ifaces |-> 0]
  /\ thread = Elsewhere("wait")
  /\ nextRx = 0
  /\ busLost = FALSE
  /\ trusted = FALSE
  /\ suspect = "none"
  /\ again = FALSE
  /\ offs = 0

---------------------------------------------------------------------------
(* Interrupts                                                              *)

(* OnFrame(): a full queue loses the frame (counted in rx_overruns_); the  *)
(* thread is woken in both cases, and wakes once a millisecond anyway.     *)
OnFrame(i, frame) ==
  /\ busState[i] # kBusOff
  /\ Len(rxQueue[i]) < RxQueueLength
  /\ rxQueue' = [rxQueue EXCEPT ![i] = Append(@, frame)]
  /\ UNCHANGED <<busState, offCount, thread, nextRx, busLost,
                 trusted, suspect, again, offs>>

(* OnStateChange(): a bus-off is counted before the state is stored.  Every *)
(* event is a bus-off of its own, one that follows a bus-off included: the  *)
(* controller recovers and fails again.                                     *)
OnStateChange(i, state) ==
  /\ busState[i] # state
  /\ state = kBusOff => offs < OffsPerSpin
  /\ busState' = [busState EXCEPT ![i] = state]
  /\ IF state = kBusOff
     THEN /\ offCount' = [offCount EXCEPT ![i] = @ + 1]
          /\ offs' = offs + 1
          /\ suspect' = IF trusted /\ suspect = "none" THEN "new" ELSE suspect
          /\ again' = (again \/ (trusted /\ busLost))
     ELSE UNCHANGED <<offCount, offs, suspect, again>>
  /\ UNCHANGED <<rxQueue, thread, nextRx, busLost, trusted>>

---------------------------------------------------------------------------
(* The Cyphal thread                                                       *)

BeginSpin ==
  /\ thread.at = "wait"
  /\ thread' = AtReceive(0)
  /\ UNCHANGED <<rxQueue, busState, offCount, nextRx, busLost,
                 trusted, suspect, again, offs>>

(* A slip: every call starts over with the first interface.                *)
Rotated_FirstOnly(i) == 0

(* The interface Receive() turns to after interface i.                     *)
Rotated(i) == (i + 1) % InterfaceCount

(* WatchBus() begins: what happens to the bus from here on is the business *)
(* of the next look.                                                       *)
BeginWatch ==
  /\ thread' = AtWatch
  /\ suspect' = IF suspect = "new" THEN "old" ELSE suspect
  /\ offs' = 0

(* One round of the loop of Receive(): it ends at MaxFramesPerReceive      *)
(* frames or when no interface has one.  A transfer is dispatched at once, *)
(* and Spin() calls Receive() again until MaxTransfersPerSpin.             *)
Receive ==
  LET i == nextRx
      frame == Head(rxQueue[i])
      stop == thread.attempt = MaxFramesPerReceive \/ thread.idle = InterfaceCount
  IN
  /\ thread.at = "receive"
  /\ \/ /\ stop \/ thread.got = MaxTransfersPerSpin
        /\ BeginWatch
        /\ UNCHANGED <<rxQueue, nextRx, trusted, again>>
     \/ /\ ~stop /\ thread.got < MaxTransfersPerSpin
        /\ nextRx' = Rotated(i)
        /\ \/ /\ rxQueue[i] = <<>>
              /\ thread' = [thread EXCEPT !.attempt = @ + 1, !.idle = @ + 1]
              /\ UNCHANGED <<rxQueue, trusted, suspect, again>>
           \/ /\ rxQueue[i] # <<>> /\ frame = "other"
              /\ rxQueue' = [rxQueue EXCEPT ![i] = Tail(@)]
              /\ thread' = [thread EXCEPT !.attempt = @ + 1, !.idle = 0]
              /\ UNCHANGED <<trusted, suspect, again>>
           \/ /\ rxQueue[i] # <<>> /\ frame = "transfer"
              /\ rxQueue' = [rxQueue EXCEPT ![i] = Tail(@)]
              /\ thread' = AtReceive(thread.got + 1)
              /\ trusted' = TRUE
              \* Newer data replaces what a bus-off made doubtful.
              /\ suspect' = "none"
              /\ again' = FALSE
        /\ UNCHANGED offs
  /\ UNCHANGED <<busState, offCount, busLost>>

(* BusStatus() of the transport: of each interface the state, then the     *)
(* count; the best state and the sum of the counts.                        *)
ReadState ==
  /\ thread.at = "watch" /\ thread.half = "state" /\ thread.iface < InterfaceCount
  /\ thread' = [thread EXCEPT !.half = "count", !.state = Min({@, busState[thread.iface]})]
  /\ UNCHANGED <<rxQueue, busState, offCount, nextRx, busLost,
                 trusted, suspect, again, offs>>

ReadCount ==
  /\ thread.at = "watch" /\ thread.half = "count"
  /\ thread' = [thread EXCEPT !.half = "state", !.iface = @ + 1,
                              !.count[thread.iface] = offCount[thread.iface]]
  /\ UNCHANGED <<rxQueue, busState, offCount, nextRx, busLost,
                 trusted, suspect, again, offs>>

(* A slip: only the present state is looked at.                            *)
WentOff_StateOnly(state, count) == state = kBusOff

(* WatchBus(): a bus-off that recovered since the last look shows in the   *)
(* count only.                                                             *)
WentOff(state, count) == state = kBusOff \/ \E i \in Ifaces : count[i] # 0

WatchBus ==
  LET lost == WentOff(thread.state, thread.count) /\ ~busLost
  IN
  /\ thread.at = "watch" /\ thread.iface = InterfaceCount
  /\ offCount' = [i \in Ifaces |-> offCount[i] - thread.count[i]]
  /\ busLost' = ((busLost \/ lost) /\ thread.state = kBusOff)
  /\ IF lost   \* CartControl::OnBusLost()
     THEN trusted' = FALSE /\ suspect' = "none" /\ again' = FALSE
     ELSE UNCHANGED <<trusted, suspect, again>>
  /\ thread' = Elsewhere("local")
  /\ UNCHANGED <<rxQueue, busState, nextRx, offs>>

(* SpinLocalControl() and the rest of the cycle.                           *)
EndSpin ==
  /\ thread.at = "local"
  /\ thread' = Elsewhere("wait")
  /\ UNCHANGED <<rxQueue, busState, offCount, nextRx, busLost,
                 trusted, suspect, again, offs>>

ThreadStep == BeginSpin \/ Receive \/ ReadState \/ ReadCount \/ WatchBus \/ EndSpin

RxNext ==
  \/ \E i \in Ifaces, frame \in RxFrames : OnFrame(i, frame)
  \/ \E i \in Ifaces, state \in BusStates : OnStateChange(i, state)
  \/ ThreadStep

RxSpec == RxInit /\ [][RxNext]_rxVars

---------------------------------------------------------------------------

(* A bus-off ends the trust in what came before it: the cart control does  *)
(* not use data dispatched before a bus-off that happened before this      *)
(* cycle looked at the bus, even when the controller recovered in between  *)
(* and whichever interface it was.  A bus-off that follows while the bus   *)
(* is already known to be lost is BusLossForgets.                          *)
LocalControlTrustsBus ==
  thread.at = "local" /\ trusted /\ suspect = "old" => again

(* The comment on OnBusLost() in WatchBus(): "nothing that arrived before  *)
(* counts any more".                                                       *)
BusLossForgets == thread.at = "local" /\ trusted => suspect # "old"

(* Neither interface starves the other: a frame at the head of a receive   *)
(* queue is popped however fast the other interface receives.              *)
NeitherBusStarves ==
  \A i \in Ifaces : (Len(rxQueue[i]) = RxQueueLength) ~> (Len(rxQueue[i]) < RxQueueLength)
=============================================================================
