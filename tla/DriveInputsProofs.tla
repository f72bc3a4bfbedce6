-------------------------- MODULE DriveInputsProofs --------------------------
(***************************************************************************)
(* Proofs about what a drive has to do with the world outside: its node-ID *)
(* (CyphalNode), the periodic messages (NodeTimers), the transmit queues   *)
(* (CanTx), the watch on the bus (CanRx), register writes (Registers), the *)
(* rider of an e-bike (EbikeDrive), its crank (PedalAssist) and display    *)
(* (DisplayLine), the torque source of a cart (CartDrive) and the serial   *)
(* lines of the simulated CAN adapter (SlcanLine), each under the          *)
(* specification of its module.                                            *)
(***************************************************************************)
EXTENDS CyphalNode, PedalAssist, NodeTimers, Registers, CanTx, CanRx, EbikeDrive,
        CartDrive, DisplayLine, SlcanLine, WellFoundedInduction, TLAPS

-----------------------------------------------------------------------------
(* Periodic messages: NoBurst                                              *)

(* The ages of the last two messages, told from the timer: what is left of *)
(* a timer that has been advanced once or twice bounds them from below.    *)

TimersTypes ==
    /\ heartbeat \in Int /\ telemetry \in Int /\ telemetryPeriod \in TelemetryPeriods
    /\ anonymous \in BOOLEAN
    /\ history \in [beat : Int, beat2 : Int, sample : Int, sample2 : Int, burst : BOOLEAN]

\* An age is bounded by the time since it, or by a whole period.
HeartbeatAges ==
    /\ history.beat >= HeartbeatPeriod \/ history.beat + heartbeat >= 0
    /\ history.beat2 >= HeartbeatPeriod \/ history.beat2 + heartbeat >= HeartbeatPeriod
    /\ anonymous => history.beat >= HeartbeatPeriod /\ history.beat2 >= HeartbeatPeriod

TelemetryAges ==
    /\ history.sample >= telemetryPeriod \/ history.sample + telemetry >= 0
    /\ history.sample2 >= telemetryPeriod \/ history.sample2 + telemetry >= telemetryPeriod

TimersInv == TimersTypes /\ HeartbeatAges /\ TelemetryAges /\ NoBurst

(* The time a message is put off to lies ahead, at most a period from the  *)
(* time it was due.                                                        *)
LEMMA NextDueAhead ==
    ASSUME NEW timer \in Int, NEW period \in Nat \ {0}, timer <= 0
    PROVE  /\ NextDue(timer, period) \in Int
           /\ NextDue(timer, period) > 0 /\ NextDue(timer, period) <= period
           /\ NextDue(timer, period) = period \/ NextDue(timer, period) = timer + period
BY DEF NextDue

(* The age of a message sent now keeps the bound of a timer that lies ahead. *)
LEMMA NewMessage ==
    ASSUME NEW age, NEW timer \in Int, age = 0, timer > 0
    PROVE  age + timer >= 0
OBVIOUS

(* A thread that was held up sends no burst: of three heartbeats or three  *)
(* telemetry messages the last comes a period after the first at least,    *)
(* for all periods and however long Spin() waits.                          *)
THEOREM TimersCorrect == TimersSpec => []NoBurst
<1>1. TimersInit => TimersInv
  BY TimersAssumption
     DEF TimersInit, TimersInv, TimersTypes, HeartbeatAges, TelemetryAges, NoBurst, NoMessages
<1>2. TimersInv /\ [TimersNext]_timerVars => TimersInv'
  <2> SUFFICES ASSUME TimersInv, [TimersNext]_timerVars
               PROVE  TimersInv'
    OBVIOUS
  <2>a. TimersTypes /\ HeartbeatAges /\ TelemetryAges /\ NoBurst
    BY DEF TimersInv
  <2>b. /\ HeartbeatPeriod \in Nat \ {0} /\ MaxLate \in Nat
        /\ telemetryPeriod \in Nat /\ telemetryPeriod <= MaxLate
        /\ heartbeat \in Int /\ telemetry \in Int
        /\ history.beat \in Int /\ history.beat2 \in Int
        /\ history.sample \in Int /\ history.sample2 \in Int /\ history.burst \in BOOLEAN
    BY <2>a, TimersAssumption DEF TimersTypes
  <2>1. CASE SpinTimers
    <3>2. heartbeat' \in Int /\ telemetry' \in Int
      BY <2>1, <2>a, <2>b, NextDueAhead
         DEF SpinTimers, NodeMessages, Telemetry, TelemetryDue, TimersTypes
    <3>3. UNCHANGED <<anonymous, telemetryPeriod>>
      BY <2>1 DEF SpinTimers
    <3> DEFINE sends == ~anonymous /\ heartbeat <= 0
    <3>4. /\ history'.beat = IF sends THEN 0 ELSE history.beat
          /\ history'.beat2 = IF sends THEN history.beat ELSE history.beat2
          /\ history'.sample = IF TelemetryDue THEN 0 ELSE history.sample
          /\ history'.sample2 = IF TelemetryDue THEN history.sample ELSE history.sample2
      BY <2>1 DEF SpinTimers, Noted
    <3>5. /\ sends => history.beat2 >= HeartbeatPeriod
          /\ TelemetryDue => history.sample2 >= telemetryPeriod
      BY <2>a, <2>b DEF HeartbeatAges, TelemetryAges, TelemetryDue
    <3>6. NoBurst'
      BY <2>1, <2>a, <2>b, <3>5 DEF SpinTimers, Noted, NoBurst
    <3>7. TimersTypes'
      <4>1. history' \in [beat : Int, beat2 : Int, sample : Int, sample2 : Int, burst : BOOLEAN]
        BY <2>1, <2>a DEF SpinTimers, Noted, TimersTypes
      <4>2. QED
        BY <2>a, <3>2, <3>3, <4>1 DEF TimersTypes
    <3>8. HeartbeatAges'
      <4>1. CASE sends
        <5>1. heartbeat' = NextDue(heartbeat, HeartbeatPeriod)
          BY <2>1, <4>1 DEF SpinTimers, NodeMessages
        <5>2. QED
          <6>1. /\ heartbeat' \in Int /\ heartbeat' > 0
                /\ heartbeat' = HeartbeatPeriod \/ heartbeat' = heartbeat + HeartbeatPeriod
            BY <2>b, <4>1, <5>1, NextDueAhead
          <6>2. ~anonymous' /\ history'.beat = 0 /\ history'.beat2 = history.beat
            BY <3>3, <3>4, <4>1
          <6>3. history.beat >= HeartbeatPeriod \/ history.beat + heartbeat >= 0
            BY <2>a DEF HeartbeatAges
          <6>4. \/ history'.beat2 >= HeartbeatPeriod
                \/ history'.beat2 + heartbeat' >= HeartbeatPeriod
            BY <2>b, <4>1, <6>1, <6>2, <6>3
          <6>5. history'.beat + heartbeat' >= 0
            BY <6>1, <6>2, NewMessage
          <6>6. QED
            BY <6>2, <6>4, <6>5 DEF HeartbeatAges
      <4>2. CASE ~sends
        <5>1. heartbeat' = heartbeat
          BY <2>1, <4>2, <2>a DEF SpinTimers, NodeMessages, TimersTypes
        <5>2. QED
          BY <2>a, <3>3, <3>4, <4>2, <5>1 DEF HeartbeatAges
      <4>3. QED
        BY <4>1, <4>2
    <3>9. TelemetryAges'
      <4>1. CASE TelemetryDue
        <5>1. telemetry' = NextDue(telemetry, telemetryPeriod)
          BY <2>1, <4>1 DEF SpinTimers, Telemetry
        <5>2. QED
          <6>1. /\ telemetry' \in Int /\ telemetry' > 0
                /\ telemetry' = telemetryPeriod \/ telemetry' = telemetry + telemetryPeriod
            BY <2>b, <4>1, <5>1, NextDueAhead DEF TelemetryDue
          <6>2. history'.sample = 0 /\ history'.sample2 = history.sample
            BY <3>4, <4>1
          <6>3. history.sample >= telemetryPeriod \/ history.sample + telemetry >= 0
            BY <2>a DEF TelemetryAges
          <6>4. \/ history'.sample2 >= telemetryPeriod
                \/ history'.sample2 + telemetry' >= telemetryPeriod
            BY <2>b, <4>1, <6>1, <6>2, <6>3 DEF TelemetryDue
          <6>5. history'.sample + telemetry' >= 0
            BY <6>1, <6>2, NewMessage
          <6>6. QED
            BY <3>3, <6>4, <6>5 DEF TelemetryAges
      <4>2. CASE ~TelemetryDue
        <5>1. telemetry' = telemetry
          BY <2>1, <4>2 DEF SpinTimers, Telemetry
        <5>2. QED
          BY <2>a, <3>3, <3>4, <4>2, <5>1 DEF TelemetryAges
      <4>3. QED
        BY <4>1, <4>2
    <3>10. QED
      BY <3>6, <3>7, <3>8, <3>9 DEF TimersInv
  <2>2. CASE Allocated
    <3>1. /\ anonymous /\ ~anonymous' /\ heartbeat' \in -HeartbeatPeriod..0
          /\ UNCHANGED <<telemetry, telemetryPeriod, history>>
      BY <2>2 DEF Allocated
    <3>2. anonymous' \in BOOLEAN
      BY <2>2 DEF Allocated
    <3>3. TimersTypes'
      BY <2>a, <2>b, <3>1, <3>2 DEF TimersTypes
    <3>4. HeartbeatAges'
      BY <2>a, <2>b, <3>1 DEF HeartbeatAges
    <3>5. TelemetryAges' /\ NoBurst'
      BY <2>a, <3>1 DEF TelemetryAges, NoBurst
    <3>6. QED
      BY <3>3, <3>4, <3>5 DEF TimersInv
  <2>3. CASE SetTelemetryRate
    <3>1. /\ history'.beat = history.beat /\ history'.beat2 = history.beat2
          /\ history'.sample = MaxLate /\ history'.sample2 = MaxLate
          /\ history'.burst = history.burst
      BY <2>3, <2>a DEF SetTelemetryRate, TimersTypes
    <3>2. UNCHANGED <<heartbeat, telemetry, anonymous>> /\ telemetryPeriod' \in TelemetryPeriods
      BY <2>3 DEF SetTelemetryRate
    <3>3. TimersTypes'
      <4>1. history' \in [beat : Int, beat2 : Int, sample : Int, sample2 : Int, burst : BOOLEAN]
        <5>1. history' = [beat |-> history.beat, beat2 |-> history.beat2,
                          sample |-> MaxLate, sample2 |-> MaxLate, burst |-> history.burst]
          BY <2>3, <2>a DEF SetTelemetryRate, TimersTypes
        <5>2. QED
          BY <2>b, <5>1
      <4>2. QED
        BY <2>a, <3>2, <4>1 DEF TimersTypes
    <3>4. HeartbeatAges' /\ NoBurst'
      BY <2>a, <3>1, <3>2 DEF HeartbeatAges, NoBurst
    <3>5. TelemetryAges'
      <4>1. telemetryPeriod' \in Nat /\ telemetryPeriod' <= MaxLate
        BY <3>2, TimersAssumption
      <4>2. QED
        BY <2>b, <3>1, <4>1 DEF TelemetryAges
    <3>6. QED
      BY <3>3, <3>4, <3>5 DEF TimersInv
  <2>4. CASE HomingChanges \/ StartupChanges
    BY <2>4 DEF HomingChanges, StartupChanges, TimersInv, TimersTypes, HeartbeatAges,
                TelemetryAges, NoBurst
  <2>5. CASE RestartTimers
    BY <2>5, TimersAssumption
       DEF RestartTimers, StartTimers, NoMessages, TimersInv, TimersTypes, HeartbeatAges,
                TelemetryAges, NoBurst
  <2>6. CASE PassTime
    <3> DEFINE left(timer) == IF timer > -MaxLate THEN timer - 1 ELSE timer
               older(age, bound) == IF age < bound THEN age + 1 ELSE age
    <3>1. /\ history'.beat = older(history.beat, HeartbeatPeriod)
          /\ history'.beat2 = older(history.beat2, HeartbeatPeriod)
          /\ history'.sample = older(history.sample, MaxLate)
          /\ history'.sample2 = older(history.sample2, MaxLate)
          /\ history'.burst = history.burst
      BY <2>6, <2>a DEF PassTime, TimersTypes
    <3>2. /\ UNCHANGED <<anonymous, telemetryPeriod>>
          /\ heartbeat' = left(heartbeat) /\ telemetry' = left(telemetry)
      BY <2>6 DEF PassTime
    <3>3. TimersTypes'
      <4>1. history' \in [beat : Int, beat2 : Int, sample : Int, sample2 : Int, burst : BOOLEAN]
        <5>1. history' = [beat |-> older(history.beat, HeartbeatPeriod),
                          beat2 |-> older(history.beat2, HeartbeatPeriod),
                          sample |-> older(history.sample, MaxLate),
                          sample2 |-> older(history.sample2, MaxLate), burst |-> history.burst]
          BY <2>6, <2>a DEF PassTime, TimersTypes
        <5>2. QED
          BY <2>b, <5>1
      <4>2. heartbeat' \in Int /\ telemetry' \in Int
        BY <2>b, <3>2
      <4>3. QED
        BY <2>a, <3>2, <4>1, <4>2 DEF TimersTypes
    <3>4. HeartbeatAges'
      BY <2>a, <2>b, <3>1, <3>2 DEF HeartbeatAges
    <3>5. TelemetryAges'
      BY <2>a, <2>b, <3>1, <3>2 DEF TelemetryAges
    <3>6. QED
      BY <2>a, <3>1, <3>3, <3>4, <3>5 DEF TimersInv, NoBurst
  <2>7. CASE UNCHANGED timerVars
    BY <2>7 DEF timerVars, TimersInv, TimersTypes, HeartbeatAges, TelemetryAges, NoBurst
  <2>8. QED
    BY <2>1, <2>2, <2>3, <2>4, <2>5, <2>6, <2>7 DEF TimersNext
<1>3. TimersInv => NoBurst
  BY DEF TimersInv
<1>4. QED
  BY <1>1, <1>2, <1>3, PTL DEF TimersSpec

-----------------------------------------------------------------------------
(* The watch on the bus: LocalControlTrustsBus                             *)

\* The thread has its locals, and no count it read exceeds the one of the media.
WatchTypes ==
  /\ offCount \in [Ifaces -> Nat]
  /\ busLost \in BOOLEAN /\ trusted \in BOOLEAN /\ again \in BOOLEAN
  /\ suspect \in {"none", "new", "old"}
  /\ "at" \in DOMAIN thread
  /\ thread.at = "receive" =>
       thread = [at |-> "receive", got |-> thread.got, attempt |-> thread.attempt,
                 idle |-> thread.idle]
  /\ thread.at = "watch" =>
       /\ thread = [at |-> "watch", iface |-> thread.iface, half |-> thread.half,
                    state |-> thread.state, count |-> thread.count]
       /\ thread.iface \in 0 .. InterfaceCount
       /\ thread.half \in {"state", "count"}
       /\ thread.half = "count" => thread.iface < InterfaceCount
       /\ thread.count \in [Ifaces -> Nat]
       /\ \A i \in Ifaces : thread.count[i] <= offCount[i]

\* Data that a bus-off made doubtful for the first time.
Doubtful == trusted /\ suspect # "none" /\ ~again

\* The bus-off is counted on some interface; once the thread looks at the bus it has
\* not read that count yet, or has seen the event in it.
EventInSight ==
  \E i \in Ifaces :
    /\ offCount[i] > 0
    /\ suspect = "old" => thread.at = "watch" /\ (thread.iface > i => thread.count[i] > 0)

EventInv == Doubtful => ~busLost /\ EventInSight

RxInv == WatchTypes /\ EventInv

(* A bus-off ends the trust in what came before it, for any number of      *)
(* interfaces and any queue: the local control of a cycle uses no data     *)
(* from before a bus-off that happened before its look at the bus.         *)
THEOREM BusWatched == RxSpec => []LocalControlTrustsBus
<1> USE DEF Ifaces
<1>1. RxInit => RxInv
  <2> SUFFICES ASSUME RxInit
               PROVE  RxInv
    OBVIOUS
  <2>1. thread.at = "wait" /\ "at" \in DOMAIN thread
    BY DEF RxInit, Elsewhere
  <2>2. busLost \in BOOLEAN /\ trusted \in BOOLEAN /\ again \in BOOLEAN
    BY DEF RxInit
  <2>3. offCount \in [Ifaces -> Nat] /\ suspect = "none"
    BY DEF RxInit
  <2>4. QED
    BY <2>1, <2>2, <2>3 DEF RxInv, WatchTypes, EventInv, Doubtful
<1>2. RxInv /\ [RxNext]_rxVars => RxInv'
  <2> SUFFICES ASSUME RxInv, [RxNext]_rxVars
               PROVE  RxInv'
    OBVIOUS
  <2>a. WatchTypes /\ EventInv
    BY DEF RxInv
  <2>1. ASSUME NEW i \in Ifaces, NEW frame \in RxFrames, OnFrame(i, frame)
        PROVE  RxInv'
    BY <2>a, <2>1 DEF OnFrame, RxInv, WatchTypes, EventInv, Doubtful, EventInSight
  <2>2. ASSUME NEW i \in Ifaces, NEW state \in BusStates, OnStateChange(i, state)
        PROVE  RxInv'
    <3>1. CASE state # kBusOff
      BY <2>a, <2>2, <3>1
         DEF OnStateChange, RxInv, WatchTypes, EventInv, Doubtful, EventInSight
    <3>2. CASE state = kBusOff
      <4>1. /\ offCount' = [offCount EXCEPT ![i] = @ + 1]
            /\ suspect' = IF trusted /\ suspect = "none" THEN "new" ELSE suspect
            /\ again' = (again \/ (trusted /\ busLost))
            /\ UNCHANGED <<thread, busLost, trusted>>
        BY <2>2, <3>2 DEF OnStateChange
      <4>2. /\ offCount' \in [Ifaces -> Nat] /\ offCount'[i] > 0
            /\ \A j \in Ifaces : offCount'[j] >= offCount[j]
        BY <2>a, <4>1 DEF WatchTypes
      <4>3. again' \in BOOLEAN
        BY <4>1
      <4>4. WatchTypes'
        <5>1. thread.at = "watch" => \A j \in Ifaces : thread.count[j] <= offCount'[j]
          <6> SUFFICES ASSUME thread.at = "watch", NEW j \in Ifaces
                       PROVE  thread.count[j] <= offCount'[j]
            OBVIOUS
          <6>1. thread.count[j] \in Nat /\ offCount[j] \in Nat /\ offCount'[j] \in Nat
            BY <2>a, <4>2 DEF WatchTypes
          <6>2. thread.count[j] <= offCount[j] /\ offCount'[j] >= offCount[j]
            BY <2>a, <4>2 DEF WatchTypes
          <6>3. QED
            BY <6>1, <6>2
        <5>2. suspect' \in {"none", "new", "old"}
          BY <2>a, <4>1 DEF WatchTypes
        <5>3. QED
          BY <2>a, <4>1, <4>2, <4>3, <5>1, <5>2 DEF WatchTypes
      <4>5. EventInv'
        <5> SUFFICES ASSUME Doubtful'
                     PROVE  ~busLost' /\ EventInSight'
          BY DEF EventInv
        <5>1. trusted /\ ~again /\ ~busLost
          BY <2>a, <4>1 DEF Doubtful, WatchTypes
        <5>2. CASE suspect = "none"
          BY <4>1, <4>2, <5>1, <5>2 DEF EventInSight
        <5>3. CASE suspect # "none"
          <6>1. PICK k \in Ifaces :
                  /\ offCount[k] > 0
                  /\ suspect = "old" =>
                       thread.at = "watch" /\ (thread.iface > k => thread.count[k] > 0)
            BY <2>a, <5>1, <5>3 DEF EventInv, Doubtful, EventInSight
          <6>2. offCount'[k] > 0
            BY <2>a, <4>2, <6>1 DEF WatchTypes
          <6>3. QED
            BY <4>1, <5>1, <5>3, <6>1, <6>2 DEF EventInSight
        <5>4. QED
          BY <5>2, <5>3
      <4>6. QED
        BY <4>4, <4>5 DEF RxInv
    <3>3. QED
      BY <3>1, <3>2
  <2>3. CASE BeginSpin
    BY <2>a, <2>3 DEF BeginSpin, AtReceive, RxInv, WatchTypes, EventInv, Doubtful, EventInSight
  <2>4. CASE Receive
    <3>1. thread.at = "receive" /\ UNCHANGED <<offCount, busLost>>
      BY <2>4 DEF Receive
    <3>2. Doubtful => suspect = "new"
      BY <2>a, <3>1 DEF WatchTypes, EventInv, Doubtful, EventInSight
    <3>3. CASE BeginWatch /\ UNCHANGED <<trusted, again>>
      <4>1. /\ thread' = AtWatch /\ suspect' = IF suspect = "new" THEN "old" ELSE suspect
            /\ UNCHANGED <<trusted, again>>
        BY <3>3 DEF BeginWatch
      <4>2. /\ thread'.at = "watch" /\ thread'.iface = 0 /\ thread'.half = "state"
            /\ thread'.count = [i \in Ifaces |-> 0] /\ "at" \in DOMAIN thread'
            /\ thread' = [at |-> "watch", iface |-> thread'.iface, half |-> thread'.half,
                          state |-> thread'.state, count |-> thread'.count]
        BY <4>1 DEF AtWatch
      <4>3. thread'.count \in [Ifaces -> Nat] /\ \A i \in Ifaces : thread'.count[i] <= offCount'[i]
        BY <2>a, <3>1, <4>2 DEF WatchTypes
      <4>4. thread'.iface \in 0 .. InterfaceCount
        BY <4>2, CanRxAssumption
      <4>5. suspect' \in {"none", "new", "old"}
        BY <2>a, <4>1 DEF WatchTypes
      <4>6. WatchTypes'
        BY <2>a, <3>1, <4>1, <4>2, <4>3, <4>4, <4>5 DEF WatchTypes
      <4>7. EventInv'
        <5> SUFFICES ASSUME Doubtful'
                     PROVE  ~busLost' /\ EventInSight'
          BY DEF EventInv
        <5>1. Doubtful
          BY <4>1 DEF Doubtful
        <5>2. ~busLost /\ \E i \in Ifaces : offCount[i] > 0
          BY <2>a, <5>1 DEF EventInv, EventInSight
        <5>3. \A i \in Ifaces : ~(thread'.iface > i)
          BY <4>2, CanRxAssumption
        <5>4. QED
          BY <3>1, <4>2, <5>2, <5>3 DEF EventInSight
      <4>8. QED
        BY <4>6, <4>7 DEF RxInv
    <3>4. CASE /\ \E n \in {0, thread.idle + 1} :
                    thread' = [thread EXCEPT !.attempt = @ + 1, !.idle = n]
               /\ UNCHANGED <<trusted, suspect, again>>
      <4>1. /\ thread'.at = "receive" /\ "at" \in DOMAIN thread'
            /\ thread' = [at |-> "receive", got |-> thread'.got, attempt |-> thread'.attempt,
                          idle |-> thread'.idle]
        BY <2>a, <3>1, <3>4 DEF WatchTypes
      <4>2. WatchTypes'
        BY <2>a, <3>1, <3>4, <4>1 DEF WatchTypes
      <4>3. EventInv'
        BY <2>a, <3>1, <3>2, <3>4 DEF EventInv, Doubtful, EventInSight
      <4>4. QED
        BY <4>2, <4>3 DEF RxInv
    <3>5. CASE /\ thread' = AtReceive(thread.got + 1)
               /\ trusted' = TRUE /\ suspect' = "none" /\ again' = FALSE
      <4>1. /\ thread'.at = "receive" /\ "at" \in DOMAIN thread'
            /\ thread' = [at |-> "receive", got |-> thread'.got, attempt |-> thread'.attempt,
                          idle |-> thread'.idle]
        BY <3>5 DEF AtReceive
      <4>2. trusted' \in BOOLEAN /\ again' \in BOOLEAN /\ suspect' = "none"
        BY <3>5
      <4>3. QED
        BY <2>a, <3>1, <4>1, <4>2 DEF RxInv, WatchTypes, EventInv, Doubtful
    <3>6. QED
      BY <2>4, <3>3, <3>4, <3>5 DEF Receive
  <2>5. CASE ReadState
    <3>1. /\ thread.at = "watch" /\ thread.half = "state" /\ thread.iface < InterfaceCount
          /\ UNCHANGED <<offCount, busLost, trusted, suspect, again>>
      BY <2>5 DEF ReadState
    <3>2. PICK state : thread' = [thread EXCEPT !.half = "count", !.state = state]
      BY <2>5 DEF ReadState
    <3>3. /\ thread'.at = "watch" /\ thread'.iface = thread.iface /\ thread'.half = "count"
          /\ thread'.count = thread.count /\ "at" \in DOMAIN thread'
          /\ thread' = [at |-> "watch", iface |-> thread'.iface, half |-> thread'.half,
                        state |-> thread'.state, count |-> thread'.count]
      BY <2>a, <3>1, <3>2 DEF WatchTypes
    <3>4. WatchTypes'
      BY <2>a, <3>1, <3>3 DEF WatchTypes
    <3>5. EventInv'
      BY <2>a, <3>1, <3>3 DEF EventInv, Doubtful, EventInSight
    <3>6. QED
      BY <3>4, <3>5 DEF RxInv
  <2>6. CASE ReadCount
    <3> DEFINE read == thread.iface
    <3>1. /\ thread.at = "watch" /\ thread.half = "count"
          /\ UNCHANGED <<offCount, busLost, trusted, suspect, again>>
      BY <2>6 DEF ReadCount
    <3>2. thread' = [thread EXCEPT !.half = "state", !.iface = read + 1,
                                   !.count = [thread.count EXCEPT ![read] = offCount[read]]]
      BY <2>a, <2>6, <3>1 DEF ReadCount, WatchTypes
    <3>3. /\ thread'.at = "watch" /\ thread'.iface = read + 1 /\ thread'.half = "state"
          /\ thread'.count = [thread.count EXCEPT ![read] = offCount[read]]
          /\ "at" \in DOMAIN thread'
          /\ thread' = [at |-> "watch", iface |-> thread'.iface, half |-> thread'.half,
                        state |-> thread'.state, count |-> thread'.count]
      BY <2>a, <3>1, <3>2 DEF WatchTypes
    <3>4. read \in Ifaces /\ thread'.iface \in 0 .. InterfaceCount
      BY <2>a, <3>1, <3>3, CanRxAssumption DEF WatchTypes
    <3>5. /\ thread'.count \in [Ifaces -> Nat]
          /\ \A i \in Ifaces : thread'.count[i] <= offCount'[i]
      BY <2>a, <3>1, <3>3, <3>4 DEF WatchTypes
    <3>6. WatchTypes'
      BY <2>a, <3>1, <3>3, <3>4, <3>5 DEF WatchTypes
    <3>7. EventInv'
      <4> SUFFICES ASSUME Doubtful'
                   PROVE  ~busLost' /\ EventInSight'
        BY DEF EventInv
      <4>1. Doubtful
        BY <3>1 DEF Doubtful
      <4>2. PICK k \in Ifaces :
              /\ offCount[k] > 0
              /\ suspect = "old" /\ thread.iface > k => thread.count[k] > 0
        BY <2>a, <4>1 DEF EventInv, EventInSight
      <4>3. thread'.iface > k => k = read \/ thread.iface > k
        BY <3>3, <3>4
      <4>4. suspect = "old" /\ thread'.iface > k => thread'.count[k] > 0
        BY <2>a, <3>1, <3>3, <3>4, <4>2, <4>3 DEF WatchTypes
      <4>5. QED
        BY <2>a, <3>1, <3>3, <4>1, <4>2, <4>4 DEF EventInv, EventInSight
    <3>8. QED
      BY <3>6, <3>7 DEF RxInv
  <2>7. CASE WatchBus
    <3> DEFINE lost == WentOff(thread.state, thread.count) /\ ~busLost
    <3>1. /\ thread.at = "watch" /\ thread.iface = InterfaceCount
          /\ offCount' = [i \in Ifaces |-> offCount[i] - thread.count[i]]
          /\ busLost' = ((busLost \/ lost) /\ thread.state = kBusOff)
          /\ thread' = [at |-> "local"]
      BY <2>7 DEF WatchBus, Elsewhere
    <3>2. \/ lost /\ trusted' = FALSE /\ suspect' = "none" /\ again' = FALSE
          \/ ~lost /\ UNCHANGED <<trusted, suspect, again>>
      BY <2>7 DEF WatchBus
    <3>3. offCount' \in [Ifaces -> Nat]
      BY <2>a, <3>1 DEF WatchTypes
    <3>4. busLost' \in BOOLEAN
      BY <3>1
    <3>5. trusted' \in BOOLEAN /\ again' \in BOOLEAN /\ suspect' \in {"none", "new", "old"}
      BY <2>a, <3>2 DEF WatchTypes
    <3>6. thread'.at = "local" /\ "at" \in DOMAIN thread'
      BY <3>1
    <3>7. WatchTypes'
      BY <3>3, <3>4, <3>5, <3>6 DEF WatchTypes
    <3>8. EventInv'
      <4> SUFFICES ASSUME Doubtful'
                   PROVE  ~busLost' /\ EventInSight'
        BY DEF EventInv
      <4>1. ~lost /\ UNCHANGED <<trusted, suspect, again>> /\ Doubtful
        <5>1. suspect' # "none"
          BY DEF Doubtful
        <5>2. ~lost /\ UNCHANGED <<trusted, suspect, again>>
          BY <3>2, <5>1
        <5>3. QED
          BY <5>2 DEF Doubtful
      <4>2. ~busLost /\ EventInSight
        BY <2>a, <4>1 DEF EventInv
      <4>3. \A i \in Ifaces : thread.count[i] = 0
        BY <4>1, <4>2 DEF WentOff
      <4>4. PICK k \in Ifaces :
              /\ offCount[k] > 0
              /\ suspect = "old" /\ thread.iface > k => thread.count[k] > 0
        BY <4>2 DEF EventInSight
      <4>5. thread.iface > k
        BY <3>1, CanRxAssumption
      <4>6. suspect # "old"
        BY <4>3, <4>4, <4>5
      <4>7. offCount'[k] > 0
        BY <2>a, <3>1, <4>3, <4>4 DEF WatchTypes
      <4>8. ~busLost'
        BY <3>1, <4>1, <4>2
      <4>9. QED
        BY <4>1, <4>6, <4>7, <4>8 DEF EventInSight
    <3>9. QED
      BY <3>7, <3>8 DEF RxInv
  <2>8. CASE EndSpin
    BY <2>a, <2>8 DEF EndSpin, Elsewhere, RxInv, WatchTypes, EventInv, Doubtful, EventInSight
  <2>9. CASE UNCHANGED rxVars
    BY <2>a, <2>9 DEF rxVars, RxInv, WatchTypes, EventInv, Doubtful, EventInSight
  <2>10. QED
    BY <2>1, <2>2, <2>3, <2>4, <2>5, <2>6, <2>7, <2>8, <2>9 DEF RxNext, ThreadStep
<1>3. RxInv => LocalControlTrustsBus
  BY DEF RxInv, WatchTypes, EventInv, Doubtful, EventInSight, LocalControlTrustsBus
<1>4. QED
  BY <1>1, <1>2, <1>3, PTL DEF RxSpec

-----------------------------------------------------------------------------
(* Register writes: WritesTaken                                            *)

Fields == {"mode", "derateStart", "trip", "setpointPort", "telemetryPort", "commandTimeout",
           "cartTimeout"}

RealFields == VoltageFields \cup TimeoutFields

\* Where the tool is: register k is written, for the first or for the second time.
Past(k) == passes > 0 \/ position > k
PastTwice(k) == passes > 1 \/ (passes > 0 /\ position > k)

\* The first pass brings in what depends on nothing, and the upper limit of each pair
\* of registers that bound each other or the room for it; the second pass the rest.
LoadInv ==
    /\ target \in NvmSettings /\ Validate(target)
    /\ live.telemetryPort = target.telemetryPort
    /\ Past(1) => live.mode = target.mode
    /\ Past(2) => live.derateStart < target.trip
    /\ Past(3) => live.trip = target.trip
    /\ Past(4) => live.setpointPort = target.setpointPort
    /\ Past(6) => target.cartTimeout <= live.commandTimeout
    /\ Past(7) => live.cartTimeout = target.cartTimeout
    /\ PastTwice(2) => live.derateStart = target.derateStart
    /\ PastTwice(6) => live.commandTimeout = target.commandTimeout

RegistersInv ==
    /\ live \in [Fields -> Int] /\ Validate(live)
    /\ mismatch = FALSE
    /\ position \in 0..7 /\ passes \in 0..2
    /\ position = 0 => passes = 0
    /\ position # 0 => LoadInv

(* An even number is twice its half.                                       *)
LEMMA Halved ==
    ASSUME NEW n \in Int, n % 2 = 0
    PROVE  n \div 2 \in Int /\ 2 * (n \div 2) = n
OBVIOUS

LEMMA Doubled ==
    ASSUME NEW n \in Int
    PROVE  (2 * n) % 2 = 0 /\ (2 * n) \div 2 = n
OBVIOUS

(* Rounding to a step moves a number by half of the step at most, and a    *)
(* multiple of it not at all.                                              *)
LEMMA Steps ==
    ASSUME NEW n \in Nat
    PROVE  /\ Rounded(n, 1) = n
           /\ Rounded(n, 2) \in Int /\ Rounded(n, 4) \in Int
           /\ Rounded(n, 2) % 2 = 0 /\ Rounded(n, 2) - n \in -1..1
           /\ n % 2 = 0 => Rounded(n, 2) = n
           /\ Rounded(n, 4) % 4 = 0 /\ Rounded(n, 4) - n \in -2..2
           /\ n % 2 # 0 => Rounded(n, 4) - n \in {-1, 1}
           /\ n % 4 = 0 => Rounded(n, 4) = n
<1>1. Rounded(n, 1) = n
  BY DEF Rounded
<1>2. Rounded(n, 2) \in Int /\ Rounded(n, 2) % 2 = 0 /\ Rounded(n, 2) - n \in -1..1
  BY DEF Rounded
<1>3. n % 2 = 0 => Rounded(n, 2) = n
  BY DEF Rounded
<1>4. Rounded(n, 4) \in Int /\ Rounded(n, 4) % 4 = 0 /\ Rounded(n, 4) - n \in -2..2
  BY DEF Rounded
<1>5. n % 2 # 0 => Rounded(n, 4) - n \in {-1, 1}
  BY DEF Rounded
<1>6. n % 4 = 0 => Rounded(n, 4) = n
  BY DEF Rounded
<1>7. QED
  BY <1>1, <1>2, <1>3, <1>4, <1>5, <1>6

(* A float is its own nearest one.                                         *)
LEMMA NarrowFloat ==
    ASSUME NEW x \in Floats
    PROVE  x \in Int /\ Narrow(x) = x
<1> DEFINE n == Size(x)
<1>1. /\ x \in Int /\ n \in Nat /\ n <= MaxFloat /\ MaxFloat \in Int
      /\ n < Exact \/ (n < 2 * Exact /\ x % 2 = 0) \/ x % 4 = 0
  BY RegistersAssumption DEF Floats, Size, MaxFloat
<1>2. (x % 2 = 0 => n % 2 = 0) /\ (x % 4 = 0 => n % 4 = 0 /\ n % 2 = 0)
  BY <1>1 DEF Size
<1>3. x = IF x < 0 THEN -n ELSE n
  BY <1>1 DEF Size
<1> DEFINE m == Rounded(n, IF n < Exact THEN 1 ELSE IF n < 2 * Exact THEN 2 ELSE 4)
<1> HIDE DEF n
<1>4. m = n
  BY <1>1, <1>2, Steps, RegistersAssumption
<1>5. Narrow(x) = IF m > MaxFloat THEN Infinite ELSE IF x < 0 THEN -m ELSE m
  BY DEF Narrow, n
<1>6. QED
  BY <1>1, <1>3, <1>4, <1>5

(* A number that is narrowed becomes the float nearest to it.              *)
LEMMA NarrowNearest ==
    ASSUME NEW x \in Int, Narrow(x) # Infinite
    PROVE  Narrow(x) \in Int /\ Nearest(Narrow(x), x)
<1> DEFINE n == Size(x)
           y == Narrow(x)
           m == Rounded(n, IF n < Exact THEN 1 ELSE IF n < 2 * Exact THEN 2 ELSE 4)
<1>1. /\ n \in Nat /\ n = IF x < 0 THEN -x ELSE x
      /\ Exact \in Nat /\ Exact >= 4 /\ Exact % 2 = 0 /\ MaxFloat = 4 * Exact - 4
  BY RegistersAssumption DEF Size, MaxFloat
<1>2. ~(m > MaxFloat) /\ y = IF x < 0 THEN -m ELSE m
  BY DEF Narrow
<1>3. (n % 2 = x % 2) /\ (n % 4 = 0 <=> x % 4 = 0)
  BY <1>1
\* The floats next to a number that is none.
<1>4. ASSUME NEW f \in Floats
      PROVE  /\ f \in Int
             /\ n >= Exact /\ x % 2 = 1 => f # x
             /\ n >= 2 * Exact /\ x % 4 = 2 => f # x /\ f # x + 1 /\ f # x - 1
  <2>1. /\ f \in Int
        /\ Size(f) < Exact \/ (Size(f) < 2 * Exact /\ f % 2 = 0) \/ f % 4 = 0
    BY RegistersAssumption DEF Floats, MaxFloat
  <2>2. n >= Exact /\ x % 2 = 1 => f # x
    BY <1>1, <2>1 DEF Size
  <2>3. n >= 2 * Exact /\ x % 4 = 2 => f # x /\ f # x + 1 /\ f # x - 1
    BY <1>1, <2>1 DEF Size
  <2>4. QED
    BY <2>1, <2>2, <2>3
<1> HIDE DEF y, n
<1>5. CASE n < Exact
  <2>1. m = n
    BY <1>1, <1>5, Steps
  <2>2. y = x
    BY <1>1, <1>2, <2>1
  <2>3. x \in Floats
    BY <1>1, <1>5 DEF Floats, n
  <2>4. \A f \in Floats : Size(x - x) <= Size(f - x)
    BY <1>4 DEF Size
  <2>5. QED
    BY <2>2, <2>3, <2>4 DEF Nearest, y
<1>6. CASE n >= Exact /\ n < 2 * Exact
  <2>1. /\ m \in Int /\ m % 2 = 0 /\ m - n \in -1..1
        /\ n % 2 = 0 => m = n
    BY <1>1, <1>6, Steps
  <2>2. y \in Int /\ Size(y) = m /\ Size(y - x) \in 0..1 /\ (x % 2 = 0 => y = x)
    BY <1>1, <1>2, <1>3, <1>6, <2>1 DEF Size
  <2>3. m <= MaxFloat /\ (m < 2 * Exact \/ m = 2 * Exact)
    BY <1>1, <1>2, <1>6, <2>1
  <2>4. y \in Floats
    <3>1. y % 2 = 0 /\ (m = 2 * Exact => y % 4 = 0)
      BY <1>1, <1>2, <2>1
    <3>2. QED
      BY <1>1, <2>2, <2>3, <3>1 DEF Floats, Size
  <2>5. ASSUME NEW f \in Floats
        PROVE  Size(y - x) <= Size(f - x)
    <3>1. CASE x % 2 = 0
      BY <1>4, <2>2, <3>1 DEF Size
    <3>2. CASE x % 2 = 1
      BY <1>4, <1>6, <2>2, <3>2 DEF Size
    <3>3. QED
      BY <3>1, <3>2
  <2>6. QED
    BY <2>2, <2>4, <2>5 DEF Nearest, y
<1>7. CASE n >= 2 * Exact
  <2>1. /\ m \in Int /\ m % 4 = 0 /\ m - n \in -2..2
        /\ n % 2 # 0 => m - n \in {-1, 1}
        /\ n % 4 = 0 => m = n
    BY <1>1, <1>7, Steps
  <2>2. /\ y \in Int /\ Size(y) = m /\ Size(y - x) \in 0..2 /\ y % 4 = 0
        /\ x % 2 = 1 => Size(y - x) = 1
        /\ x % 4 = 0 => y = x
    <3>1. y \in Int /\ y % 4 = 0 /\ m >= 0
      BY <1>1, <1>2, <1>7, <2>1
    <3>2. y - x = m - n \/ y - x = -(m - n)
      BY <1>1, <1>2, <2>1
    <3>3. Size(y) = m
      BY <1>2, <2>1, <3>1 DEF Size
    <3>4. Size(y - x) \in 0..2 /\ (x % 2 = 1 => Size(y - x) = 1)
      BY <1>1, <1>3, <2>1, <3>2 DEF Size
    <3>5. x % 4 = 0 => y = x
      BY <1>1, <1>2, <1>3, <2>1
    <3>6. QED
      BY <3>1, <3>3, <3>4, <3>5
  <2>3. y \in Floats
    BY <1>1, <1>2, <2>1, <2>2 DEF Floats, Size
  <2>4. ASSUME NEW f \in Floats
        PROVE  Size(y - x) <= Size(f - x)
    <3>1. CASE x % 4 = 0
      BY <1>4, <2>2, <3>1 DEF Size
    <3>2. CASE x % 2 = 1
      BY <1>1, <1>4, <1>7, <2>2, <3>2 DEF Size
    <3>3. CASE x % 4 = 2
      BY <1>4, <1>7, <2>2, <3>3 DEF Size
    <3>4. QED
      BY <3>1, <3>2, <3>3
  <2>5. QED
    BY <2>2, <2>3, <2>4 DEF Nearest, y
<1>8. QED
  BY <1>1, <1>5, <1>6, <1>7
(* FromValue() leaves a number in the field, in an accepted write one that *)
(* reads back as the nearest float.                                        *)
LEMMA Converted ==
    ASSUME NEW v, v.first \in Int, NEW field, NEW old \in Int
    PROVE  /\ FromValue(v, field, old).field \in Int
           /\ FromValue(v, field, old).result = "accepted" =>
                Nearest(IF field \in RealFields THEN FromValue(v, field, old).field
                        ELSE 2 * FromValue(v, field, old).field, v.first)
<1> DEFINE max == IF field \in PortFields THEN MaxPort ELSE MaxByte
           number == IF field \in RealFields
                     THEN IF GetNumber(v) \in {NaN, Infinite} THEN None ELSE GetNumber(v)
                     ELSE ToInteger(v, max)
           result == IF GetNumber(v) = None THEN "type mismatch"
                     ELSE IF number = None THEN "out of range" ELSE "accepted"
<1>1. GetNumber(v) \notin {None, NaN, Infinite} =>
          GetNumber(v) \in Int /\ Nearest(GetNumber(v), v.first)
  <2>1. GetNumber(v) \in {None, NaN} \/ GetNumber(v) = Narrow(v.first)
    BY DEF GetNumber
  <2>2. QED
    BY <2>1, NarrowNearest
<1>2. ASSUME ToInteger(v, max) # None
      PROVE  ToInteger(v, max) \in Int /\ Nearest(2 * ToInteger(v, max), v.first)
  <2>1. /\ GetInteger(v) # None /\ ToInteger(v, max) = GetInteger(v)
        /\ ~(GetInteger(v) < 0) /\ ~(GetInteger(v) > 3)
    BY <1>2 DEF ToInteger, MaxPort, MaxByte
  <2>2. CASE v.tag \in {"integer64", "natural64"}
    <3>1. v.first % 2 = 0 /\ GetInteger(v) = v.first \div 2
      BY <2>1, <2>2 DEF GetInteger
    <3>2. GetInteger(v) \in 0..3 /\ 2 * GetInteger(v) = v.first
      BY <2>1, <3>1, Halved
    <3>3. v.first \in Floats
      BY <3>2, RegistersAssumption DEF Floats, Size, MaxFloat
    <3>4. Nearest(v.first, v.first)
      BY <3>3 DEF Nearest, Size, Floats, MaxFloat
    <3>5. QED
      BY <2>1, <3>2, <3>4
  <2>3. CASE v.tag \notin {"integer64", "natural64"}
    <3>1. /\ GetNumber(v) \notin {None, NaN, Infinite}
          /\ GetNumber(v) % 2 = 0 /\ GetInteger(v) = GetNumber(v) \div 2
      BY <2>1, <2>3 DEF GetInteger
    <3>2. GetInteger(v) \in Int /\ 2 * GetInteger(v) = GetNumber(v)
      BY <1>1, <3>1, Halved
    <3>3. QED
      BY <1>1, <2>1, <3>1, <3>2
  <2>4. QED
    BY <2>2, <2>3
<1>3. /\ FromValue(v, field, old).result = result
      /\ FromValue(v, field, old).field = IF result = "accepted" THEN number ELSE old
  BY DEF FromValue, RealFields
<1>4. result = "accepted" => number # None
  OBVIOUS
<1>5. number # None =>
          number \in Int /\ Nearest(IF field \in RealFields THEN number ELSE 2 * number, v.first)
  BY <1>1, <1>2
<1> HIDE DEF number, result
<1>6. QED
  BY <1>3, <1>4, <1>5

(* An accepted write reads back as the float nearest to what was written;  *)
(* no write leaves settings Validate() refuses.                            *)
LEMMA WriteKeeps ==
    ASSUME NEW field \in Fields, NEW v, v.first \in Int,
           live \in [Fields -> Int], Validate(live), mismatch = FALSE, Write(field, v)
    PROVE  live' \in [Fields -> Int] /\ Validate(live)' /\ mismatch' = FALSE
<1> DEFINE converted == FromValue(v, field, live[field])
           candidate == [live EXCEPT ![field] = converted.field]
<1>1. live[field] \in Int
  OBVIOUS
<1>2. /\ converted.field \in Int
      /\ converted.result = "accepted" =>
           Nearest(IF field \in RealFields THEN converted.field ELSE 2 * converted.field, v.first)
  BY <1>1, Converted
<1>3. /\ live' = IF Validate(candidate) THEN candidate ELSE live
      /\ mismatch' = (\/ mismatch
                      \/ /\ converted.result = "accepted" /\ Validate(candidate)
                         /\ ~Nearest(ToValue(candidate, field), v.first))
  BY DEF Write
<1> HIDE DEF converted
<1>4. candidate \in [Fields -> Int] /\ candidate[field] = converted.field
  BY <1>2
<1> HIDE DEF candidate
<1>5. ToValue(candidate, field) =
          IF field \in RealFields THEN converted.field ELSE 2 * converted.field
  BY <1>4 DEF ToValue, RealFields
<1>6. mismatch' = FALSE
  BY <1>2, <1>3, <1>5
<1>7. live' \in [Fields -> Int] /\ Validate(live')
  BY <1>3, <1>4
<1>8. QED
  BY <1>6, <1>7 DEF Validate, IsValidEnumValues, HasPortIdCollision

(* The fields of a profile are numbers.                                    *)
LEMMA ProfileTyped ==
    ASSUME NEW s \in NvmSettings
    PROVE  s \in [Fields -> Int]
<1>1. DOMAIN s = Fields /\ s = [g \in Fields |-> s[g]]
  BY DEF NvmSettings, Fields
<1>2. /\ s.derateStart \in Int /\ s.trip \in Int
      /\ s.commandTimeout \in Int /\ s.cartTimeout \in Int
  <2>1. s.derateStart \in Reals /\ s.trip \in Reals
    BY DEF NvmSettings
  <2>2. s.commandTimeout \in Reals /\ s.cartTimeout \in Reals
    BY DEF NvmSettings
  <2>3. \A r \in Reals : r \in Int
    BY RegistersAssumption
  <2>4. QED
    BY <2>1, <2>2, <2>3
<1>3. s.mode \in Int /\ s.setpointPort \in Int /\ s.telemetryPort \in Int
  BY DEF NvmSettings, MaxByte, MaxPort
<1>4. \A g \in Fields : s[g] \in Int
  BY <1>2, <1>3 DEF Fields
<1>5. QED
  BY <1>1, <1>4

(* A value of the profile the tool writes is converted as it is.           *)
LEMMA ProfileConverted ==
    ASSUME NEW field \in Fields, NEW old, target \in NvmSettings,
           NEW v, v = IF field \in RealFields THEN [tag |-> "real64", first |-> target[field]]
                      ELSE [tag |-> "natural64", first |-> 2 * target[field]]
    PROVE  FromValue(v, field, old).field = target[field] /\ v.first \in Int
<1> USE DEF RealFields, VoltageFields, TimeoutFields
<1>1. CASE field \in RealFields
  <2>1. target[field] \in Nat /\ target[field] \in Floats
    BY <1>1, RegistersAssumption DEF NvmSettings
  <2>2. v.tag = "real64" /\ v.first = target[field]
    BY <1>1
  <2>3. v.first \notin {None, NaN, Infinite}
    BY <2>1, <2>2 DEF None, NaN, Infinite
  <2>4. GetNumber(v) = target[field]
    BY <2>1, <2>2, <2>3, NarrowFloat DEF GetNumber
  <2>5. QED
    BY <1>1, <2>1, <2>2, <2>3, <2>4 DEF FromValue
<1>2. CASE field \notin RealFields
  <2>1. target[field] \in 0..3
    BY <1>2 DEF Fields, NvmSettings, MaxByte, MaxPort
  <2>2. v.tag = "natural64" /\ v.first = 2 * target[field]
    BY <1>2
  <2>3. v.first \in Nat /\ v.first \notin {None, NaN, Infinite}
    BY <2>1, <2>2 DEF None, NaN, Infinite
  <2>4. v.first \in Floats
    BY <2>1, <2>2, RegistersAssumption DEF Floats, Size, MaxFloat
  <2>5. GetNumber(v) = v.first
    BY <2>2, <2>3, <2>4, NarrowFloat DEF GetNumber
  <2>6. GetInteger(v) = target[field]
    BY <2>1, <2>2, <2>3, Doubled DEF GetInteger
  <2>7. \A max \in {MaxPort, MaxByte} : ToInteger(v, max) = target[field] /\ target[field] # None
    BY <2>1, <2>6 DEF ToInteger, MaxPort, MaxByte, None
  <2>8. FromValue(v, field, old).field = target[field]
    BY <1>2, <2>3, <2>5, <2>7 DEF FromValue
  <2>9. QED
    BY <2>3, <2>8
<1>3. QED
  BY <1>1, <1>2

(* A step of the tool writes the field of the profile, or leaves the       *)
(* settings as they are when Validate() refuses it.                        *)
LEMMA LoadWrites ==
    ASSUME RegistersInv, LoadRegister
    PROVE  LET field == Registers[position]
               candidate == [live EXCEPT ![field] = target[field]]
           IN  /\ field \in Fields /\ position \in 1..7 /\ passes \in 0..1
               /\ live' = IF Validate(candidate) THEN candidate ELSE live
               /\ live' \in [Fields -> Int] /\ Validate(live)' /\ mismatch' = FALSE
<1> DEFINE field == Registers[position]
           v == IF field \in RealFields THEN [tag |-> "real64", first |-> target[field]]
                ELSE [tag |-> "natural64", first |-> 2 * target[field]]
<1>1. position \in 1..7 /\ passes \in 0..1
  BY DEF RegistersInv, LoadRegister
<1>2. field \in Fields
  BY <1>1 DEF Registers, Fields
<1>3. Write(field, v)
  BY DEF LoadRegister, RealFields
<1>4. target \in NvmSettings /\ live \in [Fields -> Int] /\ Validate(live) /\ mismatch = FALSE
  BY <1>1 DEF RegistersInv, LoadInv
<1> HIDE DEF field
<1>5. FromValue(v, field, live[field]).field = target[field] /\ v.first \in Int
  BY <1>2, <1>4, ProfileConverted
<1> HIDE DEF v
<1>6. live' = IF Validate([live EXCEPT ![field] = target[field]])
              THEN [live EXCEPT ![field] = target[field]] ELSE live
  BY <1>3, <1>5 DEF Write
<1>7. live' \in [Fields -> Int] /\ Validate(live)' /\ mismatch' = FALSE
  BY <1>2, <1>3, <1>4, <1>5, WriteKeeps
<1>8. QED
  BY <1>1, <1>2, <1>6, <1>7 DEF field

(* The settings a step of the tool leaves, by the register it is at: in    *)
(* the second pass nothing is refused, in the first only a lower limit     *)
(* that has no room yet or an upper one that would not leave any.          *)
LEMMA LoadStep ==
    ASSUME RegistersInv, LoadRegister
    PROVE  LoadInv'
<1> DEFINE field == Registers[position]
           candidate == [live EXCEPT ![field] = target[field]]
<1>1. /\ field \in Fields /\ position \in 1..7 /\ passes \in 0..1
      /\ live' = IF Validate(candidate) THEN candidate ELSE live
      /\ live' \in [Fields -> Int] /\ Validate(live)'
  BY LoadWrites
<1>2. LoadInv /\ live \in [Fields -> Int] /\ Validate(live)
  BY <1>1 DEF RegistersInv
<1>3. /\ target' = target
      /\ position # 7 => position' = position + 1 /\ passes' = passes
      /\ position = 7 => position' = 1 /\ passes' = passes + 1
  BY DEF LoadRegister, Registers
<1>4. \A g \in Fields : target[g] \in Int
  BY <1>2, ProfileTyped DEF LoadInv
<1>5. CASE position = 1
  <2>1. field = "mode"
    BY <1>5 DEF Registers
  <2>2. Validate(candidate)
    BY <1>2, <1>4, <2>1 DEF LoadInv, Validate, IsValidEnumValues, HasPortIdCollision, Fields
  <2>3. live' = [live EXCEPT !.mode = target.mode]
    BY <1>1, <2>1, <2>2
  <2>4. QED
    BY <1>1, <1>2, <1>3, <1>4, <1>5, <2>3, SMTT(20) DEF LoadInv, Past, PastTwice, Fields
<1>6. CASE position = 2
  <2>1. field = "derateStart"
    BY <1>6 DEF Registers
  <2>2. passes = 1 => Validate(candidate)
    BY <1>2, <1>4, <2>1
       DEF LoadInv, Past, Validate, IsValidEnumValues, HasPortIdCollision, Fields
  <2>3. ~Validate(candidate) => live.derateStart < target.trip
    BY <1>2, <1>4, <2>1, SMTT(30)
       DEF LoadInv, Validate, IsValidEnumValues, HasPortIdCollision, Fields
  <2>4. CASE Validate(candidate)
    <3>1. live' = [live EXCEPT !.derateStart = target.derateStart]
      BY <1>1, <2>1, <2>4
    <3>2. QED
      BY <1>1, <1>2, <1>3, <1>4, <1>6, <3>1 DEF LoadInv, Past, PastTwice, Fields, Validate
  <2>5. CASE ~Validate(candidate)
    <3>1. live' = live /\ passes = 0
      BY <1>1, <2>2, <2>5
    <3>2. QED
      BY <1>1, <1>2, <1>3, <1>4, <1>6, <2>3, <2>5, <3>1
         DEF LoadInv, Past, PastTwice, Fields, Validate
  <2>6. QED
    BY <2>4, <2>5
<1>7. CASE position = 3
  <2>1. field = "trip"
    BY <1>7 DEF Registers
  <2>2. Validate(candidate)
    BY <1>2, <1>4, <1>7, <2>1
       DEF LoadInv, Past, Validate, IsValidEnumValues, HasPortIdCollision, Fields
  <2>3. live' = [live EXCEPT !.trip = target.trip]
    BY <1>1, <2>1, <2>2
  <2>4. QED
    BY <1>1, <1>2, <1>3, <1>4, <1>7, <2>3 DEF LoadInv, Past, PastTwice, Fields
<1>8. CASE position = 4
  <2>1. field = "setpointPort"
    BY <1>8 DEF Registers
  <2>2. Validate(candidate)
    BY <1>2, <1>4, <1>8, <2>1
       DEF LoadInv, Past, Validate, IsValidEnumValues, HasPortIdCollision, Fields
  <2>3. live' = [live EXCEPT !.setpointPort = target.setpointPort]
    BY <1>1, <2>1, <2>2
  <2>4. QED
    BY <1>1, <1>2, <1>3, <1>4, <1>8, <2>3 DEF LoadInv, Past, PastTwice, Fields
<1>9. CASE position = 5
  <2>1. field = "telemetryPort"
    BY <1>9 DEF Registers
  <2>2. Validate(candidate)
    BY <1>2, <1>4, <1>9, <2>1
       DEF LoadInv, Past, Validate, IsValidEnumValues, HasPortIdCollision, Fields
  <2>3. live' = [live EXCEPT !.telemetryPort = target.telemetryPort]
    BY <1>1, <2>1, <2>2
  <2>4. QED
    BY <1>1, <1>2, <1>3, <1>4, <1>9, <2>3 DEF LoadInv, Past, PastTwice, Fields
<1>10. CASE position = 6
  <2>1. field = "commandTimeout"
    BY <1>10 DEF Registers
  <2>2. passes = 1 => Validate(candidate)
    BY <1>2, <1>4, <2>1
       DEF LoadInv, Past, Validate, IsValidEnumValues, HasPortIdCollision, Fields
  <2>3. ~Validate(candidate) => target.cartTimeout <= live.commandTimeout
    BY <1>2, <1>4, <2>1
       DEF LoadInv, Validate, IsValidEnumValues, HasPortIdCollision, Fields
  <2>4. CASE Validate(candidate)
    <3>1. live' = [live EXCEPT !.commandTimeout = target.commandTimeout]
      BY <1>1, <2>1, <2>4
    <3>2. QED
      BY <1>1, <1>2, <1>3, <1>4, <1>10, <3>1 DEF LoadInv, Past, PastTwice, Fields, Validate
  <2>5. CASE ~Validate(candidate)
    <3>1. live' = live /\ passes = 0
      BY <1>1, <2>2, <2>5
    <3>2. QED
      BY <1>1, <1>2, <1>3, <1>4, <1>10, <2>3, <2>5, <3>1
         DEF LoadInv, Past, PastTwice, Fields, Validate
  <2>6. QED
    BY <2>4, <2>5
<1>11. CASE position = 7
  <2>1. field = "cartTimeout"
    BY <1>11 DEF Registers
  <2>2. Validate(candidate)
    BY <1>2, <1>4, <1>11, <2>1
       DEF LoadInv, Past, Validate, IsValidEnumValues, HasPortIdCollision, Fields
  <2>3. live' = [live EXCEPT !.cartTimeout = target.cartTimeout]
    BY <1>1, <2>1, <2>2
  <2>4. QED
    BY <1>1, <1>2, <1>3, <1>4, <1>11, <2>3 DEF LoadInv, Past, PastTwice, Fields
<1>12. QED
  BY <1>1, <1>5, <1>6, <1>7, <1>8, <1>9, <1>10, <1>11

(* A profile is taken as a whole by writing it twice, and an accepted      *)
(* write reads back as the number written where a float can hold it, else  *)
(* as a float nearest to it: for every profile of the hardware, whatever   *)
(* the precision of a float, and whatever a client wrote before.           *)
THEOREM WritesCorrect == RegistersSpec => []WritesTaken
<1>1. RegistersInit => RegistersInv
  BY RegistersAssumption
     DEF RegistersInit, RegistersInv, Factory, Fields, Validate, IsValidEnumValues,
         HasPortIdCollision, UnsetPort, MaxPort
<1>2. RegistersInv /\ [RegistersNext]_registerVars => RegistersInv'
  <2> SUFFICES ASSUME RegistersInv, [RegistersNext]_registerVars
               PROVE  RegistersInv'
    OBVIOUS
  <2>1. CASE WriteAny
    <3>1. PICK i \in DOMAIN Registers, v \in RegisterValues : Write(Registers[i], v)
      BY <2>1 DEF WriteAny
    <3>2. Registers[i] \in Fields
      BY DEF Registers, Fields
    <3>3. v.first \in Int
      BY DEF RegisterValues, None, NaN
    <3>4. live' \in [Fields -> Int] /\ Validate(live)' /\ mismatch' = FALSE
      BY <3>1, <3>2, <3>3, WriteKeeps DEF RegistersInv
    <3>5. position = 0 /\ UNCHANGED <<target, position, passes>>
      BY <2>1 DEF WriteAny
    <3>6. QED
      BY <3>4, <3>5 DEF RegistersInv
  <2>2. CASE LoadProfile
    <3>1. /\ position = 0 /\ position' = 1 /\ passes = 0 /\ UNCHANGED <<live, mismatch, passes>>
          /\ target' \in NvmSettings /\ Validate(target')
          /\ target'.telemetryPort = live.telemetryPort
      BY <2>2 DEF LoadProfile, RegistersInv
    <3>2. LoadInv'
      BY <3>1 DEF LoadInv, Past, PastTwice, Validate, IsValidEnumValues, HasPortIdCollision
    <3>3. QED
      BY <3>1, <3>2
         DEF RegistersInv, Validate, IsValidEnumValues, HasPortIdCollision
  <2>3. CASE LoadRegister
    <3>1. /\ position \in 1..7 /\ passes \in 0..1
          /\ live' \in [Fields -> Int] /\ Validate(live)' /\ mismatch' = FALSE
      BY <2>3, LoadWrites
    <3>2. position' \in 1..7 /\ passes' \in 0..2
      BY <2>3, <3>1 DEF LoadRegister, Registers
    <3>3. LoadInv'
      BY <2>3, LoadStep
    <3>4. QED
      BY <3>1, <3>2, <3>3 DEF RegistersInv
  <2>4. CASE UNCHANGED registerVars
    BY <2>4 DEF registerVars, RegistersInv, LoadInv, Past, PastTwice, Validate, IsValidEnumValues,
                HasPortIdCollision
  <2>5. QED
    BY <2>1, <2>2, <2>3, <2>4 DEF RegistersNext
<1>3. RegistersInv => WritesTaken
  <2> SUFFICES ASSUME RegistersInv
               PROVE  WritesTaken
    OBVIOUS
  <2>1. ASSUME passes = 2
        PROVE  live = target
    <3>1. LoadInv /\ live \in [Fields -> Int]
      BY <2>1 DEF RegistersInv
    <3>2. \A g \in Fields : live[g] = target[g]
      BY <2>1, <3>1 DEF LoadInv, Past, PastTwice, Fields
    <3>3. target \in [Fields -> Int]
      BY <3>1, ProfileTyped DEF LoadInv
    <3>4. QED
      BY <3>1, <3>2, <3>3
  <2>2. QED
    BY <2>1 DEF RegistersInv, WritesTaken
<1>4. QED
  BY <1>1, <1>2, <1>3, PTL DEF RegistersSpec

-----------------------------------------------------------------------------
(* The rider: FaultHoldsDriveOff                                           *)

\* A request to engage is answered in the Spin() it was made in, on the demand that
\* made it.
RequestInv ==
    /\ engageRequested => spinPhase = "engage"
    /\ spinPhase \in {"engage", "engagement"} /\ (engaged \/ engageRequested)
         => output \/ configured

\* Without an Inhibit() in between the cached answer is the one of the present demand.
OutputInv == output /\ ~inhibited => wanting /\ ~latched

\* A fault since which the pedals did not stand still, and nothing else excuses.
FaultKept == faulted /\ ~configured /\ ~inhibited

\* Before the next full Update() the drive asks for a re-arm, as long as the cached
\* answer is a demand; after it the latch takes over, and there is no demand.
FaultInv ==
    FaultKept => /\ ~engaged /\ ~engageRequested
                 /\ \/ rearmRequired /\ output /\ wanting
                    \/ latched /\ ~output /\ ~wanting

EbikeInv == RequestInv /\ OutputInv /\ FaultInv

(* A full Update() hands the fault over from the re-arm of the drive to    *)
(* the latch of the e-bike control.                                        *)
LEMMA DemandStep ==
    ASSUME EbikeInv, UpdateDemand
    PROVE  EbikeInv'
<1>1. /\ spinPhase = "local" /\ spinPhase' = "engage"
      /\ latched' <=> Latch(still')
      /\ wanting' <=> (~latched' /\ ((assist /\ pedaling) \/ (wanting /\ ~held)))
      /\ output' <=> (wanting' /\ ~latched')
      /\ inhibited' <=> (inhibited /\ ~still')
      /\ faulted' <=> (faulted /\ ~still')
      /\ configured' <=> (configured /\ (inhibited' \/ faulted'))
  BY DEF UpdateDemand, FollowOutput
<1>2. /\ engageRequested' <=> (engageRequested \/ (output' /\ ~engaged /\ ~rearmRequired))
      /\ rearmRequired' <=> (rearmRequired /\ output')
      /\ engaged' <=> (engaged /\ output')
  BY DEF UpdateDemand, FollowOutput
<1>3. RequestInv'
  BY <1>1, <1>2 DEF EbikeInv, RequestInv
<1>4. OutputInv'
  BY <1>1 DEF OutputInv
<1>5. FaultInv'
  <2> SUFFICES ASSUME FaultKept'
               PROVE  /\ ~engaged' /\ ~engageRequested'
                      /\ \/ rearmRequired' /\ output' /\ wanting'
                         \/ latched' /\ ~output' /\ ~wanting'
    BY DEF FaultInv
  <2>1. FaultKept /\ ~still'
    BY <1>1 DEF FaultKept
  <2>2. latched \/ (rearmRequired /\ wanting)
    BY <2>1 DEF EbikeInv, FaultInv
  <2>3. latched' /\ ~output' /\ ~wanting'
    BY <1>1, <2>1, <2>2 DEF Latch
  <2>4. ~engaged' /\ ~engageRequested'
    BY <1>2, <2>1, <2>3 DEF EbikeInv, FaultInv
  <2>5. QED
    BY <2>3, <2>4
<1>6. QED
  BY <1>3, <1>4, <1>5 DEF EbikeInv

(* Engage() acts on a demand: a refused one asks for a re-arm.             *)
LEMMA EngageStep ==
    ASSUME EbikeInv, Engage
    PROVE  EbikeInv' /\ (faulted => configured \/ inhibited)
<1>1. /\ spinPhase = "engage" /\ spinPhase' = "engagement"
      /\ engageRequested /\ ~engaged /\ ~engageRequested'
      /\ engaged' <=> ~blocked
      /\ rearmRequired' <=> (rearmRequired \/ blocked)
      /\ faulted' <=> (faulted \/ blocked)
      /\ inhibited' <=> inhibited
  BY DEF Engage
<1>2. \/ configured' /\ ~output'
      \/ /\ output' <=> output
         /\ wanting' <=> wanting
         /\ latched' <=> latched
         /\ configured' <=> configured
  BY DEF Engage, Configure
<1>3. faulted => configured \/ inhibited
  BY <1>1 DEF EbikeInv, FaultInv, FaultKept
<1>4. output \/ configured
  BY <1>1 DEF EbikeInv, RequestInv
<1>5. RequestInv' /\ OutputInv'
  BY <1>1, <1>2, <1>4 DEF EbikeInv, RequestInv, OutputInv
<1>6. FaultInv'
  BY <1>1, <1>2, <1>3, <1>4 DEF EbikeInv, OutputInv, FaultInv, FaultKept
<1>7. QED
  BY <1>3, <1>5, <1>6 DEF EbikeInv

(* No other step engages the drive, and none takes a fault from it.        *)
LEMMA OtherSteps ==
    ASSUME EbikeInv, [EbikeNext]_ebikeDriveVars, ~Engage, ~UpdateDemand
    PROVE  EbikeInv' /\ (engaged' => engaged)
<1> DEFINE kept == /\ engaged' <=> engaged
                   /\ engageRequested' <=> engageRequested
                   /\ rearmRequired' <=> rearmRequired
                   /\ output' <=> output
                   /\ wanting' <=> wanting
                   /\ latched' <=> latched
                   /\ inhibited' <=> inhibited
                   /\ faulted' <=> faulted
                   /\ configured' <=> configured
<1> USE DEF EbikeInv, RequestInv, OutputInv, FaultInv, FaultKept
<1>1. CASE OnReadinessOff
  <2>1. /\ spinPhase = "dispatch" /\ spinPhase' = spinPhase
        /\ ~engaged' /\ inhibited'
        /\ engageRequested' <=> engageRequested
    BY <1>1 DEF OnReadinessOff
  <2>2. QED
    BY <2>1
<1>2. CASE \/ OnRegisterWrite \/ PedalsChange \/ DisplayChanges \/ RearmTimeElapses
           \/ EngageHoldElapses \/ StageTrips \/ ExternalEnableChanges \/ UNCHANGED ebikeDriveVars
  <2>1. spinPhase' = spinPhase /\ kept
    BY <1>2 DEF OnRegisterWrite, PedalsChange, DisplayChanges, RearmTimeElapses,
       EngageHoldElapses, StageTrips, ExternalEnableChanges, ebikeDriveVars, riderVars, ebikeVars,
       driveVars, stageVars, historyVars
  <2>2. QED
    BY <2>1
<1>3. CASE EndDispatch
  <2>1. spinPhase = "dispatch" /\ spinPhase' = "local" /\ kept
    BY <1>3 DEF EndDispatch, ebikeVars, driveVars, historyVars
  <2>2. QED
    BY <2>1
<1>4. CASE UpdateTooEarly
  <2>1. /\ spinPhase = "local" /\ spinPhase' = "engage"
        /\ engageRequested' <=> (engageRequested \/ (output /\ ~engaged /\ ~rearmRequired))
        /\ rearmRequired' <=> (rearmRequired /\ output)
        /\ engaged' <=> (engaged /\ output)
    BY <1>4 DEF UpdateTooEarly, FollowOutput
  <2>2. /\ output' <=> output
        /\ wanting' <=> wanting
        /\ latched' <=> latched
        /\ inhibited' <=> inhibited
        /\ faulted' <=> faulted
        /\ configured' <=> configured
    BY <1>4 DEF UpdateTooEarly, ebikeVars, historyVars
  <2>3. QED
    BY <2>1, <2>2
<1>5. CASE SpinNoRequest
  <2>1. /\ spinPhase = "engage" /\ spinPhase' = "engagement"
        /\ ~engageRequested' /\ (engaged' <=> engaged)
        /\ rearmRequired' <=> rearmRequired
        /\ output' <=> output
        /\ wanting' <=> wanting
        /\ latched' <=> latched
        /\ inhibited' <=> inhibited
        /\ faulted' <=> faulted
        /\ configured' <=> configured
    BY <1>5 DEF SpinNoRequest, ebikeVars, historyVars
  <2>2. QED
    BY <2>1
<1>6. CASE EbikeEngagement
  <2>1. /\ spinPhase = "engagement" /\ spinPhase' = "settings"
        /\ engageRequested' <=> engageRequested
        /\ output' <=> output
        /\ wanting' <=> wanting
        /\ latched' <=> latched
        /\ inhibited' <=> inhibited
        /\ configured' <=> configured
    BY <1>6 DEF EbikeEngagement, ebikeVars
  <2>2. \/ engaged /\ ~engaged' /\ rearmRequired' /\ faulted'
        \/ /\ engaged' <=> engaged
           /\ rearmRequired' <=> rearmRequired
           /\ faulted' <=> faulted
    BY <1>6 DEF EbikeEngagement
  <2>3. QED
    BY <2>1, <2>2
<1>7. CASE SpinSettings
  <2>1. /\ spinPhase = "settings" /\ spinPhase' = "dispatch"
        /\ engageRequested' <=> engageRequested
        /\ engaged' <=> engaged
        /\ rearmRequired' <=> rearmRequired
        /\ inhibited' <=> inhibited
        /\ faulted' <=> faulted
    BY <1>7 DEF SpinSettings
  <2>2. \/ configured' /\ ~output'
        \/ /\ output' <=> output
           /\ wanting' <=> wanting
           /\ latched' <=> latched
           /\ configured' <=> configured
    BY <1>7 DEF SpinSettings, Configure
  <2>3. QED
    BY <2>1, <2>2
<1>8. QED
  BY <1>1, <1>2, <1>3, <1>4, <1>5, <1>6, <1>7 DEF EbikeNext, Spin

(* A fault or a refused engage keeps the drive disengaged until the pedals *)
(* stood still, whatever cached answers come in between, unless a settings *)
(* restart or a readiness of the bus intervened.                           *)
THEOREM FaultHolds == EbikeSpec => FaultHoldsDriveOff
<1>1. EbikeInit => EbikeInv
  BY DEF EbikeInit, EbikeInv, RequestInv, OutputInv, FaultInv, FaultKept
<1>2. EbikeInv /\ [EbikeNext]_ebikeDriveVars =>
        EbikeInv' /\ [~engaged /\ engaged' /\ faulted => configured \/ inhibited]_ebikeDriveVars
  <2> SUFFICES ASSUME EbikeInv, [EbikeNext]_ebikeDriveVars
               PROVE  EbikeInv' /\ (~engaged /\ engaged' /\ faulted => configured \/ inhibited)
    OBVIOUS
  <2>1. CASE Engage
    BY <2>1, EngageStep
  <2>2. CASE UpdateDemand
    <3>1. engaged' => engaged
      BY <2>2 DEF UpdateDemand, FollowOutput
    <3>2. QED
      BY <2>2, <3>1, DemandStep
  <2>3. CASE ~Engage /\ ~UpdateDemand
    BY <2>3, OtherSteps
  <2>4. QED
    BY <2>1, <2>2, <2>3
<1>3. QED
  BY <1>1, <1>2, PTL DEF EbikeSpec, FaultHoldsDriveOff

-----------------------------------------------------------------------------
(* The torque source of a cart: ReleasedSafely                             *)

\* The ages stay within their cap, so that an input is Lost as soon as the readiness
\* is; a cart that is off asks for no torque.
CartInv ==
    /\ mode \in Modes /\ torque \in Int /\ commandTorque \in Int
    /\ commandAge \in 0 .. Lost /\ pedalAge \in 0 .. Lost /\ readinessAge \in 0 .. Lost
    /\ speed \in -MaxSpeed .. MaxSpeed
    /\ mode = "kOff" => torque = 0

LEMMA LostIsNatural == Lost \in Nat /\ Lost > CommandTimeout /\ Lost > CartTimeout
BY CartAssumption DEF Lost

LEMMA OlderWithinCap ==
    ASSUME NEW age \in 0 .. Lost
    PROVE  Older(age) \in 0 .. Lost
BY LostIsNatural DEF Older

(* One ramp step stays an integer, and a torque it brings to zero was at   *)
(* most one step away.                                                     *)
LEMMA RampToZero ==
    ASSUME NEW goal \in Int, torque \in Int
    PROVE  /\ Ramped(goal) \in Int
           /\ Ramped(0) = 0 => torque \in -TorqueRamp .. TorqueRamp
BY CartAssumption DEF Ramped

LEMMA PedalTorqueIsInteger ==
    ASSUME speed \in Int
    PROVE  PedalTorque \in Int
BY CartAssumption DEF PedalTorque

(* A mode of an engaged cart: a lost command leaves the fallback, and the  *)
(* way back to the VDC leads through standstill.                           *)
LEMMA NextModeOf ==
    ASSUME mode \in Modes
    PROVE  /\ NextMode \in Modes
           /\ mode # "kOff" /\ ~Fresh(commandAge) => NextMode = Fallback
           /\ mode \in {"kLimpHome", "kStopping"} /\ NextMode = "kVdc" => Standstill
<1>1. Fallback \in {"kLimpHome", "kStopping"}
  BY DEF Fallback
<1>2. QED
  BY <1>1 DEF NextMode, Modes

LEMMA SpinCartStep ==
    ASSUME CartInv, SpinCart
    PROVE  CartInv' /\ ReleaseStep
<1>1. /\ commandTorque' = commandTorque /\ speed' = speed
      /\ commandAge' \in 0 .. Lost /\ pedalAge' \in 0 .. Lost /\ readinessAge' \in 0 .. Lost
  BY OlderWithinCap DEF CartInv, SpinCart
<1>2. CASE ~cartEngaged
  <2>1. mode' = "kOff" /\ torque' = 0
    BY <1>2 DEF SpinCart, Reset
  <2>2. QED
    BY <1>1, <1>2, <2>1 DEF CartInv, Modes, Lost, ReleaseStep, TimesOut
<1>3. CASE cartEngaged
  <2>1. mode' = NextMode /\ torque' = TorqueIn(mode')
    BY <1>3 DEF SpinCart
  <2>2. mode' \in Modes
    BY <2>1, NextModeOf DEF CartInv
  <2>3. torque' \in Int /\ (mode' = "kOff" => torque' = 0)
    <3>1. speed \in Int
      BY CartAssumption DEF CartInv
    <3>2. TorqueIn(mode') \in Int /\ (mode' = "kOff" => TorqueIn(mode') = 0)
      BY <2>2, <3>1, PedalTorqueIsInteger, RampToZero DEF TorqueIn, Modes, CartInv
    <3>3. QED
      BY <2>1, <3>2
  <2>4. CartInv'
    BY <1>1, <2>2, <2>3 DEF CartInv, Lost
  <2>5. ASSUME TimesOut, mode # "kOff", ~Fresh(commandAge)
        PROVE  ~Fresh(pedalAge) /\ torque \in -TorqueRamp .. TorqueRamp
    <3>1. mode' = Fallback
      BY <2>1, <2>5, NextModeOf DEF CartInv
    <3>2. ~HoldsEngagement(mode', torque')
      BY <1>3, <2>5 DEF SpinCart, TimesOut
    <3>3. mode' = "kStopping" /\ torque' = 0 /\ ~Fresh(pedalAge)
      BY <3>1, <3>2 DEF Fallback, HoldsEngagement
    <3>4. Ramped(0) = 0
      BY <2>1, <3>3 DEF TorqueIn
    <3>5. QED
      BY <3>3, <3>4, RampToZero DEF CartInv
  <2>6. TimesOut /\ commandAge >= readinessAge => ~Fresh(commandAge)
    <3>1. TimesOut => readinessAge > CommandTimeout
      BY <1>3 DEF SpinCart, TimesOut
    <3>2. QED
      BY <3>1, CartAssumption, LostIsNatural DEF CartInv, Fresh
  <2>7. mode \in {"kLimpHome", "kStopping"} /\ mode' = "kVdc" => Standstill
    BY <2>1, NextModeOf DEF CartInv
  <2>8. QED
    BY <2>4, <2>5, <2>6, <2>7 DEF ReleaseStep
<1>4. QED
  BY <1>2, <1>3

(* No other step times out or moves the cart to the VDC.                   *)
LEMMA OtherCartSteps ==
    ASSUME CartInv, ReceiveCart \/ WheelTurns \/ UNCHANGED cartVars
    PROVE  CartInv' /\ ReleaseStep
<1>1. \/ mode' = mode /\ torque' = torque
      \/ mode' = "kOff" /\ torque' = 0
  BY DEF ReceiveCart, OnWheelCommand, OnPedalState, OnBusLost, OnReadinessKept,
         OnReadinessEngaged, Disengaged, WheelTurns, Reset, cartVars
<1>2. /\ commandAge' \in {commandAge, 0, Lost} /\ pedalAge' \in {pedalAge, 0, Lost}
      /\ readinessAge' \in {readinessAge, 0}
  BY DEF ReceiveCart, OnWheelCommand, OnPedalState, OnBusLost, OnReadinessKept,
         OnReadinessEngaged, Disengaged, WheelTurns, cartVars, inputVars
<1>3. commandTorque' \in Int
  BY CartAssumption
     DEF CartInv, ReceiveCart, OnWheelCommand, OnPedalState, OnBusLost, OnReadinessKept,
         OnReadinessEngaged, Disengaged, WheelTurns, cartVars, inputVars
<1>4. speed' \in -MaxSpeed .. MaxSpeed
  BY DEF CartInv, ReceiveCart, OnWheelCommand, OnPedalState, OnBusLost, OnReadinessKept,
         OnReadinessEngaged, Disengaged, WheelTurns, cartVars
<1>5. ~TimesOut
  BY DEF ReceiveCart, OnWheelCommand, OnPedalState, OnBusLost, OnReadinessKept,
         OnReadinessEngaged, Disengaged, WheelTurns, cartVars, TimesOut
<1>6. QED
  BY <1>1, <1>2, <1>3, <1>4, <1>5, LostIsNatural DEF CartInv, Modes, Lost, ReleaseStep

(* Whatever is lost, late or repeated, the readiness timeout takes the     *)
(* drive from no driver with working pedals whose VDC fell silent, and     *)
(* releases a moving cart at zero torque; the VDC takes over at standstill *)
(* only.                                                                   *)
THEOREM CartReleased == CartSpec => ReleasedSafely
<1>1. CartInit => CartInv
  BY CartAssumption, LostIsNatural DEF CartInit, CartInv, Modes
<1>2. CartInv /\ [CartNext]_cartVars => CartInv' /\ [ReleaseStep]_cartVars
  BY SpinCartStep, OtherCartSteps DEF CartNext
<1>3. QED
  BY <1>1, <1>2, PTL DEF CartSpec, ReleasedSafely

-----------------------------------------------------------------------------
(* The serial-line adapter: LinesWhole                                     *)

Chars == [what : Frames \cup {"reply"}, at : Nat, of : Nat]

\* text is the rest of the line that the character c belongs to.
RestOf(c, text) ==
    /\ Len(text) = c.of - c.at
    /\ \A k \in 1 .. Len(text) : text[k] = [what |-> c.what, at |-> c.at + k, of |-> c.of]

\* text is a whole line that fits the buffer, or nothing.
WholeLine(text) ==
    /\ Len(text) <= MaxLine
    /\ \A k \in 1 .. Len(text) : text[k] = [what |-> text[1].what, at |-> k, of |-> Len(text)]

\* The last character of a host that has got out after the character c.
LastSeen(c, out) == IF out = <<>> THEN c ELSE Last(out)

\* A line that is not too long is counted as it was sent.
PortTypes == [open : BOOLEAN, length : 0 .. MaxLine, overflow : BOOLEAN,
              pending : Seq(Chars), sent : Nat]
Counted(ports) == \A p \in Ports : ~ports[p].overflow => ports[p].length = ports[p].sent
PortInv == port \in [Ports -> PortTypes] /\ Counted(port)

\* What is pending for a host is the rest of the line it has got a part of.
HostInv ==
    /\ seen \in [Ports -> Chars]
    /\ \A p \in Ports : RestOf(seen[p], port[p].pending)

\* The ring holds the frames not yet popped, in their order.
RingInv ==
    /\ rx \in [0 .. RxLength - 1 -> Frames \cup {NoFrame}]
    /\ head \in 0 .. RxLength - 1 /\ count \in 0 .. RxLength
    /\ expected \in Seq(Frames) /\ Len(expected) = count
    /\ \A k \in 0 .. count - 1 : rx[(head + k) % RxLength] = expected[k + 1]

SlInv == PortInv /\ HostInv /\ RingInv /\ LinesWhole

(* A text is the n characters that are taken and the rest.                 *)
LEMMA TextTaken ==
    ASSUME NEW S, NEW text \in Seq(S), NEW n \in 0 .. Len(text)
    PROVE  /\ SubSeq(text, 1, n) \in Seq(S) /\ Len(SubSeq(text, 1, n)) = n
           /\ \A k \in 1 .. n : SubSeq(text, 1, n)[k] = text[k]
BY SMTT(30)

LEMMA TextLeft ==
    ASSUME NEW S, NEW text \in Seq(S), NEW n \in 0 .. Len(text)
    PROVE  LET remains == SubSeq(text, n + 1, Len(text))
           IN  /\ remains \in Seq(S) /\ Len(remains) = Len(text) - n
               /\ \A k \in 1 .. Len(remains) : remains[k] = text[n + k]
BY SMTT(30)

(* Some characters of the rest reach the host: it got no part of another   *)
(* line, and the new rest is that of the last character it got.            *)
LEMMA FlushWhole ==
    ASSUME NEW c \in Chars, NEW unsent \in Seq(Chars), RestOf(c, unsent),
           NEW n \in 0 .. Len(unsent)
    PROVE  LET flushed == FlushTakes(unsent, n)
           IN  /\ flushed.out \in Seq(Chars) /\ flushed.rest \in Seq(Chars)
               /\ ~Broken(c, flushed.out)
               /\ LastSeen(c, flushed.out) \in Chars
               /\ RestOf(LastSeen(c, flushed.out), flushed.rest)
               /\ flushed.out = <<>> <=> n = 0
<1> DEFINE out == SubSeq(unsent, 1, n)
           remains == SubSeq(unsent, n + 1, Len(unsent))
<1>1. /\ out \in Seq(Chars) /\ Len(out) = n /\ \A k \in 1 .. n : out[k] = unsent[k]
      /\ remains \in Seq(Chars) /\ Len(remains) = Len(unsent) - n
      /\ \A k \in 1 .. Len(remains) : remains[k] = unsent[n + k]
  BY TextTaken, TextLeft
<1>2. out = <<>> <=> n = 0
  BY <1>1
<1>3. /\ Len(unsent) = c.of - c.at /\ c.of \in Nat /\ c.at \in Nat
      /\ \A k \in 1 .. Len(unsent) :
            unsent[k].what = c.what /\ unsent[k].at = c.at + k /\ unsent[k].of = c.of
  BY DEF RestOf, Chars
<1> HIDE DEF out, remains
<1>4. ~Broken(c, out)
  <2> SUFFICES ASSUME NEW k \in 1 .. n
               PROVE  Continues(IF k = 1 THEN c ELSE out[k - 1], out[k])
    BY <1>1 DEF Broken
  <2>1. k \in 1 .. Len(unsent) /\ out[k] = unsent[k]
    BY <1>1
  <2>2. CASE k = 1
    BY <1>3, <2>1, <2>2 DEF Continues
  <2>3. CASE k > 1
    <3>1. k - 1 \in 1 .. Len(unsent) /\ out[k - 1] = unsent[k - 1]
      BY <1>1, <2>3
    <3>2. /\ out[k - 1].what = c.what /\ out[k - 1].at = c.at + (k - 1) /\ out[k - 1].of = c.of
          /\ out[k].what = c.what /\ out[k].at = c.at + k /\ out[k].of = c.of
      BY <1>3, <2>1, <3>1
    <3>3. out[k - 1].at # out[k - 1].of /\ out[k].at = out[k - 1].at + 1
      BY <1>3, <2>1, <3>2
    <3>4. QED
      BY <2>3, <3>2, <3>3 DEF Continues
  <2>4. QED
    BY <2>2, <2>3
<1>5. LastSeen(c, out) \in Chars /\ RestOf(LastSeen(c, out), remains)
  <2>1. CASE n = 0
    <3>1. LastSeen(c, out) = c
      BY <1>2, <2>1 DEF LastSeen
    <3>2. remains = unsent
      BY <1>1, <2>1
    <3>3. QED
      BY <3>1, <3>2
  <2>2. CASE n > 0
    <3>1. n \in 1 .. Len(unsent) /\ LastSeen(c, out) = unsent[n]
      BY <1>1, <1>2, <2>2 DEF LastSeen, Last
    <3>2. unsent[n] \in Chars
      BY <3>1
    <3>3. Len(remains) = unsent[n].of - unsent[n].at
      BY <1>1, <1>3, <3>1
    <3>4. ASSUME NEW k \in 1 .. Len(remains)
          PROVE  remains[k] = [what |-> unsent[n].what, at |-> unsent[n].at + k,
                            of |-> unsent[n].of]
      <4>1. n + k \in 1 .. Len(unsent) /\ remains[k] = unsent[n + k]
        BY <1>1
      <4>2. unsent[n + k] = [what |-> c.what, at |-> c.at + (n + k), of |-> c.of]
        BY <4>1 DEF RestOf
      <4>3. c.at + (n + k) = unsent[n].at + k
        BY <1>3, <3>1
      <4>4. QED
        BY <1>3, <3>1, <4>1, <4>2, <4>3
    <3>5. QED
      BY <3>1, <3>2, <3>3, <3>4 DEF RestOf
  <2>3. QED
    BY <2>1, <2>2
<1>6. FlushTakes(unsent, n) = [rest |-> remains, out |-> out]
  BY DEF FlushTakes, remains, out
<1>7. QED
  BY <1>1, <1>2, <1>4, <1>5, <1>6

LEMMA SlcanBounds ==
    /\ FrameLength \in Nat \ {0} /\ MaxLine \in Nat \ {0} /\ RxLength \in Nat \ {0}
    /\ FrameLength <= MaxLine
BY SlcanAssumption

(* Write(): whatever the terminal takes of the rest and of a new line, the *)
(* host gets whole lines.                                                  *)
LEMMA WriteWhole ==
    ASSUME NEW c \in Chars, NEW unsent \in Seq(Chars), RestOf(c, unsent),
           NEW text \in Seq(Chars), WholeLine(text),
           NEW n \in 0 .. Len(unsent), NEW m \in 0 .. Len(text)
    PROVE  LET done == WriteLine(unsent, text, n, m)
           IN  /\ done.rest \in Seq(Chars)
               /\ ~Broken(c, done.out)
               /\ LastSeen(c, done.out) \in Chars
               /\ RestOf(LastSeen(c, done.out), done.rest)
<1> DEFINE done == WriteLine(unsent, text, n, m)
           flushed == FlushTakes(unsent, n)
           remains == SubSeq(text, m + 1, Len(text))
           part == SubSeq(text, 1, m)
           f == flushed.out
           out == f \o part
           left == IF m = 0 THEN <<>> ELSE SubSeq(remains, 1, AtMost(MaxLine, remains))
           end == LastSeen(c, f)
<1>1. CASE text = <<>>
  <2>1. done = [out |-> <<>>, rest |-> unsent]
    BY <1>1 DEF WriteLine
  <2>2. done.out = <<>> /\ done.rest = unsent
    BY <2>1
  <2>3. ~Broken(c, <<>>) /\ LastSeen(c, <<>>) = c
    BY DEF Broken, LastSeen
  <2>4. QED
    BY <2>2, <2>3
<1>2. CASE text # <<>> /\ flushed.rest # <<>>
  <2>1. done = flushed
    BY <1>2 DEF WriteLine
  <2>2. QED
    BY <2>1, FlushWhole
<1>3. CASE text # <<>> /\ flushed.rest = <<>>
  <2>1. done = [out |-> out, rest |-> left]
    BY <1>3 DEF WriteLine
  <2>2. /\ f \in Seq(Chars) /\ ~Broken(c, f)
        /\ end \in Chars /\ RestOf(end, <<>>)
    BY <1>3, FlushWhole
  <2>3. end.at = end.of /\ end.at \in Nat
    BY <2>2 DEF RestOf, Chars
  <2>4. /\ part \in Seq(Chars) /\ Len(part) = m /\ \A k \in 1 .. m : part[k] = text[k]
        /\ remains \in Seq(Chars) /\ Len(remains) = Len(text) - m
        /\ \A k \in 1 .. Len(remains) : remains[k] = text[m + k]
    BY TextTaken, TextLeft
  <2>5. /\ Len(text) \in Nat \ {0} /\ Len(text) <= MaxLine
        /\ \A k \in 1 .. Len(text) : /\ text[k].what = text[1].what
                                     /\ text[k].at = k /\ text[k].of = Len(text)
    <3>1. Len(text) \in Nat \ {0} /\ Len(text) <= MaxLine
      BY <1>3 DEF WholeLine
    <3>2. ASSUME NEW k \in 1 .. Len(text)
          PROVE  /\ text[k].what = text[1].what
                 /\ text[k].at = k /\ text[k].of = Len(text)
      <4>1. text[k] = [what |-> text[1].what, at |-> k, of |-> Len(text)]
        BY DEF WholeLine
      <4>2. QED
        BY <4>1
    <3>3. QED
      BY <3>1, <3>2
  <2> HIDE DEF flushed, part, remains, f
  <2>6. AtMost(MaxLine, remains) = Len(remains)
    BY <2>4, <2>5, SlcanBounds DEF AtMost
  <2>7. left = IF m = 0 THEN <<>> ELSE remains
    <3>1. SubSeq(remains, 1, Len(remains)) = remains
      BY <2>4
    <3>2. QED
      BY <2>6, <3>1
  <2>8. /\ out \in Seq(Chars) /\ Len(out) = Len(f) + m
        /\ \A k \in 1 .. Len(f) : out[k] = f[k]
        /\ \A k \in 1 .. m : out[Len(f) + k] = text[k]
    <3>1. f \in Seq(Chars) /\ part \in Seq(Chars) /\ out = f \o part
      BY <2>2, <2>4
    <3> HIDE DEF out
    <3>2. /\ out \in Seq(Chars) /\ Len(out) = Len(f) + Len(part)
          /\ \A k \in 1 .. Len(f) : out[k] = f[k]
          /\ \A k \in 1 .. Len(part) : out[Len(f) + k] = part[k]
      BY <3>1
    <3>3. QED
      BY <2>4, <3>2
  <2> HIDE DEF out, left
  <2>9. end = IF Len(f) = 0 THEN c ELSE f[Len(f)]
    BY <2>2 DEF LastSeen, Last
  <2> HIDE DEF end
  <2>10. ~Broken(c, out)
    <3> SUFFICES ASSUME NEW k \in 1 .. Len(f) + m
                 PROVE  Continues(IF k = 1 THEN c ELSE out[k - 1], out[k])
      BY <2>8 DEF Broken
    <3> Len(f) \in Nat
      BY <2>2
    <3>1. CASE k <= Len(f)
      <4>1. Continues(IF k = 1 THEN c ELSE f[k - 1], f[k])
        BY <2>2, <3>1 DEF Broken
      <4>2. k \in 1 .. Len(f) /\ (k # 1 => k - 1 \in 1 .. Len(f))
        BY <3>1
      <4>3. \A i \in 1 .. Len(f) : out[i] = f[i]
        BY <2>8
      <4>4. out[k] = f[k] /\ (k # 1 => out[k - 1] = f[k - 1])
        BY <4>2, <4>3, Zenon
      <4>5. QED
        BY <4>1, <4>4
    <3>2. CASE k = Len(f) + 1
      <4>1. (IF k = 1 THEN c ELSE out[k - 1]) = end
        <5>1. Len(f) # 0 => out[Len(f)] = f[Len(f)]
          BY <2>8
        <5>2. QED
          BY <2>9, <3>2, <5>1
      <4>2. out[k] = text[1] /\ text[1].at = 1
        BY <2>5, <2>8, <3>2
      <4>3. QED
        BY <2>3, <4>1, <4>2 DEF Continues
    <3>3. CASE k > Len(f) + 1
      <4> DEFINE j == k - Len(f)
      <4>1. j \in 2 .. m /\ k = Len(f) + j /\ k - 1 = Len(f) + (j - 1) /\ k # 1
        BY <3>3
      <4> HIDE DEF j
      <4>2. out[k] = text[j] /\ out[k - 1] = text[j - 1]
        BY <2>8, <4>1
      <4>3. /\ text[j].what = text[1].what /\ text[j].at = j /\ text[j].of = Len(text)
            /\ text[j - 1].what = text[1].what /\ text[j - 1].at = j - 1
            /\ text[j - 1].of = Len(text)
        BY <2>5, <4>1
      <4>4. text[j - 1].at # text[j - 1].of
        BY <2>5, <4>1, <4>3
      <4>5. Continues(out[k - 1], out[k])
        BY <4>1, <4>2, <4>3, <4>4 DEF Continues
      <4>6. QED
        BY <4>1, <4>5
    <3>4. QED
      BY <3>1, <3>2, <3>3
  <2>11. left \in Seq(Chars) /\ LastSeen(c, out) \in Chars /\ RestOf(LastSeen(c, out), left)
    <3>1. CASE m = 0
      <4>1. left = <<>> /\ left \in Seq(Chars)
        BY <2>7, <3>1
      <4>2. out = f
        BY <2>2, <2>8, <3>1
      <4>3. LastSeen(c, out) = end
        BY <4>2 DEF end
      <4>4. QED
        BY <2>2, <4>1, <4>3
    <3>2. CASE m > 0
      <4>1. left = remains /\ out # <<>> /\ Len(f) \in Nat
        BY <2>2, <2>7, <2>8, <3>2
      <4>2. LastSeen(c, out) = text[m]
        BY <2>8, <3>2, <4>1 DEF LastSeen, Last
      <4>3. m \in 1 .. Len(text) /\ text[m] \in Chars
        BY <3>2
      <4>4. Len(remains) = text[m].of - text[m].at
        BY <2>4, <2>5, <4>3
      <4>5. ASSUME NEW k \in 1 .. Len(remains)
            PROVE  remains[k] = [what |-> text[m].what, at |-> text[m].at + k, of |-> text[m].of]
        <5>1. m + k \in 1 .. Len(text) /\ remains[k] = text[m + k]
          BY <2>4
        <5>2. text[m + k] = [what |-> text[1].what, at |-> m + k, of |-> Len(text)]
          BY <5>1 DEF WholeLine
        <5>3. QED
          BY <2>5, <4>3, <5>1, <5>2
      <4>6. QED
        BY <2>4, <4>1, <4>2, <4>3, <4>4, <4>5 DEF RestOf
    <3>3. QED
      BY <3>1, <3>2
  <2>12. QED
    BY <2>1, <2>10, <2>11
<1>4. QED
  BY <1>1, <1>2, <1>3


LEMMA LineIsWhole ==
    /\ WholeLine(<<>>) /\ <<>> \in Seq(Chars)
    /\ \A what \in Frames \cup {"reply"}, n \in 1 .. MaxLine :
          Line(what, n) \in Seq(Chars) /\ WholeLine(Line(what, n))
<1>1. WholeLine(<<>>) /\ <<>> \in Seq(Chars)
  BY SlcanBounds DEF WholeLine
<1>2. ASSUME NEW what \in Frames \cup {"reply"}, NEW n \in 1 .. MaxLine
      PROVE  Line(what, n) \in Seq(Chars) /\ WholeLine(Line(what, n))
  <2> DEFINE line == Line(what, n)
  <2>1. n \in Nat \ {0} /\ n <= MaxLine
    BY SlcanBounds
  <2>2. line = [k \in 1 .. n |-> [what |-> what, at |-> k, of |-> n]]
    BY DEF Line
  <2>3. \A k \in 1 .. n : [what |-> what, at |-> k, of |-> n] \in Chars
    BY <2>1 DEF Chars
  <2> HIDE DEF line
  <2>4. line \in Seq(Chars) /\ Len(line) = n
    BY <2>1, <2>2, <2>3
  <2>5. \A k \in 1 .. n : line[k] = [what |-> what, at |-> k, of |-> n]
    BY <2>2
  <2>6. line[1].what = what
    <3>1. line[1] = [what |-> what, at |-> 1, of |-> n]
      BY <2>1, <2>5
    <3>2. QED
      BY <3>1
  <2>7. WholeLine(line)
    BY <2>1, <2>4, <2>5, <2>6 DEF WholeLine
  <2>8. QED
    BY <2>4, <2>7 DEF line
<1>3. QED
  BY <1>1, <1>2

(* Whole lines are written to every port.                                  *)
LEMMA WrittenWhole ==
    ASSUME HostInv, cut = {}, NEW ports \in [Ports -> PortTypes], Counted(ports),
           \A p \in Ports : ports[p].pending = port[p].pending,
           NEW text \in [Ports -> Seq(Chars)], \A p \in Ports : WholeLine(text[p]),
           NEW taken \in Taken, Written(ports, text, taken)
    PROVE  PortInv' /\ HostInv' /\ cut' = {}
<1> DEFINE N(p) == AtMost(taken[p][1], ports[p].pending)
           M(p) == AtMost(taken[p][2], text[p])
           done == [p \in Ports |-> WriteLine(ports[p].pending, text[p], N(p), M(p))]
<1>1. /\ port' = [p \in Ports |-> [ports[p] EXCEPT !.pending = done[p].rest]]
      /\ cut' = cut \cup {p \in Ports : Broken(seen[p], done[p].out)}
      /\ seen' = [p \in Ports |-> IF done[p].out = <<>> THEN seen[p] ELSE Last(done[p].out)]
  BY DEF Written
<1>2. ASSUME NEW p \in Ports
      PROVE  /\ done[p].rest \in Seq(Chars)
             /\ ~Broken(seen[p], done[p].out)
             /\ LastSeen(seen[p], done[p].out) \in Chars
             /\ RestOf(LastSeen(seen[p], done[p].out), done[p].rest)
  <2>1. /\ seen[p] \in Chars /\ ports[p].pending \in Seq(Chars) /\ text[p] \in Seq(Chars)
        /\ RestOf(seen[p], ports[p].pending) /\ WholeLine(text[p])
    BY DEF HostInv, PortTypes
  <2>2. taken[p][1] \in Nat /\ taken[p][2] \in Nat
    BY SlcanBounds DEF Taken
  <2>3. N(p) \in 0 .. Len(ports[p].pending) /\ M(p) \in 0 .. Len(text[p])
    BY <2>1, <2>2 DEF AtMost
  <2>4. done[p] = WriteLine(ports[p].pending, text[p], N(p), M(p))
    OBVIOUS
  <2> HIDE DEF done, N, M
  <2>5. QED
    BY <2>1, <2>3, <2>4, WriteWhole
<1> HIDE DEF done
<1>3. cut' = {}
  BY <1>1, <1>2
<1>4. \A p \in Ports : [ports[p] EXCEPT !.pending = done[p].rest] \in PortTypes
  BY <1>2 DEF PortTypes
<1>5. port' \in [Ports -> PortTypes]
  BY <1>1, <1>4
<1>6. Counted(port)'
  <2>1. \A p \in Ports : /\ port'[p].overflow = ports[p].overflow
                         /\ port'[p].length = ports[p].length
                         /\ port'[p].sent = ports[p].sent
                         /\ port'[p].pending = done[p].rest
    BY <1>1 DEF PortTypes
  <2>2. QED
    BY <2>1 DEF Counted
<1>7. HostInv'
  <2>1. \A p \in Ports : port'[p].pending = done[p].rest
    BY <1>1 DEF PortTypes
  <2>2. \A p \in Ports : seen'[p] = LastSeen(seen[p], done[p].out)
    BY <1>1 DEF LastSeen
  <2>3. seen' \in [Ports -> Chars]
    BY <1>1, <1>2, <2>2
  <2>4. QED
    BY <1>2, <2>1, <2>2, <2>3 DEF HostInv
<1>8. QED
  BY <1>3, <1>5, <1>6, <1>7 DEF PortInv

(* Places of the ring.                                                     *)
LEMMA RingPlace ==
    ASSUME NEW h \in 0 .. RxLength - 1, NEW k \in 0 .. RxLength
    PROVE  (h + k) % RxLength = IF h + k < RxLength THEN h + k ELSE h + k - RxLength
<1>1. CASE h + k < RxLength
  BY <1>1, SlcanBounds
<1>2. CASE h + k >= RxLength
  <2> DEFINE x == h + k
  <2>1. x \in Int /\ x - RxLength \in 0 .. RxLength - 1
    BY <1>2, SlcanBounds
  <2>2. (x - RxLength) % RxLength = x - RxLength
    BY <2>1, SlcanBounds
  <2>3. x % RxLength = (x - RxLength) % RxLength
    BY <2>1, SlcanBounds
  <2>4. QED
    BY <1>2, <2>1, <2>2, <2>3, SlcanBounds
<1>3. QED
  BY <1>1, <1>2, SlcanBounds

LEMMA RingKept ==
    ASSUME RingInv, UNCHANGED <<rx, head, count, expected>>
    PROVE  RingInv'
BY DEF RingInv

LEMMA HostsKept ==
    ASSUME HostInv, cut = {}, UNCHANGED <<seen, cut>>, port' \in [Ports -> PortTypes],
           \A p \in Ports : port'[p].pending = port[p].pending
    PROVE  HostInv' /\ cut' = {}
BY DEF HostInv

LEMMA PushFrameStep ==
    ASSUME SlInv, NEW frame \in Frames, PushFrame(frame)
    PROVE  SlInv'
<1> DEFINE text == [p \in Ports |-> SentTo(port, p, frame)]
<1>1. PICK taken \in Taken : Written(port, text, taken)
  BY DEF PushFrame
<1>2. \A p \in Ports : text[p] \in Seq(Chars) /\ WholeLine(text[p])
  BY LineIsWhole, SlcanBounds DEF SentTo
<1>3. text \in [Ports -> Seq(Chars)]
  BY <1>2
<1>4. HostInv /\ cut = {} /\ port \in [Ports -> PortTypes] /\ Counted(port)
  BY DEF SlInv, PortInv, LinesWhole
<1> HIDE DEF text
<1>5. PortInv' /\ HostInv' /\ cut' = {}
  BY <1>1, <1>2, <1>3, <1>4, WrittenWhole
<1>6. RingInv' /\ ~wrong'
  BY RingKept DEF PushFrame, SlInv, LinesWhole
<1>7. QED
  BY <1>5, <1>6 DEF SlInv, LinesWhole

LEMMA BeginPollStep ==
    ASSUME SlInv, NEW p \in Ports, BeginPoll(p)
    PROVE  SlInv'
<1>1. PICK n \in 0 .. Len(port[p].pending) :
         /\ port' = [port EXCEPT ![p].pending = FlushTakes(port[p].pending, n).rest]
         /\ cut' = IF Broken(seen[p], FlushTakes(port[p].pending, n).out) THEN cut \cup {p} ELSE cut
         /\ seen' = [seen EXCEPT ![p] =
                       IF n = 0 THEN @ ELSE Last(FlushTakes(port[p].pending, n).out)]
  BY DEF BeginPoll
<1> DEFINE flushed == FlushTakes(port[p].pending, n)
<1>2. /\ port \in [Ports -> PortTypes] /\ Counted(port) /\ seen \in [Ports -> Chars]
      /\ \A q \in Ports : RestOf(seen[q], port[q].pending)
      /\ cut = {} /\ port[p].pending \in Seq(Chars)
  BY DEF SlInv, PortInv, HostInv, LinesWhole, PortTypes
<1>3. /\ flushed.rest \in Seq(Chars) /\ ~Broken(seen[p], flushed.out)
      /\ LastSeen(seen[p], flushed.out) \in Chars
      /\ RestOf(LastSeen(seen[p], flushed.out), flushed.rest)
      /\ flushed.out = <<>> <=> n = 0
  BY <1>2, FlushWhole
<1> HIDE DEF flushed
<1>4. /\ port' = [port EXCEPT ![p].pending = flushed.rest] /\ cut' = {}
      /\ seen' = [seen EXCEPT ![p] = LastSeen(seen[p], flushed.out)]
  BY <1>1, <1>2, <1>3 DEF LastSeen, flushed
<1>5. port' \in [Ports -> PortTypes]
  BY <1>2, <1>3, <1>4 DEF PortTypes
<1>6. \A q \in Ports : /\ port'[q].overflow = port[q].overflow
                       /\ port'[q].length = port[q].length /\ port'[q].sent = port[q].sent
                       /\ port'[q].pending = IF q = p THEN flushed.rest ELSE port[q].pending
  BY <1>2, <1>4 DEF PortTypes
<1>7. seen' \in [Ports -> Chars] /\ \A q \in Ports : RestOf(seen'[q], port'[q].pending)
  BY <1>2, <1>3, <1>4, <1>6
<1>8. Counted(port)'
  BY <1>2, <1>6 DEF Counted
<1>9. RingInv' /\ ~wrong'
  BY RingKept DEF BeginPoll, SlInv, LinesWhole
<1>10. QED
  BY <1>4, <1>5, <1>7, <1>8, <1>9 DEF SlInv, PortInv, HostInv, LinesWhole

(* A port whose line has grown or ended, and one that was opened or closed. *)
LEMMA PortRead ==
    ASSUME NEW r \in PortTypes
    PROVE  \A length \in 0 .. MaxLine : \A overflow \in BOOLEAN : \A sent \in Nat :
              [r EXCEPT !.length = length, !.overflow = overflow, !.sent = sent] \in PortTypes
<1>1. ASSUME NEW length \in 0 .. MaxLine, NEW overflow \in BOOLEAN, NEW sent \in Nat
      PROVE  [r EXCEPT !.length = length, !.overflow = overflow, !.sent = sent] \in PortTypes
  BY DEF PortTypes
<1>2. QED
  BY <1>1

LEMMA PortEnded ==
    ASSUME NEW r \in PortTypes
    PROVE  LET ended == [r EXCEPT !.length = 0, !.overflow = FALSE, !.sent = 0]
           IN  /\ ended \in PortTypes /\ ended.pending = r.pending
               /\ ended.length = 0 /\ ended.sent = 0
<1> DEFINE ended == [r EXCEPT !.length = 0, !.overflow = FALSE, !.sent = 0]
<1>1. 0 \in 0 .. MaxLine
  BY SlcanBounds
<1>2. \A overflow \in BOOLEAN : \A sent \in Nat :
         [r EXCEPT !.length = 0, !.overflow = overflow, !.sent = sent] \in PortTypes
  BY <1>1, PortRead, Zenon
<1>3. \A sent \in Nat : [r EXCEPT !.length = 0, !.overflow = FALSE, !.sent = sent] \in PortTypes
  BY <1>2, Zenon
<1>4. ended \in PortTypes
  BY <1>3
<1>5. ended.pending = r.pending /\ ended.length = 0 /\ ended.sent = 0
  BY DEF PortTypes
<1>6. QED
  BY <1>4, <1>5

LEMMA PortOpened ==
    ASSUME NEW r \in PortTypes, NEW open \in BOOLEAN
    PROVE  /\ [r EXCEPT !.open = open] \in PortTypes
           /\ [r EXCEPT !.open = open].pending = r.pending
BY DEF PortTypes

LEMMA ReadCharStep ==
    ASSUME SlInv, NEW p \in Ports, ReadChar(p)
    PROVE  SlInv'
<1>1. port \in [Ports -> PortTypes] /\ Counted(port) /\ HostInv /\ cut = {}
  BY DEF SlInv, PortInv, LinesWhole
<1> DEFINE length == IF port[p].length < MaxLine THEN port[p].length + 1 ELSE port[p].length
           overflow == port[p].overflow \/ port[p].length = MaxLine
           read == [port[p] EXCEPT !.length = length, !.overflow = overflow,
                                   !.sent = port[p].sent + 1]
<1>2. port' = [port EXCEPT ![p] = read]
  BY <1>1 DEF ReadChar, PortTypes
<1>3. length \in 0 .. MaxLine /\ overflow \in BOOLEAN /\ port[p].sent \in Nat
  BY <1>1, SlcanBounds DEF PortTypes
<1>4. ~overflow => length = port[p].sent + 1
  BY <1>1, SlcanBounds DEF PortTypes, Counted
<1> HIDE DEF length, overflow
<1>5. /\ read \in PortTypes /\ read.pending = port[p].pending
      /\ read.overflow = overflow /\ read.length = length /\ read.sent = port[p].sent + 1
  <2>1. port[p] \in PortTypes /\ port[p].sent + 1 \in Nat
    BY <1>1, <1>3
  <2>2. \A sent \in Nat :
           [port[p] EXCEPT !.length = length, !.overflow = overflow, !.sent = sent] \in PortTypes
    BY <1>3, <2>1, PortRead, Zenon
  <2>3. read \in PortTypes
    BY <2>1, <2>2, Zenon
  <2>4. /\ read.overflow = overflow /\ read.length = length /\ read.sent = port[p].sent + 1
        /\ read.pending = port[p].pending
    BY <2>1 DEF PortTypes
  <2>5. QED
    BY <2>3, <2>4
<1> HIDE DEF read
<1>6. /\ port' \in [Ports -> PortTypes] /\ Counted(port)'
      /\ \A q \in Ports : port'[q].pending = port[q].pending
  BY <1>1, <1>2, <1>4, <1>5 DEF Counted
<1>7. HostInv' /\ cut' = {}
  BY <1>1, <1>6, HostsKept DEF ReadChar
<1>8. RingInv' /\ ~wrong'
  BY RingKept DEF ReadChar, SlInv, LinesWhole
<1>9. QED
  BY <1>6, <1>7, <1>8 DEF SlInv, PortInv, LinesWhole

(* A received frame goes to the end of the ring, which has room for it.    *)
LEMMA FramePushed ==
    ASSUME RingInv, count < RxLength, NEW frame \in Frames,
           rx' = [rx EXCEPT ![(head + count) % RxLength] = frame],
           count' = count + 1, expected' = Append(expected, frame), UNCHANGED head
    PROVE  RingInv'
<1> DEFINE place == (head + count) % RxLength
<1>1. /\ head \in 0 .. RxLength - 1 /\ count \in 0 .. RxLength - 1
      /\ expected \in Seq(Frames) /\ Len(expected) = count
      /\ rx \in [0 .. RxLength - 1 -> Frames \cup {NoFrame}]
  BY SlcanBounds DEF RingInv
<1>2. place = IF head + count < RxLength THEN head + count ELSE head + count - RxLength
  BY <1>1, RingPlace, SlcanBounds
<1>3. place \in 0 .. RxLength - 1
  BY <1>1, <1>2, SlcanBounds
<1>4. rx' = [rx EXCEPT ![place] = frame]
  OBVIOUS
<1> HIDE DEF place
<1>5. /\ rx' \in [0 .. RxLength - 1 -> Frames \cup {NoFrame}]
      /\ count' \in 0 .. RxLength /\ expected' \in Seq(Frames) /\ Len(expected') = count'
  BY <1>1, <1>3, <1>4, SlcanBounds
<1>6. ASSUME NEW k \in 0 .. count' - 1
      PROVE  rx'[(head' + k) % RxLength] = expected'[k + 1]
  <2>1. k \in 0 .. count /\ k \in 0 .. RxLength /\ k < RxLength
    BY <1>1, SlcanBounds
  <2>2. (head + k) % RxLength = IF head + k < RxLength THEN head + k ELSE head + k - RxLength
    BY <1>1, <2>1, RingPlace
  <2>3. (head + k) % RxLength \in 0 .. RxLength - 1
    BY <1>1, <2>1, <2>2, SlcanBounds
  <2>4. CASE k = count
    <3>1. expected'[k + 1] = frame
      BY <1>1, <2>4
    <3>2. rx'[place] = frame
      BY <1>1, <1>3, <1>4
    <3>3. QED
      BY <2>4, <3>1, <3>2 DEF place
  <2>5. CASE k < count
    <3> DEFINE here == (head + k) % RxLength
    <3>1. here # place
      <4>1. here = IF head + k < RxLength THEN head + k ELSE head + k - RxLength
        BY <2>2
      <4> HIDE DEF here
      <4>2. QED
        BY <1>1, <1>2, <2>1, <2>5, <4>1, SlcanBounds
    <3>2. rx'[here] = rx[here]
      BY <1>1, <1>4, <2>3, <3>1
    <3>3. k \in 0 .. count - 1 /\ expected'[k + 1] = expected[k + 1]
      BY <1>1, <2>1, <2>5
    <3>4. rx[(head + k) % RxLength] = expected[k + 1]
      BY <3>3 DEF RingInv
    <3>5. QED
      BY <3>2, <3>3, <3>4
  <2>6. QED
    BY <1>1, <2>1, <2>4, <2>5
<1>7. QED
  BY <1>1, <1>5, <1>6 DEF RingInv


LEMMA ReadEndStep ==
    ASSUME SlInv, NEW p \in Ports, ReadEnd(p)
    PROVE  SlInv'
<1>1. port \in [Ports -> PortTypes] /\ Counted(port) /\ HostInv /\ RingInv /\ cut = {} /\ ~wrong
  BY DEF SlInv, PortInv, LinesWhole
<1>2. ASSUME ~port[p].overflow, port[p].length > 0,
             NEW result \in LineResults(port[p].length), NEW taken \in Taken,
             Complete(p, result, taken)
      PROVE  SlInv'
  <2> DEFINE ports == Opened(p, result)
             text == [q \in Ports |-> IF q = p THEN result.reply
                                      ELSE IF result.frame = NoFrame THEN <<>>
                                      ELSE SentTo(ports, q, result.frame)]
             open == IF result.open = "keep" THEN port[p].open ELSE result.open = "open"
             moved == [port[p] EXCEPT !.open = open]
             read == [moved EXCEPT !.length = 0, !.overflow = FALSE, !.sent = 0]
  <2>1. /\ result.frame \in Frames \cup {NoFrame}
        /\ result.reply \in {Reply, <<>>}
    BY DEF LineResults
  <2>2. /\ ports \in [Ports -> PortTypes] /\ Counted(ports)
        /\ \A q \in Ports : ports[q].pending = port[q].pending
    <3>1. ports = [port EXCEPT ![p] = read]
      BY <1>1 DEF Opened, PortTypes
    <3>2. open \in BOOLEAN
      BY <1>1 DEF PortTypes
    <3> HIDE DEF open
    <3>3. moved \in PortTypes /\ moved.pending = port[p].pending
      BY <1>1, <3>2, PortOpened
    <3> HIDE DEF moved
    <3>4. /\ read \in PortTypes /\ read.length = 0 /\ read.sent = 0
          /\ read.pending = port[p].pending
      BY <3>3, PortEnded
    <3> HIDE DEF ports, read
    <3>5. QED
      BY <1>1, <3>1, <3>4 DEF Counted
  <2> HIDE DEF ports
  <2>3. \A q \in Ports : text[q] \in Seq(Chars) /\ WholeLine(text[q])
    <3>1. Reply \in Seq(Chars) /\ WholeLine(Reply)
      BY LineIsWhole, SlcanBounds DEF Reply
    <3>2. \A frame \in Frames :
            Line(frame, FrameLength) \in Seq(Chars) /\ WholeLine(Line(frame, FrameLength))
      BY LineIsWhole, SlcanBounds
    <3>3. QED
      BY <2>1, <3>1, <3>2, LineIsWhole DEF SentTo
  <2>4. text \in [Ports -> Seq(Chars)]
    BY <2>3
  <2>5. Written(ports, text, taken)
    BY <1>2 DEF Complete, ports
  <2> HIDE DEF text
  <2>6. PortInv' /\ HostInv' /\ cut' = {}
    BY <1>1, <2>2, <2>3, <2>4, <2>5, WrittenWhole
  <2>7. ~wrong'
    BY <1>1, <1>2 DEF Complete, Counted
  <2>8. RingInv'
    <3>1. CASE result.frame = NoFrame
      BY <1>1, <1>2, <3>1, RingKept DEF Complete
    <3>2. CASE result.frame # NoFrame
      <4>1. /\ result.frame \in Frames /\ count < RxLength
            /\ rx' = [rx EXCEPT ![(head + count) % RxLength] = result.frame]
            /\ count' = count + 1 /\ expected' = Append(expected, result.frame)
            /\ head' = head
        BY <1>2, <2>1, <3>2 DEF Complete, ReadEnd, MayRead
      <4>2. QED
        BY <1>1, <4>1, FramePushed
    <3>3. QED
      BY <3>1, <3>2
  <2>9. QED
    BY <2>6, <2>7, <2>8 DEF SlInv, LinesWhole
<1>3. ASSUME port' = [port EXCEPT ![p].length = 0, ![p].overflow = FALSE, ![p].sent = 0],
             UNCHANGED <<rx, head, count, seen, cut, expected, wrong>>
      PROVE  SlInv'
  <2> DEFINE read == [port[p] EXCEPT !.length = 0, !.overflow = FALSE, !.sent = 0]
  <2>1. port' = [port EXCEPT ![p] = read]
    BY <1>1, <1>3 DEF PortTypes
  <2>2. /\ read \in PortTypes /\ read.length = 0 /\ read.sent = 0
        /\ read.pending = port[p].pending
    <3>1. port[p] \in PortTypes
      BY <1>1
    <3>2. QED
      BY <3>1, PortEnded
  <2> HIDE DEF read
  <2>3. /\ port' \in [Ports -> PortTypes] /\ Counted(port)'
        /\ \A q \in Ports : port'[q].pending = port[q].pending
    BY <1>1, <2>1, <2>2 DEF Counted
  <2>4. HostInv' /\ cut' = {} /\ RingInv' /\ ~wrong'
    BY <1>1, <1>3, <2>3, HostsKept, RingKept
  <2>5. QED
    BY <2>3, <2>4 DEF SlInv, PortInv, LinesWhole
<1>4. QED
  <2>1. CASE ~port[p].overflow /\ port[p].length > 0
    <3>1. PICK result \in LineResults(port[p].length), taken \in Taken :
             Complete(p, result, taken)
      BY <2>1 DEF ReadEnd
    <3>2. QED
      BY <1>2, <2>1, <3>1
  <2>2. CASE ~(~port[p].overflow /\ port[p].length > 0)
    BY <1>3, <2>2 DEF ReadEnd
  <2>3. QED
    BY <2>1, <2>2

(* Pop() takes the oldest frame the hosts sent.                            *)
LEMMA EndPopStep ==
    ASSUME SlInv, EndPop
    PROVE  SlInv'
<1>1. PortInv /\ HostInv /\ RingInv /\ cut = {} /\ ~wrong
  BY DEF SlInv, LinesWhole
<1>2. PortInv' /\ HostInv' /\ cut' = {}
  BY <1>1 DEF EndPop, PortInv, HostInv, Counted
<1>3. CASE count = 0
  <2>1. RingInv' /\ ~wrong'
    BY <1>1, <1>3, RingKept DEF EndPop
  <2>2. QED
    BY <1>2, <2>1 DEF SlInv, LinesWhole
<1>4. CASE count # 0
  <2>1. /\ wrong' = (wrong \/ rx[head] # Head(expected))
        /\ expected' = Tail(expected) /\ head' = (head + 1) % RxLength
        /\ count' = count - 1 /\ rx' = [rx EXCEPT ![head] = NoFrame]
    BY <1>4 DEF EndPop
  <2>2. /\ head \in 0 .. RxLength - 1 /\ count \in 1 .. RxLength
        /\ expected \in Seq(Frames) /\ Len(expected) = count
        /\ rx \in [0 .. RxLength - 1 -> Frames \cup {NoFrame}]
    BY <1>1, <1>4, SlcanBounds DEF RingInv
  <2>3. rx[head] = Head(expected)
    <3>1. PICK first \in 0 .. count - 1 : first = 0
      BY <2>2
    <3>2. (head + first) % RxLength = head
      BY <2>2, <3>1, SlcanBounds
    <3>3. rx[(head + first) % RxLength] = expected[first + 1]
      BY <1>1 DEF RingInv
    <3>4. QED
      BY <2>2, <3>1, <3>2, <3>3
  <2>4. head' = IF head + 1 < RxLength THEN head + 1 ELSE 0
    <3>1. PICK one \in 0 .. RxLength : one = 1
      BY SlcanBounds
    <3>2. (head + one) % RxLength = IF head + one < RxLength THEN head + one
                                    ELSE head + one - RxLength
      BY <2>2, RingPlace
    <3>3. head' = (head + one) % RxLength
      BY <2>1, <3>1
    <3>4. QED
      BY <2>2, <3>1, <3>2, <3>3, SlcanBounds
  <2>5. head' \in 0 .. RxLength - 1
    BY <2>2, <2>4, SlcanBounds
  <2>6. /\ rx' \in [0 .. RxLength - 1 -> Frames \cup {NoFrame}] /\ count' \in 0 .. RxLength
        /\ expected' \in Seq(Frames) /\ Len(expected') = count'
    BY <2>1, <2>2, SlcanBounds
  <2>7. ASSUME NEW k \in 0 .. count' - 1
        PROVE  rx'[(head' + k) % RxLength] = expected'[k + 1]
    <3> DEFINE here == (head + (k + 1)) % RxLength
    <3>1. k + 1 \in 0 .. count - 1 /\ k \in 0 .. RxLength /\ k + 1 \in 0 .. RxLength - 1
      BY <2>1, <2>2, SlcanBounds
    <3>2. here = IF head + (k + 1) < RxLength THEN head + (k + 1)
                 ELSE head + (k + 1) - RxLength
      <4> DEFINE j == k + 1
      <4>1. j \in 0 .. RxLength
        BY <3>1, SlcanBounds
      <4> HIDE DEF j
      <4>2. (head + j) % RxLength = IF head + j < RxLength THEN head + j
                                    ELSE head + j - RxLength
        BY <2>2, <4>1, RingPlace
      <4>3. QED
        BY <4>2 DEF j
    <3>3. (head' + k) % RxLength = IF head' + k < RxLength THEN head' + k
                                   ELSE head' + k - RxLength
      BY <2>5, <3>1, RingPlace
    <3>4. rx[here] = expected[(k + 1) + 1]
      BY <1>1, <3>1 DEF RingInv
    <3> HIDE DEF here
    <3>5. (head' + k) % RxLength = here
      BY <2>2, <2>4, <3>1, <3>2, <3>3, SlcanBounds
    <3>6. here # head /\ here \in 0 .. RxLength - 1
      BY <2>2, <3>1, <3>2, SlcanBounds
    <3>7. rx'[here] = rx[here]
      BY <2>1, <2>2, <3>6
    <3>8. expected'[k + 1] = expected[(k + 1) + 1]
      BY <2>1, <2>2, <3>1
    <3>9. QED
      BY <3>4, <3>5, <3>7, <3>8
  <2>8. RingInv'
    BY <2>5, <2>6, <2>7 DEF RingInv
  <2>9. ~wrong'
    BY <1>1, <2>1, <2>3
  <2>10. QED
    BY <1>2, <2>8, <2>9 DEF SlInv, LinesWhole
<1>5. QED
  BY <1>3, <1>4

(* Every host of the simulated adapter gets whole lines, whatever the      *)
(* terminals take, and the node pops the frames of all hosts in the order  *)
(* they were completed, for any number of ports, lengths and buffers.      *)
THEOREM HostsGetWholeLines == SlSpec => []LinesWhole
<1>1. SlInit => SlInv
  <2> SUFFICES ASSUME SlInit PROVE SlInv
    OBVIOUS
  <2>1. PortInv
    BY SlcanBounds DEF SlInit, PortInv, PortTypes, Counted
  <2>2. HostInv
    BY DEF SlInit, HostInv, RestOf, Chars
  <2>3. RingInv
    BY SlcanBounds DEF SlInit, RingInv
  <2>4. QED
    BY <2>1, <2>2, <2>3 DEF SlInit, SlInv, LinesWhole
<1>2. SlInv /\ [SlNext]_slVars => SlInv'
  <2> SUFFICES ASSUME SlInv, [SlNext]_slVars PROVE SlInv'
    OBVIOUS
  <2>1. ASSUME UNCHANGED <<port, rx, head, count, seen, cut, expected, wrong>>
        PROVE  SlInv'
    BY <2>1 DEF SlInv, PortInv, Counted, HostInv, RingInv, LinesWhole
  <2>2. ASSUME NEW frame \in Frames, PushFrame(frame) PROVE SlInv'
    BY <2>2, PushFrameStep
  <2>3. CASE BeginPop
    BY <2>1, <2>3 DEF BeginPop
  <2>4. ASSUME NEW p \in Ports, BeginPoll(p) \/ ReadChar(p) \/ ReadEnd(p) \/ NextPort(p)
        PROVE  SlInv'
    BY <2>1, <2>4, BeginPollStep, ReadCharStep, ReadEndStep DEF NextPort
  <2>5. CASE EndPop
    BY <2>5, EndPopStep
  <2>6. CASE UNCHANGED slVars
    BY <2>1, <2>6 DEF slVars
  <2>7. QED
    BY <2>2, <2>3, <2>4, <2>5, <2>6 DEF SlNext
<1>3. SlInv => LinesWhole
  BY DEF SlInv
<1>4. QED
  BY <1>1, <1>2, <1>3, PTL DEF SlSpec

-----------------------------------------------------------------------------
(* Node-ID: IdentityKept                                                   *)

\* The settings a drive can have, in its flash and as written.
NodeSettings == [nodeId : {0} \cup OwnIds, readiness : {Follows, FixedPort}, gain : {0, 1}]

NodePorts == Int \cup {SetpointPort, FixedPort}

NodeFields == {"id", "settings", "gain", "dirty", "readinessPort", "listeners", "released", "announced"}

\* A node and a flash that fit each other: IdentityKept but for what was sent, with
\* what a node without an ID has kept for the day it gets one.
NodeFits(n, f) ==
    /\ DOMAIN n = NodeFields
    /\ n.id \in {Unset} \cup OwnIds /\ n.settings \in NodeSettings /\ f \in NodeSettings
    /\ n.listeners \in Seq(NodePorts)
    /\ n.announced => f.nodeId = n.id
    /\ n.settings.readiness = Follows =>
        IF n.id = Unset THEN n.readinessPort = Unset /\ Len(n.listeners) <= 1
        ELSE n.readinessPort = Base + n.id /\ n.readinessPort \in Range(n.listeners)

\* Without an ID only requests are sent.
OnlyRequests(sent) == \A kind : <<Unset, kind>> \in sent => kind = "request"

StateFits(state) ==
    /\ DOMAIN state = {"node", "flash", "sent"}
    /\ NodeFits(state.node, state.flash) /\ OnlyRequests(state.sent)

BusTransfers ==
    OwnAnswers \cup OtherAnswers \cup Requests
    \cup [kind : {"message"}, value : {"engaged", "standby"}, port : NodePorts]

NodeInv ==
    /\ NodeFits(node, flash) /\ ~leaked
    /\ inbox \in Seq(BusTransfers) /\ answers \subseteq OwnAnswers \cup OtherAnswers

(* A start on stored settings: the readiness subject of the stored ID is listened to. *)
LEMMA StartedFits ==
    ASSUME NEW s \in NodeSettings
    PROVE  NodeFits(Started(s), s)
<1> DEFINE id == IF s.nodeId = 0 THEN Unset ELSE s.nodeId
           readiness == EffectiveReadinessId(s.readiness, id)
           fresh == [id |-> id, settings |-> s, gain |-> s.gain,
                  dirty |-> FALSE, readinessPort |-> readiness, listeners |-> <<>>,
                  released |-> FALSE, announced |-> FALSE]
           first == Subscribe(fresh, readiness).node
           second == Subscribe(first, SetpointPort).node
<1>a. id \in {Unset} \cup OwnIds /\ (id # Unset => id \in Nat \ {0})
  BY CyphalAssumption DEF NodeSettings, Unset
<1>b. s.readiness \in {Follows, FixedPort}
  BY DEF NodeSettings
<1>1. id \in {Unset} \cup OwnIds /\ readiness \in NodePorts
  <2> HIDE DEF id
  <2> QED BY <1>a, <1>b, CyphalAssumption DEF EffectiveReadinessId, Unset, NodePorts
<1>2. /\ DOMAIN fresh = NodeFields /\ fresh.listeners = <<>> /\ fresh.id = id /\ fresh.settings = s
      /\ fresh.gain = s.gain /\ fresh.readinessPort = readiness /\ ~fresh.announced
  BY DEF NodeFields
<1>3. Started(s) = second
  BY DEF Started
<1> HIDE DEF fresh
<1>4. /\ DOMAIN first = NodeFields
      /\ \A x \in NodeFields \ {"listeners"} : first[x] = fresh[x]
      /\ first.listeners = IF readiness = Unset THEN <<>> ELSE <<readiness>>
  BY <1>2, CyphalAssumption DEF Subscribe, NodeFields, Unset
<1> HIDE DEF first
<1>5. /\ DOMAIN second = NodeFields
      /\ \A x \in NodeFields \ {"listeners"} : second[x] = first[x]
      /\ second.listeners = IF SetpointPort = Unset THEN first.listeners ELSE Append(first.listeners, SetpointPort)
  BY <1>4, <1>2, CyphalAssumption DEF Subscribe, NodeFields, Unset
<1> HIDE DEF second
<1>6. second.listeners \in Seq(NodePorts)
  <2>1. first.listeners \in Seq(NodePorts)
    BY <1>1, <1>4
  <2> QED BY <2>1, <1>5 DEF NodePorts
<1>7. /\ second.id = id /\ second.settings = s /\ second.gain = s.gain /\ second.readinessPort = readiness
      /\ ~second.announced
  BY <1>2, <1>4, <1>5 DEF NodeFields
<1>8. ASSUME s.readiness = Follows
      PROVE  IF id = Unset THEN readiness = Unset /\ Len(second.listeners) <= 1
             ELSE readiness = Base + id /\ readiness \in Range(second.listeners)
  <2>1. CASE id = Unset
    <3>1. readiness = Unset /\ first.listeners = <<>>
      BY <2>1, <1>8, <1>4 DEF EffectiveReadinessId
    <3> QED BY <3>1, <1>5, <2>1
  <2>2. CASE id # Unset
    <3>1. readiness = Base + id /\ readiness # Unset
      <4> HIDE DEF id
      <4> QED BY <2>2, <1>8, <1>a, CyphalAssumption DEF EffectiveReadinessId, Unset
    <3>2. first.listeners = <<readiness>>
      BY <3>1, <1>4
    <3>3. Len(second.listeners) \in Nat \ {0} /\ second.listeners[1] = readiness
      BY <3>2, <1>5, <1>1 DEF NodePorts
    <3> QED BY <3>1, <3>3, <1>6, <2>2 DEF Range
  <2> QED BY <2>1, <2>2
<1> HIDE DEF id, readiness
<1> QED BY <1>1, <1>3, <1>5, <1>6, <1>7, <1>8, <1>4 DEF NodeFits

(* Sending under an ID, or a request, keeps the state. *)
LEMMA SentFits ==
    ASSUME NEW state, StateFits(state), NEW kind,
           state.node.id # Unset \/ kind = "request"
    PROVE  StateFits(Sent(state, kind))
<1> DEFINE s == Sent(state, kind)
<1>1. /\ DOMAIN s = {"node", "flash", "sent"} /\ s.node = state.node /\ s.flash = state.flash
      /\ s.sent = state.sent \cup {<<state.node.id, kind>>}
  BY DEF StateFits, Sent
<1> HIDE DEF s
<1>2. OnlyRequests(s.sent)
  BY <1>1 DEF StateFits, OnlyRequests
<1> QED BY <1>1, <1>2 DEF StateFits, s

(* Publish() refuses a node without an ID. *)
LEMMA PublishFits ==
    ASSUME NEW state, StateFits(state), NEW kind
    PROVE  StateFits(Publish(state, kind))
BY SentFits DEF Publish

(* A node that gets its ID finds a slot for its readiness subject.  Nothing but the *)
(* ID and the subject changes.                                                      *)
LEMMA FollowsNodeId ==
    ASSUME NEW f, NEW n, NodeFits(n, f), n.id = Unset, NEW id \in OwnIds
    PROVE  LET m == FollowNodeId([n EXCEPT !.id = id], id) IN
           /\ DOMAIN m = NodeFields /\ m.id = id /\ m.settings = n.settings /\ m.gain = n.gain
           /\ m.listeners \in Seq(NodePorts)
           /\ n.settings.readiness = Follows =>
                m.readinessPort = Base + id /\ m.readinessPort \in Range(m.listeners)
<1> DEFINE o == [n EXCEPT !.id = id]
           named == EffectiveReadinessId(o.settings.readiness, id)
           m == FollowNodeId(o, id)
           k == Subscribe(o, named)
<1>1. /\ DOMAIN o = NodeFields /\ o.id = id /\ o.settings = n.settings /\ o.gain = n.gain
      /\ o.readinessPort = n.readinessPort /\ o.listeners = n.listeners
      /\ n.listeners \in Seq(NodePorts) /\ n.settings.readiness \in {Follows, FixedPort}
      /\ n.settings.readiness = Follows => n.readinessPort = Unset /\ Len(n.listeners) <= 1
  BY DEF NodeFits, NodeFields, NodeSettings
<1>2. id \in Nat \ {0}
  BY CyphalAssumption
<1> HIDE DEF o
<1>3. /\ named \in NodePorts
      /\ n.settings.readiness = Follows => named = Base + id /\ named # Unset
  BY <1>1, <1>2, CyphalAssumption DEF EffectiveReadinessId, NodePorts, Unset
<1> HIDE DEF named
<1>4. /\ DOMAIN k.node = NodeFields
      /\ \A x \in NodeFields \ {"listeners"} : k.node[x] = o[x]
      /\ k.node.listeners \in Seq(NodePorts)
      /\ k.taken /\ named # Unset => named \in Range(k.node.listeners)
      /\ Len(n.listeners) <= 1 => k.taken
  BY <1>1, <1>3, CyphalAssumption, SMTT(30) DEF Subscribe, Range, NodeFields, Unset
<1>5. m = IF o.readinessPort # Unset THEN o
          ELSE IF k.taken THEN [k.node EXCEPT !.readinessPort = named] ELSE o
  BY DEF FollowNodeId, named
<1> HIDE DEF k
<1>6. CASE m = o
  <2>1. n.settings.readiness = Follows => FALSE
    <3> SUFFICES ASSUME n.settings.readiness = Follows PROVE FALSE
      OBVIOUS
    <3>1. k.taken /\ o.readinessPort = Unset
      BY <1>1, <1>4
    <3>2. m.readinessPort = named
      BY <3>1, <1>4, <1>5 DEF NodeFields
    <3> QED BY <3>1, <3>2, <1>6, <1>3
  <2> QED BY <2>1, <1>6, <1>1 DEF o
<1>7. CASE m # o
  <2>1. m = [k.node EXCEPT !.readinessPort = named] /\ k.taken
    BY <1>7, <1>5
  <2> HIDE DEF m
  <2> QED BY <2>1, <1>1, <1>3, <1>4 DEF NodeFields, m, o
<1> QED BY <1>6, <1>7

(* HandleAllocation() with OnNodeIdAllocated(), whether the save succeeds or not. *)
LEMMA AllocationFits ==
    ASSUME NEW state, StateFits(state), NEW answer \in OwnAnswers \cup OtherAnswers
    PROVE  StateFits(HandleAllocation(state, answer))
<1> SUFFICES ASSUME state.node.id = Unset, answer.hash = Own
             PROVE  StateFits(HandleAllocation(state, answer))
  BY DEF HandleAllocation
<1> DEFINE id == answer.id
           n == state.node
           m == FollowNodeId([n EXCEPT !.id = id], id)
           s0 == [state EXCEPT !.node.id = id]
           s1 == [s0 EXCEPT !.node = FollowNodeId(@, id)]
           settings == [s1.node.settings EXCEPT !.nodeId = id]
           result == SaveNodeId(s1, id)
           s2 == result.state
           logged == IF result.saved THEN Publish(s2, "allocated and saved") ELSE s2
           s3 == [logged EXCEPT !.node.announced = result.saved, !.node.dirty = FALSE]
<1>1. id \in OwnIds /\ id # Unset
  BY CyphalAssumption DEF OwnAnswers, OtherAnswers, Unset
<1>2. HandleAllocation(state, answer) = s3
  BY Zenon DEF HandleAllocation, OnNodeIdAllocated
<1>3. /\ DOMAIN m = NodeFields /\ m.id = id /\ m.settings = n.settings /\ m.gain = n.gain
      /\ m.listeners \in Seq(NodePorts)
      /\ n.settings.readiness = Follows =>
                m.readinessPort = Base + id /\ m.readinessPort \in Range(m.listeners)
  BY FollowsNodeId, <1>1 DEF StateFits
<1>4. /\ DOMAIN s1 = {"node", "flash", "sent"} /\ s1.node = m /\ s1.flash = state.flash
      /\ s1.sent = state.sent
  BY DEF StateFits
<1> HIDE DEF m, s1, s0
<1>5. /\ settings \in NodeSettings /\ settings.nodeId = id
      /\ settings.readiness = n.settings.readiness
  BY <1>1, <1>3, <1>4 DEF NodeSettings, StateFits, NodeFits
<1>6. /\ DOMAIN s2 = {"node", "flash", "sent"}
      /\ DOMAIN s2.node = NodeFields /\ s2.node.id = id /\ s2.node.gain = n.gain
      /\ s2.node.settings \in {m.settings, settings} /\ s2.node.listeners = m.listeners
      /\ s2.node.readinessPort = m.readinessPort
      /\ s2.flash \in {state.flash, settings} /\ s2.sent = state.sent
      /\ result.saved => s2.flash = settings
  BY <1>3, <1>4 DEF SaveNodeId, NodeFields
<1> HIDE DEF result, settings
<1>7. /\ DOMAIN logged = {"node", "flash", "sent"}
      /\ logged.node = s2.node /\ logged.flash = s2.flash
      /\ logged.sent \in {s2.sent, s2.sent \cup {<<s2.node.id, "allocated and saved">>}}
  BY <1>6 DEF Publish, Sent
<1> HIDE DEF s2, logged
<1>8. /\ DOMAIN s3 = {"node", "flash", "sent"} /\ s3.flash = s2.flash /\ s3.sent = logged.sent
      /\ DOMAIN s3.node = NodeFields /\ s3.node.id = id /\ s3.node.gain = n.gain
      /\ s3.node.settings = s2.node.settings /\ s3.node.listeners = m.listeners
      /\ s3.node.readinessPort = m.readinessPort
      /\ s3.node.announced = result.saved
  BY <1>6, <1>7 DEF NodeFields
<1> HIDE DEF s3
<1>9. OnlyRequests(s3.sent)
  <2>1. s3.sent \in {state.sent, state.sent \cup {<<id, "allocated and saved">>}}
    BY <1>6, <1>7, <1>8
  <2>2. OnlyRequests(state.sent)
    BY DEF StateFits
  <2> HIDE DEF id
  <2> QED BY <1>1, <2>1, <2>2 DEF OnlyRequests
<1>10. /\ s2.node.settings \in NodeSettings /\ s2.flash \in NodeSettings
       /\ s2.node.settings.readiness = n.settings.readiness
  BY <1>3, <1>5, <1>6 DEF StateFits, NodeFits
<1>11. NodeFits(s3.node, s3.flash)
  BY <1>1, <1>3, <1>5, <1>6, <1>8, <1>10 DEF NodeFits
<1> QED BY <1>2, <1>8, <1>9, <1>11 DEF StateFits

(* A register write waits, marked, for the end of the Spin(). *)
LEMMA RegisterAccessFits ==
    ASSUME NEW state, StateFits(state), state.node.id # Unset,
           NEW settings \in NodeSettings,
           settings.readiness = state.node.settings.readiness
    PROVE  StateFits(HandleRegisterAccess(state, settings))
<1> DEFINE written == [state EXCEPT !.node.settings = settings, !.node.dirty = TRUE,
                                    !.node.announced = FALSE]
<1>1. /\ DOMAIN written = {"node", "flash", "sent"} /\ written.flash = state.flash
      /\ written.sent = state.sent
      /\ DOMAIN written.node = NodeFields /\ written.node.id = state.node.id
      /\ written.node.gain = state.node.gain /\ written.node.settings = settings
      /\ written.node.listeners = state.node.listeners
      /\ written.node.readinessPort = state.node.readinessPort
      /\ written.node.dirty /\ ~written.node.announced
  BY DEF StateFits, NodeFits, NodeFields
<1>2. HandleRegisterAccess(state, settings)
        = Sent(IF ReadinessCollides(settings) THEN state ELSE written, "response")
  BY DEF HandleRegisterAccess
<1> HIDE DEF written
<1>3. StateFits(written) /\ written.node.id # Unset
  BY <1>1 DEF StateFits, NodeFits
<1> QED BY <1>2, <1>3, SentFits

(* A store of the settings withdraws what was announced. *)
LEMMA StoreFits ==
    ASSUME NEW state, StateFits(state), state.node.id # Unset
    PROVE  StateFits(HandleStore(state))
<1> DEFINE stored == [state EXCEPT !.flash = state.node.settings, !.node.announced = FALSE]
<1>1. /\ DOMAIN stored = {"node", "flash", "sent"} /\ stored.flash = state.node.settings
      /\ stored.sent = state.sent
      /\ DOMAIN stored.node = NodeFields /\ stored.node.id = state.node.id
      /\ stored.node.gain = state.node.gain /\ stored.node.settings = state.node.settings
      /\ stored.node.listeners = state.node.listeners
      /\ stored.node.readinessPort = state.node.readinessPort
      /\ stored.node.dirty = state.node.dirty /\ stored.node.released = state.node.released
      /\ ~stored.node.announced
  BY DEF StateFits, NodeFits, NodeFields
<1>2. HandleStore(state) = Sent(IF state.node.released THEN state ELSE stored, "response")
  BY DEF HandleStore
<1> HIDE DEF stored
<1>3. StateFits(stored) /\ stored.node.id # Unset
  BY <1>1 DEF StateFits, NodeFits
<1> QED BY <1>2, <1>3, SentFits

(* Service requests, of which a node without an ID answers none. *)
LEMMA RequestFits ==
    ASSUME NEW state, StateFits(state), NEW request \in Requests
    PROVE  StateFits(HandleRequest(state, request))
<1> SUFFICES ASSUME state.node.id # Unset
             PROVE  StateFits(HandleRequest(state, request))
  BY DEF HandleRequest
<1> DEFINE settings == state.node.settings
<1>0. settings \in NodeSettings
  BY DEF StateFits, NodeFits
<1>1. CASE request = [kind |-> "store"]
  <2>1. request.kind = "store"
    BY <1>1
  <2> QED BY <2>1, StoreFits DEF HandleRequest
<1>2. CASE request = [kind |-> "info"]
  <2>1. request.kind = "info"
    BY <1>2
  <2> QED BY <2>1, SentFits DEF HandleRequest
<1>3. CASE request = [kind |-> "write", register |-> "gain", value |-> 1]
  <2>1. request.kind = "write" /\ request.register = "gain" /\ request.value = 1
    BY <1>3
  <2>2. /\ [settings EXCEPT !["gain"] = 1] \in NodeSettings
        /\ [settings EXCEPT !["gain"] = 1].readiness = settings.readiness
    BY <1>0 DEF NodeSettings
  <2> QED BY <2>1, <2>2, RegisterAccessFits DEF HandleRequest
<1>4. CASE request = [kind |-> "write", register |-> "nodeId", value |-> 0]
  <2>1. request.kind = "write" /\ request.register = "nodeId" /\ request.value = 0
    BY <1>4
  <2>2. /\ [settings EXCEPT !["nodeId"] = 0] \in NodeSettings
        /\ [settings EXCEPT !["nodeId"] = 0].readiness = settings.readiness
    BY <1>0 DEF NodeSettings
  <2> QED BY <2>1, <2>2, RegisterAccessFits DEF HandleRequest
<1> QED BY <1>1, <1>2, <1>3, <1>4 DEF Requests

(* A message on a subscribed subject changes only whether the outputs are released. *)
LEMMA MessageFits ==
    ASSUME NEW state, StateFits(state), NEW message
    PROVE  StateFits(OnMessage(state, message))
<1> DEFINE s == [state EXCEPT !.node = OnReadiness(@, message)]
<1>1. /\ DOMAIN s = {"node", "flash", "sent"} /\ s.flash = state.flash /\ s.sent = state.sent
      /\ s.node = OnReadiness(state.node, message)
  BY DEF StateFits
<1>2. LET m == OnReadiness(state.node, message) IN
      DOMAIN m = NodeFields /\ \A x \in NodeFields \ {"released"} : m[x] = state.node[x]
  BY DEF OnReadiness, StateFits, NodeFits
<1> HIDE DEF s
<1>3. NodeFits(s.node, s.flash)
  BY <1>1, <1>2 DEF StateFits, NodeFits, NodeFields
<1>4. StateFits(s)
  BY <1>1, <1>3 DEF StateFits
<1> QED BY <1>4 DEF OnMessage, s

(* One pass of the loop in Spin(). *)
LEMMA DispatchFits ==
    ASSUME NEW state, StateFits(state), NEW transfer \in BusTransfers
    PROVE  StateFits(Dispatch(state, transfer))
<1>1. CASE transfer \in OwnAnswers \cup OtherAnswers
  <2>1. transfer.kind = "answer"
    BY <1>1 DEF OwnAnswers, OtherAnswers
  <2> QED BY <2>1, <1>1, AllocationFits DEF Dispatch
<1>2. CASE transfer \in [kind : {"message"}, value : {"engaged", "standby"}, port : NodePorts]
  BY <1>2, MessageFits DEF Dispatch
<1>3. CASE transfer \in Requests
  <2>1. transfer.kind \notin {"answer", "message"}
    BY <1>3 DEF Requests
  <2> QED BY <2>1, <1>3, RequestFits DEF Dispatch
<1> QED BY <1>1, <1>2, <1>3 DEF BusTransfers

(* The end of DriveNode::Spin() takes the writes that wait. *)
LEMMA FinishFits ==
    ASSUME NEW state, StateFits(state)
    PROVE  StateFits(FinishSpin(state))
<1> DEFINE n == state.node
           applied == [state EXCEPT !.node.gain = n.settings.gain, !.node.dirty = FALSE]
<1>1. /\ DOMAIN applied = {"node", "flash", "sent"} /\ applied.flash = state.flash
      /\ applied.sent = state.sent
      /\ DOMAIN applied.node = NodeFields /\ applied.node.id = n.id
      /\ applied.node.gain = n.settings.gain /\ applied.node.settings = n.settings
      /\ applied.node.listeners = n.listeners
      /\ applied.node.readinessPort = n.readinessPort
      /\ applied.node.announced = n.announced
  BY DEF StateFits, NodeFits, NodeFields
<1>2. FinishSpin(state) = Publish(IF ~n.released /\ n.dirty THEN applied ELSE state, "telemetry")
  BY DEF FinishSpin
<1> HIDE DEF applied
<1>3. StateFits(applied)
  BY <1>1 DEF StateFits, NodeFits
<1> QED BY <1>2, <1>3, PublishFits

(* The state and what was sent, written back. *)
LEMMA BecomesFits ==
    ASSUME NEW state, StateFits(state), ~leaked, Becomes(state)
    PROVE  NodeFits(node', flash') /\ ~leaked'
<1>1. NodeFits(node', flash')
  BY DEF Becomes, StateFits
<1>2. ~leaked'
  BY DEF Becomes, StateFits, OnlyRequests, Kinds
<1> QED BY <1>1, <1>2

(* The invariant holds at the start ... *)
LEMMA NodeStarts == NodeInit => NodeInv
<1> SUFFICES ASSUME NodeInit PROVE NodeInv
  OBVIOUS
<1>1. flash \in NodeSettings
  BY DEF NodeInit, StoredSettings, NodeSettings
<1>2. NodeFits(node, flash)
  BY <1>1, StartedFits DEF NodeInit
<1> QED BY <1>2 DEF NodeInit, NodeInv

(* ... and after every step of the node, of the allocators and of the bus. *)
LEMMA NodeSteps == NodeInv /\ [NodeNext]_cyphalVars => NodeInv'
<1> SUFFICES ASSUME NodeInv, [NodeNext]_cyphalVars PROVE NodeInv'
  OBVIOUS
<1>0. StateFits(Now)
  BY DEF StateFits, Now, NodeInv, OnlyRequests
<1>1. CASE SpinDispatches
  <2>1. Head(inbox) \in BusTransfers /\ Tail(inbox) \in Seq(BusTransfers)
    BY <1>1 DEF NodeInv, SpinDispatches
  <2>2. NodeFits(node', flash') /\ ~leaked'
    BY <1>0, <1>1, <2>1, DispatchFits, BecomesFits DEF SpinDispatches, NodeInv
  <2> QED BY <1>1, <2>1, <2>2 DEF SpinDispatches, NodeInv
<1>2. ASSUME NEW due \in BOOLEAN, SpinEnds(due)
      PROVE  NodeInv'
  <2> DEFINE periodic == IF ~due THEN Now
                         ELSE IF node.id = Unset THEN RequestNodeId(Now) ELSE PublishPeriodic(Now)
  <2>1. StateFits(periodic)
    <3>1. Now.node = node
      BY DEF Now
    <3>2. CASE node.id = Unset
      BY <3>1, <3>2, <1>0, SentFits DEF RequestNodeId
    <3>3. CASE node.id # Unset
      <4>1. StateFits(Sent(Now, "heartbeat"))
        BY <3>1, <3>3, <1>0, SentFits
      <4>2. Sent(Now, "heartbeat").node = node
        BY <3>1, <1>0 DEF Sent, StateFits
      <4>3. StateFits(PublishPeriodic(Now))
        BY <4>1, <4>2, <3>3, SentFits DEF PublishPeriodic
      <4> QED BY <4>3, <3>3, <1>0
    <3> QED BY <3>2, <3>3
  <2>2. Becomes(FinishSpin(periodic))
    BY <1>2 DEF SpinEnds
  <2> HIDE DEF periodic
  <2>3. NodeFits(node', flash') /\ ~leaked'
    BY <2>1, <2>2, FinishFits, BecomesFits DEF NodeInv
  <2> QED BY <1>2, <2>3 DEF SpinEnds, NodeInv
<1>3. CASE Restart
  <2>1. NodeFits(node', flash')
    BY <1>3, StartedFits DEF Restart, NodeInv, NodeFits
  <2> QED BY <1>3, <2>1 DEF Restart, NodeInv
<1>4. CASE AnswerOwn \/ AnswerOther \/ LoseRequest \/ LoseAnswer
  BY <1>4 DEF AnswerOwn, AnswerOther, LoseRequest, LoseAnswer, NodeInv
<1>5. ASSUME NEW transfer \in BusTransfers, Received(transfer), answers' \subseteq answers
      PROVE  NodeInv'
  BY <1>5 DEF Received, NodeInv
<1>6. ASSUME NEW hash \in {Own, Other}, ReceiveAnswer(hash)
      PROVE  NodeInv'
  <2>1. PICK answer \in answers : Received(answer) /\ answers' \in {answers, answers \ {answer}}
    BY <1>6 DEF ReceiveAnswer
  <2>2. answer \in BusTransfers /\ answers' \subseteq answers
    BY <2>1 DEF NodeInv, BusTransfers
  <2> QED BY <2>1, <2>2, <1>5
<1>7. CASE ReceiveRequest
  <2>1. PICK request \in Requests : Received(request)
    BY <1>7 DEF ReceiveRequest
  <2> QED BY <2>1, <1>7, <1>5 DEF ReceiveRequest, BusTransfers
<1>8. CASE ReceiveMessage
  <2>1. PICK message \in Messages : Received(message)
    BY <1>8 DEF ReceiveMessage
  <2>2. message \in BusTransfers
    BY <2>1 DEF Messages, BusTransfers, Range, NodeInv, NodeFits
  <2> QED BY <2>1, <2>2, <1>8, <1>5 DEF ReceiveMessage
<1>9. CASE UNCHANGED cyphalVars
  BY <1>9 DEF cyphalVars, NodeInv
<1> QED BY <1>1, <1>2, <1>3, <1>4, <1>6, <1>7, <1>8, <1>9 DEF NodeNext

(* Lost, repeated, delayed and foreign answers, failed saves and restarts leave the *)
(* drive what hangs on its node-ID, for all IDs, ports, queues and numbers of       *)
(* transfers per Spin(), if there are two listeners at least.                       *)
THEOREM IdentityCorrect == NodeSpec => []IdentityKept
<1>1. NodeInv => IdentityKept
  <2> SUFFICES ASSUME NodeInv PROVE IdentityKept
    OBVIOUS
  <2>1. node.id \notin OtherIds
    <3>1. node.id = Unset \/ node.id \in OwnIds
      BY DEF NodeInv, NodeFits
    <3>2. Unset \notin Nat
      BY DEF Unset
    <3> QED BY <3>1, <3>2, CyphalAssumption
  <2> QED BY <2>1 DEF NodeInv, NodeFits, IdentityKept
<1> QED BY <1>1, NodeStarts, NodeSteps, PTL DEF NodeSpec

(* What a node with an ID dispatches leaves it the ID. *)
LEMMA DispatchKeepsId ==
    ASSUME NEW state, StateFits(state), state.node.id # Unset, NEW transfer \in BusTransfers
    PROVE  Dispatch(state, transfer).node.id = state.node.id
<1>0. \A s, kind : s.node.id = state.node.id /\ DOMAIN s = {"node", "flash", "sent"}
                     => Sent(s, kind).node.id = state.node.id
  BY DEF Sent
<1>1. CASE transfer.kind = "answer"
  BY <1>1 DEF Dispatch, HandleAllocation
<1>2. CASE transfer.kind = "message"
  <2>1. OnMessage(state, transfer).node.id = state.node.id
    BY DEF OnMessage, OnReadiness, StateFits, NodeFits, NodeFields
  <2> QED BY <1>2, <2>1 DEF Dispatch
<1>3. CASE transfer.kind \notin {"answer", "message"}
  <2>1. Dispatch(state, transfer) = HandleRequest(state, transfer) /\ transfer \in Requests
    BY <1>3 DEF Dispatch, BusTransfers, OwnAnswers, OtherAnswers
  <2>2. \A settings : HandleRegisterAccess(state, settings).node.id = state.node.id
    <3> SUFFICES ASSUME NEW settings
                 PROVE  HandleRegisterAccess(state, settings).node.id = state.node.id
      OBVIOUS
    <3> DEFINE written == [state EXCEPT !.node.settings = settings, !.node.dirty = TRUE,
                                        !.node.announced = FALSE]
    <3>1. written.node.id = state.node.id /\ DOMAIN written = {"node", "flash", "sent"}
      BY DEF StateFits, NodeFits, NodeFields
    <3>2. HandleRegisterAccess(state, settings)
            = Sent(IF ReadinessCollides(settings) THEN state ELSE written, "response")
      BY DEF HandleRegisterAccess
    <3> HIDE DEF written
    <3> QED BY <1>0, <3>1, <3>2 DEF StateFits
  <2>3. HandleStore(state).node.id = state.node.id
    <3> DEFINE stored == [state EXCEPT !.flash = state.node.settings, !.node.announced = FALSE]
    <3>1. stored.node.id = state.node.id /\ DOMAIN stored = {"node", "flash", "sent"}
      BY DEF StateFits, NodeFits, NodeFields
    <3>2. HandleStore(state) = Sent(IF state.node.released THEN state ELSE stored, "response")
      BY DEF HandleStore
    <3> HIDE DEF stored
    <3> QED BY <1>0, <3>1, <3>2 DEF StateFits
  <2>4. Sent(state, "response").node.id = state.node.id
    BY <1>0 DEF StateFits
  <2>5. transfer.kind \in {"write", "store", "info"}
    BY <2>1 DEF Requests
  <2>6. HandleRequest(state, transfer).node.id = state.node.id
    BY <2>2, <2>3, <2>4, <2>5 DEF HandleRequest
  <2> QED BY <2>1, <2>6
<1> QED BY <1>1, <1>2, <1>3

(* No transfer changes the ID of a drive that has one; only a restart does. *)
THEOREM IdKept == NodeSpec => IdUntilRestart
<1> DEFINE Keeps == node.id # Unset /\ node' # Started(flash) => node'.id = node.id
<1>1. NodeInv /\ [NodeNext]_cyphalVars => [Keeps]_cyphalVars
  <2> SUFFICES ASSUME NodeInv, [NodeNext]_cyphalVars, node.id # Unset, node' # Started(flash)
               PROVE  node'.id = node.id
    OBVIOUS
  <2>0. StateFits(Now) /\ Now.node = node
    BY DEF StateFits, Now, NodeInv, OnlyRequests
  <2>1. CASE SpinDispatches
    <3>1. Head(inbox) \in BusTransfers
      BY <2>1 DEF NodeInv, SpinDispatches
    <3>2. Dispatch(Now, Head(inbox)).node.id = node.id
      BY <2>0, <3>1, DispatchKeepsId
    <3> QED BY <2>1, <3>2 DEF SpinDispatches, Becomes
  <2>2. ASSUME NEW due \in BOOLEAN, SpinEnds(due)
        PROVE  node'.id = node.id
    <3>1. PICK periodic \in {Now, PublishPeriodic(Now)} : Becomes(FinishSpin(periodic))
      BY <2>2 DEF SpinEnds
    <3>2. \A s, kind : s.node.id = node.id /\ DOMAIN s = {"node", "flash", "sent"}
            => /\ Sent(s, kind).node.id = node.id /\ Sent(s, kind).node = s.node
               /\ DOMAIN Sent(s, kind) = {"node", "flash", "sent"}
      BY DEF Sent
    <3>a. DOMAIN Now = {"node", "flash", "sent"} /\ Now.node.id = node.id
      BY <2>0 DEF StateFits
    <3>b. /\ Sent(Now, "heartbeat").node = node
          /\ DOMAIN Sent(Now, "heartbeat") = {"node", "flash", "sent"}
      BY <3>a, <3>2, <2>0
    <3>c. /\ PublishPeriodic(Now).node = node
          /\ DOMAIN PublishPeriodic(Now) = {"node", "flash", "sent"}
      BY <3>b, <3>2 DEF PublishPeriodic
    <3>3. periodic.node = node /\ DOMAIN periodic = {"node", "flash", "sent"}
      BY <3>1, <3>a, <3>c, <2>0
    <3> DEFINE applied == [periodic EXCEPT !.node.gain = periodic.node.settings.gain,
                                           !.node.dirty = FALSE]
    <3>4. applied.node.id = node.id /\ DOMAIN applied = {"node", "flash", "sent"}
      BY <3>3, <2>0 DEF StateFits, NodeFits, NodeFields
    <3>5. FinishSpin(periodic)
            = Publish(IF ~periodic.node.released /\ periodic.node.dirty THEN applied ELSE periodic, "telemetry")
      BY DEF FinishSpin
    <3> HIDE DEF applied
    <3>6. FinishSpin(periodic).node.id = node.id
      BY <3>2, <3>3, <3>4, <3>5 DEF Publish
    <3> QED BY <3>1, <3>6 DEF Becomes
  <2>3. CASE Restart
    BY <2>3 DEF Restart
  <2>4. CASE UNCHANGED node
    BY <2>4
  <2> QED
    BY <2>1, <2>2, <2>3, <2>4
       DEF NodeNext, cyphalVars, AnswerOwn, AnswerOther, LoseRequest, LoseAnswer, Received,
           ReceiveAnswer, ReceiveRequest, ReceiveMessage
<1> QED BY <1>1, NodeStarts, NodeSteps, PTL DEF NodeSpec, IdUntilRestart

-----------------------------------------------------------------------------
(* The crank: MeanOfHalfTurn and TrimmedAtRest                             *)

(* A set of numbers has a least one: what an induction over the numbers    *)
(* needs, as a counterexample that no smaller one precedes.                *)
LEMMA LeastElement ==
    ASSUME NEW T, T \subseteq Nat, T # {}
    PROVE  \E m \in T : \A k \in T : m <= k
<1>1. PICK m \in T : \A k \in T : ~(<<k, m>> \in OpToRel(<, Nat))
  BY NatLessThanWellFounded, WFMin
<1>2. \A k \in T : ~(k < m)
  BY <1>1 DEF OpToRel
<1> QED BY <1>2

\* The observer after each of the first m pulses.
TakenUpTo(f, m, p, dt, ages) ==
    f = [n \in 0..m |-> IF n = 0 THEN [elapsed |-> 0, p |-> p]
                        ELSE PulseStep(f[n - 1], dt, ages[n])]

(* They can be taken one after the other, however many there are ...       *)
LEMMA TakenExists ==
    ASSUME NEW p, NEW dt, NEW ages \in Seq(Int), NEW m \in Nat
    PROVE  \E f : TakenUpTo(f, m, p, dt, ages)
<1> DEFINE T == {k \in Nat : ~\E f : TakenUpTo(f, k, p, dt, ages)}
<1>1. SUFFICES ASSUME T # {} PROVE FALSE
  OBVIOUS
<1>2. PICK k \in T : \A j \in T : k <= j
  BY <1>1, LeastElement
<1>3. k \in Nat /\ ~\E f : TakenUpTo(f, k, p, dt, ages)
  BY <1>2
<1>4. CASE k = 0
  <2> DEFINE f == [n \in 0..0 |-> [elapsed |-> 0, p |-> p]]
  <2>1. TakenUpTo(f, 0, p, dt, ages)
    BY DEF TakenUpTo
  <2> QED BY <2>1, <1>3, <1>4
<1>5. CASE k > 0
  <2>1. k - 1 \in Nat /\ k - 1 \notin T
    BY <1>2, <1>3, <1>5
  <2>2. PICK f : TakenUpTo(f, k - 1, p, dt, ages)
    BY <2>1
  <2> DEFINE g == [n \in 0..k |-> IF n = k THEN PulseStep(f[k - 1], dt, ages[k]) ELSE f[n]]
  <2>3. \A n \in 0..(k - 1) : g[n] = f[n]
    BY <1>3, <1>5
  <2>4. \A n \in 0..(k - 1) : f[n] = IF n = 0 THEN [elapsed |-> 0, p |-> p]
                                      ELSE PulseStep(f[n - 1], dt, ages[n])
    BY <2>2, <1>3 DEF TakenUpTo
  <2>5. g[k] = PulseStep(g[k - 1], dt, ages[k])
    BY <1>3, <1>5
  <2>6. DOMAIN g = 0..k /\ g = [n \in 0..k |-> g[n]]
    OBVIOUS
  <2> HIDE DEF g
  <2>7. ASSUME NEW n \in 0..k
        PROVE  g[n] = IF n = 0 THEN [elapsed |-> 0, p |-> p]
                      ELSE PulseStep(g[n - 1], dt, ages[n])
    <3>1. CASE n = k
      BY <3>1, <2>5, <1>5
    <3>2. CASE n # k /\ n # 0
      <4>1. n \in 0..(k - 1) /\ n - 1 \in 0..(k - 1)
        BY <3>2, <1>3
      <4> QED BY <3>2, <4>1, <2>3, <2>4
    <3>3. CASE n = 0 /\ n # k
      <4>1. n \in 0..(k - 1)
        BY <3>3, <1>3
      <4> QED BY <3>3, <4>1, <2>3, <2>4
    <3> QED BY <3>1, <3>2, <3>3
  <2>8. TakenUpTo(g, k, p, dt, ages)
    BY <2>6, <2>7 DEF TakenUpTo
  <2> QED BY <2>8, <1>3
<1> QED BY <1>3, <1>4, <1>5

(* ... so that the recursion of PulsesTaken is one.                        *)
LEMMA TakenDefined ==
    ASSUME NEW p, NEW dt, NEW ages \in Seq(Int)
    PROVE  LET taken == PulsesTaken(p, dt, ages)
           IN  /\ taken[0] = [elapsed |-> 0, p |-> p]
               /\ \A n \in 1..Len(ages) : taken[n] = PulseStep(taken[n - 1], dt, ages[n])
<1> DEFINE taken == PulsesTaken(p, dt, ages)
<1>1. Len(ages) \in Nat
  OBVIOUS
<1>2. \E f : TakenUpTo(f, Len(ages), p, dt, ages)
  BY <1>1, TakenExists
<1>3. taken = [n \in 0..Len(ages) |-> IF n = 0 THEN [elapsed |-> 0, p |-> p]
                                      ELSE PulseStep(taken[n - 1], dt, ages[n])]
  BY <1>2, Zenon DEF TakenUpTo, PulsesTaken
<1> HIDE DEF taken
<1>4. \A n \in 0..Len(ages) : taken[n] = IF n = 0 THEN [elapsed |-> 0, p |-> p]
                                      ELSE PulseStep(taken[n - 1], dt, ages[n])
  BY <1>3, Zenon
<1>5. taken[0] = [elapsed |-> 0, p |-> p]
  BY <1>4, <1>1
<1>6. \A n \in 1..Len(ages) : taken[n] = PulseStep(taken[n - 1], dt, ages[n])
  BY <1>4, <1>1
<1> QED BY <1>5, <1>6 DEF taken

\* MeanOfHalfTurn of an observer.
MeanOf(p) ==
    LET closed == (p.index + PulsesPerRev - 1) % PulsesPerRev
    IN  /\ p.completed <= MeanWindow
        /\ \A i \in 0..(p.completed - 1) :
            p.bins[(closed + PulsesPerRev - i) % PulsesPerRev] = i

\* An observer: its types, the mean, the clocks of a crank that turns and of one that
\* stands still.
Observes(p) ==
    /\ DOMAIN p = DOMAIN NewObserver
    /\ p.seen \in 0..2 /\ p.since \in Nat /\ p.still \in Nat
    /\ p.index \in 0..(PulsesPerRev - 1) /\ p.completed \in 0..MeanWindow
    /\ DOMAIN p.bins = 0..(PulsesPerRev - 1)
    /\ \A k \in 0..(PulsesPerRev - 1) : p.bins[k] \in Nat
    /\ p.seen = 0 => p.completed = 0
    /\ p.seen > 0 => p.still = 0
    /\ MeanOf(p)

\* How long there was no pulse, as the observer counts it.
Standing(p) == IF p.seen = 0 THEN p.still ELSE p.since

(* Half a turn is shorter than a turn, and one bin at least.                *)
LEMMA HalfTurn ==
    /\ PulsesPerRev \in Nat /\ PulsesPerRev > 1
    /\ MeanWindow \in 1..(PulsesPerRev - 1)
<1>1. PulsesPerRev \in Nat /\ PulsesPerRev > 1
  BY PedalAssistAssumption
<1>2. PulsesPerRev \div 2 \in 0..(PulsesPerRev - 1)
  BY <1>1
<1> QED BY <1>1, <1>2 DEF MeanWindow, Larger

(* The bins are a ring: an index runs over once at most.                    *)
LEMMA TurnOver ==
    ASSUME NEW x \in 0..(2 * PulsesPerRev - 1)
    PROVE  x % PulsesPerRev = IF x < PulsesPerRev THEN x ELSE x - PulsesPerRev
<1>1. PICK P \in Nat : P = PulsesPerRev /\ P > 1
  BY HalfTurn
<1>2. CASE x < P
  BY <1>1, <1>2
<1>3. CASE x >= P
  <2>1. x - P \in 0..(P - 1) /\ x \in Int
    BY <1>1, <1>3
  <2>2. (x - P) % P = x - P
    BY <2>1, <1>1
  <2>3. x % P = (x - P) % P
    BY <2>1, <1>1
  <2> QED BY <1>1, <1>3, <2>2, <2>3
<1> QED BY <1>1, <1>2, <1>3

(* The bin closed i intervals before the bin c.                            *)
LEMMA BinsBack ==
    ASSUME NEW c \in 0..(PulsesPerRev - 1), NEW i \in 0..PulsesPerRev
    PROVE  (c + PulsesPerRev - i) % PulsesPerRev = IF i <= c THEN c - i ELSE c + PulsesPerRev - i
<1>1. c + PulsesPerRev - i \in 0..(2 * PulsesPerRev - 1)
  BY HalfTurn
<1> QED BY <1>1, TurnOver, HalfTurn

(* The bin after the bin c ...                                             *)
LEMMA NextBin ==
    ASSUME NEW c \in 0..(PulsesPerRev - 1)
    PROVE  (c + 1) % PulsesPerRev = IF c = PulsesPerRev - 1 THEN 0 ELSE c + 1
<1> DEFINE x == c + 1
<1>1. x \in 0..(2 * PulsesPerRev - 1)
  BY HalfTurn
<1> HIDE DEF x
<1>2. x % PulsesPerRev = IF x < PulsesPerRev THEN x ELSE x - PulsesPerRev
  BY <1>1, TurnOver
<1>3. x \in Int /\ x = c + 1
  BY DEF x
<1> DEFINE r == x % PulsesPerRev
<1> HIDE DEF r
<1>4. r = IF x < PulsesPerRev THEN x ELSE x - PulsesPerRev
  BY <1>2 DEF r
<1>5. r = IF c = PulsesPerRev - 1 THEN 0 ELSE c + 1
  BY <1>3, <1>4, HalfTurn
<1> QED BY <1>5 DEF r, x

(* ... and the one before it.                                              *)
LEMMA BinBefore ==
    ASSUME NEW c \in 0..(PulsesPerRev - 1)
    PROVE  /\ (c + PulsesPerRev - 1) % PulsesPerRev = IF 1 <= c THEN c - 1 ELSE c + PulsesPerRev - 1
           /\ (IF 1 <= c THEN c - 1 ELSE c + PulsesPerRev - 1) \in 0..(PulsesPerRev - 1)
<1>1. 1 \in 0..PulsesPerRev
  BY HalfTurn
<1>2. (c + PulsesPerRev - 1) % PulsesPerRev = IF 1 <= c THEN c - 1 ELSE c + PulsesPerRev - 1
  BY <1>1, BinsBack, Zenon
<1>3. (IF 1 <= c THEN c - 1 ELSE c + PulsesPerRev - 1) \in 0..(PulsesPerRev - 1)
  BY HalfTurn
<1> QED BY <1>2, <1>3

(* Configure() starts with an empty mean.                                  *)
LEMMA NewObserves == Observes(NewObserver) /\ Standing(NewObserver) = 0
BY HalfTurn DEF Observes, NewObserver, MeanOf, Standing, Stale

(* Predict() keeps the mean, or forgets it with the ride it belongs to; it *)
(* counts no more idle time than passes.                                   *)
LEMMA PredictObserves ==
    ASSUME NEW p, Observes(p), NEW dt \in Nat
    PROVE  /\ Observes(Predict(p, dt))
           /\ Standing(Predict(p, dt)) <= Standing(p) + dt
<1> DEFINE q == Predict(p, dt)
<1>1. /\ StopTimeout \in Nat /\ ZeroHold \in Nat /\ Stale \in Nat
  BY PedalAssistAssumption DEF Stale
<1>2. CASE p.seen = 0
  <2>1. q = [p EXCEPT !.still = Smaller(p.still + dt, ZeroHold)]
    BY <1>2 DEF Predict
  <2> HIDE DEF q
  <2>2. MeanOf(q)
    BY <2>1 DEF MeanOf, Observes, NewObserver
  <2> QED BY <2>1, <2>2, <1>1, <1>2 DEF Observes, NewObserver, Standing, Smaller, q
<1>3. CASE p.seen # 0 /\ p.since + dt > StopTimeout
  <2>1. q = ResetCrank(p, Smaller(p.since + dt, ZeroHold))
    BY <1>3 DEF Predict
  <2> HIDE DEF q
  <2>2. /\ DOMAIN q = DOMAIN NewObserver
        /\ q.seen = 0 /\ q.still = Smaller(p.since + dt, ZeroHold) /\ q.since = 0
        /\ q.index = 0 /\ q.completed = 0 /\ q.bins = [k \in DOMAIN p.bins |-> Stale]
    BY <2>1 DEF ResetCrank, Observes, NewObserver
  <2>3. MeanOf(q)
    BY <2>2, HalfTurn DEF MeanOf
  <2>4. Observes(q)
    BY <2>2, <2>3, <1>1, HalfTurn DEF Observes, Smaller
  <2> QED BY <2>2, <2>4, <1>1, <1>3 DEF Observes, Smaller, Standing, q
<1>4. CASE p.seen # 0 /\ ~(p.since + dt > StopTimeout)
  <2>1. /\ DOMAIN q = DOMAIN p /\ q.since = p.since + dt
        /\ \A x \in DOMAIN p \ {"since", "angle", "omega"} : q[x] = p[x]
    BY <1>4 DEF Predict, Observes, NewObserver
  <2> HIDE DEF q
  <2>2. /\ DOMAIN q = DOMAIN p /\ q.since = p.since + dt
        /\ q.seen = p.seen /\ q.still = p.still /\ q.index = p.index
        /\ q.completed = p.completed /\ q.bins = p.bins
    BY <2>1 DEF Observes, NewObserver
  <2>3. MeanOf(q)
    BY <2>2 DEF MeanOf, Observes
  <2> QED BY <2>2, <2>3, <1>4 DEF Observes, Standing, q
<1> QED BY <1>2, <1>3, <1>4

(* FinishBin() puts the interval that ended before the others.              *)
LEMMA FinishObserves ==
    ASSUME NEW p, Observes(p), NEW q, DOMAIN q = DOMAIN p,
           q.index = (p.index + 1) % PulsesPerRev, q.completed = p.completed, q.bins = p.bins
    PROVE  LET r == FinishBin(q) IN
           /\ DOMAIN r = DOMAIN p /\ r.index = q.index
           /\ r.index \in 0..(PulsesPerRev - 1) /\ r.completed \in 0..MeanWindow
           /\ DOMAIN r.bins = 0..(PulsesPerRev - 1)
           /\ \A k \in 0..(PulsesPerRev - 1) : r.bins[k] \in Nat
           /\ MeanOf(r)
           /\ \A x \in DOMAIN p \ {"bins", "completed"} : r[x] = q[x]
<1> DEFINE r == FinishBin(q)
           P == PulsesPerRev
           closed == (q.index + P - 1) % P
<1>1. P \in Nat /\ P > 1 /\ MeanWindow \in 1..(P - 1) /\ Stale = P
  BY HalfTurn DEF Stale
<1>2. /\ p.index \in 0..(P - 1) /\ p.completed \in 0..MeanWindow /\ DOMAIN p.bins = 0..(P - 1)
      /\ \A k \in 0..(P - 1) : p.bins[k] \in Nat
      /\ \A i \in 0..(p.completed - 1) : p.bins[(((p.index + P - 1) % P) + P - i) % P] = i
      /\ DOMAIN p = DOMAIN NewObserver
  BY DEF Observes, MeanOf
<1>3. /\ DOMAIN r = DOMAIN p
      /\ r.bins = [k \in DOMAIN p.bins |-> IF k = closed THEN 0 ELSE Smaller(p.bins[k] + 1, Stale)]
      /\ r.completed = Smaller(p.completed + 1, MeanWindow)
      /\ \A x \in DOMAIN p \ {"bins", "completed"} : r[x] = q[x]
  BY <1>2 DEF FinishBin, NewObserver
<1>4. r.index = q.index
  BY <1>2, <1>3 DEF NewObserver
<1>5. q.index = IF p.index = P - 1 THEN 0 ELSE p.index + 1
  BY <1>2, NextBin, Zenon
<1>6. q.index \in 0..(P - 1)
  BY <1>5, <1>1, <1>2
<1>7. closed = p.index
  <2>1. closed = IF 1 <= q.index THEN q.index - 1 ELSE q.index + P - 1
    BY <1>6, BinBefore, Zenon
  <2> HIDE DEF closed
  <2> QED BY <2>1, <1>1, <1>2, <1>5
<1>8. ASSUME NEW i \in 0..(r.completed - 1)
      PROVE  r.bins[(closed + P - i) % P] = i
  <2> DEFINE place == (closed + P - i) % P
             latest == (p.index + P - 1) % P
  <2>1. i \in 0..(P - 2) /\ i <= p.completed
    BY <1>1, <1>2, <1>3 DEF Smaller
  <2>2. closed \in 0..(P - 1) /\ i \in 0..P
    BY <2>1, <1>1, <1>2, <1>7
  <2> HIDE DEF closed
  <2>3. place = IF i <= closed THEN closed - i ELSE closed + P - i
    BY <2>2, BinsBack, Zenon
  <2>4. latest = (IF 1 <= p.index THEN p.index - 1 ELSE p.index + P - 1) /\ latest \in 0..(P - 1)
    BY <1>2, BinBefore, Zenon
  <2> HIDE DEF place, latest, r
  <2>5. place \in 0..(P - 1)
    BY <2>1, <2>2, <2>3, <1>1
  <2>6. CASE i = 0
    BY <2>2, <2>3, <2>6, <1>1, <1>2, <1>3, <1>7 DEF place
  <2>7. CASE i > 0
    <3>1. i - 1 \in 0..(p.completed - 1) /\ i - 1 \in 0..P
      BY <2>1, <2>7, <1>1, <1>2
    <3>2. p.bins[(latest + P - (i - 1)) % P] = i - 1
      BY <3>1, <1>2 DEF latest
    <3> DEFINE before == (latest + P - (i - 1)) % P
    <3>3. before = IF i - 1 <= latest THEN latest - (i - 1) ELSE latest + P - (i - 1)
      BY <2>4, <3>1, BinsBack, Zenon
    <3> HIDE DEF before
    <3>4. before = place
      <4>1. p.index \in 0..(P - 1) /\ closed = p.index /\ i \in 1..P /\ P \in Nat
        BY <1>1, <1>2, <1>7, <2>1, <2>7
      <4> HIDE DEF P
      <4> QED BY <4>1, <3>3, <2>3, <2>4 DEF P
    <3>5. place # closed
      BY <2>1, <2>3, <2>7, <1>1, <1>2, <1>7
    <3>6. p.bins[place] = i - 1
      BY <3>2, <3>4 DEF before
    <3>7. r.bins[place] = Smaller((i - 1) + 1, Stale)
      BY <3>5, <3>6, <2>5, <1>2, <1>3
    <3> QED BY <3>7, <2>1, <1>1 DEF Smaller, place
  <2> QED BY <2>1, <2>6, <2>7
<1>9. r.completed \in 0..MeanWindow /\ r.completed <= MeanWindow
  BY <1>1, <1>2, <1>3, SMTT(30) DEF Smaller
<1>10. DOMAIN r.bins = 0..(P - 1) /\ \A k \in 0..(P - 1) : r.bins[k] \in Nat
  BY <1>1, <1>2, <1>3, SMTT(30) DEF Smaller
<1>11. MeanOf(r)
  BY <1>4, <1>8, <1>9 DEF MeanOf
<1> HIDE DEF r, P
<1> QED BY <1>3, <1>4, <1>6, <1>9, <1>10, <1>11 DEF P, r

(* OnPulse(): the first pulse of a ride closes no bin, the others do; each *)
(* ends the idle time.                                                     *)
LEMMA PulseObserves ==
    ASSUME NEW p, Observes(p)
    PROVE  Observes(OnPulse(p)) /\ OnPulse(p).seen > 0 /\ Standing(OnPulse(p)) = 0
<1> DEFINE q == OnPulse(p)
           counted == [p EXCEPT !.index = (@ + 1) % PulsesPerRev]
           second == [counted EXCEPT !.pedaling = TRUE, !.angle = "finite",
                                !.omega = IF p.since = 0 THEN "inf" ELSE "finite"]
           later == [FuseAngle(counted) EXCEPT !.pedaling = TRUE]
<1>1. p.seen \in 0..2 /\ DOMAIN p = DOMAIN NewObserver
  BY DEF Observes
<1>2. ASSUME NEW f, DOMAIN f = DOMAIN p, f.seen = p.seen,
             f.index \in 0..(PulsesPerRev - 1), f.completed \in 0..MeanWindow,
             DOMAIN f.bins = 0..(PulsesPerRev - 1),
             \A k \in 0..(PulsesPerRev - 1) : f.bins[k] \in Nat,
             MeanOf(f), q = [f EXCEPT !.still = 0, !.since = 0, !.seen = Smaller(@ + 1, 2)]
      PROVE  Observes(q) /\ q.seen > 0 /\ Standing(q) = 0
  <2> HIDE DEF q
  <2>1. /\ DOMAIN q = DOMAIN NewObserver /\ q.still = 0 /\ q.since = 0
        /\ q.seen \in 1..2 /\ q.index = f.index /\ q.completed = f.completed /\ q.bins = f.bins
    BY <1>1, <1>2 DEF NewObserver, Smaller
  <2>2. MeanOf(q)
    BY <2>1, <1>2 DEF MeanOf
  <2> QED BY <2>1, <2>2, <1>2 DEF Observes, Standing
<1>3. CASE p.seen = 0
  <2> DEFINE first == [p EXCEPT !.index = 0, !.angle = "finite", !.pedaling = FALSE]
  <2>1. q = [first EXCEPT !.still = 0, !.since = 0, !.seen = Smaller(@ + 1, 2)]
    <3> DEFINE fused == CASE p.seen = 0 -> first
                         [] p.seen = 1 -> FinishBin(second)
                         [] OTHER -> FinishBin(later)
    <3>1. q = [fused EXCEPT !.still = 0, !.since = 0, !.seen = Smaller(@ + 1, 2)]
      BY DEF OnPulse
    <3> HIDE DEF first, second, later
    <3>2. fused = first
      BY <1>3
    <3> QED BY <3>1, <3>2
  <2>2. /\ DOMAIN first = DOMAIN p /\ first.seen = p.seen /\ first.index = 0
        /\ first.completed = 0 /\ first.bins = p.bins
    BY <1>1, <1>3 DEF NewObserver, Observes
  <2> HIDE DEF first, q
  <2>3. MeanOf(first)
    BY <2>2, HalfTurn DEF MeanOf
  <2>4. /\ first.index \in 0..(PulsesPerRev - 1) /\ first.completed \in 0..MeanWindow
        /\ DOMAIN first.bins = 0..(PulsesPerRev - 1)
        /\ \A k \in 0..(PulsesPerRev - 1) : first.bins[k] \in Nat
    BY <2>2, HalfTurn DEF Observes
  <2> QED BY <1>2, <2>1, <2>2, <2>3, <2>4 DEF q
<1>4. CASE p.seen = 1
  <2>1. q = [FinishBin(second) EXCEPT !.still = 0, !.since = 0, !.seen = Smaller(@ + 1, 2)]
    BY <1>4 DEF OnPulse
  <2>2. /\ DOMAIN second = DOMAIN p /\ second.seen = p.seen
        /\ second.index = (p.index + 1) % PulsesPerRev
        /\ second.completed = p.completed /\ second.bins = p.bins
    BY <1>1 DEF NewObserver
  <2> HIDE DEF second, q
  <2> DEFINE f == FinishBin(second)
  <2>3. /\ DOMAIN f = DOMAIN p /\ f.index \in 0..(PulsesPerRev - 1)
        /\ f.completed \in 0..MeanWindow /\ DOMAIN f.bins = 0..(PulsesPerRev - 1)
        /\ \A k \in 0..(PulsesPerRev - 1) : f.bins[k] \in Nat
        /\ MeanOf(f) /\ \A x \in DOMAIN p \ {"bins", "completed"} : f[x] = second[x]
    BY <2>2, FinishObserves
  <2> HIDE DEF f
  <2>4. f.seen = p.seen
    BY <2>2, <2>3, <1>1 DEF NewObserver
  <2>5. q = [f EXCEPT !.still = 0, !.since = 0, !.seen = Smaller(@ + 1, 2)]
    BY <2>1 DEF f
  <2> QED BY <1>2, <2>3, <2>4, <2>5, Zenon DEF q
<1>5. CASE p.seen = 2
  <2>1. q = [FinishBin(later) EXCEPT !.still = 0, !.since = 0, !.seen = Smaller(@ + 1, 2)]
    BY <1>5 DEF OnPulse
  <2>2. /\ DOMAIN later = DOMAIN p /\ later.seen = p.seen
        /\ later.index = (p.index + 1) % PulsesPerRev
        /\ later.completed = p.completed /\ later.bins = p.bins
    BY <1>1 DEF NewObserver, FuseAngle
  <2> HIDE DEF later, q
  <2> DEFINE f == FinishBin(later)
  <2>3. /\ DOMAIN f = DOMAIN p /\ f.index \in 0..(PulsesPerRev - 1)
        /\ f.completed \in 0..MeanWindow /\ DOMAIN f.bins = 0..(PulsesPerRev - 1)
        /\ \A k \in 0..(PulsesPerRev - 1) : f.bins[k] \in Nat
        /\ MeanOf(f) /\ \A x \in DOMAIN p \ {"bins", "completed"} : f[x] = later[x]
    BY <2>2, FinishObserves
  <2> HIDE DEF f
  <2>4. f.seen = p.seen
    BY <2>2, <2>3, <1>1 DEF NewObserver
  <2>5. q = [f EXCEPT !.still = 0, !.since = 0, !.seen = Smaller(@ + 1, 2)]
    BY <2>1 DEF f
  <2> QED BY <1>2, <2>3, <2>4, <2>5, Zenon DEF q
<1> QED BY <1>1, <1>3, <1>4, <1>5

\* Within a step.
StepInv(acc, dt) == acc.elapsed \in 0..dt /\ Observes(acc.p)

(* One pulse of a step, whatever its age is.                               *)
LEMMA PulseStepObserves ==
    ASSUME NEW dt \in Nat, NEW acc, StepInv(acc, dt), NEW age \in Int
    PROVE  StepInv(PulseStep(acc, dt, age), dt) /\ Standing(PulseStep(acc, dt, age).p) = 0
<1> DEFINE edge == Smaller(Larger(dt - age, acc.elapsed), dt)
           q == OnPulse(Predict(acc.p, edge - acc.elapsed))
<1>1. edge \in 0..dt /\ edge - acc.elapsed \in Nat
  BY DEF StepInv, Smaller, Larger
<1>2. PulseStep(acc, dt, age) = [elapsed |-> edge, p |-> q]
  BY DEF PulseStep
<1> HIDE DEF edge
<1>3. Observes(Predict(acc.p, edge - acc.elapsed))
  BY <1>1, PredictObserves DEF StepInv
<1>4. Observes(q) /\ Standing(q) = 0
  BY <1>3, PulseObserves
<1> HIDE DEF q
<1> QED BY <1>1, <1>2, <1>4 DEF StepInv

(* Step(), by induction over its pulses.                                   *)
LEMMA StepObserves ==
    ASSUME NEW p, Observes(p), NEW dt \in Nat, NEW ages \in Seq(Int)
    PROVE  /\ Observes(StepPedal(p, dt, ages))
           /\ Standing(StepPedal(p, dt, ages)) <= IF ages = <<>> THEN Standing(p) + dt ELSE dt
<1> DEFINE taken == PulsesTaken(p, dt, ages)
           T == {n \in 0..Len(ages) : ~(StepInv(taken[n], dt) /\ (n > 0 => Standing(taken[n].p) = 0))}
<1>1. /\ taken[0] = [elapsed |-> 0, p |-> p]
      /\ \A n \in 1..Len(ages) : taken[n] = PulseStep(taken[n - 1], dt, ages[n])
  BY TakenDefined
<1>2. StepPedal(p, dt, ages) = Predict(taken[Len(ages)].p, dt - taken[Len(ages)].elapsed)
  BY DEF StepPedal
<1> HIDE DEF taken
<1>3. \A n \in 0..Len(ages) : StepInv(taken[n], dt) /\ (n > 0 => Standing(taken[n].p) = 0)
  <2> SUFFICES ASSUME T # {} PROVE FALSE
    OBVIOUS
  <2>1. T \subseteq Nat
    OBVIOUS
  <2>2. PICK n \in T : \A k \in T : n <= k
    BY <2>1, LeastElement
  <2>3. CASE n = 0
    BY <2>2, <2>3, <1>1 DEF StepInv
  <2>4. CASE n > 0
    <3>1. n \in 1..Len(ages) /\ n - 1 \in 0..Len(ages) /\ n - 1 \notin T
      BY <2>2, <2>4
    <3>2. StepInv(taken[n - 1], dt) /\ ages[n] \in Int
      BY <3>1
    <3>3. taken[n] = PulseStep(taken[n - 1], dt, ages[n])
      BY <3>1, <1>1, Zenon
    <3>4. StepInv(taken[n], dt) /\ Standing(taken[n].p) = 0
      BY <3>2, <3>3, PulseStepObserves, Zenon
    <3> QED BY <2>2, <3>4
  <2> QED BY <2>2, <2>3, <2>4
<1> HIDE DEF T
<1> DEFINE latest == taken[Len(ages)]
<1>4. Len(ages) \in Nat /\ (ages # <<>> => Len(ages) > 0) /\ (ages = <<>> => Len(ages) = 0)
  OBVIOUS
<1>5. StepInv(latest, dt) /\ (ages # <<>> => Standing(latest.p) = 0)
      /\ (ages = <<>> => latest = [elapsed |-> 0, p |-> p])
  BY <1>1, <1>3, <1>4
<1> HIDE DEF latest
<1>6. latest.elapsed \in 0..dt /\ dt - latest.elapsed \in Nat /\ Observes(latest.p)
  BY <1>5 DEF StepInv
<1> DEFINE q == Predict(latest.p, dt - latest.elapsed)
<1>7. Observes(q) /\ Standing(q) <= Standing(latest.p) + (dt - latest.elapsed)
  BY <1>6, PredictObserves
<1>8. StepPedal(p, dt, ages) = q
  BY <1>2 DEF latest
<1> HIDE DEF q
<1>9. Standing(p) \in Nat /\ Standing(q) \in Nat
  BY <1>7 DEF Observes, Standing
<1>10. Standing(q) <= IF ages = <<>> THEN Standing(p) + dt ELSE dt
  BY <1>5, <1>6, <1>7, <1>9
<1> QED BY <1>7, <1>8, <1>10

\* With nothing in the queue the observer is at most a step ahead of the crank.
PedalInv ==
    /\ crankPulses \in Seq(Int) /\ pending \in Nat /\ rest \in 0..ZeroHold
    /\ Observes(pedal)
    /\ crankPulses = <<>> => rest = ZeroHold \/ Standing(pedal) + pending <= rest + MaxStep

(* The observer starts without pulses.                                     *)
LEMMA PedalInvInit == PedalInit => PedalInv
<1> SUFFICES ASSUME PedalInit PROVE PedalInv
  OBVIOUS
<1>1. MaxStep \in Nat /\ ZeroHold \in Nat
  BY PedalAssistAssumption
<1>2. Observes(pedal) /\ Standing(pedal) = 0
  BY NewObserves DEF PedalInit
<1> QED BY <1>1, <1>2 DEF PedalInit, PedalInv

(* Update(), with a pulse after the time stamp or not, and all pulses of    *)
(* the queue or the first ones.                                            *)
LEMMA UpdateObserves ==
    ASSUME PedalInv, NEW stamped \in BOOLEAN, NEW level \in BOOLEAN, NEW limit \in Limits,
           Update(stamped, level, limit)
    PROVE  PedalInv' /\ (TrimsZero(pedal') => rest + MaxStep >= ZeroHold)
<1> DEFINE drained == IF stamped THEN Append(crankPulses, WrappedAge) ELSE crankPulses
           ages == SubSeq(drained, 1, Smaller(Len(drained), MaxPulses))
           dt == IF started THEN Smaller(pending, MaxStep) ELSE 1
           q == StepPedal(pedal, dt, ages)
<1>1. /\ MaxStep \in Nat \ {0} /\ ZeroHold \in Nat \ {0} /\ MaxPulses \in Nat \ {0}
      /\ WrappedAge \in Int
  BY PedalAssistAssumption DEF WrappedAge
<1>2. /\ crankPulses \in Seq(Int) /\ pending \in Nat /\ rest \in 0..ZeroHold /\ Observes(pedal)
      /\ crankPulses = <<>> => rest = ZeroHold \/ Standing(pedal) + pending <= rest + MaxStep
  BY DEF PedalInv
<1>3. pending > 0 /\ pedal' = q
  BY DEF Update
<1>4. /\ crankPulses' = <<>> /\ pending' = 0
      /\ rest' = IF stamped THEN 0 ELSE rest
  BY DEF Update
<1>5. dt \in Nat /\ dt <= MaxStep /\ dt <= pending
  BY <1>1, <1>2, <1>3 DEF Smaller
<1>6. drained \in Seq(Int) /\ (drained = <<>> => crankPulses = <<>> /\ stamped = FALSE)
  BY <1>1, <1>2
<1> HIDE DEF drained, dt
<1>7. ages \in Seq(Int) /\ (ages = <<>> => drained = <<>>)
  <2> DEFINE n == Smaller(Len(drained), MaxPulses)
  <2>1. n \in 0..Len(drained) /\ (n = 0 => Len(drained) = 0)
    BY <1>1, <1>6 DEF Smaller
  <2> HIDE DEF n
  <2>2. SubSeq(drained, 1, n) \in Seq(Int) /\ Len(SubSeq(drained, 1, n)) = n
    BY <2>1, <1>6, TextTaken
  <2> QED BY <2>1, <2>2, <1>6 DEF n
<1> HIDE DEF ages
<1>8. Observes(q) /\ Standing(q) <= IF ages = <<>> THEN Standing(pedal) + dt ELSE dt
  BY <1>2, <1>5, <1>7, StepObserves
<1> HIDE DEF q
<1>9. Standing(pedal) \in Nat /\ Standing(q) \in Nat
  BY <1>2, <1>8 DEF Observes, Standing
<1>10. Standing(q) <= rest + MaxStep \/ (rest = ZeroHold /\ stamped = FALSE)
  BY <1>1, <1>2, <1>5, <1>6, <1>7, <1>8, <1>9
<1>11. Standing(q) <= rest' + MaxStep \/ rest' = ZeroHold
  BY <1>1, <1>2, <1>4, <1>5, <1>6, <1>7, <1>8, <1>9
<1>12. PedalInv'
  <2>1. Observes(pedal)' /\ Standing(pedal)' = Standing(q)
    BY <1>3, <1>8, Zenon
  <2> QED BY <2>1, <1>1, <1>2, <1>4, <1>9, <1>11 DEF PedalInv
<1>13. ASSUME TrimsZero(q) PROVE rest + MaxStep >= ZeroHold
  <2>1. Standing(q) >= ZeroHold
    BY <1>1, <1>8, <1>13 DEF TrimsZero, Observes, Standing
  <2> QED BY <2>1, <1>1, <1>2, <1>9, <1>10
<1> QED BY <1>3, <1>12, <1>13

(* A period passes for the pulses in the queue.                            *)
LEMMA OlderPulses ==
    ASSUME NEW ages \in Seq(Int)
    PROVE  LET older == [i \in DOMAIN ages |-> ages[i] + 1]
           IN  older \in Seq(Int) /\ (older = <<>> => ages = <<>>)
<1> DEFINE older == [i \in DOMAIN ages |-> ages[i] + 1]
<1>1. DOMAIN ages = 1..Len(ages) /\ Len(ages) \in Nat /\ \A i \in 1..Len(ages) : ages[i] \in Int
  OBVIOUS
<1>2. older \in [1..Len(ages) -> Int]
  BY <1>1
<1>3. older \in Seq(Int) /\ Len(older) = Len(ages)
  BY <1>1, <1>2
<1> QED BY <1>1, <1>3

(* The interrupt, the time, Update() and Configure() keep the invariant.    *)
LEMMA PedalInvStep == PedalInv /\ [PedalNext]_pedalVars => PedalInv'
<1> SUFFICES ASSUME PedalInv, [PedalNext]_pedalVars PROVE PedalInv'
  OBVIOUS
<1>1. /\ MaxStep \in Nat \ {0} /\ ZeroHold \in Nat \ {0} /\ QueueSize \in Nat /\ QueueSize > 1
  BY PedalAssistAssumption
<1>2. /\ crankPulses \in Seq(Int) /\ pending \in Nat /\ rest \in 0..ZeroHold /\ Observes(pedal)
      /\ crankPulses = <<>> => rest = ZeroHold \/ Standing(pedal) + pending <= rest + MaxStep
      /\ Standing(pedal) \in Nat
  BY DEF PedalInv, Observes, Standing
<1>3. CASE Pulse
  <2>1. pedal' = pedal /\ pending' = pending /\ rest' = 0
    BY <1>3 DEF Pulse
  <2>2. crankPulses' \in Seq(Int) /\ crankPulses' # <<>>
    BY <1>1, <1>2, <1>3 DEF Pulse
  <2> QED BY <2>1, <2>2, <1>1, <1>2 DEF PedalInv
<1>4. CASE Tick
  <2>1. pedal' = pedal /\ pending' = pending + 1 /\ rest' = Smaller(rest + 1, ZeroHold)
    BY <1>4 DEF Tick
  <2>2. crankPulses' \in Seq(Int) /\ (crankPulses' = <<>> => crankPulses = <<>>)
    BY <1>2, <1>4, OlderPulses DEF Tick
  <2> QED BY <2>1, <2>2, <1>1, <1>2 DEF PedalInv, Smaller
<1>5. CASE UpdateAny
  BY <1>5, UpdateObserves DEF UpdateAny
<1>6. CASE ConfigurePedal
  <2>1. pedal' = NewObserver /\ UNCHANGED <<crankPulses, rest, pending>>
    BY <1>6 DEF ConfigurePedal
  <2>2. Observes(pedal)' /\ Standing(pedal)' = 0
    BY <2>1, NewObserves
  <2> QED BY <2>1, <2>2, <1>1, <1>2 DEF PedalInv
<1>7. CASE UNCHANGED pedalVars
  <2>1. UNCHANGED <<crankPulses, pending, rest, pedal>>
    BY <1>7 DEF pedalVars
  <2>2. Standing(pedal)' = Standing(pedal) /\ Observes(pedal)'
    BY <2>1, <1>2
  <2> QED BY <2>1, <2>2, <1>2 DEF PedalInv
<1> QED BY <1>3, <1>4, <1>5, <1>6, <1>7 DEF PedalNext

(* The mean torque is that of the last pulse intervals of this ride, each  *)
(* once and at most half a turn of them, for any number of pulses per turn, *)
(* however the pulses and the updates are delayed.                         *)
THEOREM PedalCorrect == PedalSpec => []MeanOfHalfTurn
<1>1. PedalInv => MeanOfHalfTurn
  BY DEF PedalInv, Observes, MeanOf, MeanOfHalfTurn
<1> QED BY <1>1, PedalInvStep, PedalInvInit, PTL DEF PedalSpec

(* The torque offset is trimmed only after a standstill of zero_hold, less *)
(* one step, whatever is in the queue and however late the updates are.    *)
THEOREM PedalRests == PedalSpec => TrimmedAtRest
<1>1. PedalInv /\ [PedalNext]_pedalVars =>
        [pending > 0 /\ pending' = 0 /\ TrimsZero(pedal') => rest + MaxStep >= ZeroHold]_pedalVars
  <2> SUFFICES ASSUME PedalInv, PedalNext, pending > 0, pending' = 0, TrimsZero(pedal')
               PROVE  rest + MaxStep >= ZeroHold
    BY DEF pedalVars
  <2>1. pending \in Nat
    BY DEF PedalInv
  <2>2. UpdateAny
    BY <2>1 DEF PedalNext, Pulse, Tick, ConfigurePedal
  <2> QED BY <2>2, UpdateObserves DEF UpdateAny
<1> QED BY <1>1, PedalInvStep, PedalInvInit, PTL DEF PedalSpec, TrimmedAtRest

-----------------------------------------------------------------------------
(* The transmit queues: DeliveredInTime                                    *)

\* What the proofs need of the constants.
TxConstants ==
    /\ Interfaces \subseteq Nat /\ Healthy \subseteq Interfaces
    /\ Capacity \in Nat /\ Capacity > 0 /\ TimeoutTicks \in Nat
    /\ MaxFrames \in Nat /\ Capacity <= TimeoutTicks

(* They are what the module assumes.                                       *)
LEMMA TxBounds == TxConstants
BY CanTxAssumption DEF TxConstants

\* The frames taken of the first m places.
FramesUpTo(f, m, q, S) ==
    f = [k \in 0..m |-> IF k = 0 THEN <<>>
                        ELSE IF k \in S THEN Append(f[k - 1], q[k]) ELSE f[k - 1]]

(* The places can be gone through one after the other ...                  *)
LEMMA FramesExist ==
    ASSUME NEW q, NEW S, NEW m \in Nat
    PROVE  \E f : FramesUpTo(f, m, q, S)
<1> DEFINE T == {k \in Nat : ~\E f : FramesUpTo(f, k, q, S)}
<1>1. SUFFICES ASSUME T # {} PROVE FALSE
  OBVIOUS
<1>2. PICK k \in T : \A j \in T : k <= j
  BY <1>1, LeastElement
<1>3. k \in Nat /\ ~\E f : FramesUpTo(f, k, q, S)
  BY <1>2
<1>4. CASE k = 0
  <2> DEFINE f == [n \in 0..0 |-> <<>>]
  <2>1. FramesUpTo(f, 0, q, S)
    BY DEF FramesUpTo
  <2> QED BY <2>1, <1>3, <1>4
<1>5. CASE k > 0
  <2>1. k - 1 \in Nat /\ k - 1 \notin T
    BY <1>2, <1>3, <1>5
  <2>2. PICK f : FramesUpTo(f, k - 1, q, S)
    BY <2>1
  <2> DEFINE next == IF k \in S THEN Append(f[k - 1], q[k]) ELSE f[k - 1]
             g == [n \in 0..k |-> IF n = k THEN next ELSE f[n]]
  <2>3. \A n \in 0..(k - 1) : g[n] = f[n]
    BY <1>3, <1>5
  <2>4. \A n \in 0..(k - 1) : f[n] = IF n = 0 THEN <<>>
                                     ELSE IF n \in S THEN Append(f[n - 1], q[n]) ELSE f[n - 1]
    BY <2>2, <1>3 DEF FramesUpTo
  <2>5. g[k] = IF k \in S THEN Append(g[k - 1], q[k]) ELSE g[k - 1]
    BY <1>3, <1>5
  <2>6. g = [n \in 0..k |-> g[n]]
    OBVIOUS
  <2> HIDE DEF g, next
  <2>7. ASSUME NEW n \in 0..k
        PROVE  g[n] = IF n = 0 THEN <<>>
                      ELSE IF n \in S THEN Append(g[n - 1], q[n]) ELSE g[n - 1]
    <3>1. CASE n = k
      BY <3>1, <2>5, <1>5
    <3>2. CASE n # k /\ n # 0
      <4>1. n \in 0..(k - 1) /\ n - 1 \in 0..(k - 1)
        BY <3>2, <1>3
      <4> QED BY <3>2, <4>1, <2>3, <2>4
    <3>3. CASE n = 0 /\ n # k
      <4>1. n \in 0..(k - 1)
        BY <3>3, <1>3
      <4> QED BY <3>3, <4>1, <2>3, <2>4
    <3> QED BY <3>1, <3>2, <3>3
  <2>8. FramesUpTo(g, k, q, S)
    BY <2>6, <2>7 DEF FramesUpTo
  <2> QED BY <2>8, <1>3
<1> QED BY <1>3, <1>4, <1>5

\* s takes frames of q at places in S, none behind its own place.
Picks(s, q, S, n) ==
    /\ s \in Seq(Frame) /\ Len(s) <= n
    /\ \A k \in 1..Len(s) : \E j \in S : k <= j /\ j <= n /\ s[k] = q[j]

(* ... each adding its frame or none ...                                   *)
LEMMA PicksNext ==
    ASSUME NEW q \in Seq(Frame), NEW S \in SUBSET Nat, NEW n \in 1..Len(q), NEW s, Picks(s, q, S, n - 1)
    PROVE  /\ Picks(s, q, S, n)
           /\ n \in S => Picks(Append(s, q[n]), q, S, n)
<1>1. n \in Nat /\ Len(s) \in Nat /\ s \in Seq(Frame) /\ Len(s) <= n - 1 /\ q[n] \in Frame
  BY DEF Picks
<1>2. ASSUME NEW k \in 1..Len(s)
      PROVE  \E j \in S : k <= j /\ j <= n /\ s[k] = q[j]
  <2>1. PICK j \in S : k <= j /\ j <= n - 1 /\ s[k] = q[j]
    BY DEF Picks
  <2>2. j <= n
    BY <2>1, <1>1
  <2> QED BY <2>1, <2>2
<1>3. Picks(s, q, S, n)
  BY <1>1, <1>2 DEF Picks
<1>4. ASSUME n \in S PROVE Picks(Append(s, q[n]), q, S, n)
  <2> DEFINE t == Append(s, q[n])
  <2>1. t \in Seq(Frame) /\ Len(t) = Len(s) + 1 /\ t[Len(s) + 1] = q[n]
        /\ \A k \in 1..Len(s) : t[k] = s[k]
    BY <1>1
  <2> HIDE DEF t
  <2>2. ASSUME NEW k \in 1..Len(t)
        PROVE  \E j \in S : k <= j /\ j <= n /\ t[k] = q[j]
    <3>1. CASE k \in 1..Len(s)
      BY <3>1, <2>1, <1>2
    <3>2. CASE k = Len(s) + 1
      BY <3>2, <2>1, <1>1, <1>4
    <3> QED BY <3>1, <3>2, <2>1, <1>1
  <2>3. Len(t) <= n
    BY <2>1, <1>1
  <2> QED BY <2>1, <2>2, <2>3 DEF Picks, t
<1> QED BY <1>3, <1>4

(* ... so that FramesAt moves no frame backwards: by induction over the    *)
(* places.                                                                 *)
LEMMA FramesPicked ==
    ASSUME NEW q \in Seq(Frame), NEW S \in SUBSET Nat
    PROVE  Picks(FramesAt(q, S), q, S, Len(q))
<1> DEFINE upTo == CHOOSE f : FramesUpTo(f, Len(q), q, S)
           T == {n \in 0..Len(q) : ~Picks(upTo[n], q, S, n)}
<1>1. Len(q) \in Nat
  OBVIOUS
<1>2. FramesUpTo(upTo, Len(q), q, S)
  BY <1>1, FramesExist
<1>3. FramesAt(q, S) = upTo[Len(q)]
  BY Zenon DEF FramesAt, FramesUpTo
<1> HIDE DEF upTo
<1>4. \A k \in 0..Len(q) : upTo[k] = IF k = 0 THEN <<>>
                                     ELSE IF k \in S THEN Append(upTo[k - 1], q[k]) ELSE upTo[k - 1]
  BY <1>2, Zenon DEF FramesUpTo
<1>5. SUFFICES ASSUME T # {} PROVE FALSE
  BY <1>1, <1>3
<1>6. T \subseteq Nat
  OBVIOUS
<1>7. PICK n \in T : \A k \in T : n <= k
  BY <1>5, <1>6, LeastElement
<1>8. CASE n = 0
  <2>1. upTo[0] = <<>>
    BY <1>1, <1>4
  <2>2. Picks(<<>>, q, S, 0)
    BY DEF Picks
  <2> QED BY <2>1, <2>2, <1>7, <1>8
<1>9. CASE n > 0
  <2>1. n \in 1..Len(q) /\ n - 1 \in 0..Len(q) /\ n - 1 \notin T
    BY <1>7, <1>9
  <2>2. Picks(upTo[n - 1], q, S, n - 1)
    BY <2>1
  <2>3. upTo[n] = IF n \in S THEN Append(upTo[n - 1], q[n]) ELSE upTo[n - 1]
    <3>1. n \in 0..Len(q) /\ n # 0
      BY <2>1
    <3> QED BY <3>1, <1>4, Zenon
  <2>4. Picks(upTo[n], q, S, n)
    BY <2>1, <2>2, <2>3, PicksNext
  <2> QED BY <2>4, <1>7
<1> QED BY <1>7, <1>8, <1>9

\* How long the frames of the highest rank have left, at their places.
Waits(q, slack) ==
    \A k \in 1..Len(q) : q[k].prio = 0 => q[k].left >= k - slack

\* A frame of the highest rank has left the ticks that the frames before it take;
\* a healthy bus took its frame when the period ended.
TxInv ==
    /\ DOMAIN txq = Interfaces /\ DOMAIN mailbox = Interfaces /\ lag \in {0, 1}
    /\ \A i \in Interfaces : txq[i] \in Seq(Frame)
    /\ \A i \in Interfaces : mailbox[i] \in {"free", "timely"}
    /\ overdue \cap Healthy = {}
    /\ \A i \in Healthy : Waits(txq[i], lag)
    /\ lag = 1 => \A i \in Healthy : mailbox[i] = "free"

(* The fields of a frame.                                                  *)
LEMMA FrameFields ==
    ASSUME NEW f \in Frame
    PROVE  f.prio \in {0, 1} /\ f.left \in Int
BY TxBounds DEF TxConstants, Frame, Priorities

(* FramesAt as the other proofs use it.                                    *)
LEMMA PickedQueue ==
    ASSUME NEW q \in Seq(Frame), NEW S \in SUBSET Nat
    PROVE  /\ FramesAt(q, S) \in Seq(Frame) /\ Len(FramesAt(q, S)) <= Len(q)
           /\ \A k \in 1..Len(FramesAt(q, S)) : \E j \in S :
                k <= j /\ j <= Len(q) /\ FramesAt(q, S)[k] = q[j]
BY FramesPicked DEF Picks

(* Dropping frames shortens the wait of the others.                        *)
LEMMA PickedWaits ==
    ASSUME NEW q \in Seq(Frame), NEW S \in SUBSET Nat, NEW slack \in Int, Waits(q, slack)
    PROVE  Waits(FramesAt(q, S), slack)
<1> DEFINE s == FramesAt(q, S)
<1>1. \A k \in 1..Len(s) : \E j \in S : k <= j /\ j <= Len(q) /\ s[k] = q[j]
  BY PickedQueue
<1>2. s \in Seq(Frame)
  BY PickedQueue
<1> HIDE DEF s
<1>3. ASSUME NEW k \in 1..Len(s), s[k].prio = 0
      PROVE  s[k].left >= k - slack
  <2>1. PICK j \in S : k <= j /\ j <= Len(q) /\ s[k] = q[j]
    BY <1>1
  <2>2. j \in 1..Len(q) /\ k \in Nat
    BY <2>1, <1>2
  <2>3. q[j].left >= j - slack /\ q[j].left \in Int
    BY <2>1, <2>2, <1>3, FrameFields DEF Waits
  <2> QED BY <2>1, <2>2, <2>3
<1> QED BY <1>3 DEF Waits, s

(* The frames of a transfer.                                               *)
LEMMA NewFrames ==
    ASSUME NEW prio \in Priorities, NEW n \in 1..MaxFrames, lag \in {0, 1}
    PROVE  LET new == [k \in 1..n |-> [prio |-> prio, left |-> TimeoutTicks - lag]]
           IN  new \in Seq(Frame) /\ Len(new) = n
               /\ \A k \in 1..n : new[k].prio = prio /\ new[k].left = TimeoutTicks - lag
<1> DEFINE frame == [prio |-> prio, left |-> TimeoutTicks - lag]
           new == [k \in 1..n |-> frame]
<1>1. n \in Nat /\ TimeoutTicks \in Nat /\ TimeoutTicks > 0
  BY TxBounds DEF TxConstants
<1>2. frame \in Frame /\ frame.prio = prio /\ frame.left = TimeoutTicks - lag
  BY <1>1 DEF Frame
<1> HIDE DEF frame
<1>3. new \in Seq(Frame) /\ Len(new) = n /\ \A k \in 1..n : new[k] = frame
  BY <1>1, <1>2
<1> QED BY <1>2, <1>3 DEF frame

(* The places of two sequences joined.                                     *)
LEMMA Joined ==
    ASSUME NEW S, NEW s \in Seq(S), NEW t \in Seq(S)
    PROVE  /\ s \o t \in Seq(S) /\ Len(s \o t) = Len(s) + Len(t) /\ Len(s) \in Nat
           /\ \A k \in 1..Len(s) : (s \o t)[k] = s[k]
           /\ \A k \in 1..Len(t) : (s \o t)[Len(s) + k] = t[k]
OBVIOUS

(* A transfer joins the queue: nothing gets ahead of the frames of the     *)
(* highest rank, and its own wait no longer than the queue is.             *)
LEMMA QueuedWaits ==
    ASSUME NEW q \in Seq(Frame), lag \in {0, 1}, NEW prio \in Priorities, NEW n \in 1..MaxFrames
    PROVE  /\ Queued(q, prio, n) \in Seq(Frame)
           /\ Waits(q, lag) => Waits(Queued(q, prio, n), lag)
<1> DEFINE ahead == {k \in 1..Len(q) : q[k].prio <= prio}
           new == [k \in 1..n |-> [prio |-> prio, left |-> TimeoutTicks - lag]]
           a == FramesAt(q, ahead)
           behind == (1..Len(q)) \ ahead
           b == FramesAt(q, behind)
<1>1. CASE Len(q) + n > Capacity
  BY <1>1 DEF Queued
<1>2. CASE ~(Len(q) + n > Capacity)
  <2>1. Queued(q, prio, n) = a \o new \o b
    BY <1>2 DEF Queued
  <2>2. ahead \in SUBSET Nat /\ behind \in SUBSET Nat
    OBVIOUS
  <2>3. new \in Seq(Frame) /\ Len(new) = n
        /\ \A k \in 1..n : new[k].prio = prio /\ new[k].left = TimeoutTicks - lag
    BY NewFrames
  <2>4. /\ a \in Seq(Frame) /\ Len(a) <= Len(q) /\ b \in Seq(Frame)
        /\ \A k \in 1..Len(b) : \E j \in behind : b[k] = q[j]
    <3> HIDE DEF ahead, behind
    <3>1. /\ a \in Seq(Frame) /\ Len(a) <= Len(q)
      BY <2>2, PickedQueue
    <3>2. b \in Seq(Frame) /\ \A k \in 1..Len(b) : \E j \in behind : b[k] = q[j]
      BY <2>2, PickedQueue
    <3> QED BY <3>1, <3>2
  <2>5. Waits(q, lag) => Waits(a, lag)
    BY <2>2, PickedWaits
  <2>6. ASSUME NEW k \in 1..Len(b) PROVE b[k].prio # 0
    <3>1. PICK j \in behind : b[k] = q[j]
      BY <2>4
    <3>2. q[j] \in Frame /\ ~(q[j].prio <= prio)
      BY <3>1
    <3> QED BY <3>1, <3>2, FrameFields DEF Priorities
  <2> HIDE DEF a, b, new, ahead, behind
  <2>7. n \in Nat /\ TimeoutTicks \in Nat /\ Capacity \in Nat /\ Capacity <= TimeoutTicks
    BY TxBounds DEF TxConstants
  <2>8. a \o new \o b \in Seq(Frame)
    BY <2>3, <2>4
  <2>9. /\ Len(a \o new) = Len(a) + n
        /\ Len(a \o new \o b) = Len(a) + n + Len(b)
        /\ \A k \in 1..Len(a) : (a \o new \o b)[k] = a[k]
        /\ \A k \in 1..n : (a \o new \o b)[Len(a) + k] = new[k]
        /\ \A k \in 1..Len(b) : (a \o new \o b)[Len(a) + n + k] = b[k]
    <3> DEFINE c == a \o new
    <3>1. c \in Seq(Frame) /\ Len(c) = Len(a) + n /\ Len(a) \in Nat
          /\ (\A k \in 1..Len(a) : c[k] = a[k]) /\ \A k \in 1..n : c[Len(a) + k] = new[k]
      <4>1. c \in Seq(Frame) /\ Len(c) = Len(a) + Len(new) /\ Len(a) \in Nat
            /\ (\A k \in 1..Len(a) : c[k] = a[k]) /\ \A k \in 1..Len(new) : c[Len(a) + k] = new[k]
        <5>1. a \in Seq(Frame) /\ new \in Seq(Frame)
          BY <2>3, <2>4
        <5> QED BY <5>1, Joined
      <4> QED BY <4>1, <2>3, Zenon
    <3> HIDE DEF c
    <3>2. Len(c \o b) = Len(c) + Len(b)
          /\ (\A k \in 1..Len(c) : (c \o b)[k] = c[k])
          /\ \A k \in 1..Len(b) : (c \o b)[Len(c) + k] = b[k]
      <4>1. c \in Seq(Frame) /\ b \in Seq(Frame)
        BY <3>1, <2>4
      <4> QED BY <4>1, Joined
    <3>3. \A k \in 1..Len(a) : k \in 1..Len(c)
      BY <3>1, <2>7
    <3>4. \A k \in 1..n : Len(a) + k \in 1..Len(c)
      BY <3>1, <2>7
    <3> QED BY <3>1, <3>2, <3>3, <3>4 DEF c
  <2> DEFINE all == a \o new \o b
  <2> HIDE DEF all
  <2>10. ASSUME Waits(q, lag), NEW k \in 1..Len(all), all[k].prio = 0
         PROVE  all[k].left >= k - lag
    <3>1. Len(a) \in Nat /\ Len(b) \in Nat /\ k \in 1..(Len(a) + n + Len(b))
      BY <2>4, <2>9 DEF all
    <3>2. CASE k \in 1..Len(a)
      BY <3>2, <2>5, <2>9, <2>10 DEF Waits, all
    <3>3. CASE k - Len(a) \in 1..n
      <4>1. all[k] = new[k - Len(a)]
        <5>1. Len(a) + (k - Len(a)) = k
          BY <3>1
        <5> QED BY <5>1, <3>3, <2>9 DEF all
      <4>2. all[k].left = TimeoutTicks - lag
        BY <4>1, <3>3, <2>3
      <4>3. k <= Capacity
        BY <3>1, <3>3, <2>4, <2>7, <1>2
      <4> QED BY <4>2, <4>3, <2>7, <3>1
    <3>4. CASE k - (Len(a) + n) \in 1..Len(b)
      <4>1. all[k] = b[k - (Len(a) + n)]
        <5>1. Len(a) + n + (k - (Len(a) + n)) = k
          BY <3>1, <2>7
        <5> QED BY <5>1, <3>4, <2>9 DEF all
      <4> QED BY <4>1, <3>4, <2>6, <2>10
    <3> QED BY <3>1, <3>2, <3>3, <3>4, <2>7
  <2> QED BY <2>1, <2>8, <2>10 DEF Waits, all
<1> QED BY <1>1, <1>2

(* What is left of a sequence from the place n on.                         *)
LEMMA PartOf ==
    ASSUME NEW S, NEW s \in Seq(S), NEW n \in Nat, 1 <= n, n <= Len(s) + 1
    PROVE  LET t == SubSeq(s, n, Len(s))
           IN  /\ t \in Seq(S) /\ Len(t) = Len(s) - n + 1
               /\ \A k \in 1..Len(t) : t[k] = s[k + n - 1]
BY SMTT(30)

(* Process() drops no frame of the highest rank, and gives at least one    *)
(* frame to a controller that is free.                                     *)
LEMMA DrainedWaits ==
    ASSUME NEW q \in Seq(Frame), NEW mb \in {"free", "timely"}
    PROVE  LET done == Drained(q, mb)
           IN  /\ done.queue \in Seq(Frame) /\ done.mailbox \in {"free", "timely"}
               /\ \A slack \in {0, 1} : Waits(q, slack) => ~done.dropped
               /\ Waits(q, 0) => Waits(done.queue, 0)
               /\ mb = "free" /\ Waits(q, 1) => Waits(done.queue, 0)
<1> DEFINE due == {k \in 1..Len(q) : q[k].left >= 0}
           pushed == {k \in due : mb = "free" /\ \A j \in due : k <= j}
           refused == due \ pushed
           stop == IF refused = {} THEN Len(q) + 1
                   ELSE CHOOSE k \in refused : \A j \in refused : k <= j
           done == Drained(q, mb)
<1>1. /\ done.queue = SubSeq(q, stop, Len(q))
      /\ done.mailbox = IF pushed = {} THEN mb
                        ELSE IF \E k \in pushed : q[k].left < 0 THEN "late" ELSE "timely"
      /\ done.dropped = \E k \in 1..stop - 1 : q[k].prio = 0 /\ q[k].left < 0
  BY DEF Drained
<1>2. \A k \in pushed : ~(q[k].left < 0)
  <2> SUFFICES ASSUME NEW k \in pushed PROVE ~(q[k].left < 0)
    OBVIOUS
  <2>1. q[k] \in Frame /\ q[k].left >= 0
    OBVIOUS
  <2> QED BY <2>1, FrameFields
<1>12. Len(q) \in Nat
  OBVIOUS
<1>13. \A k \in due : k \in 1..Len(q)
  OBVIOUS
<1>14. \A k \in refused : k \in due /\ k \notin pushed
  OBVIOUS
<1>4. (\A k \in pushed : mb = "free") /\ \A k \in due : k \in pushed <=> mb = "free" /\ \A j \in due : k <= j
  OBVIOUS
<1>5. done.mailbox \in {"free", "timely"}
  BY <1>1, <1>2
<1> HIDE DEF due, pushed, refused, done
<1>6. /\ stop \in Nat /\ 1 <= stop /\ stop <= Len(q) + 1
      /\ stop <= Len(q) => stop \in refused
  <2>1. CASE refused = {}
    <3>1. stop = Len(q) + 1
      BY <2>1
    <3> HIDE DEF stop
    <3> QED BY <3>1, <1>12
  <2>2. CASE refused # {}
    <3>1. \A k \in refused : k \in 1..Len(q)
      BY <1>13, <1>14
    <3>4. refused \subseteq Nat
      BY <3>1
    <3>2. \E k \in refused : \A j \in refused : k <= j
      BY <2>2, <3>4, LeastElement
    <3>3. stop \in refused
      BY <2>2, <3>2
    <3> HIDE DEF stop
    <3>5. stop \in 1..Len(q)
      BY <3>1, <3>3
    <3> QED BY <3>3, <3>5, <1>12
  <2> QED BY <2>1, <2>2
<1> HIDE DEF stop
<1>11. mb = "free" /\ stop <= Len(q) => stop > 1
  <2> SUFFICES ASSUME mb = "free", stop <= Len(q) PROVE stop > 1
    OBVIOUS
  <2>1. stop \in due /\ stop \notin pushed
    BY <1>6, <1>14
  <2>2. PICK j \in due : ~(stop <= j)
    BY <2>1, <1>4
  <2>3. j \in Nat /\ j >= 1
    BY <1>12, <1>13
  <2> QED BY <2>2, <2>3, <1>6
<1>7. done.queue \in Seq(Frame) /\ Len(done.queue) = Len(q) - stop + 1
      /\ \A k \in 1..Len(done.queue) : done.queue[k] = q[k + stop - 1]
  <2>1. done.queue = SubSeq(q, stop, Len(q))
    BY <1>1
  <2> HIDE DEF done
  <2> QED BY <2>1, <1>12, <1>6, PartOf
<1>8. ASSUME NEW slack \in {0, 1}, Waits(q, slack), done.dropped PROVE FALSE
  <2>1. PICK k \in 1..stop - 1 : q[k].prio = 0 /\ q[k].left < 0
    BY <1>1, <1>8
  <2>2. k \in 1..Len(q)
    BY <2>1, <1>12, <1>6
  <2>3. q[k].left >= k - slack /\ q[k].left \in Int
    BY <2>1, <2>2, <1>8, FrameFields DEF Waits
  <2> QED BY <2>1, <2>2, <2>3
<1>9. ASSUME NEW slack \in {0, 1}, Waits(q, slack), slack = 1 => mb = "free",
             NEW k \in 1..Len(done.queue), done.queue[k].prio = 0
      PROVE  done.queue[k].left >= k - 0
  <2>1. k + stop - 1 \in 1..Len(q) /\ done.queue[k] = q[k + stop - 1] /\ stop <= Len(q)
    BY <1>12, <1>6, <1>7
  <2>2. q[k + stop - 1].left >= (k + stop - 1) - slack /\ q[k + stop - 1].left \in Int
    BY <2>1, <1>9, FrameFields DEF Waits
  <2> QED BY <2>1, <2>2, <1>6, <1>9, <1>11
<1>10. (Waits(q, 0) => Waits(done.queue, 0)) /\ (mb = "free" /\ Waits(q, 1) => Waits(done.queue, 0))
  BY <1>9 DEF Waits
<1> QED BY <1>5, <1>7, <1>8, <1>10 DEF done

(* The queues are empty at the start.                                      *)
LEMMA TxInvInit == TxInit => TxInv
<1> SUFFICES ASSUME TxInit PROVE TxInv
  OBVIOUS
<1>1. \A i \in Interfaces : txq[i] = <<>> /\ mailbox[i] = "free"
  BY DEF TxInit
<1>2. Healthy \subseteq Interfaces
  BY TxBounds DEF TxConstants
<1> QED BY <1>1, <1>2 DEF TxInit, TxInv, Waits

(* A frame that has time left is none that is dropped.                     *)
LEMMA NoneOverdue ==
    ASSUME NEW q \in Seq(Frame), lag \in {0, 1}, Waits(q, lag)
    PROVE  ~Dropped(q)
<1> SUFFICES ASSUME NEW k \in 1..Len(q), q[k].prio = 0, Expired(q[k])
             PROVE  FALSE
  BY DEF Dropped
<1>1. q[k].left >= k - lag /\ q[k].left \in Int
  BY FrameFields DEF Waits
<1>2. k \in Nat /\ k >= 1
  OBVIOUS
<1> QED BY <1>1, <1>2 DEF Expired

(* Send() on every interface, whether its queue is full or not.            *)
LEMMA SendKeeps ==
    ASSUME TxInv, NEW prio \in Priorities, NEW n \in 1..MaxFrames, Send(prio, n)
    PROVE  TxInv'
<1>1. Healthy \subseteq Interfaces
  BY TxBounds DEF TxConstants
<1>2. /\ DOMAIN txq = Interfaces /\ DOMAIN mailbox = Interfaces /\ lag \in {0, 1}
      /\ \A i \in Interfaces : txq[i] \in Seq(Frame)
      /\ \A i \in Interfaces : mailbox[i] \in {"free", "timely"}
      /\ overdue \cap Healthy = {}
      /\ \A i \in Healthy : Waits(txq[i], lag)
      /\ lag = 1 => \A i \in Healthy : mailbox[i] = "free"
  BY DEF TxInv
<1>3. /\ DOMAIN txq' = Interfaces /\ lag' = lag /\ mailbox' = mailbox
      /\ \A i \in Interfaces : txq'[i] = Queued(Flushed(txq[i]), prio, n)
      /\ overdue' = overdue \cup {i \in Interfaces : Dropped(txq[i])}
  BY DEF Send
<1>4. ASSUME NEW i \in Interfaces
      PROVE  /\ txq'[i] \in Seq(Frame)
             /\ Waits(txq[i], lag) => Waits(txq'[i], lag)
  <2> DEFINE S == {k \in 1..Len(txq[i]) : ~Expired(txq[i][k])}
             q == FramesAt(txq[i], S)
  <2>1. S \in SUBSET Nat /\ txq[i] \in Seq(Frame)
    BY <1>2
  <2>2. txq'[i] = Queued(q, prio, n)
    BY <1>3 DEF Flushed
  <2> HIDE DEF S
  <2>3. q \in Seq(Frame)
    BY <2>1, PickedQueue
  <2>4. Waits(txq[i], lag) => Waits(q, lag)
    BY <2>1, <1>2, PickedWaits
  <2> HIDE DEF q
  <2> QED BY <2>2, <2>3, <2>4, <1>2, QueuedWaits
<1>5. overdue' \cap Healthy = {}
  BY <1>1, <1>2, <1>3, NoneOverdue
<1>6. \A i \in Healthy : Waits(txq'[i], lag)
  BY <1>1, <1>2, <1>4
<1>7. \A i \in Healthy : Waits(txq[i], lag)'
  BY <1>3, <1>6 DEF Waits
<1> QED BY <1>2, <1>3, <1>4, <1>5, <1>7 DEF TxInv

(* Process() on every interface.                                           *)
LEMMA ProcessKeeps ==
    ASSUME TxInv, Process
    PROVE  TxInv'
<1>1. Healthy \subseteq Interfaces
  BY TxBounds DEF TxConstants
<1>2. /\ DOMAIN txq = Interfaces /\ DOMAIN mailbox = Interfaces /\ lag \in {0, 1}
      /\ \A i \in Interfaces : txq[i] \in Seq(Frame)
      /\ \A i \in Interfaces : mailbox[i] \in {"free", "timely"}
      /\ overdue \cap Healthy = {}
      /\ \A i \in Healthy : Waits(txq[i], lag)
      /\ lag = 1 => \A i \in Healthy : mailbox[i] = "free"
  BY DEF TxInv
<1>3. /\ DOMAIN txq' = Interfaces /\ DOMAIN mailbox' = Interfaces /\ lag' = 0
      /\ \A i \in Interfaces : /\ txq'[i] = Drained(txq[i], mailbox[i]).queue
                                /\ mailbox'[i] = Drained(txq[i], mailbox[i]).mailbox
      /\ overdue' = overdue \cup {i \in Interfaces : Drained(txq[i], mailbox[i]).dropped}
  BY DEF Process
<1>4. ASSUME NEW i \in Interfaces
      PROVE  /\ txq'[i] \in Seq(Frame) /\ mailbox'[i] \in {"free", "timely"}
             /\ i \in Healthy => Waits(txq'[i], 0) /\ ~Drained(txq[i], mailbox[i]).dropped
  <2> DEFINE done == Drained(txq[i], mailbox[i])
  <2>1. /\ done.queue \in Seq(Frame) /\ done.mailbox \in {"free", "timely"}
        /\ \A slack \in {0, 1} : Waits(txq[i], slack) => ~done.dropped
        /\ Waits(txq[i], 0) => Waits(done.queue, 0)
        /\ mailbox[i] = "free" /\ Waits(txq[i], 1) => Waits(done.queue, 0)
    BY <1>2, DrainedWaits
  <2>2. txq'[i] = done.queue /\ mailbox'[i] = done.mailbox
    BY <1>3
  <2> HIDE DEF done
  <2>3. ASSUME i \in Healthy PROVE Waits(txq'[i], 0) /\ ~done.dropped
    BY <2>1, <2>2, <2>3, <1>2
  <2> QED BY <2>1, <2>2, <2>3 DEF done
<1>5. overdue' \cap Healthy = {}
  BY <1>1, <1>2, <1>3, <1>4
<1>6. \A i \in Healthy : Waits(txq[i], lag)'
  BY <1>1, <1>3, <1>4 DEF Waits
<1> QED BY <1>3, <1>4, <1>5, <1>6 DEF TxInv

(* A period takes a tick off every frame, and the next Process() is due.   *)
LEMMA PeriodKeeps ==
    ASSUME TxInv, PeriodPasses
    PROVE  TxInv'
<1>1. Healthy \subseteq Interfaces /\ TimeoutTicks \in Nat
  BY TxBounds DEF TxConstants
<1>2. /\ DOMAIN txq = Interfaces /\ DOMAIN mailbox = Interfaces
      /\ \A i \in Interfaces : txq[i] \in Seq(Frame)
      /\ \A i \in Interfaces : mailbox[i] \in {"free", "timely"}
      /\ overdue \cap Healthy = {}
      /\ \A i \in Healthy : Waits(txq[i], lag)
  BY DEF TxInv
<1>3. /\ lag = 0 /\ lag' = 1 /\ UNCHANGED <<mailbox, overdue>>
      /\ \A i \in Healthy : mailbox[i] = "free"
      /\ DOMAIN txq' = Interfaces
      /\ \A i \in Interfaces : txq'[i] =
            [k \in 1..Len(txq[i]) |->
                [txq[i][k] EXCEPT !.left = IF @ = -2 THEN @ ELSE @ - 1]]
  BY DEF PeriodPasses
<1>4. ASSUME NEW i \in Interfaces
      PROVE  txq'[i] \in Seq(Frame) /\ (Waits(txq[i], 0) => Waits(txq'[i], 1))
  <2> DEFINE q == txq[i]
             t == [k \in 1..Len(q) |-> [q[k] EXCEPT !.left = IF @ = -2 THEN @ ELSE @ - 1]]
  <2>1. q \in Seq(Frame) /\ Len(q) \in Nat /\ txq'[i] = t
    BY <1>2, <1>3
  <2> HIDE DEF q
  <2>2. ASSUME NEW k \in 1..Len(q)
        PROVE  t[k] \in Frame /\ t[k].prio = q[k].prio /\ t[k].left >= q[k].left - 1
    <3>1. q[k] \in Frame
      BY <2>1
    <3>2. t[k] = [q[k] EXCEPT !.left = IF @ = -2 THEN @ ELSE @ - 1]
      OBVIOUS
    <3> HIDE DEF t
    <3> QED BY <3>1, <3>2, <1>1 DEF Frame
  <2>3. DOMAIN t = 1..Len(q) /\ t = [k \in 1..Len(q) |-> t[k]]
    OBVIOUS
  <2> HIDE DEF t
  <2>4. t \in [1..Len(q) -> Frame]
    BY <2>2, <2>3
  <2>5. t \in Seq(Frame) /\ Len(t) = Len(q)
    BY <2>1, <2>4
  <2>6. ASSUME Waits(q, 0), NEW k \in 1..Len(t), t[k].prio = 0
        PROVE  t[k].left >= k - 1
    <3>1. k \in 1..Len(q) /\ k \in Int
      BY <2>5
    <3>2. t[k].left >= q[k].left - 1 /\ q[k].prio = 0 /\ q[k] \in Frame /\ t[k] \in Frame
      BY <3>1, <2>1, <2>2, <2>6
    <3>3. q[k].left >= k - 0
      BY <3>1, <3>2, <2>6 DEF Waits
    <3>4. q[k].left \in Int /\ t[k].left \in Int
      BY <3>2, FrameFields
    <3> QED BY <3>1, <3>2, <3>3, <3>4
  <2> QED BY <2>1, <2>5, <2>6 DEF Waits, q
<1>6. \A i \in Healthy : Waits(txq[i], lag)'
  BY <1>1, <1>2, <1>3, <1>4 DEF Waits
<1> QED BY <1>2, <1>3, <1>4, <1>6 DEF TxInv

(* The controller of an interface gets free.                               *)
LEMMA TransmittedKeeps ==
    ASSUME TxInv, NEW i \in Interfaces, Transmitted(i)
    PROVE  TxInv'
<1>1. /\ UNCHANGED <<txq, lag, overdue>> /\ DOMAIN mailbox' = DOMAIN mailbox
      /\ \A j \in Interfaces : mailbox'[j] = IF j = i THEN "free" ELSE mailbox[j]
  BY DEF Transmitted, TxInv
<1>2. Healthy \subseteq Interfaces
  BY TxBounds DEF TxConstants
<1> QED BY <1>1, <1>2 DEF TxInv, Waits

(* No frame reaches a controller after its deadline, and on a bus that     *)
(* takes a frame in every period no frame of the highest rank is ever      *)
(* dropped, for any number of interfaces, whatever the other ones do, with *)
(* every capacity up to the timeout.                                       *)
THEOREM TxCorrect == TxSpec => []DeliveredInTime
<1>1. TxInv /\ [TxNext]_txVars => TxInv'
  <2> SUFFICES ASSUME TxInv, [TxNext]_txVars PROVE TxInv'
    OBVIOUS
  <2>1. ASSUME NEW prio \in Priorities, NEW n \in 1..MaxFrames, Send(prio, n) PROVE TxInv'
    BY <2>1, SendKeeps
  <2>2. CASE Process
    BY <2>2, ProcessKeeps
  <2>3. ASSUME NEW i \in Interfaces, Transmitted(i) PROVE TxInv'
    BY <2>3, TransmittedKeeps
  <2>4. CASE PeriodPasses
    BY <2>4, PeriodKeeps
  <2>5. CASE UNCHANGED txVars
    BY <2>5 DEF txVars, TxInv, Waits
  <2> QED BY <2>1, <2>2, <2>3, <2>4, <2>5 DEF TxNext
<1>2. TxInv => DeliveredInTime
  BY DEF TxInv, DeliveredInTime
<1> QED BY <1>1, <1>2, TxInvInit, PTL DEF TxSpec

-----------------------------------------------------------------------------
(* The display's checksum seed: SeedKept                                   *)

DecoderFits(d) ==
    /\ DOMAIN d = {"window", "count", "seed", "candidate", "candidates"}
    /\ d.window \in Seq(Int) /\ Len(d.window) = FrameSize /\ d.count \in 0..FrameSize
    /\ d.seed \in Int /\ d.candidate \in Int /\ d.candidates \in Nat

\* The frame taken as the display's request is behind the window.
NothingSince(d) == bytesSent = 0 /\ d.count = 0 /\ d.candidates = 0

\* Since then one frame was begun: before its last byte the window is not full, and after
\* it the next byte cannot complete the end marker again.
OneFrameSince(d) ==
    \/ d.candidates = 0 /\ d.count < FrameSize /\ (bytesSent = 0 \/ d.count <= bytesSent)
    \/ bytesSent = 0 /\ (d.candidates = 0 \/ d.window[4] = EndByte)

SeedInv ==
    /\ DecoderFits(decoder)
    /\ sentLevel \in Levels /\ displaySeed \in DisplaySeeds
    /\ bytesSent \in 0..(FrameSize - 1) /\ unheard \in 0..2
    /\ unheard = 0 => NothingSince(decoder)
    /\ unheard = 1 => OneFrameSince(decoder)

\* What a byte does to a decoder, as far as the seed is concerned.
Moves(d, byte) == [d EXCEPT !.window = Append(Tail(@), byte),
                            !.count = IF @ < FrameSize THEN @ + 1 ELSE @]

(* The window moves on by a byte.                                          *)
LEMMA MovesFits ==
    ASSUME NEW d, DecoderFits(d), NEW byte \in Int
    PROVE  /\ DecoderFits(Moves(d, byte))
           /\ Moves(d, byte).window[3] = d.window[4]
           /\ Moves(d, byte).window[4] = byte
           /\ Moves(d, byte).count = IF d.count < FrameSize THEN d.count + 1 ELSE FrameSize
           /\ Moves(d, byte).seed = d.seed
           /\ Moves(d, byte).candidate = d.candidate
           /\ Moves(d, byte).candidates = d.candidates
<1>1. DOMAIN d = {"window", "count", "seed", "candidate", "candidates"} /\ d.window \in Seq(Int) /\ Len(d.window) = 4 /\ d.count \in 0..4
  BY DEF DecoderFits, FrameSize
<1> DEFINE w == Append(Tail(d.window), byte)
<1>2. w \in Seq(Int) /\ Len(w) = 4 /\ w[3] = d.window[4] /\ w[4] = byte
  BY <1>1
<1> HIDE DEF w
<1>3. Moves(d, byte) = [d EXCEPT !.window = w,
                                 !.count = IF d.count < 4 THEN d.count + 1 ELSE d.count]
  BY <1>1 DEF w, Moves, FrameSize
<1>4. DecoderFits(Moves(d, byte))
  BY <1>1, <1>2, <1>3 DEF DecoderFits, FrameSize
<1> QED BY <1>1, <1>2, <1>3, <1>4 DEF FrameSize

(* The xor of integers is an integer.                                      *)
LEMMA XorInt == \A a, b \in Int : Xor(a, b) \in Int
BY DEF Xor

(* A first candidate does not change the seed.                             *)
LEMMA LearnFits ==
    ASSUME NEW d, DecoderFits(d), NEW seed \in Int
    PROVE  /\ DecoderFits(LearnSeed(d, seed))
           /\ LearnSeed(d, seed).window = d.window /\ LearnSeed(d, seed).count = d.count
           /\ d.candidates = 0 => LearnSeed(d, seed).seed = d.seed
BY DEF DecoderFits, LearnSeed, SeedFrames, FrameSize

(* A byte that does not complete a frame.                                  *)
LEMMA PushMoves ==
    ASSUME NEW d, NEW byte,
           Moves(d, byte).count < FrameSize \/ ~HasEndMarker(Moves(d, byte).window)
    PROVE  Push(d, byte).decoder = Moves(d, byte) /\ ~Push(d, byte).accepted
BY DEF Push, Moves

(* A byte that completes one.                                              *)
LEMMA PushCompletes ==
    ASSUME NEW d, DecoderFits(d), NEW byte \in Int,
           Moves(d, byte).count = FrameSize, HasEndMarker(Moves(d, byte).window)
    PROVE  /\ DecoderFits(Push(d, byte).decoder)
           /\ Push(d, byte).decoder.window[4] = EndByte
           /\ d.candidates = 0 => Push(d, byte).decoder.seed = d.seed
           /\ Push(d, byte).accepted =>
                 Push(d, byte).decoder.count = 0 /\ Push(d, byte).decoder.candidates = 0
<1> DEFINE m == Moves(d, byte)
           seed == SeedOf(m.window)
           learned == IF seed = d.seed THEN m ELSE LearnSeed(m, seed)
           taken == [learned EXCEPT !.count = 0, !.candidates = 0]
<1>1. /\ DecoderFits(m) /\ m.seed = d.seed /\ m.candidates = d.candidates
      /\ m.window[4] = EndByte /\ m.count = 4
  BY MovesFits DEF HasEndMarker, FrameSize
<1>2. /\ seed = learned.seed => Push(d, byte).decoder = taken
      /\ seed # learned.seed => Push(d, byte).decoder = learned /\ ~Push(d, byte).accepted
  <2>1. ~(m.count < FrameSize \/ ~HasEndMarker(m.window))
    BY <1>1 DEF FrameSize
  <2> DEFINE known == seed = learned.seed
  <2>2. Push(d, byte) = [decoder |-> IF known THEN taken ELSE learned, accepted |-> known]
    BY <2>1, Zenon DEF Push, Moves
  <2>3. known \in BOOLEAN
    OBVIOUS
  <2> HIDE DEF m, seed, learned, taken
  <2>4. CASE known
    BY <2>2, <2>4 DEF known
  <2>5. CASE ~known
    <3> HIDE DEF known
    <3>1. known = FALSE
      BY <2>3, <2>5
    <3>2. Push(d, byte) = [decoder |-> learned, accepted |-> FALSE]
      BY <2>2, <3>1
    <3> QED BY <2>5, <3>2 DEF known
  <2> QED BY <2>4, <2>5
<1> HIDE DEF m
<1>3. seed \in Int
  <2>1. m.window \in Seq(Int) /\ Len(m.window) = 4
    BY <1>1 DEF DecoderFits, FrameSize
  <2>2. m.window[1] \in Int /\ m.window[2] \in Int /\ m.window[3] \in Int /\ m.window[4] \in Int
    BY <2>1
  <2> QED BY <2>2, XorInt, Zenon DEF SeedOf
<1> HIDE DEF seed
<1>4. /\ DecoderFits(learned) /\ learned.window = m.window
      /\ d.candidates = 0 => learned.seed = d.seed
  BY <1>1, <1>3, LearnFits
<1> HIDE DEF learned
<1>5. /\ DecoderFits(taken) /\ taken.window = learned.window /\ taken.seed = learned.seed
      /\ taken.count = 0 /\ taken.candidates = 0
  BY <1>4 DEF DecoderFits, FrameSize
<1> HIDE DEF taken
<1> QED BY <1>1, <1>2, <1>4, <1>5

(* What the display can put on the line.                                   *)
LEMMA LineBytes ==
    ASSUME NEW level \in Levels, NEW seed \in DisplaySeeds, NEW k \in 1..FrameSize
    PROVE  DisplayFrame(level, seed)[k] \in Int
<1>1. level \in Int /\ seed \in Int /\ Marker \in Int /\ EndByte \in Int
  BY DisplayAssumption DEF Levels, Marker, EndByte, Bytes
<1>2. Xor(Xor(level, Marker), Xor(EndByte, seed)) \in Int
  BY <1>1, XorInt, Zenon
<1> QED BY <1>1, <1>2 DEF DisplayFrame, FrameSize

(* A byte of the line: up to the second frame after a request of the       *)
(* display, at most one candidate.                                         *)
LEMMA ByteKeepsSeed ==
    ASSUME SeedInv, DisplayByte
    PROVE  SeedInv' /\ (decoder'.seed # decoder.seed => unheard = 2)
<1>1. PICK byte \in IF corrupt THEN Bytes
                    ELSE {DisplayFrame(sentLevel, displaySeed)[bytesSent + 1]} : ServiceByte(byte)
  BY DEF DisplayByte
<1>2. /\ bytesSent' = (bytesSent + 1) % FrameSize /\ displaySeed' = displaySeed
      /\ sentLevel' \in Levels /\ bytesSent \in 0..3 /\ unheard \in 0..2
  <2>1. bytesSent \in 0..3 /\ unheard \in 0..2 /\ sentLevel \in Levels
    BY DEF SeedInv, FrameSize
  <2>2. bytesSent' = (bytesSent + 1) % FrameSize /\ displaySeed' = displaySeed
    BY DEF DisplayByte
  <2>3. sentLevel' \in Levels \/ sentLevel' = sentLevel
    BY Zenon DEF DisplayByte
  <2> QED BY <2>1, <2>2, <2>3
<1>3. byte \in Int
  <2>1. bytesSent + 1 \in 1..FrameSize
    BY <1>2 DEF FrameSize
  <2> QED BY <1>1, <2>1, LineBytes DEF SeedInv, Bytes
<1> DEFINE m == Moves(decoder, byte)
           p == Push(decoder, byte)
<1>4. /\ decoder' = p.decoder
      /\ unheard' = CASE p.accepted /\ ~corrupt /\ bytesSent = FrameSize - 1 -> 0
                      [] bytesSent = 0 /\ unheard < 2 -> unheard + 1
                      [] OTHER -> unheard
  BY <1>1, Zenon DEF ServiceByte
<1>5. DecoderFits(decoder)
  BY DEF SeedInv
<1>6. /\ DecoderFits(m) /\ m.window[3] = decoder.window[4] /\ m.window[4] = byte
      /\ m.count = IF decoder.count < FrameSize THEN decoder.count + 1 ELSE FrameSize
      /\ m.seed = decoder.seed /\ m.candidates = decoder.candidates
  BY <1>3, <1>5, MovesFits
<1>7. decoder.count \in 0..4 /\ m.count \in 0..4
  BY <1>5, <1>6 DEF DecoderFits, FrameSize
<1>8. bytesSent' \in 0..3 /\ (bytesSent < 3 => bytesSent' = bytesSent + 1) /\ (bytesSent = 3 => bytesSent' = 0)
  BY <1>2 DEF FrameSize
<1>9. CASE m.count < FrameSize \/ ~HasEndMarker(m.window)
  <2>1. p.decoder = m /\ ~p.accepted
    BY <1>9, PushMoves
  <2> HIDE DEF m, p
  <2>2. unheard' = IF bytesSent = 0 /\ unheard < 2 THEN unheard + 1 ELSE unheard
    BY <1>4, <2>1
  <2>3. decoder' = m /\ unheard' \in 0..2 /\ unheard' # 0
    BY <1>2, <1>4, <2>1, <2>2 DEF SeedInv, NothingSince
  <2>4. ASSUME unheard' = 1 PROVE OneFrameSince(decoder)'
    BY <1>2, <1>6, <1>7, <1>8, <2>2, <2>3, <2>4
       DEF SeedInv, NothingSince, OneFrameSince, FrameSize
  <2> QED BY <1>2, <1>6, <1>8, <2>3, <2>4 DEF SeedInv, FrameSize
<1>10. CASE m.count = FrameSize /\ HasEndMarker(m.window)
  <2>1. /\ DecoderFits(p.decoder) /\ p.decoder.window[4] = EndByte
        /\ decoder.candidates = 0 => p.decoder.seed = decoder.seed
        /\ p.accepted => p.decoder.count = 0 /\ p.decoder.candidates = 0
    BY <1>3, <1>5, <1>10, PushCompletes
  <2>2. decoder.window[4] = Marker /\ Marker # EndByte
    BY <1>6, <1>10 DEF HasEndMarker, Marker, EndByte
  <2>3. m.count = 4 /\ decoder.count >= 3
    BY <1>6, <1>7, <1>10 DEF FrameSize
  <2> HIDE DEF m, p
  <2>4. unheard # 0
    BY <2>3 DEF SeedInv, NothingSince
  <2>5. unheard = 1 => decoder.candidates = 0 /\ (bytesSent = 0 \/ bytesSent = 3)
    BY <1>2, <1>7, <2>2, <2>3 DEF SeedInv, OneFrameSince, FrameSize
  <2>6. unheard' \in 0..2 /\ (unheard' = 0 => p.accepted /\ bytesSent = 3)
        /\ (unheard' = 1 => unheard = 1 /\ bytesSent # 0)
    BY <1>2, <1>4, <2>4 DEF FrameSize
  <2>7. ASSUME unheard' = 0 PROVE NothingSince(decoder)'
    BY <1>4, <1>8, <2>1, <2>6, <2>7 DEF NothingSince
  <2>8. ASSUME unheard' = 1 PROVE OneFrameSince(decoder)'
    BY <1>4, <1>8, <2>1, <2>5, <2>6, <2>8 DEF OneFrameSince
  <2> QED BY <1>2, <1>4, <1>8, <2>1, <2>4, <2>5, <2>6, <2>7, <2>8 DEF SeedInv, FrameSize
<1> QED BY <1>6, <1>7, <1>9, <1>10 DEF FrameSize

\* After a request of the display, whatever one corrupt frame is made of and wherever the
\* display is switched off and on, the seed stays (DisplayDecoder::LearnSeed): a candidate
\* of before the request does not count, and one frame does not bring two.
THEOREM SeedCorrect == DisplaySpec => SeedKept
<1>1. DisplayInit => SeedInv
  <2> SUFFICES ASSUME DisplayInit PROVE SeedInv
    OBVIOUS
  <2>1. DefaultSeed \in Int
    BY DisplayAssumption DEF Bytes
  <2>2. DecoderFits(decoder)
    BY <2>1 DEF DisplayInit, DecoderFits, FrameSize
  <2> QED BY <2>2 DEF DisplayInit, SeedInv, FrameSize
<1>2. SeedInv /\ [DisplayNext]_displayVars
        => SeedInv' /\ (decoder'.seed # decoder.seed => unheard = 2)
  <2> SUFFICES ASSUME SeedInv, [DisplayNext]_displayVars
               PROVE  SeedInv' /\ (decoder'.seed # decoder.seed => unheard = 2)
    OBVIOUS
  <2>1. CASE DisplayByte
    BY <2>1, ByteKeepsSeed
  <2>2. CASE QuietPeriod
    BY <2>2 DEF QuietPeriod, SeedInv, NothingSince, OneFrameSince
  <2>3. CASE SwitchDisplay
    BY <2>3 DEF SwitchDisplay, SeedInv, NothingSince, OneFrameSince, FrameSize
  <2>4. CASE UNCHANGED displayVars
    BY <2>4 DEF displayVars, SeedInv, NothingSince, OneFrameSince
  <2> QED BY <2>1, <2>2, <2>3, <2>4 DEF DisplayNext
<1> QED BY <1>1, <1>2, PTL DEF DisplaySpec, SeedKept

=============================================================================
