----------------------------- MODULE CyphalNode -----------------------------
(***************************************************************************)
(* The Cyphal node of a drive (lib/cyphal/node.cpp) with the part of       *)
(* DriveNode (src/drive/drive_node.cpp) that depends on the node-ID:       *)
(* plug-and-play allocation, the readiness subject that follows the        *)
(* node-ID, and register writes taken from a bus on which several          *)
(* transfers wait for one Spin().                                          *)
(*                                                                         *)
(* One drive is modelled; the allocators and the other nodes are its       *)
(* environment.  Requests and answers may be lost, repeated, delayed over  *)
(* a restart and reordered.  Which periodic messages are due in a Spin()   *)
(* is left open; NodeTimers has the times.                                 *)
(***************************************************************************)
EXTENDS Integers, Sequences, Functions

CONSTANTS
    OwnIds, OtherIds,   \* node-IDs the allocators of the bus hold for the drive and for others
    Own, Other,         \* UniqueIdHash() of the drive and of another node
    Base,               \* kSubReadinessBase
    SetpointPort,       \* sub_torque_setpoint_id, stands for all setpoint subjects
    FixedPort,          \* a readiness subject written by the user
    Follows,            \* kReadinessFollowsNodeId
    MaxListeners,       \* kMaxListeners
    MaxTransfers,       \* kMaxTransfersPerSpin
    MaxReceived         \* bound: transfers that wait for a Spin()

\* Redundant allocators may hold several IDs for one node, never one for two nodes.
ASSUME CyphalAssumption ==
    /\ OwnIds \subseteq Nat \ {0} /\ OtherIds \subseteq Nat \ {0}
    /\ OwnIds \cap OtherIds = {} /\ Own # Other
    /\ {MaxTransfers, MaxReceived} \subseteq Nat \ {0}
    /\ MaxListeners \in Nat \ {0, 1} /\ Base \in Nat

\* kNodeIdUnset of the transport, and kUnsetPortId
Unset == -1

VARIABLES
    node,       \* CyphalNode and the fields of DriveNode that depend on it
    flash,      \* the settings in the flash
    inbox,      \* transfers received and not dispatched yet, oldest first
    asked,      \* environment: a request of the drive reached the allocators
    answers,    \* environment: answers on the bus
    leaked,     \* history: an anonymous transfer other than a request was sent
    dispatched, \* transfers the running Spin() has dispatched
    round       \* history: flips with every Spin() in which a timer has run out

cyphalVars == <<node, flash, inbox, asked, answers, leaked, dispatched, round>>

-----------------------------------------------------------------------------
(* Ports                                                                   *)

\* EffectiveReadinessId()
EffectiveReadinessId(configured, id) ==
    IF configured # Follows THEN configured
    ELSE IF id # Unset THEN Base + id ELSE Unset

\* HasPortIdCollision(): a node without a stored node-ID has no readiness subject yet.
ReadinessCollides(settings) ==
    LET readiness == IF settings.nodeId = 0 /\ settings.readiness = Follows THEN Unset
                     ELSE EffectiveReadinessId(settings.readiness, settings.nodeId)
    IN  readiness # Unset /\ readiness = SetpointPort

\* CyphalNode::Subscribe(): the node after it, and whether a slot was left.
Subscribe(n, port) ==
    IF port = Unset THEN [node |-> n, taken |-> TRUE]
    ELSE IF Len(n.listeners) >= MaxListeners THEN [node |-> n, taken |-> FALSE]
    ELSE [node |-> [n EXCEPT !.listeners = Append(@, port)], taken |-> TRUE]

-----------------------------------------------------------------------------
(* The start                                                               *)

\* DriveNode::Start() and CyphalNode::Start() on the stored settings.
Started(settings) ==
    LET id == IF settings.nodeId = 0 THEN Unset ELSE settings.nodeId
        readiness == EffectiveReadinessId(settings.readiness, id)
        fresh == [id |-> id, settings |-> settings, gain |-> settings.gain,
                  dirty |-> FALSE, readinessPort |-> readiness, listeners |-> <<>>,
                  released |-> FALSE, announced |-> FALSE]
    IN  Subscribe(Subscribe(fresh, readiness).node, SetpointPort).node

\* The settings a drive may have in its flash: those Validate() accepted.
StoredSettings ==
    {s \in [nodeId : {0} \cup OwnIds, readiness : {Follows, FixedPort}, gain : {0}] :
        ~ReadinessCollides(s)}

NodeInit ==
    /\ flash \in StoredSettings
    /\ node = Started(flash)
    /\ inbox = <<>> /\ asked = FALSE /\ answers = {} /\ leaked = FALSE
    /\ dispatched = 0 /\ round = FALSE

-----------------------------------------------------------------------------
(* Dispatch: state is [node, flash, sent], one transfer after the other    *)

Kinds == {"request", "heartbeat", "port list", "telemetry", "response", "allocated and saved"}

\* PublishInternal() and Respond(): a transfer under the node's own ID.
Sent(state, kind) == [state EXCEPT !.sent = @ \cup {<<state.node.id, kind>>}]

\* Publish() and Log(): refused while the node has no ID.
Publish(state, kind) == IF state.node.id = Unset THEN state ELSE Sent(state, kind)

\* SetNodeId() and SaveToFlash(): the status of both.
SaveNodeId(state, id) ==
    LET settings == [state.node.settings EXCEPT !.nodeId = id]
    IN  IF ReadinessCollides(settings) THEN [state |-> state, saved |-> FALSE]
        ELSE IF state.node.released
        THEN [state |-> [state EXCEPT !.node.settings = settings], saved |-> FALSE]
        ELSE [state |-> [state EXCEPT !.node.settings = settings, !.flash = settings],
              saved |-> TRUE]

\* The readiness subject of OnNodeIdAllocated().
FollowNodeId(n, id) ==
    LET port == EffectiveReadinessId(n.settings.readiness, id)
        subscribed == Subscribe(n, port)
    IN  IF n.readinessPort # Unset THEN n
        ELSE IF subscribed.taken THEN [subscribed.node EXCEPT !.readinessPort = port]
        ELSE n

\* DriveNode::OnNodeIdAllocated()
OnNodeIdAllocated(state, id) ==
    LET result == SaveNodeId([state EXCEPT !.node = FollowNodeId(@, id)], id)
        logged == IF result.saved THEN Publish(result.state, "allocated and saved")
                  ELSE result.state
    IN  [logged EXCEPT !.node.announced = result.saved, !.node.dirty = FALSE]

\* Mutant: answers to other nodes are taken.
HandleAllocation_AnyHash(state, answer) ==
    IF state.node.id # Unset THEN state
    ELSE OnNodeIdAllocated([state EXCEPT !.node.id = answer.id], answer.id)

\* HandleAllocation(): the first answer to the own hash.
HandleAllocation(state, answer) ==
    IF state.node.id # Unset \/ answer.hash # Own THEN state
    ELSE OnNodeIdAllocated([state EXCEPT !.node.id = answer.id], answer.id)

\* HandleRegisterAccess() of a write, and the answer with the value read back.
HandleRegisterAccess(state, settings) ==
    LET written == [state EXCEPT !.node.settings = settings, !.node.dirty = TRUE,
                                 !.node.announced = FALSE]
    IN  Sent(IF ReadinessCollides(settings) THEN state ELSE written, "response")

\* HandleExecuteCommand() of STORE_PERSISTENT_STATES
HandleStore(state) ==
    Sent(IF state.node.released THEN state
         ELSE [state EXCEPT !.flash = state.node.settings, !.node.announced = FALSE], "response")

\* The service requests of Dispatch(); HandleGetInfo() and the lists only answer.
HandleRequest(state, transfer) ==
    IF state.node.id = Unset THEN state
    ELSE CASE transfer.kind = "write" ->
                HandleRegisterAccess(state, [state.node.settings EXCEPT ![transfer.register] = transfer.value])
           [] transfer.kind = "store" -> HandleStore(state)
           [] transfer.kind = "info" -> Sent(state, "response")

\* OnReadiness(), as far as it matters here: ENGAGED releases the outputs.
OnReadiness(n, transfer) ==
    [n EXCEPT !.released = (transfer.value = "engaged")]

\* DriveNode::OnMessage() behind every listener of the subject: by port, readiness first.
OnMessage(state, transfer) ==
    IF transfer.port \notin Range(state.node.listeners) THEN state
    ELSE IF transfer.port = state.node.readinessPort
    THEN [state EXCEPT !.node = OnReadiness(@, transfer)]
    ELSE state

\* Dispatch()
Dispatch(state, transfer) ==
    CASE transfer.kind = "answer" -> HandleAllocation(state, transfer)
      [] transfer.kind = "message" -> OnMessage(state, transfer)
      [] OTHER -> HandleRequest(state, transfer)

-----------------------------------------------------------------------------
(* Spin                                                                    *)

\* Mutant: the node holds its request back while answers are on the bus.
RequestNodeId_HoldsBack(state) == IF answers = {} THEN Sent(state, "request") ELSE state

\* RequestNodeId()
RequestNodeId(state) == Sent(state, "request")

\* PublishHeartbeat() and PublishPortList()
PublishPeriodic(state) == Sent(Sent(state, "heartbeat"), "port list")

\* The rest of DriveNode::Spin(): settings taken while the outputs are off, telemetry.
FinishSpin(state) ==
    LET n == state.node
        applied == IF ~n.released /\ n.dirty
                   THEN [state EXCEPT !.node.gain = n.settings.gain, !.node.dirty = FALSE]
                   ELSE state
    IN  Publish(applied, "telemetry")

\* What a step of Spin() leaves behind.
Becomes(state) ==
    /\ node' = state.node /\ flash' = state.flash
    /\ asked' = (asked \/ <<Unset, "request">> \in state.sent)
    /\ leaked' = (leaked \/ \E kind \in Kinds \ {"request"} : <<Unset, kind>> \in state.sent)

Now == [node |-> node, flash |-> flash, sent |-> {}]

\* The loop of CyphalNode::Spin(): one transfer, which may have come while it ran.
SpinDispatches ==
    /\ inbox # <<>> /\ dispatched < MaxTransfers
    /\ Becomes(Dispatch(Now, Head(inbox)))
    /\ inbox' = Tail(inbox) /\ dispatched' = dispatched + 1
    /\ UNCHANGED <<answers, round>>

\* The rest of it and of DriveNode::Spin() around it; due: a timer has run out.
SpinEnds(due) ==
    LET periodic == IF ~due THEN Now
                    ELSE IF node.id = Unset THEN RequestNodeId(Now)
                    ELSE PublishPeriodic(Now)
    IN  /\ inbox = <<>> \/ dispatched = MaxTransfers
        /\ Becomes(FinishSpin(periodic))
        /\ dispatched' = 0 /\ round' = (round # due)
        /\ UNCHANGED <<inbox, answers>>

\* A restart; what is on the bus stays there.
Restart ==
    /\ node' = Started(flash)
    /\ inbox' = <<>> /\ dispatched' = 0
    /\ UNCHANGED <<flash, asked, answers, leaked, round>>

-----------------------------------------------------------------------------
(* The bus                                                                 *)

OwnAnswers == [kind : {"answer"}, hash : {Own}, id : OwnIds]
OtherAnswers == [kind : {"answer"}, hash : {Other}, id : OtherIds]

\* An allocator answers the drive.
AnswerOwn ==
    /\ asked /\ asked' = FALSE
    /\ \E answer \in OwnAnswers : answers' = answers \cup {answer}
    /\ UNCHANGED <<node, flash, inbox, leaked, dispatched, round>>

\* An allocator answers another node.
AnswerOther ==
    /\ \E answer \in OtherAnswers : answers' = answers \cup {answer}
    /\ UNCHANGED <<node, flash, inbox, asked, leaked, dispatched, round>>

\* The bus loses a request or an answer.
LoseRequest ==
    /\ asked /\ asked' = FALSE
    /\ UNCHANGED <<node, flash, inbox, answers, leaked, dispatched, round>>

LoseAnswer ==
    /\ \E answer \in answers : answers' = answers \ {answer}
    /\ UNCHANGED <<node, flash, inbox, asked, leaked, dispatched, round>>

\* A transfer reaches the drive; the last place is kept for an answer to it.
Received(transfer) ==
    /\ Len(inbox) < IF transfer \in OwnAnswers THEN MaxReceived ELSE MaxReceived - 1
    /\ inbox' = Append(inbox, transfer)
    /\ UNCHANGED <<node, flash, asked, leaked, dispatched, round>>

\* An answer, which may come again.
ReceiveAnswer(hash) ==
    \E answer \in {a \in answers : a.hash = hash} :
        /\ Received(answer)
        /\ answers' \in {answers, answers \ {answer}}

Requests ==
    {[kind |-> "store"], [kind |-> "info"],
     [kind |-> "write", register |-> "gain", value |-> 1],
     [kind |-> "write", register |-> "nodeId", value |-> 0]}

ReceiveRequest ==
    /\ \E request \in Requests : Received(request)
    /\ UNCHANGED answers

\* A message on a subject of the node, by what its bytes mean as readiness: those of a
\* torque may mean anything.
Messages ==
    [kind : {"message"}, value : {"engaged", "standby"}, port : Range(node.listeners)]

ReceiveMessage ==
    /\ \E message \in Messages : Received(message)
    /\ UNCHANGED answers

NodeNext ==
    \/ SpinDispatches
    \/ \E due \in BOOLEAN : SpinEnds(due)
    \/ Restart
    \/ AnswerOwn \/ AnswerOther \/ LoseRequest \/ LoseAnswer
    \/ \E hash \in {Own, Other} : ReceiveAnswer(hash)
    \/ ReceiveRequest \/ ReceiveMessage

NodeSpec == NodeInit /\ [][NodeNext]_cyphalVars

\* The thread goes on and its timers run out (NodeTimers); the bus does not lose
\* every answer to a node that asks again.
NodeFairness ==
    /\ WF_round(round' = ~round)
    /\ SF_cyphalVars(AnswerOwn) /\ SF_cyphalVars(ReceiveAnswer(Own))

-----------------------------------------------------------------------------
(* Properties                                                              *)

\* What hangs on the node-ID, through lost, repeated and foreign answers, failed
\* saves and restarts.  The drive never uses an ID that an allocator holds for another
\* node; "node-ID allocated and saved" is true; a node without an ID only asks for one,
\* any other transfer would carry a pseudo-ID; and a drive with an ID listens to the
\* readiness subject of that ID.
IdentityKept ==
    /\ node.id \notin OtherIds
    /\ node.announced => flash.nodeId = node.id
    /\ ~leaked
    /\ node.id # Unset /\ node.settings.readiness = Follows =>
        /\ node.readinessPort = Base + node.id
        /\ node.readinessPort \in Range(node.listeners)

\* The drive keeps the ID it has until a restart, whatever answers of other allocators
\* or repetitions arrive (HandleAllocation()), and whatever is written or stored.
IdUntilRestart ==
    [][node.id # Unset /\ node' # Started(flash) => node'.id = node.id]_cyphalVars

\* A node on a bus that loses transfers gets a node-ID in the end, unless it is
\* restarted for ever (RequestNodeId() keeps asking), and keeps it until a restart.
IdAllocated ==
    /\ []<><<Restart>>_cyphalVars \/ ((node.id = Unset) ~> (node.id # Unset))
    /\ IdUntilRestart

\* The torque messages of the setpoint subject are never read as readiness.
SetpointsNotReadiness == node.readinessPort # SetpointPort

=============================================================================
