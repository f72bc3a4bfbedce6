--------------------------- MODULE OuterLoopProofs ---------------------------
(***************************************************************************)
(* Proofs about OuterLoop, for any gains, positions, counter widths and    *)
(* block time.                                                             *)
(***************************************************************************)
EXTENDS OuterLoop, TLAPS

\* A position setpoint names a position.
SetpointInv ==
    /\ drive.mode = "position" => drive.position \in Positions
    /\ setpoint.mode = "position" => setpoint.position \in Positions

\* What the counters say about the mailboxes.  A counter that the control thread
\* has taken means that it has the mailbox; a restart is never taken without the
\* gains it brought; the count that SetGains() still owes will be seen.
HandInv ==
    /\ gains = newest
    /\ gainsGeneration = loop.appliedGains =>
        /\ loop.generation = parameters.generation
        /\ ~counting => loop.gains = gains
    /\ counting => Counted(gainsGeneration, GainsModulus) # loop.appliedGains

\* A run that searches has not stalled for the block time.
BlockInv == loop.homing = "searching" => loop.blocked < BlockSteps

\* A run that searches holds nothing, and a loop that holds the home works with the
\* setpoint at which the run ended.
HoldInv ==
    /\ loop.homing = "searching" => ~loop.hold
    /\ loop.hold /\ loop.seen # NoPosition => loop.seen = loop.held

IInv == TypeOK /\ SetpointInv /\ HandInv /\ BlockInv /\ HomeKnown

-----------------------------------------------------------------------------

\* A count stays in range and is a new value.
LEMMA CountedMoves ==
    ASSUME NEW m \in Nat, m > 1, NEW c \in 0..(m - 1)
    PROVE  Counted(c, m) \in 0..(m - 1) /\ Counted(c, m) # c
<1>1. CASE c = m - 1
  <2>1. (c + 1) % m = 0
    BY <1>1, SMT
  <2> QED
    BY <1>1, <2>1 DEF Counted
<1>2. CASE c # m - 1
  <2>1. (c + 1) % m = c + 1
    BY <1>2, SMT
  <2> QED
    BY <1>2, <2>1 DEF Counted
<1> QED
  BY <1>1, <1>2

\* The members that LoadParameters() and ApplyGains() leave behind.
LEMMA GainsStep ==
    ASSUME TypeOK, HandInv, HomeKnown, BlockInv
    PROVE  LET l == Track(ApplyGains(LoadParameters(loop)))
           IN  /\ l \in Loops
               /\ l.generation = parameters.generation
               /\ l.appliedGains = gainsGeneration
               /\ ~counting => l.gains = gains
               /\ l.homing = "done" \/ l.hold => l.home = "stop"
               /\ l.homing = "searching" => l.blocked < BlockSteps
<1> DEFINE a == LoadParameters(loop)
           b == ApplyGains(a)
<1>1. /\ a \in Loops
      /\ a.generation = parameters.generation /\ a.appliedGains = loop.appliedGains
      /\ gainsGeneration = loop.appliedGains => a = loop
      /\ a.homing = "done" \/ a.hold => a.home = "stop"
      /\ a.homing = "searching" => a.blocked < BlockSteps
  BY ZenonT(60) DEF TypeOK, HandInv, HomeKnown, BlockInv, LoadParameters, Loops, HomingStates
<1>2. /\ b \in Loops
      /\ b.generation = parameters.generation /\ b.appliedGains = gainsGeneration
      /\ ~counting => b.gains = gains
      /\ b.homing = "done" \/ b.hold => b.home = "stop"
      /\ b.homing = "searching" => b.blocked < BlockSteps
  <2> HIDE DEF a
  <2> QED
    BY <1>1, ZenonT(60) DEF TypeOK, HandInv, ApplyGains, Loops
<1>3. /\ Track(b) \in Loops
      /\ Track(b).generation = parameters.generation
      /\ Track(b).appliedGains = gainsGeneration
      /\ ~counting => Track(b).gains = gains
      /\ Track(b).homing = "done" \/ Track(b).hold => Track(b).home = "stop"
      /\ Track(b).homing = "searching" => Track(b).blocked < BlockSteps
  <2> HIDE DEF b
  <2> QED
    BY <1>2 DEF Track, Loops
<1> QED
  BY <1>3

\* Taking a homing request and ending a run leave a known home.
LEMMA HomingStep ==
    ASSUME NEW l \in Loops, TypeOK, BlockSteps \in Nat \ {0},
           l.homing = "done" \/ l.hold => l.home = "stop",
           l.homing = "searching" => l.blocked < BlockSteps
    PROVE  LET u == UpdateHoming(l)
           IN  /\ u \in Loops
               /\ u.generation = l.generation /\ u.appliedGains = l.appliedGains
               /\ u.gains = l.gains
               /\ u.homing = "done" \/ u.hold => u.home = "stop"
               /\ u.homing = "searching" => u.blocked < BlockSteps /\ PositionMode
<1> DEFINE t == TakeHomingRequest(l)
<1>1. /\ t \in Loops
      /\ t.generation = l.generation /\ t.appliedGains = l.appliedGains
      /\ t.gains = l.gains
      /\ t.homing = "done" \/ t.hold => t.home = "stop"
      /\ t.homing = "searching" => t.blocked < BlockSteps
  <2>1. CASE homingRequests = l.appliedHoming
    BY <2>1 DEF TakeHomingRequest
  <2>2. CASE homingRequests # l.appliedHoming /\ PositionMode
    <3>1. t = [l EXCEPT !.appliedHoming = homingRequests, !.homing = "searching",
                        !.blocked = 0, !.hold = FALSE]
      BY <2>2 DEF TakeHomingRequest
    <3>2. 0 \in 0..BlockSteps /\ 0 < BlockSteps /\ homingRequests \in Counts
      BY DEF TypeOK
    <3> HIDE DEF t
    <3>3. t \in Loops
      BY <3>1, <3>2 DEF Loops, HomingStates
    <3>4. /\ t.generation = l.generation /\ t.appliedGains = l.appliedGains
          /\ t.gains = l.gains /\ t.blocked = 0 /\ t.homing = "searching"
          /\ ~t.hold
      BY <3>1 DEF Loops
    <3> QED
      BY <3>2, <3>3, <3>4
  <2>3. CASE homingRequests # l.appliedHoming /\ ~PositionMode
    <3>1. t = [l EXCEPT !.appliedHoming = homingRequests, !.homing = "fault"]
      BY <2>3 DEF TakeHomingRequest
    <3> HIDE DEF t
    <3> QED
      BY <3>1 DEF Loops, HomingStates, TypeOK
  <2> HIDE DEF t
  <2> QED
    BY <2>1, <2>2, <2>3
<1> HIDE DEF t
<1>2. UpdateHoming(l) =
        [t EXCEPT !.homing = IF @ = "searching" /\ ~PositionMode THEN "fault" ELSE @,
                  !.hold = @ /\ setpoint.active]
  BY DEF UpdateHoming, t
<1> QED
  BY <1>1, <1>2, ZenonT(60) DEF Loops, HomingStates, TypeOK, Setpoints

\* The position loop, in the position mode.
LEMMA PositionStep ==
    ASSUME NEW u \in Loops, TypeOK, NEW stalled \in BOOLEAN, BlockSteps \in Nat \ {0},
           u.homing = "done" \/ u.hold => u.home = "stop",
           u.homing = "searching" => u.blocked < BlockSteps
    PROVE  LET r == PositionTorque(u, stalled)
           IN  /\ r \in Loops
               /\ r.generation = u.generation /\ r.appliedGains = u.appliedGains
               /\ r.gains = u.gains
               /\ r.homing = "done" \/ r.hold => r.home = "stop"
               /\ r.homing = "searching" => r.blocked < BlockSteps
<1>1. CASE u.homing = "searching"
  <2> DEFINE n == IF stalled THEN u.blocked + 1 ELSE 0
             r == PositionTorque(u, stalled)
  <2>1. n \in 0..BlockSteps
    BY <1>1 DEF Loops
  <2>2. CASE n < BlockSteps
    <3>1. r = [u EXCEPT !.blocked = n]
      BY <1>1, <2>2 DEF PositionTorque, SearchHome
    <3> HIDE DEF n, r
    <3>2. /\ r \in Loops
          /\ r.generation = u.generation /\ r.appliedGains = u.appliedGains
          /\ r.gains = u.gains
          /\ r.homing = "done" \/ r.hold => r.home = "stop"
          /\ r.homing = "searching" => r.blocked < BlockSteps
      BY <2>1, <2>2, <3>1 DEF Loops
    <3> QED
      BY <3>2 DEF r
  <2>3. CASE ~(n < BlockSteps)
    <3>1. r = [u EXCEPT !.blocked = n, !.home = "stop", !.homing = "done",
                        !.hold = TRUE, !.held = setpoint.position]
      BY <1>1, <2>3 DEF PositionTorque, SearchHome
    <3>2. setpoint.position \in Positions \cup {NoPosition}
      BY DEF TypeOK, Setpoints
    <3> HIDE DEF n, r
    <3>3. /\ r \in Loops
          /\ r.generation = u.generation /\ r.appliedGains = u.appliedGains
          /\ r.gains = u.gains
          /\ r.homing = "done" /\ r.home = "stop"
      BY <2>1, <3>1, <3>2 DEF Loops, HomingStates
    <3> QED
      BY <3>3 DEF r
  <2> QED
    BY <2>2, <2>3
<1>2. CASE u.homing # "searching"
  BY <1>2 DEF PositionTorque, Loops, HomingStates, TypeOK, Setpoints
<1> QED
  BY <1>1, <1>2

-----------------------------------------------------------------------------

LEMMA InitIInv == Init => IInv
<1> SUFFICES ASSUME Init
             PROVE  IInv
  OBVIOUS
<1> USE OuterLoopAssumption
<1>1. 0 \in Counts /\ 1 \in Counts /\ 0 \in GainsCounts /\ 1 \in GainsCounts
  BY DEF Counts, GainsCounts
<1>2. NoSetpoint \in Setpoints /\ NoSetpoint.mode # "position"
  BY DEF NoSetpoint, Setpoints, Modes
<1>3. loop \in Loops
  BY <1>1 DEF Init, Loops, HomingStates
<1>4. PICK g \in Gains : parameters = [generation |-> 1, gains |-> g] /\ gains = g
                         /\ newest = g
  BY DEF Init
<1>5. parameters \in [generation : Counts, gains : Gains]
  BY <1>1, <1>4
<1>6. TypeOK
  BY <1>1, <1>2, <1>3, <1>4, <1>5 DEF Init, TypeOK
<1>7. SetpointInv
  BY <1>2 DEF Init, SetpointInv
<1>8. HandInv /\ BlockInv /\ HomeKnown
  BY DEF Init, HandInv, BlockInv, HomeKnown
<1> QED
  BY <1>6, <1>7, <1>8 DEF IInv

LEMMA StepKeeps == IInv /\ Step => IInv' /\ (~counting => loop'.gains = newest)
<1> SUFFICES ASSUME IInv, Step
             PROVE  IInv' /\ (~counting => loop'.gains = newest)
  OBVIOUS
<1> USE OuterLoopAssumption
<1> DEFINE g == Track(ApplyGains(LoadParameters(loop)))
           u == UpdateHoming(g)
<1>1. /\ g \in Loops
      /\ g.generation = parameters.generation /\ g.appliedGains = gainsGeneration
      /\ ~counting => g.gains = gains
      /\ g.homing = "done" \/ g.hold => g.home = "stop"
      /\ g.homing = "searching" => g.blocked < BlockSteps
  BY GainsStep DEF IInv
<1> HIDE DEF g
<1>2. /\ u \in Loops
      /\ u.generation = parameters.generation /\ u.appliedGains = gainsGeneration
      /\ ~counting => u.gains = gains
      /\ u.homing = "done" \/ u.hold => u.home = "stop"
      /\ u.homing = "searching" => u.blocked < BlockSteps /\ PositionMode
  BY <1>1, HomingStep DEF IInv
<1> HIDE DEF u
<1>3. PICK stalled \in BOOLEAN :
        loop' = IF PositionMode
                THEN [PositionTorque(u, stalled) EXCEPT !.seen = setpoint.position]
                ELSE [u EXCEPT !.seen = NoPosition]
  BY DEF Step, u, g
<1>4. /\ loop' \in Loops
      /\ loop'.generation = parameters.generation /\ loop'.appliedGains = gainsGeneration
      /\ ~counting => loop'.gains = gains
      /\ HomeKnown' /\ BlockInv'
  <2>1. CASE PositionMode
    <3> DEFINE r == PositionTorque(u, stalled)
    <3>1. /\ r \in Loops
          /\ r.generation = u.generation /\ r.appliedGains = u.appliedGains
          /\ r.gains = u.gains
          /\ r.homing = "done" \/ r.hold => r.home = "stop"
          /\ r.homing = "searching" => r.blocked < BlockSteps
      BY <1>2, PositionStep DEF IInv
    <3> HIDE DEF r
    <3>2. loop' = [r EXCEPT !.seen = setpoint.position]
      BY <1>3, <2>1 DEF r
    <3>3. setpoint.position \in Positions
      BY <2>1 DEF PositionMode, IInv, SetpointInv
    <3> QED
      BY <1>2, <3>1, <3>2, <3>3 DEF Loops, HomeKnown, BlockInv
  <2>2. CASE ~PositionMode
    BY <1>2, <1>3, <2>2 DEF Loops, HomeKnown, BlockInv
  <2> QED
    BY <2>1, <2>2
<1>5. UNCHANGED <<engaged, drive, setpoint, parameters, gains, gainsGeneration, counting,
                  newest, homingRequests>>
  BY DEF Step, driveVars, handVars
<1>6. Counted(gainsGeneration, GainsModulus) # gainsGeneration
  BY CountedMoves DEF IInv, TypeOK, GainsCounts
<1>7. TypeOK' /\ SetpointInv'
  BY <1>4, <1>5 DEF IInv, TypeOK, SetpointInv
<1>8. HandInv'
  BY <1>4, <1>5, <1>6 DEF IInv, HandInv, Counted
<1> QED
  BY <1>4, <1>7, <1>8 DEF IInv, HandInv

\* What the gains leave of the hold: all of it, unless the parameters are new.
LEMMA HoldThroughGains ==
    ASSUME TypeOK, HoldInv
    PROVE  LET l == Track(ApplyGains(LoadParameters(loop)))
           IN  /\ l.homing = "searching" => ~l.hold
               /\ l.held = loop.held /\ l.appliedHoming = loop.appliedHoming
               /\ parameters.generation = loop.generation =>
                    (l.hold <=> loop.hold) /\ l.homing = loop.homing
<1> DEFINE a == LoadParameters(loop)
           b == ApplyGains(a)
<1>1. /\ a \in Loops
      /\ a.homing = "searching" => ~a.hold
      /\ a.held = loop.held /\ a.appliedHoming = loop.appliedHoming
      /\ parameters.generation = loop.generation => a = loop
  BY DEF TypeOK, HoldInv, LoadParameters, Loops, HomingStates
<1> HIDE DEF a
<1>2. /\ b \in Loops
      /\ b.hold = a.hold /\ b.homing = a.homing
      /\ b.held = a.held /\ b.appliedHoming = a.appliedHoming
  BY <1>1 DEF TypeOK, ApplyGains, Loops
<1> HIDE DEF b
<1>3. /\ Track(b).hold = b.hold /\ Track(b).homing = b.homing
      /\ Track(b).held = b.held /\ Track(b).appliedHoming = b.appliedHoming
  BY <1>2 DEF Track, Loops
<1>4. Track(b) = Track(ApplyGains(LoadParameters(loop)))
  BY DEF a, b
<1> QED
  BY <1>1, <1>2, <1>3, <1>4

\* What UpdateHoming() leaves of the hold: all of it, without a request and with the
\* setpoint active.
LEMMA HoldThroughHoming ==
    ASSUME NEW l \in Loops, TypeOK, BlockSteps \in Nat \ {0},
           l.homing = "searching" => ~l.hold
    PROVE  LET u == UpdateHoming(l)
           IN  /\ u.homing = "searching" => ~u.hold
               /\ u.held = l.held /\ u.appliedHoming = homingRequests
               /\ homingRequests = l.appliedHoming /\ PositionMode =>
                    (u.hold <=> l.hold) /\ u.homing = l.homing
<1> DEFINE t == TakeHomingRequest(l)
<1>1. /\ t \in Loops
      /\ t.homing = "searching" => ~t.hold
      /\ t.held = l.held /\ t.appliedHoming = homingRequests
      /\ homingRequests = l.appliedHoming => t = l
  <2>1. CASE homingRequests = l.appliedHoming
    BY <2>1 DEF TakeHomingRequest
  <2>2. CASE homingRequests # l.appliedHoming /\ PositionMode
    <3>1. t = [l EXCEPT !.appliedHoming = homingRequests, !.homing = "searching",
                        !.blocked = 0, !.hold = FALSE]
      BY <2>2 DEF TakeHomingRequest
    <3>2. 0 \in 0..BlockSteps /\ homingRequests \in Counts
      BY DEF TypeOK
    <3> HIDE DEF t
    <3>3. t \in Loops
      BY <3>1, <3>2 DEF Loops, HomingStates
    <3>4. ~t.hold /\ t.held = l.held /\ t.appliedHoming = homingRequests
      BY <3>1 DEF Loops
    <3> QED
      BY <2>2, <3>3, <3>4
  <2>3. CASE homingRequests # l.appliedHoming /\ ~PositionMode
    <3>1. t = [l EXCEPT !.appliedHoming = homingRequests, !.homing = "fault"]
      BY <2>3 DEF TakeHomingRequest
    <3> HIDE DEF t
    <3> QED
      BY <2>3, <3>1 DEF Loops, HomingStates, TypeOK
  <2> HIDE DEF t
  <2> QED
    BY <2>1, <2>2, <2>3
<1> HIDE DEF t
<1>2. UpdateHoming(l) =
        [t EXCEPT !.homing = IF @ = "searching" /\ ~PositionMode THEN "fault" ELSE @,
                  !.hold = @ /\ setpoint.active]
  BY DEF UpdateHoming, t
<1> QED
  BY <1>1, <1>2 DEF Loops, HomingStates, TypeOK, Setpoints, PositionMode

\* A step keeps the hold of an unchanged setpoint, without a restart or a new run.
LEMMA HoldStep ==
    ASSUME IInv, HoldInv, Step
    PROVE  /\ HoldInv'
           /\ loop.hold /\ loop.seen # NoPosition /\ loop'.seen = loop.seen
              /\ loop'.generation = loop.generation
              /\ loop'.appliedHoming = loop.appliedHoming
              => loop'.hold
<1> USE OuterLoopAssumption
<1> DEFINE g == Track(ApplyGains(LoadParameters(loop)))
           u == UpdateHoming(g)
<1>1. /\ g \in Loops
      /\ g.generation = parameters.generation
      /\ g.homing = "done" \/ g.hold => g.home = "stop"
      /\ g.homing = "searching" => g.blocked < BlockSteps
  BY GainsStep DEF IInv
<1>2. /\ g.homing = "searching" => ~g.hold
      /\ g.held = loop.held /\ g.appliedHoming = loop.appliedHoming
      /\ parameters.generation = loop.generation =>
            (g.hold <=> loop.hold) /\ g.homing = loop.homing
  BY HoldThroughGains DEF IInv
<1> HIDE DEF g
<1>3. u \in Loops /\ u.generation = parameters.generation
  BY <1>1, HomingStep DEF IInv
<1>4. /\ u.homing = "searching" => ~u.hold
      /\ u.held = loop.held /\ u.appliedHoming = homingRequests
      /\ homingRequests = loop.appliedHoming /\ PositionMode =>
            (u.hold <=> g.hold) /\ u.homing = g.homing
  BY <1>1, <1>2, HoldThroughHoming DEF IInv
<1> HIDE DEF u
<1>5. PICK stalled \in BOOLEAN :
        loop' = IF PositionMode
                THEN [PositionTorque(u, stalled) EXCEPT !.seen = setpoint.position]
                ELSE [u EXCEPT !.seen = NoPosition]
  BY DEF Step, u, g
<1>6. CASE ~PositionMode
  BY <1>3, <1>4, <1>5, <1>6 DEF HoldInv, Loops
<1>7. CASE PositionMode
  <2> DEFINE r == PositionTorque(u, stalled)
  <2>1. CASE u.homing = "searching"
    <3> DEFINE n == IF stalled THEN u.blocked + 1 ELSE 0
    <3>1. r = IF n < BlockSteps THEN [u EXCEPT !.blocked = n]
              ELSE [u EXCEPT !.blocked = n, !.home = "stop", !.homing = "done",
                             !.hold = TRUE, !.held = setpoint.position]
      BY <2>1 DEF PositionTorque, SearchHome
    <3> HIDE DEF n
    <3>2. loop' = [r EXCEPT !.seen = setpoint.position]
      BY <1>5, <1>7
    <3> HIDE DEF r
    <3>3. HoldInv'
      BY <1>3, <1>4, <2>1, <3>1, <3>2 DEF HoldInv, Loops
    <3>4. loop'.generation = parameters.generation /\ loop'.appliedHoming = homingRequests
      BY <1>3, <1>4, <3>1, <3>2 DEF Loops
    <3>5. ~(loop.hold /\ parameters.generation = loop.generation
            /\ homingRequests = loop.appliedHoming)
      BY <1>2, <1>4, <1>7, <2>1
    <3> QED
      BY <3>3, <3>4, <3>5
  <2>2. CASE u.homing # "searching"
    <3>1. r = [u EXCEPT !.hold = @ /\ setpoint.position = u.held]
      BY <2>2 DEF PositionTorque
    <3>2. loop' = [r EXCEPT !.seen = setpoint.position]
      BY <1>5, <1>7
    <3> HIDE DEF r
    <3>3. /\ loop'.hold <=> u.hold /\ setpoint.position = u.held
          /\ loop'.seen = setpoint.position /\ loop'.held = u.held
          /\ loop'.homing = u.homing /\ loop'.generation = parameters.generation
          /\ loop'.appliedHoming = homingRequests
      BY <1>3, <1>4, <3>1, <3>2 DEF Loops
    <3> QED
      BY <1>2, <1>4, <1>7, <2>2, <3>3 DEF HoldInv
  <2> QED
    BY <2>1, <2>2
<1> QED
  BY <1>6, <1>7

LEMMA DriveKeeps == IInv /\ Drive => IInv'
<1> SUFFICES ASSUME IInv, Drive
             PROVE  IInv'
  OBVIOUS
<1> USE OuterLoopAssumption
<1>1. loop' = loop
  BY DEF Drive, OnSetpoint, Engage, Disengage, SetSetpoint, StartHoming, WriteGains,
         CountGains, InitLoop
<1>2. HomeKnown' /\ BlockInv'
  BY <1>1 DEF IInv, HomeKnown, BlockInv
<1>3. /\ \A c \in Counts : Counted(c, CountModulus) \in Counts
      /\ \A c \in GainsCounts : Counted(c, GainsModulus) \in GainsCounts
  BY CountedMoves DEF Counts, GainsCounts
<1>4. CASE OnSetpoint \/ Engage \/ Disengage \/ SetSetpoint
  <2>1. UNCHANGED <<parameters, gains, gainsGeneration, counting, newest, homingRequests>>
    BY <1>4 DEF OnSetpoint, Engage, Disengage, SetSetpoint, handVars
  <2>2. NoSetpoint \in Setpoints /\ NoSetpoint.mode # "position"
    BY DEF NoSetpoint, Setpoints, Modes
  <2>3. /\ engaged' \in BOOLEAN /\ drive' \in Setpoints /\ setpoint' \in Setpoints
        /\ SetpointInv'
    <3>1. CASE OnSetpoint
      <4>1. \A p \in Positions :
              LET d == [NoSetpoint EXCEPT !.mode = "position", !.position = p]
              IN  d \in Setpoints /\ d.position \in Positions
        BY DEF NoSetpoint, Setpoints, Modes
      <4> QED
        BY <2>2, <3>1, <4>1 DEF OnSetpoint, IInv, TypeOK, SetpointInv
    <3>2. CASE Engage \/ Disengage
      BY <2>2, <3>2 DEF Engage, Disengage, SetpointInv
    <3>3. CASE SetSetpoint
      BY <3>3 DEF SetSetpoint, IInv, TypeOK, SetpointInv, Setpoints
    <3> QED
      BY <1>4, <3>1, <3>2, <3>3
  <2>4. TypeOK'
    BY <1>1, <2>1, <2>3 DEF IInv, TypeOK
  <2>5. HandInv'
    BY <1>1, <2>1 DEF IInv, HandInv, Counted
  <2> QED
    BY <1>2, <2>3, <2>4, <2>5 DEF IInv
<1>5. CASE StartHoming
  BY <1>1, <1>2, <1>3, <1>5
  DEF StartHoming, driveVars, handVars, IInv, TypeOK, SetpointInv, HandInv
<1>6. CASE WriteGains
  BY <1>1, <1>2, <1>6
  DEF WriteGains, driveVars, IInv, TypeOK, SetpointInv, HandInv
<1>7. CASE CountGains
  BY <1>1, <1>2, <1>3, <1>7
  DEF CountGains, driveVars, IInv, TypeOK, SetpointInv, HandInv
<1>8. CASE InitLoop
  BY <1>1, <1>2, <1>3, <1>8
  DEF InitLoop, driveVars, IInv, TypeOK, SetpointInv, HandInv
<1> QED
  BY <1>4, <1>5, <1>6, <1>7, <1>8 DEF Drive

\* The strengthened invariant holds in every state.
THEOREM Inductive == Spec => []IInv
<1>1. IInv /\ [Next]_vars => IInv'
  <2>1. IInv /\ UNCHANGED vars => IInv'
    BY DEF vars, driveVars, handVars, IInv, TypeOK, SetpointInv, HandInv, BlockInv, HomeKnown
  <2> QED
    BY <2>1, StepKeeps, DriveKeeps DEF Next
<1> QED
  BY <1>1, InitIInv, PTL DEF Spec

\* Mailboxes, counters and the state of the control thread keep their types.
THEOREM TypeCorrect == Spec => []TypeOK
<1>1. IInv => TypeOK
  BY DEF IInv
<1> QED
  BY <1>1, Inductive, PTL

\* A reported or held home is a stop found since the last restart, and a run
\* searches in the position mode only, whatever the drive hands over meanwhile.
THEOREM HomeCorrect == Spec => []HomeKnown
<1>1. IInv => HomeKnown
  BY DEF IInv
<1> QED
  BY <1>1, Inductive, PTL

\* Every step outside of SetGains() works with the gains handed over last.
THEOREM GainsReach == Spec => GainsTaken
<1>1. IInv /\ [Next]_vars => [Step /\ ~counting => loop'.gains = newest]_vars
  BY StepKeeps
<1> QED
  BY <1>1, Inductive, PTL DEF Spec, GainsTaken

\* What a hold rests on, in every state.
LEMMA HoldInductive == Spec => []HoldInv
<1>1. Init => HoldInv
  BY DEF Init, HoldInv
<1>2. IInv /\ HoldInv /\ [Next]_vars => HoldInv'
  <2>1. Drive => loop' = loop
    BY DEF Drive, OnSetpoint, Engage, Disengage, SetSetpoint, StartHoming, WriteGains,
           CountGains, InitLoop
  <2>2. HoldInv /\ loop' = loop => HoldInv'
    BY DEF HoldInv
  <2>3. UNCHANGED vars => loop' = loop
    BY DEF vars
  <2> QED
    BY <2>1, <2>2, <2>3, HoldStep DEF Next
<1> QED
  BY <1>1, <1>2, Inductive, PTL DEF Spec

\* A loop that holds the home keeps it as long as the setpoint is the one of the step
\* before, whatever else the drive hands over, except for a restart or a new run.
THEOREM HomeHeld == Spec => HoldsHome
<1> DEFINE Keeps ==
      loop.hold /\ loop.seen # NoPosition /\ loop'.seen = loop.seen
        /\ loop'.generation = loop.generation
        /\ loop'.appliedHoming = loop.appliedHoming
        => loop'.hold
<1>1. IInv /\ HoldInv /\ [Next]_vars => [Keeps]_vars
  <2>1. Drive => loop' = loop
    BY DEF Drive, OnSetpoint, Engage, Disengage, SetSetpoint, StartHoming, WriteGains,
           CountGains, InitLoop
  <2>2. loop' = loop => Keeps
    OBVIOUS
  <2>3. IInv /\ HoldInv /\ Step => Keeps
    BY HoldStep
  <2> HIDE DEF Keeps
  <2> QED
    BY <2>1, <2>2, <2>3 DEF Next
<1> QED
  BY <1>1, Inductive, HoldInductive, PTL DEF Spec, HoldsHome
=============================================================================
