--------------------------- MODULE MCCycleHardware ---------------------------
(***************************************************************************)
(* What surrounds the control cycle, on small instances: the duty pipeline *)
(* of the STM32G4, the queue and the fusion of the Hall codes, the timing     *)
(* statistics, the multi-turn angle, the controllers of the outer loop,    *)
(* the simulated platform, and the edge capture of the display line.  The  *)
(* parts share no state; a behaviour is one of the part it starts in.      *)
(***************************************************************************)
EXTENDS DutyPipeline, EdgeUart, HallQueue, HallFusion, TimingProbe, RotorAngle, SpeedLoop, SimCycle

VARIABLE part

mcVars == <<part, dutyVars, hallQueueVars, probeVars, angleVars, loopVars, simVars,
            uartVars, hallVars>>

MCSpeeds == {-2, 0, 1}
MCSpeedSetpoints == {-2, 2}
MCCurrents == {-9, 6}
MCSpeedMin == -2
MCLimits == {<<4, 4>>, <<2, 0>>}

MCInit ==
  /\ part \in {"duty", "queue", "probe", "angle", "loop", "sim", "uart", "fusion"}
  /\ DutyInit /\ QueueInit /\ ProbeInit /\ AngleInit /\ LoopInit /\ SimInit
  /\ UartInit /\ FusionInit
  /\ part # "queue" => sensors = 1
  /\ part # "angle" => rotor = 0

MCNext ==
  \/ /\ part = "duty" /\ DutyNext
     /\ UNCHANGED <<part, hallQueueVars, probeVars, angleVars, loopVars, simVars, uartVars, hallVars>>
  \/ /\ part = "queue" /\ QueueNext
     /\ UNCHANGED <<part, dutyVars, probeVars, angleVars, loopVars, simVars, uartVars, hallVars>>
  \/ /\ part = "probe" /\ ProbeNext
     /\ UNCHANGED <<part, dutyVars, hallQueueVars, angleVars, loopVars, simVars, uartVars, hallVars>>
  \/ /\ part = "angle" /\ AngleNext
     /\ UNCHANGED <<part, dutyVars, hallQueueVars, probeVars, loopVars, simVars, uartVars, hallVars>>
  \/ /\ part = "loop" /\ LoopNext
     /\ UNCHANGED <<part, dutyVars, hallQueueVars, probeVars, angleVars, simVars, uartVars, hallVars>>
  \/ /\ part = "sim" /\ SimNext
     /\ UNCHANGED <<part, dutyVars, hallQueueVars, probeVars, angleVars, loopVars, uartVars, hallVars>>
  \/ /\ part = "uart" /\ UartNext
     /\ UNCHANGED <<part, dutyVars, hallQueueVars, probeVars, angleVars, loopVars, simVars, hallVars>>
  \/ /\ part = "fusion" /\ FusionNext
     /\ UNCHANGED <<part, dutyVars, hallQueueVars, probeVars, angleVars, loopVars, simVars, uartVars>>
  \* What follows a disturbance of the line is not followed.
  \/ part = "uart" /\ disturbed /\ UNCHANGED mcVars

\* The observer interrupt wakes the control thread of the outer loop again and again.
MCSpec ==
  /\ MCInit /\ [][MCNext]_mcVars
  /\ WF_mcVars(/\ part = "loop" /\ Step
               /\ UNCHANGED <<part, dutyVars, hallQueueVars, probeVars, angleVars, simVars, uartVars, hallVars>>)

\* An event of the queue shows another code than the one before.
Changing == \E i \in 1..Len(queue) :
    queue[i].code # (IF i = 1 THEN code ELSE queue[i - 1].code)

\* States of the fusion that differ only in what no step reads any more are one: all but
\* the rotor once an event was dropped, and the age of the last change while no code is
\* shown or a later change is queued.
FusionView ==
    IF dropped THEN <<sector, blind, past>>
    ELSE <<sector, blind, past, still, queue, code, valid, started, due, half, gap, late, wrong,
           IF Changing \/ code = None THEN 0 ELSE lastChange>>

MCView == <<part, dutyVars, hallQueueVars, probeVars, angleVars, loopVars, simVars,
            uartVars, FusionView>>
=============================================================================
