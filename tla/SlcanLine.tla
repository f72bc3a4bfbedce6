------------------------------ MODULE SlcanLine ------------------------------
(***************************************************************************)
(* The serial-line CAN adapter of the simulation (SlcanMedia,              *)
(* hardware/zephyr_sim/slcan_media.cpp): several pseudo terminals that     *)
(* form one bus with the node.  A character is modelled by the line it     *)
(* belongs to, its place in it and the length of the line; a frame is one  *)
(* of Frames, and every frame has a line of FrameLength characters.  The   *)
(* terminal takes any number of the characters it is offered.              *)
(***************************************************************************)
EXTENDS Integers, Sequences, FiniteSets, SequencesExt

CONSTANTS
  Ports,          \* the pseudo terminals, by number
  Frames,         \* the contents of frames
  FrameLength,    \* characters of a frame's line; kMaxFrameText at most
  MaxLine,        \* kMaxLine
  RxLength,       \* kRxQueueLength
  MaxCharsPerPop  \* kMaxCharsPerPop

ASSUME SlcanAssumption ==
  /\ Ports \subseteq Nat /\ IsFiniteSet(Ports)
  /\ {FrameLength, MaxLine, RxLength, MaxCharsPerPop} \subseteq Nat \ {0}
  /\ FrameLength <= MaxLine

VARIABLES
  port,     \* ports_: per port, open, line_length, line_overflow, pending, and
            \* sent, the length of the line the host is sending
  rx,       \* rx_: the ring of received frames
  head,     \* rx_head_
  count,    \* rx_count_
  popping,  \* where Pop() is: the port polled, and the characters read of it
  seen,     \* per port, the last character its host got, or none
  cut,      \* ports whose host got a part of a line, or a line out of nowhere
  expected, \* the frames the hosts sent, in the order completed, not yet popped
  wrong     \* a popped frame is not the oldest one the hosts sent, or a line
            \* was handled that the host did not send as such

slVars == <<port, rx, head, count, popping, seen, cut, expected, wrong>>

Line(what, n) == [k \in 1 .. n |-> [what |-> what, at |-> k, of |-> n]]
NoFrame == "none"
Reply == Line("reply", 1)   \* kOk or kError: one character

(* Pop() is at the port number at, whose rest was flushed, and has read    *)
(* chars characters of it.                                                 *)
Idle == [at |-> -1, flushed |-> FALSE, chars |-> 0]
Polling(k) == [at |-> k, flushed |-> FALSE, chars |-> 0]

SlTypeOK ==
  /\ \A p \in Ports :
       /\ port[p].open \in BOOLEAN /\ port[p].overflow \in BOOLEAN
       /\ port[p].length \in 0 .. MaxLine
       /\ Len(port[p].pending) <= MaxLine
  /\ rx \in [0 .. RxLength - 1 -> Frames \cup {NoFrame}]
  /\ head \in 0 .. RxLength - 1
  /\ count \in 0 .. RxLength

SlInit ==
  /\ port = [p \in Ports |-> [open |-> FALSE, length |-> 0, overflow |-> FALSE,
                              pending |-> <<>>, sent |-> 0]]
  /\ rx = [k \in 0 .. RxLength - 1 |-> NoFrame]
  /\ head = 0
  /\ count = 0
  /\ popping = Idle
  /\ seen = [p \in Ports |-> [what |-> "reply", at |-> 1, of |-> 1]]
  /\ cut = {}
  /\ expected = <<>>
  /\ wrong = FALSE

---------------------------------------------------------------------------
(* What a host sees of the characters that follow the last one it got.     *)
Continues(last, c) ==
  IF last.at = last.of THEN c.at = 1
  ELSE c.what = last.what /\ c.of = last.of /\ c.at = last.at + 1

(* The characters of a port's line that reached the host: sequence out.    *)
Broken(last, out) ==
  \E k \in 1 .. Len(out) : ~Continues(IF k = 1 THEN last ELSE out[k - 1], out[k])

AtMost(n, text) == IF n > Len(text) THEN Len(text) ELSE n

(* Flush(): the pending rest goes first; n characters of it are taken.     *)
FlushTakes(pending, n) == [rest |-> SubSeq(pending, n + 1, Len(pending)),
                           out |-> SubSeq(pending, 1, n)]

(* A slip: a rest that did not go out does not keep the next line back.    *)
WriteLine_Anyway(pending, text, n, m) ==
  LET flushed == FlushTakes(pending, n)
  IN  IF text = <<>> THEN [out |-> <<>>, rest |-> pending]
      ELSE [out |-> flushed.out \o SubSeq(text, 1, m),
            rest |-> flushed.rest \o (IF m = 0 THEN <<>> ELSE SubSeq(text, m + 1, Len(text)))]

(* Write(): while a rest is pending the line is dropped whole, and so is a *)
(* line of which nothing goes out; otherwise the rest of it stays pending, *)
(* as much as the buffer holds.                                            *)
WriteLine(pending, text, n, m) ==
  LET flushed == FlushTakes(pending, n)
      rest == SubSeq(text, m + 1, Len(text))
  IN  IF text = <<>> THEN [out |-> <<>>, rest |-> pending]
      ELSE IF flushed.rest # <<>> THEN flushed
      ELSE [out |-> flushed.out \o SubSeq(text, 1, m),
            rest |-> IF m = 0 THEN <<>> ELSE SubSeq(rest, 1, AtMost(MaxLine, rest))]

(* How much the terminals take: of the rest, then of the line.             *)
Taken == [Ports -> (0 .. FrameLength - 1) \X (0 .. FrameLength)]

(* The ports after text[p] is written to every port p.                     *)
Written(ports, text, taken) ==
  LET done == [p \in Ports |->
                 WriteLine(ports[p].pending, text[p],
                           AtMost(taken[p][1], ports[p].pending), AtMost(taken[p][2], text[p]))]
  IN  /\ port' = [p \in Ports |-> [ports[p] EXCEPT !.pending = done[p].rest]]
      /\ cut' = cut \cup {p \in Ports : Broken(seen[p], done[p].out)}
      /\ seen' = [p \in Ports |-> IF done[p].out = <<>> THEN seen[p] ELSE Last(done[p].out)]

(* Send(): a frame for a closed port is dropped.                           *)
SentTo(ports, p, frame) == IF ports[p].open THEN Line(frame, FrameLength) ELSE <<>>

(* Push(): the node sends a frame to every port.                           *)
PushFrame(frame) ==
  /\ popping = Idle
  /\ \E taken \in Taken : Written(port, [p \in Ports |-> SentTo(port, p, frame)], taken)
  /\ UNCHANGED <<rx, head, count, popping, expected, wrong>>

---------------------------------------------------------------------------
(* Pop(): the ports are polled in order, then the oldest frame is taken.   *)
BeginPop ==
  /\ popping = Idle
  /\ popping' = Polling(0)
  /\ UNCHANGED <<port, rx, head, count, seen, cut, expected, wrong>>

AtPort(p) == popping.at = Cardinality({q \in Ports : q < p})

(* ParseLine(): a line opens or closes the port, carries a frame (it is at *)
(* least as long as the frame's), is answered or is ignored.               *)
LineResults(length) ==
  [open : {"keep", "open", "close"}, frame : {NoFrame}, reply : {Reply}]
    \cup [open : {"keep"}, frame : {NoFrame}, reply : {<<>>}]
    \cup (IF length < FrameLength - 1 THEN {}
          ELSE [open : {"keep"}, frame : Frames, reply : {<<>>}])

(* The ports after the complete line of port p.                            *)
Opened(p, result) ==
  [port EXCEPT ![p].open = IF result.open = "keep" THEN @ ELSE result.open = "open",
               ![p].length = 0, ![p].overflow = FALSE, ![p].sent = 0]

(* Complete(): the open state, the reply, the received frame and its way   *)
(* to the other ports.                                                     *)
Complete(p, result, taken) ==
  LET ports == Opened(p, result)
      text == [q \in Ports |-> IF q = p THEN result.reply
                               ELSE IF result.frame = NoFrame THEN <<>>
                               ELSE SentTo(ports, q, result.frame)]
  IN  /\ Written(ports, text, taken)
      /\ IF result.frame = NoFrame
         THEN UNCHANGED <<rx, count, expected>>
         ELSE /\ rx' = [rx EXCEPT ![(head + count) % RxLength] = result.frame]
              /\ count' = count + 1
              /\ expected' = Append(expected, result.frame)
      /\ wrong' = (wrong \/ port[p].length # port[p].sent)
      /\ UNCHANGED head

(* Poll() goes on while it may read and the ring has room.                 *)
MayRead == popping.chars < MaxCharsPerPop /\ count < RxLength

(* Poll() begins with the rest of the line the port was writing.           *)
BeginPoll(p) ==
  /\ AtPort(p) /\ ~popping.flushed
  /\ popping' = [popping EXCEPT !.flushed = TRUE]
  /\ \E n \in 0 .. Len(port[p].pending) :
       LET flushed == FlushTakes(port[p].pending, n)
       IN  /\ port' = [port EXCEPT ![p].pending = flushed.rest]
           /\ cut' = IF Broken(seen[p], flushed.out) THEN cut \cup {p} ELSE cut
           /\ seen' = [seen EXCEPT ![p] = IF n = 0 THEN @ ELSE Last(flushed.out)]
  /\ UNCHANGED <<rx, head, count, expected, wrong>>

(* Poll(): one character of a line, dropped once the buffer is full.       *)
ReadChar(p) ==
  /\ AtPort(p) /\ popping.flushed /\ MayRead
  /\ port[p].sent <= MaxLine
  /\ port' = [port EXCEPT ![p].sent = @ + 1,
                          ![p].length = IF @ < MaxLine THEN @ + 1 ELSE @,
                          ![p].overflow = @ \/ port[p].length = MaxLine]
  /\ popping' = [popping EXCEPT !.chars = @ + 1]
  /\ UNCHANGED <<rx, head, count, seen, cut, expected, wrong>>

(* Poll(): the end of a line.  An overlong line is dropped.                *)
ReadEnd(p) ==
  /\ AtPort(p) /\ popping.flushed /\ MayRead
  /\ popping' = [popping EXCEPT !.chars = @ + 1]
  /\ IF ~port[p].overflow /\ port[p].length > 0
     THEN \E result \in LineResults(port[p].length), taken \in Taken :
            Complete(p, result, taken)
     ELSE /\ port' = [port EXCEPT ![p].length = 0, ![p].overflow = FALSE, ![p].sent = 0]
          /\ UNCHANGED <<rx, head, count, seen, cut, expected, wrong>>

(* The next port: the host has no more to say, or Poll() has read enough.  *)
NextPort(p) ==
  /\ AtPort(p) /\ popping.flushed
  /\ popping' = Polling(popping.at + 1)
  /\ UNCHANGED <<port, rx, head, count, seen, cut, expected, wrong>>

EndPop ==
  /\ popping.at = Cardinality(Ports)
  /\ popping' = Idle
  /\ IF count = 0 THEN UNCHANGED <<rx, head, count, expected, wrong>>
     ELSE /\ wrong' = (wrong \/ rx[head] # Head(expected))
          /\ expected' = Tail(expected)
          /\ head' = (head + 1) % RxLength
          /\ count' = count - 1
          /\ rx' = [rx EXCEPT ![head] = NoFrame]   \* never read again
  /\ UNCHANGED <<port, seen, cut>>

SlNext ==
  \/ \E frame \in Frames : PushFrame(frame)
  \/ BeginPop
  \/ \E p \in Ports : BeginPoll(p) \/ ReadChar(p) \/ ReadEnd(p) \/ NextPort(p)
  \/ EndPop

SlSpec == SlInit /\ [][SlNext]_slVars

---------------------------------------------------------------------------

(* "A reader that falls behind loses whole frames, as on an overloaded bus, *)
(* never a part of a line" (slcan_media.hpp): every host gets a sequence of *)
(* whole lines, whatever the terminals take and when; in the other          *)
(* direction the node pops the frames of all hosts in the order they were   *)
(* completed, none lost to the ring and none from a line cut at MaxLine.    *)
LinesWhole == cut = {} /\ ~wrong
=============================================================================
