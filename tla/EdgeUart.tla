------------------------------ MODULE EdgeUart ------------------------------
(***************************************************************************)
(* Serial bytes of the display rebuilt from stamped edges: the capture     *)
(* interrupt and ReadDisplay() (hardware/zephyr_bcc/ebike_io.cpp) with the *)
(* EdgeUartDecoder (lib/ebike/src/edge_uart_decoder.hpp).                  *)
(*                                                                         *)
(* Bytes have DataBits bits and the counter TickModulus values.  The       *)
(* thread empties the queue of edges and then reads the counter for        *)
(* Poll(); it can be preempted between the two, and edges go on coming.    *)
(***************************************************************************)
EXTENDS Integers, Sequences

CONSTANTS
    DataBits,       \* 8
    BitTicks,       \* ticks_per_bit_
    TickModulus,    \* values of the counter (2^32)
    EdgeQueueSize,  \* entries of g_display_edges
    FifoSize,       \* kFifoSize
    ReadGap         \* bound: lineTicks between two reads of the line

ASSUME EdgeUartAssumption ==
    /\ {DataBits, BitTicks, FifoSize, ReadGap} \subseteq Nat \ {0}
    /\ EdgeQueueSize \in Nat /\ EdgeQueueSize > 1
    /\ TickModulus \in Nat /\ 2 * (ReadGap + (DataBits + 2) * BitTicks) < TickModulus

VARIABLES
    lineTicks,          \* the counter
    sending,        \* environment: the byte on the line, as its bits, or <<>>
    phase,          \* environment: lineTicks since its start edge
    edges,          \* g_display_edges
    uart,           \* EdgeUartDecoder
    reading,        \* the thread is between the last Pop() and Poll()
    readGap,            \* lineTicks since the queue of edges was found empty
    expected,       \* history: bytes begun and not received, oldest first
    disturbed,      \* history: an edge or a byte was lost, or Poll() came half a bit late
    garbled         \* history: a byte was received that is not the one sent

uartVars == <<lineTicks, sending, phase, edges, uart, reading, readGap, expected, disturbed,
              garbled>>

StopBit == DataBits + 1
Payloads == [1..DataBits -> BOOLEAN]

\* Level of the line in bit k of a byte: start bit, data, stop bit.
LineLevel(byte, k) == k = StopBit \/ (k \in 1..DataBits /\ byte[k])

UartInit ==
    /\ lineTicks = 0
    /\ sending = <<>> /\ phase = 0 /\ edges = <<>>
    /\ uart = [level |-> TRUE, inFrame |-> FALSE, start |-> 0, bit |-> 0,
               data |-> [k \in 1..DataBits |-> FALSE], fifo |-> <<>>]
    /\ reading = FALSE /\ readGap = 0
    /\ expected = <<>> /\ disturbed = FALSE /\ garbled = FALSE

-----------------------------------------------------------------------------
(* The decoder                                                             *)

\* a - b > 0 as a signed number of the counter's width.
After(a, b) == LET d == (a - b) % TickModulus IN d > 0 /\ 2 * d < TickModulus

SampleAt(u, k) == (u.start + ((2 * k + 1) * BitTicks) \div 2) % TickModulus

\* One sample: start bit (or glitch), data bit, stop bit (byte, or framing error;
\* Store() drops a byte when the FIFO is full).
SampleBit(u) ==
    IF u.bit = 0 THEN [u EXCEPT !.inFrame = ~u.level, !.bit = IF u.level THEN 0 ELSE 1]
    ELSE IF u.bit < StopBit THEN [u EXCEPT !.data[u.bit] = u.level, !.bit = @ + 1]
    ELSE [u EXCEPT !.inFrame = FALSE,
                   !.fifo = IF u.level /\ Len(@) < FifoSize THEN Append(@, u.data) ELSE @]

\* The next sample, if it is due.
SampleDue(u, until) ==
    IF u.inFrame /\ After(until, SampleAt(u, u.bit)) THEN SampleBit(u) ELSE u

\* SampleUntil(): the samples that are due, at most one per bit.
SampleUntil(u, until) ==
    LET sampled[n \in 0..(StopBit + 1)] ==
            IF n = 0 THEN u ELSE SampleDue(sampled[n - 1], until)
    IN  sampled[StopBit + 1]

\* Mutant: the edge takes the new level before the samples that lie before it.
PushEdge_LevelFirst(u, edge) ==
    LET sampled == SampleUntil([u EXCEPT !.level = edge.level], edge.lineTicks)
    IN  IF ~sampled.inFrame /\ u.level /\ ~edge.level
        THEN [sampled EXCEPT !.inFrame = TRUE, !.start = edge.lineTicks, !.bit = 0,
                             !.data = [k \in 1..DataBits |-> FALSE]]
        ELSE sampled

PushEdge(u, edge) ==
    LET sampled == SampleUntil(u, edge.lineTicks)
        moved == [sampled EXCEPT !.level = edge.level]
    IN  IF ~sampled.inFrame /\ sampled.level /\ ~edge.level
        THEN [moved EXCEPT !.inFrame = TRUE, !.start = edge.lineTicks, !.bit = 0,
                           !.data = [k \in 1..DataBits |-> FALSE]]
        ELSE moved

\* The decoder after the queued edges.
PushEdges(u, queued) ==
    LET pushed[n \in 0..Len(queued)] ==
            IF n = 0 THEN u ELSE PushEdge(pushed[n - 1], queued[n])
    IN  pushed[Len(queued)]

-----------------------------------------------------------------------------
(* The line and its interrupt                                              *)

\* DisplayEdgeIsr(): the edge is stamped and queued, or lost.
PushQueue(level, stamp) ==
    IF Len(edges) = EdgeQueueSize - 1 THEN edges
    ELSE Append(edges, [lineTicks |-> stamp, level |-> level])

\* The display begins a byte on the idle line.
BeginByte ==
    /\ sending = <<>> /\ Len(expected) <= FifoSize
    /\ sending' \in Payloads /\ phase' = 0
    /\ expected' = Append(expected, sending')
    /\ edges' = PushQueue(FALSE, lineTicks)
    /\ disturbed' = (disturbed \/ Len(expected) = FifoSize \/ Len(edges') = Len(edges))
    /\ UNCHANGED <<lineTicks, uart, reading, readGap, garbled>>

\* The counter goes on, and the line with it.
LineTick ==
    LET next == (phase + 1) \div BitTicks
        edge == sending # <<>> /\ next <= StopBit
                    /\ LineLevel(sending, next) # LineLevel(sending, phase \div BitTicks)
    IN  /\ readGap < ReadGap
        /\ lineTicks' = (lineTicks + 1) % TickModulus
        /\ readGap' = readGap + 1
        /\ IF sending = <<>> \/ next > StopBit
           THEN sending' = <<>> /\ phase' = 0
           ELSE sending' = sending /\ phase' = phase + 1
        /\ IF edge
           THEN /\ edges' = PushQueue(LineLevel(sending, next), lineTicks')
                /\ disturbed' = (disturbed \/ Len(edges') = Len(edges))
           ELSE UNCHANGED <<edges, disturbed>>
        /\ UNCHANGED <<uart, reading, expected, garbled>>

-----------------------------------------------------------------------------
(* ReadDisplay()                                                           *)

\* Every queued edge goes through the decoder ...
PopEdges ==
    /\ ~reading
    /\ uart' = PushEdges(uart, edges)
    /\ edges' = <<>> /\ readGap' = 0 /\ reading' = TRUE
    /\ UNCHANGED <<lineTicks, sending, phase, expected, disturbed, garbled>>

\* ... then Poll() with the counter as it is by now, and the bytes are taken.
PollLine ==
    LET polled == SampleUntil(uart, lineTicks)
        got == Len(polled.fifo)
    IN  /\ reading
        /\ uart' = [polled EXCEPT !.fifo = <<>>]
        /\ garbled' = (garbled \/ got > Len(expected)
                        \/ SubSeq(expected, 1, got) # polled.fifo)
        /\ expected' = SubSeq(expected, got + 1, Len(expected))
        /\ disturbed' = (disturbed \/ readGap > BitTicks \div 2)
        /\ reading' = FALSE
        /\ UNCHANGED <<lineTicks, sending, phase, edges, readGap>>

\* What follows a disturbance is not followed: the decoder finds the next start edge
\* in the middle of a byte.
UartNext == ~disturbed /\ (BeginByte \/ LineTick \/ PopEdges \/ PollLine)

UartSpec == UartInit /\ [][UartNext]_uartVars

-----------------------------------------------------------------------------
(* Properties                                                              *)

\* "reconstructs the bytes in a thread": whenever the line is read, and wherever the
\* counter wraps, the bytes taken are the ones sent, in order - as long as no queue
\* overflows and Poll() is not preempted for more than half a bit.
BytesAsSent == garbled => disturbed
=============================================================================
