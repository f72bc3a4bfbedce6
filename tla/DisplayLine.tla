----------------------------- MODULE DisplayLine -----------------------------
(***************************************************************************)
(* The requests of the e-bike display: kunteng::DisplayDecoder             *)
(* (lib/ebike/src/kunteng_protocol.hpp) behind                             *)
(* EbikeControl::ServiceDisplay() (src/ebike/ebike_control.cpp).           *)
(*                                                                         *)
(* The decoder finds frames in a stream of bytes by their end bytes and by *)
(* a checksum whose constant (the seed) depends on the display.  A frame   *)
(* is shortened to <<level, checksum, marker, end>> with bytes of two      *)
(* bits; the level of a request is what the control uses of it.  Frames    *)
(* may be corrupt in any number of bytes, the controller may start in the  *)
(* middle of one, the display may go off in the middle of one.             *)
(***************************************************************************)
EXTENDS Integers, Sequences

CONSTANTS
    DefaultSeed,    \* kDefaultChecksumSeed
    MaxSeed,        \* kMaxChecksumSeed
    DisplayTimeout, \* display_timeout in frame periods
    DisplaySeeds,   \* seeds of the displays on the market
    MaxCorrupt      \* bound: corrupt frames

VARIABLES
    displayOn, displaySeed, \* environment: the display, and the seed of its firmware
    sentLevel,              \* environment: level of the frame on the line
    bytesSent,               \* environment: bytes of that frame sent
    corrupt,                \* environment: the frame on the line is corrupt
    corrupted,              \* environment: corrupt frames so far
    decoder,                \* DisplayDecoder
    lastRequest, displayAlive, \* request_, display_alive_
    quiet,                  \* frame periods since last_request_us_
    unheard                 \* history: frames begun since the display's last request, up to two

displayVars == <<displayOn, displaySeed, sentLevel, bytesSent, corrupt, corrupted, decoder,
                 lastRequest, displayAlive, quiet, unheard>>

Bytes == 0..3
Marker == 2
EndByte == 3
Levels == {0, 1}
FrameSize == 4

\* kSeedFrames
SeedFrames == 2

ASSUME DisplayAssumption ==
    /\ DefaultSeed \in 0..MaxSeed /\ MaxSeed \in Bytes
    /\ DisplaySeeds \subseteq 0..MaxSeed
    /\ {DisplayTimeout, MaxCorrupt} \subseteq Nat

\* The xor of two bytes, bit by bit.
Xor(a, b) == ((a + b) % 2) + 2 * (((a \div 2) + (b \div 2)) % 2)

\* XorExcept() with the checksum itself: the xor of all bytes of the window.
SeedOf(window) == Xor(Xor(window[1], window[2]), Xor(window[3], window[4]))

\* EncodeDisplayRequest()
DisplayFrame(level, seed) ==
    <<level, Xor(Xor(level, Marker), Xor(EndByte, seed)), Marker, EndByte>>

DisplayInit ==
    /\ displayOn \in BOOLEAN /\ displaySeed \in DisplaySeeds
    /\ sentLevel \in Levels /\ bytesSent \in 0..(FrameSize - 1)
    /\ corrupt = FALSE /\ corrupted = 0
    /\ decoder = [window |-> <<0, 0, 0, 0>>, count |-> 0, seed |-> DefaultSeed,
                  candidate |-> 0, candidates |-> 0]
    /\ lastRequest = 0 /\ displayAlive = FALSE /\ quiet = 0 /\ unheard = 2

-----------------------------------------------------------------------------
(* The decoder                                                             *)

\* A frame with another seed: two in a row with the same one change the seed.
LearnSeed(d, seed) ==
    IF seed > MaxSeed THEN [d EXCEPT !.candidates = 0]
    ELSE LET seen == IF seed = d.candidate /\ d.candidates > 0
                     THEN d.candidates + 1 ELSE 1
         IN  IF seen >= SeedFrames
             THEN [d EXCEPT !.candidate = seed, !.candidates = 0, !.seed = seed]
             ELSE [d EXCEPT !.candidate = seed, !.candidates = seen]

HasEndMarker(window) == window[3] = Marker /\ window[4] = EndByte

\* Mutant: a request leaves the candidate from before in place.
Push_KeepsCandidate(d, byte) ==
    LET moved == [d EXCEPT !.window = Append(Tail(@), byte),
                           !.count = IF @ < FrameSize THEN @ + 1 ELSE @]
        seed == SeedOf(moved.window)
        learned == IF seed = d.seed THEN moved ELSE LearnSeed(moved, seed)
        accepted == seed = learned.seed
    IN  IF moved.count < FrameSize \/ ~HasEndMarker(moved.window)
        THEN [decoder |-> moved, accepted |-> FALSE]
        ELSE [decoder |-> IF accepted
                          THEN [learned EXCEPT !.count = 0]
                          ELSE learned,
              accepted |-> accepted]

\* Push(): whether the byte completes a valid frame, and the decoder after it.
Push(d, byte) ==
    LET moved == [d EXCEPT !.window = Append(Tail(@), byte),
                           !.count = IF @ < FrameSize THEN @ + 1 ELSE @]
        seed == SeedOf(moved.window)
        learned == IF seed = d.seed THEN moved ELSE LearnSeed(moved, seed)
        accepted == seed = learned.seed
    IN  IF moved.count < FrameSize \/ ~HasEndMarker(moved.window)
        THEN [decoder |-> moved, accepted |-> FALSE]
        ELSE [decoder |-> IF accepted
                          THEN [learned EXCEPT !.count = 0, !.candidates = 0]
                          ELSE learned,
              accepted |-> accepted]

\* Decode()
DecodedLevel(window) == window[1]

-----------------------------------------------------------------------------
(* The line and the service of it                                          *)

\* Mutant: a silent display stays alive.
Silence_NeverDead(periods) ==
    /\ quiet' = IF quiet < DisplayTimeout THEN quiet + periods ELSE quiet
    /\ UNCHANGED displayAlive

\* The end of ServiceDisplay() without a request.
Silence(periods) ==
    /\ quiet' = IF quiet < DisplayTimeout THEN quiet + periods ELSE quiet
    /\ displayAlive' = (displayAlive /\ quiet' < DisplayTimeout)

\* A byte of the line through ServiceDisplay().
ServiceByte(byte) ==
    LET pushed == Push(decoder, byte)
    IN  /\ decoder' = pushed.decoder
        /\ IF pushed.accepted
           THEN /\ lastRequest' = DecodedLevel(pushed.decoder.window)
                /\ displayAlive' = TRUE /\ quiet' = 0
           ELSE /\ Silence(IF bytesSent = FrameSize - 1 THEN 1 ELSE 0)
                /\ UNCHANGED lastRequest
        /\ unheard' = CASE pushed.accepted /\ ~corrupt /\ bytesSent = FrameSize - 1 -> 0
                        [] bytesSent = 0 /\ unheard < 2 -> unheard + 1
                        [] OTHER -> unheard

\* The display sends the next byte; at the end of a frame it chooses the next one.
DisplayByte ==
    /\ displayOn
    /\ \E byte \in IF corrupt THEN Bytes
                  ELSE {DisplayFrame(sentLevel, displaySeed)[bytesSent + 1]} :
        ServiceByte(byte)
    /\ bytesSent' = (bytesSent + 1) % FrameSize
    /\ IF bytesSent' = 0
       THEN /\ sentLevel' \in Levels
            /\ corrupt' \in IF corrupted < MaxCorrupt THEN BOOLEAN ELSE {FALSE}
            /\ corrupted' = IF corrupt' THEN corrupted + 1 ELSE corrupted
       ELSE UNCHANGED <<sentLevel, corrupt, corrupted>>
    /\ UNCHANGED <<displayOn, displaySeed>>

\* The line stays idle for a frame period.
QuietPeriod ==
    /\ ~displayOn
    /\ Silence(1)
    /\ UNCHANGED <<displayOn, displaySeed, sentLevel, bytesSent, corrupt, corrupted, decoder,
                   lastRequest, unheard>>

SwitchDisplay ==
    /\ displayOn' = ~displayOn
    /\ bytesSent' = 0 /\ corrupt' = FALSE
    /\ UNCHANGED <<displaySeed, sentLevel, corrupted, decoder, lastRequest, displayAlive, quiet,
                   unheard>>

DisplayNext == DisplayByte \/ QuietPeriod \/ SwitchDisplay

\* A display that is on polls, time passes, and Update() services the line.
DisplayFairness == WF_displayVars(DisplayByte) /\ WF_displayVars(QuietPeriod)

DisplaySpec == DisplayInit /\ [][DisplayNext]_displayVars /\ DisplayFairness

-----------------------------------------------------------------------------
(* Properties                                                              *)

\* "adopts another constant only after two frames in a row show the same one, so a
\* single corrupt frame cannot change it": after a request of the display one corrupt
\* frame leaves the seed alone, whatever it is made of, even if parts of it pass for
\* requests of their own, and wherever the display is switched off and on.
SeedKept == [][decoder'.seed # decoder.seed => unheard = 2]_displayVars

\* "also resynchronizes after noise or a start in the middle of a frame": a display
\* that goes on polling is heard, and a silent one counts as level 0.
DisplayFollowed ==
    /\ SeedKept
    /\ <>[]displayOn => <>[]displayAlive
    /\ <>[]~displayOn => <>[]~displayAlive
=============================================================================
