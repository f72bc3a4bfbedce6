------------------------------ MODULE Registers ------------------------------
(***************************************************************************)
(* Register writes over the bus: the values of uavcan.register.Access      *)
(* (lib/cyphal/register_value.cpp), their conversion to the fields of      *)
(* NvmSettings (src/drive/settings_register_provider.cpp) and the          *)
(* validation of the whole set (lib/settings/settings_store.hpp) by one    *)
(* write after the other, as a tool that loads a settings profile does.    *)
(*                                                                         *)
(* A field of each type and each limit that ties two fields together stand *)
(* for the others of their kind.  Numbers count halves, so that a real may *)
(* have a fraction; a byte and a port-ID have two bits.  A float has its    *)
(* steps: single ones up to Exact halves, then of two and of four, so that *)
(* there are fractions and whole numbers that no float holds.              *)
(***************************************************************************)
EXTENDS Integers, Sequences

CONSTANTS
    MaxTripVoltage,     \* max_dc_link_voltage of the hardware profile
    MaxCommandTimeout,  \* kMaxCommandTimeout
    MaxMode,            \* the largest control mode
    Exact,              \* up to here a float holds every number of halves (2^24)
    Reals               \* values of the float registers in a profile, in halves

\* The largest float
MaxFloat == 4 * Exact - 4

Size(x) == IF x < 0 THEN -x ELSE x

\* The numbers a float holds.
Floats == {x \in -MaxFloat..MaxFloat :
              \/ Size(x) < Exact
              \/ Size(x) < 2 * Exact /\ x % 2 = 0
              \/ x % 4 = 0}

ASSUME RegistersAssumption ==
    /\ Exact \in Nat /\ Exact >= 4 /\ Exact % 2 = 0
    /\ {MaxTripVoltage, MaxCommandTimeout} \subseteq Reals /\ Reals \subseteq Floats \cap Nat
    /\ MaxMode \in Nat
    \* The profile of the hardware admits the factory defaults.
    /\ MaxTripVoltage >= 4 /\ MaxCommandTimeout >= 2

MaxByte == 3
MaxPort == 3

\* kUnsetPortId
UnsetPort == MaxPort

VARIABLES
    live,       \* the live NvmSettings
    mismatch,   \* history: an accepted write did not read back as the nearest float
    target,     \* environment: the profile a tool loads
    position,   \* environment: the register the tool writes next, 0 before it begins
    passes      \* environment: how often the tool has written all registers

registerVars == <<live, mismatch, target, position, passes>>

-----------------------------------------------------------------------------
(* The fields                                                              *)

ModeFields == {"mode"}                          \* 8 bit enums
PortFields == {"setpointPort", "telemetryPort"} \* uint16_t
VoltageFields == {"derateStart", "trip"}        \* floats
TimeoutFields == {"commandTimeout", "cartTimeout"}

NvmSettings ==
    [mode : 0..MaxByte, setpointPort : 0..MaxPort, telemetryPort : 0..MaxPort,
     derateStart : Reals, trip : Reals, commandTimeout : Reals, cartTimeout : Reals]

\* ForEachRegister(): the registers in their order.
Registers ==
    <<"mode", "derateStart", "trip", "setpointPort", "telemetryPort", "commandTimeout",
      "cartTimeout">>

IsValidEnumValues(s) == s.mode <= MaxMode

HasPortIdCollision(s) == s.setpointPort # UnsetPort /\ s.setpointPort = s.telemetryPort

\* Validate()
Validate(s) ==
    /\ IsValidEnumValues(s)
    /\ s.derateStart > 0 /\ s.trip > s.derateStart /\ s.trip <= MaxTripVoltage
    /\ s.commandTimeout > 0 /\ s.commandTimeout <= MaxCommandTimeout
    /\ s.cartTimeout > 0 /\ s.cartTimeout <= s.commandTimeout
    /\ ~HasPortIdCollision(s)

-----------------------------------------------------------------------------
(* Values of the bus                                                       *)

\* A union of arrays: the first element of a number in halves, or none, not a number.
None == -100
NaN == -101
Infinite == -102
RegisterValues ==
    [tag : {"integer64"}, first : {None, -2, 0, 2, 6, 8, 10}]
    \cup [tag : {"natural64"}, first : {None, 0, 2, 6, 8, 10}]
    \cup [tag : {"natural16"}, first : {None, 0, 4, 6, 8}]
    \cup [tag : {"bit"}, first : {None, 0, 2}]
    \cup [tag : {"real64"}, first : {None, NaN, 0, 1, 2, 4, 5, 7, 40}]
    \cup [tag : {"string"}, first : {None}]

\* The multiple of step nearest to n, of two the one of the even count.
Rounded(n, step) ==
    LET up == 2 * (n % step) > step \/ (2 * (n % step) = step /\ (n \div step) % 2 = 1)
    IN IF up THEN (n - (n % step)) + step ELSE n - (n % step)

\* static_cast<float>: rounded to the step the floats have there.
Narrow(x) ==
    LET nearest == Rounded(Size(x), IF Size(x) < Exact THEN 1
                                    ELSE IF Size(x) < 2 * Exact THEN 2 ELSE 4)
    IN IF nearest > MaxFloat THEN Infinite ELSE IF x < 0 THEN -nearest ELSE nearest

\* GetNumber(): every number becomes a float.
GetNumber(v) ==
    IF v.tag = "string" THEN None
    ELSE IF v.first \in {None, NaN} THEN v.first ELSE Narrow(v.first)

\* GetInteger(): integers of 32 and 64 bits as they are, all others if the float is a
\* whole number.  Numbers of above 2^63 and 9e15, which have none, fit no field.
GetInteger(v) ==
    LET number == IF v.tag \in {"integer64", "natural64"} THEN v.first ELSE GetNumber(v)
    IN IF number \in {None, NaN, Infinite} \/ number % 2 # 0 THEN None ELSE number \div 2

\* Mutant: the number is cut to the width of the field.
ToInteger_Cut(v, max) ==
    IF GetInteger(v) = None \/ GetInteger(v) < 0 THEN None ELSE GetInteger(v) % (max + 1)

\* ToInteger(): a number that fits the field.
ToInteger(v, max) ==
    IF GetInteger(v) = None \/ GetInteger(v) < 0 \/ GetInteger(v) > max THEN None
    ELSE GetInteger(v)

\* FromValue(): the result, and the field after it.
FromValue(v, field, old) ==
    LET converted == IF field \in VoltageFields \cup TimeoutFields
                     THEN IF GetNumber(v) \in {NaN, Infinite} THEN None ELSE GetNumber(v)
                     ELSE ToInteger(v, IF field \in PortFields THEN MaxPort ELSE MaxByte)
        result == IF GetNumber(v) = None THEN "type mismatch"
                  ELSE IF converted = None THEN "out of range" ELSE "accepted"
    IN  [result |-> result, field |-> IF result = "accepted" THEN converted ELSE old]

\* ToValue(): what a read of the register answers, in halves.
ToValue(s, field) == IF field \in VoltageFields \cup TimeoutFields THEN s[field] ELSE 2 * s[field]

\* y is a float, and none is nearer to the number x: y is x when a float can hold it.
Nearest(y, x) == y \in Floats /\ \A f \in Floats : Size(y - x) <= Size(f - x)

\* SettingsRegisterProvider::Write() through Update(): all of it or nothing.
Write(field, v) ==
    LET converted == FromValue(v, field, live[field])
        candidate == [live EXCEPT ![field] = converted.field]
        valid == Validate(candidate)
    IN  /\ live' = IF valid THEN candidate ELSE live
        /\ mismatch' = (\/ mismatch
                        \/ /\ converted.result = "accepted" /\ valid
                           /\ ~Nearest(ToValue(candidate, field), v.first))

-----------------------------------------------------------------------------
(* The tools                                                               *)

Factory == [mode |-> 0, setpointPort |-> 0, telemetryPort |-> 1, derateStart |-> 2, trip |-> 4,
            commandTimeout |-> 2, cartTimeout |-> 1]

RegistersInit ==
    /\ live = Factory /\ target = Factory /\ position = 0 /\ passes = 0
    /\ mismatch = FALSE

\* Any client writes any value.
WriteAny ==
    /\ position = 0
    /\ \E i \in DOMAIN Registers, v \in RegisterValues : Write(Registers[i], v)
    /\ UNCHANGED <<target, position, passes>>

\* A tool begins to load a profile: valid settings, in which no port takes
\* the subject of another one (those need a port turned off in between).
LoadProfile ==
    /\ position = 0 /\ position' = 1
    /\ live.mode = 0
    /\ \E s \in NvmSettings :
        /\ Validate(s)
        /\ s.mode = 1 /\ s.setpointPort \in {live.setpointPort, 2} /\ s.telemetryPort = live.telemetryPort
        /\ target' = s
    /\ UNCHANGED <<live, mismatch, passes>>

\* The tool writes one register after the other, twice.
LoadRegister ==
    /\ position # 0 /\ passes < 2
    /\ LET field == Registers[position]
       IN  Write(field, IF field \in VoltageFields \cup TimeoutFields
                        THEN [tag |-> "real64", first |-> target[field]]
                        ELSE [tag |-> "natural64", first |-> 2 * target[field]])
    /\ IF position = Len(Registers) THEN position' = 1 /\ passes' = passes + 1
       ELSE position' = position + 1 /\ UNCHANGED passes
    /\ UNCHANGED target

RegistersNext == WriteAny \/ LoadProfile \/ LoadRegister

RegistersSpec == RegistersInit /\ [][RegistersNext]_registerVars

-----------------------------------------------------------------------------
(* Properties                                                              *)

\* An accepted write reads back as the number that was written where a float can hold
\* it, else as a float nearest to it, for every type of value a client may use for the
\* register (HandleRegisterAccess()); and a profile is taken as a whole by writing it
\* twice: a limit that refuses a value at first lets it pass once the register it
\* depends on is written.
WritesTaken == ~mismatch /\ (passes = 2 => live = target)

\* "64 bit integers are read exactly; everything else fits into a float."
\* (register_value.cpp:134).  Not so of a real of 64 bits: 3.00000001 is narrowed to 3
\* before it is looked at for being whole, and is taken for an enum or a port.
EverythingFits ==
    \A v \in RegisterValues :
        v.tag \notin {"integer64", "natural64", "string"} /\ v.first \notin {None, NaN} =>
            GetNumber(v) = v.first
=============================================================================
