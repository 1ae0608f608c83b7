--------------------------------- MODULE Pwm ---------------------------------
(***************************************************************************)
(* The cores that are set and forgotten, in synchronous mode: Pwm8 and     *)
(* FrequencyDivider with one register, Pwm16 with a duty cycle in two.     *)
(***************************************************************************)
EXTENDS Integers, Sequences

CONSTANTS
    Duties,       \* duty cycles of 16 bits the program sets
    Percentages,  \* whole percentages it sets
    Divisors,     \* bytes it gives the other two cores
    MaxCalls, MaxFaults

VARIABLES core, members, call, todo, buffer, kept, success, ok, before, trouble,
          calls, faults

\* Both halves of the duty cycle can be written in one exchange: v is then a pair.
Value(c, r) == c[r]
AfterRead(c, r) == c
AfterWrite(c, r, v) ==
    IF r = "DUTYCYCLE" THEN [c EXCEPT !.DUTYCYCLE_LOW = v[1], !.DUTYCYCLE_HIGH = v[2]]
    ELSE [c EXCEPT ![r] = v]

Reset == [DUTYCYCLE_LOW |-> {}, DUTYCYCLE_HIGH |-> {}, DUTYCYCLE_8 |-> {}, DIV |-> {}]

INSTANCE SyncRegisters

ByteBits(n) == { i \in Bits : (n \div 2 ^ i) % 2 = 1 }

Halves(cycle) == << ByteBits(cycle % 256), ByteBits(cycle \div 256) >>

-----------------------------------------------------------------------------
(* Operations.                                                             *)

\* (mutant: a write for each half)
DutySteps_OneByOne(cycle) == << Write("DUTYCYCLE_LOW", Halves(cycle)[1]),
                                Write("DUTYCYCLE_HIGH", Halves(cycle)[2]) >>
DutySteps(cycle) == << Write("DUTYCYCLE", Halves(cycle)) >>

SetDutyCycle(cycle) ==
    Start([op |-> "setDutyCycle", cycle |-> cycle], DutySteps(cycle))

\* The fraction of a whole duty cycle is cut off.
Cycle(percentage) == (percentage * 65535) \div 100

SetPercentage(percentage) ==
    Start([op |-> "setDutyCycle", cycle |-> Cycle(percentage)], DutySteps(Cycle(percentage)))

GetDutyCycle ==
    Start([op |-> "getDutyCycle"], << Read("DUTYCYCLE_LOW"), Keep,
                                      Read("DUTYCYCLE_HIGH"), Keep >>)

\* As a number or as a percentage: not implemented.
GetDutyCycleRefused == Refuse([op |-> "getDutyCycle16"])

SetDutyCycle8(cycle) ==
    Start([op |-> "setDutyCycle8"], << Write("DUTYCYCLE_8", ByteBits(cycle)) >>)
GetDutyCycle8 == Start([op |-> "getDutyCycle8"], << Read("DUTYCYCLE_8") >>)

SetDivisor(divisor) ==
    Start([op |-> "setDivisor"], << Write("DIV", ByteBits(divisor)) >>)
StopClock == Start([op |-> "stopClock"], << Write("DIV", {}) >>)
Bypass    == Start([op |-> "bypass"], << Write("DIV", {0}) >>)

-----------------------------------------------------------------------------

Init == Begin(Reset, {})

Call ==
    \/ \E cycle \in Duties : SetDutyCycle(cycle)
    \/ \E percentage \in Percentages : SetPercentage(percentage)
    \/ GetDutyCycle \/ GetDutyCycleRefused
    \/ \E b \in Divisors : SetDutyCycle8(b) \/ SetDivisor(b)
    \/ GetDutyCycle8 \/ StopClock \/ Bypass

Next == Call \/ Host

Spec == Init /\ [][Next]_vars

-----------------------------------------------------------------------------
(* Properties.                                                             *)

\* The output never runs at a mixture of two duty cycles, whatever happens to the
\* exchanges, and getDutyCycle() returns true only with the two halves of one
\* (pwm16.cc:68-85, 98-119).
DutyCycleWhole ==
    LET whole == { << {}, {} >> }
            \cup { Halves(n) : n \in Duties \cup { Cycle(p) : p \in Percentages } }
    IN  /\ << core.DUTYCYCLE_LOW, core.DUTYCYCLE_HIGH >> \in whole
        /\ todo = << >> /\ ok /\ call.op = "getDutyCycle" => kept \in whole
=============================================================================
