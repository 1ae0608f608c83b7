----------------------------- MODULE CoresProofs -----------------------------
(***************************************************************************)
(* Proofs about the easyCores in synchronous mode.                         *)
(***************************************************************************)
EXTENDS Cores, SequenceTheorems, TLAPS

-----------------------------------------------------------------------------
(* Pwm.                                                                    *)

Whole == { << {}, {} >> }
            \cup { Duty!Halves(n) : n \in Duties \cup { Duty!Cycle(p) : p \in Percentages } }

Whole16(c) == \E low, high, b, d :
    /\ c = [DUTYCYCLE_LOW |-> low, DUTYCYCLE_HIGH |-> high, DUTYCYCLE_8 |-> b, DIV |-> d]
    /\ << low, high >> \in Whole

DutyCore == Whole16(core)

Low8  == Duty!Read("DUTYCYCLE_LOW")
High8 == Duty!Read("DUTYCYCLE_HIGH")

\* getDutyCycle() has one half after the other.
Reading ==
    \/ todo = << Low8, Duty!Keep, High8, Duty!Keep >> /\ kept = << >>
    \/ /\ todo = << Duty!Keep, High8, Duty!Keep >> /\ kept = << >>
       /\ ok => buffer = core.DUTYCYCLE_LOW
    \/ \E low : /\ todo = << High8, Duty!Keep >> /\ kept = << low >>
                /\ ok => low = core.DUTYCYCLE_LOW
    \/ \E low : /\ todo = << Duty!Keep >> /\ kept = << low >>
                /\ ok => low = core.DUTYCYCLE_LOW /\ buffer = core.DUTYCYCLE_HIGH
    \/ todo = << >> /\ (ok => kept \in Whole)

\* The others make one access at most.
Setting ==
    \/ todo = << >>
    \/ todo = << Duty!ReturnFalse >>
    \/ \E v \in Whole : todo = << Duty!Write("DUTYCYCLE", v) >>
    \/ \E r \in {"DUTYCYCLE_8", "DIV"} : \E v : todo = << Duty!Write(r, v) >>
    \/ todo = << Duty!Read("DUTYCYCLE_8") >>

DutyInv == DutyCore /\ IF call.op = "getDutyCycle" THEN Reading ELSE Setting

\* Before any operation.
LEMMA DutyInit == Duty!Init => DutyInv
<1>. SUFFICES ASSUME Duty!Init PROVE DutyInv
  OBVIOUS
<1>1. << {}, {} >> \in Whole
  BY DEF Whole
<1>2. DutyCore
  BY <1>1 DEF Duty!Init, Duty!Begin, DutyCore, Whole16, Duty!Reset
<1>3. todo = << >> /\ call.op # "getDutyCycle"
  BY DEF Duty!Init, Duty!Begin, Duty!NoCall
<1>. QED
  BY <1>2, <1>3 DEF DutyInv, Setting

\* A call of the program makes a list of accesses of its operation.
LEMMA DutyCall == DutyInv /\ Duty!Call => DutyInv'
<1>. SUFFICES ASSUME DutyInv, Duty!Call PROVE DutyInv'
  OBVIOUS
<1>. USE DEF Duty!Start, Duty!StartWith
<1>1. core' = core => DutyCore'
  BY DEF DutyInv, DutyCore
<1>2. ASSUME NEW cycle, NEW o, cycle \in Duties \cup { Duty!Cycle(p) : p \in Percentages },
             o.op # "getDutyCycle",
             Duty!Start(o, Duty!DutySteps(cycle))
      PROVE  DutyInv'
  <2>1. Duty!Halves(cycle) \in Whole
    BY <1>2 DEF Whole
  <2>. QED
    BY <1>1, <1>2, <2>1 DEF DutyInv, Setting, Duty!DutySteps
<1>3. ASSUME NEW cycle \in Duties, Duty!SetDutyCycle(cycle) PROVE DutyInv'
  BY <1>2, <1>3 DEF Duty!SetDutyCycle
<1>4. ASSUME NEW p \in Percentages, Duty!SetPercentage(p) PROVE DutyInv'
  BY <1>2, <1>4 DEF Duty!SetPercentage
<1>5. CASE Duty!GetDutyCycle
  BY <1>1, <1>5 DEF Duty!GetDutyCycle, DutyInv, Reading, Low8, High8
<1>6. CASE Duty!GetDutyCycleRefused
  BY <1>1, <1>6 DEF Duty!GetDutyCycleRefused, Duty!Refuse, DutyInv, Setting
<1>7. ASSUME NEW n, Duty!SetDutyCycle8(n) \/ Duty!SetDivisor(n) PROVE DutyInv'
  BY <1>1, <1>7 DEF Duty!SetDutyCycle8, Duty!SetDivisor, DutyInv, Setting
<1>8. CASE Duty!GetDutyCycle8
  BY <1>1, <1>8 DEF Duty!GetDutyCycle8, DutyInv, Setting
<1>9. CASE Duty!StopClock \/ Duty!Bypass
  BY <1>1, <1>9 DEF Duty!StopClock, Duty!Bypass, DutyInv, Setting
<1>. QED
  BY <1>3, <1>4, <1>5, <1>6, <1>7, <1>8, <1>9 DEF Duty!Call

\* What is kept after one byte, ...
LEMMA KeptFirst == \A x : Append(<< >>, x) = << x >>
  OBVIOUS

\* ... and after two.
LEMMA KeptSecond == \A x, y : Append(<< x >>, y) = << x, y >>
<1>. TAKE x, y
<1>1. << x >> \in Seq({x, y})
  OBVIOUS
<1>2. /\ Append(<< x >>, y) \in Seq({x, y})
      /\ Len(Append(<< x >>, y)) = 2
      /\ Append(<< x >>, y)[1] = x
      /\ Append(<< x >>, y)[2] = y
  BY <1>1, AppendProperties
<1>3. << x, y >> \in Seq({x, y}) /\ Len(<< x, y >>) = 2
  OBVIOUS
<1>4. \A i \in 1 .. 2 : Append(<< x >>, y)[i] = << x, y >>[i]
  BY <1>2
<1>. QED
  BY <1>2, <1>3, <1>4, SeqEqual

\* A write of both halves leaves a whole duty cycle.
LEMMA WholeWritten ==
    ASSUME NEW c, Whole16(c), NEW v \in Whole
    PROVE  Whole16(Duty!AfterWrite(c, "DUTYCYCLE", v))
<1>1. PICK low, high, b, d :
        c = [DUTYCYCLE_LOW |-> low, DUTYCYCLE_HIGH |-> high, DUTYCYCLE_8 |-> b, DIV |-> d]
  BY DEF Whole16
<1>2. v = << v[1], v[2] >>
  BY DEF Whole, Duty!Halves
<1>3. Duty!AfterWrite(c, "DUTYCYCLE", v)
        = [DUTYCYCLE_LOW |-> v[1], DUTYCYCLE_HIGH |-> v[2], DUTYCYCLE_8 |-> b, DIV |-> d]
  BY <1>1 DEF Duty!AfterWrite
<1>. QED
  BY <1>2, <1>3 DEF Whole16

\* A write of another register leaves the duty cycle as it was.
LEMMA OtherWritten ==
    ASSUME NEW c, Whole16(c), NEW v, NEW r \in {"DUTYCYCLE_8", "DIV"}
    PROVE  Whole16(Duty!AfterWrite(c, r, v))
<1>1. PICK low, high, b, d :
        /\ c = [DUTYCYCLE_LOW |-> low, DUTYCYCLE_HIGH |-> high, DUTYCYCLE_8 |-> b, DIV |-> d]
        /\ << low, high >> \in Whole
  BY DEF Whole16
<1>2. CASE r = "DIV"
  <2>1. Duty!AfterWrite(c, r, v)
        = [DUTYCYCLE_LOW |-> low, DUTYCYCLE_HIGH |-> high, DUTYCYCLE_8 |-> b, DIV |-> v]
    BY <1>1, <1>2 DEF Duty!AfterWrite
  <2>. QED
    BY <1>1, <2>1 DEF Whole16
<1>3. CASE r = "DUTYCYCLE_8"
  <2>1. Duty!AfterWrite(c, r, v)
        = [DUTYCYCLE_LOW |-> low, DUTYCYCLE_HIGH |-> high, DUTYCYCLE_8 |-> v, DIV |-> d]
    BY <1>1, <1>3 DEF Duty!AfterWrite
  <2>. QED
    BY <1>1, <2>1 DEF Whole16
<1>. QED
  BY <1>2, <1>3

\* A step that goes on with the list: an exchange that is not to be sent again, or
\* a step without one.
DutyGoesOn == Duty!ExchangeSucceeds \/ Duty!ExchangeFails \/ Duty!LocalStep

\* What an exchange does that reads, ...
LEMMA DutyRead ==
    ASSUME NEW r, Head(todo) = Duty!Read(r), DutyGoesOn
    PROVE  /\ core' = core /\ kept' = kept /\ call' = call /\ todo' = Tail(todo)
           /\ ok' => ok /\ buffer' = core[r]
<1>. USE DEF Duty!Read, Duty!Access, Duty!Exchange
<1>1. CASE Duty!ExchangeSucceeds
  BY <1>1 DEF Duty!ExchangeSucceeds, Duty!Accessed, Duty!Reads, Duty!AfterRead, Duty!Value
<1>4. CASE Duty!ExchangeFails
  <2>1. ok' = (ok /\ Head(todo).fail = "ignore") /\ Head(todo).fail # "ignore"
    BY <1>4 DEF Duty!ExchangeFails
  <2>2. ~ok'
    BY <2>1, Zenon
  <2>. QED
    BY <1>4, <2>2 DEF Duty!ExchangeFails, Duty!Accessed, Duty!Reads, Duty!AfterRead
<1>5. CASE Duty!LocalStep
  BY <1>5 DEF Duty!LocalStep, Duty!Local
<1>. QED
  BY <1>1, <1>4, <1>5 DEF DutyGoesOn

\* ... one that writes, ...
LEMMA DutyWrite ==
    ASSUME NEW r, NEW v, Head(todo) = Duty!Write(r, v), DutyGoesOn
    PROVE  /\ core' = core \/ core' = Duty!AfterWrite(core, r, v)
           /\ kept' = kept /\ call' = call /\ todo' = Tail(todo)
<1>. USE DEF Duty!Write, Duty!Access, Duty!Exchange
<1>1. Duty!Accessed = Duty!AfterWrite(core, r, v)
  BY DEF Duty!Accessed, Duty!Written, Duty!Reads
<1>2. CASE Duty!ExchangeSucceeds
  BY <1>1, <1>2 DEF Duty!ExchangeSucceeds
<1>3. CASE Duty!ExchangeFails
  BY <1>1, <1>3 DEF Duty!ExchangeFails
<1>4. CASE Duty!LocalStep
  BY <1>4 DEF Duty!LocalStep, Duty!Local
<1>. QED
  BY <1>2, <1>3, <1>4 DEF DutyGoesOn

\* ... and a step without an exchange.
LEMMA DutyLocal ==
    ASSUME Head(todo) = Duty!Keep \/ Head(todo) = Duty!ReturnFalse, DutyGoesOn
    PROVE  /\ core' = core /\ call' = call
           /\ Head(todo) = Duty!Keep =>
                 todo' = Tail(todo) /\ kept' = Append(kept, buffer) /\ (ok' => ok)
           /\ Head(todo) = Duty!ReturnFalse => todo' = << >>
<1>. USE DEF Duty!Keep, Duty!ReturnFalse, Duty!Require, Duty!Access
<1>1. Duty!LocalStep
  BY DEF DutyGoesOn, Duty!ExchangeSucceeds, Duty!ExchangeFails, Duty!Exchange
<1>2. ok' = (ok /\ ~Duty!LeavesEarly)
  BY <1>1 DEF Duty!LocalStep
<1>3. ok' => ok
  BY <1>2, Zenon
<1>. QED
  BY <1>1, <1>3 DEF Duty!LocalStep, Duty!LeavesEarly

\* An exchange that will be made again has made its access.
LEMMA DutyRepeated == DutyInv /\ Duty!ExchangeRepeated => DutyInv'
<1>. SUFFICES ASSUME DutyInv, Duty!ExchangeRepeated PROVE DutyInv'
  OBVIOUS
<1>1. /\ core' = Duty!Accessed /\ todo # << >> /\ Duty!Exchange
      /\ UNCHANGED << call, todo, buffer, kept, ok >>
  BY DEF Duty!ExchangeRepeated, Duty!Exchange
<1>2. CASE call.op # "getDutyCycle"
  <2>1. todo # << Duty!ReturnFalse >>
    <3>1. Head(todo).act # "require"
      BY <1>1 DEF Duty!Exchange, Duty!Access
    <3>. QED
      BY <3>1 DEF Duty!ReturnFalse, Duty!Require
  <2>2. ASSUME NEW v \in Whole, todo = << Duty!Write("DUTYCYCLE", v) >> PROVE DutyCore'
    <3>1. Whole16(Duty!AfterWrite(core, "DUTYCYCLE", v))
      BY WholeWritten DEF DutyInv, DutyCore
    <3>2. Duty!Accessed = Duty!AfterWrite(core, "DUTYCYCLE", v)
      BY <2>2 DEF Duty!Accessed, Duty!Access, Duty!Write, Duty!Written, Duty!Reads
    <3>. QED
      BY <1>1, <3>1, <3>2 DEF DutyCore
  <2>3. ASSUME NEW r \in {"DUTYCYCLE_8", "DIV"}, NEW v, todo = << Duty!Write(r, v) >>
        PROVE  DutyCore'
    <3>1. Whole16(Duty!AfterWrite(core, r, v))
      BY OtherWritten DEF DutyInv, DutyCore
    <3>2. Duty!Accessed = Duty!AfterWrite(core, r, v)
      BY <2>3 DEF Duty!Accessed, Duty!Access, Duty!Write, Duty!Written, Duty!Reads
    <3>. QED
      BY <1>1, <3>1, <3>2 DEF DutyCore
  <2>4. ASSUME todo = << Duty!Read("DUTYCYCLE_8") >> PROVE DutyCore'
    BY <1>1, <2>4 DEF Duty!Accessed, Duty!Access, Duty!Read, Duty!Reads, Duty!AfterRead,
                      DutyInv, DutyCore
  <2>5. DutyCore'
    BY <1>1, <1>2, <2>1, <2>2, <2>3, <2>4 DEF DutyInv, Setting
  <2>. QED
    BY <1>1, <1>2, <2>5 DEF DutyInv, Setting
<1>3. CASE call.op = "getDutyCycle"
  <2>1. core' = core
    BY <1>1, <1>3 DEF DutyInv, Reading, Low8, High8, Duty!Accessed, Duty!Access, Duty!Read,
                      Duty!Reads, Duty!AfterRead, Duty!Keep, Duty!Exchange
  <2>. QED
    BY <1>1, <1>3, <2>1 DEF DutyInv, DutyCore, Reading
<1>. QED
  BY <1>2, <1>3

\* The other steps of the host: Pwm16::getDutyCycle() has read neither half, one, or
\* both.
LEMMA DutyHost == DutyInv /\ DutyGoesOn => DutyInv'
<1>. SUFFICES ASSUME DutyInv, DutyGoesOn PROVE DutyInv'
  OBVIOUS
<1>1. todo # << >>
  BY DEF DutyGoesOn, Duty!ExchangeSucceeds, Duty!ExchangeFails, Duty!Exchange, Duty!LocalStep
<1>2. CASE call.op # "getDutyCycle"
  <2>1. CASE todo = << Duty!ReturnFalse >>
    <3>1. core' = core /\ call' = call /\ todo' = << >>
      BY <2>1, DutyLocal
    <3>. QED
      BY <1>2, <3>1 DEF DutyInv, Setting, DutyCore
  <2>2. ASSUME NEW v \in Whole, todo = << Duty!Write("DUTYCYCLE", v) >> PROVE DutyInv'
    <3>1. Whole16(core)
      BY DEF DutyInv, DutyCore
    <3>2. Whole16(Duty!AfterWrite(core, "DUTYCYCLE", v))
      BY <3>1, WholeWritten
    <3>4. Whole16(core') /\ call' = call /\ todo' = << >>
      BY <2>2, <3>1, <3>2, DutyWrite
    <3>. QED
      BY <1>2, <3>4 DEF DutyInv, Setting, DutyCore
  <2>3. ASSUME NEW r \in {"DUTYCYCLE_8", "DIV"}, NEW v, todo = << Duty!Write(r, v) >>
        PROVE  DutyInv'
    <3>1. Whole16(core)
      BY DEF DutyInv, DutyCore
    <3>2. Whole16(Duty!AfterWrite(core, r, v))
      BY <3>1, OtherWritten
    <3>4. Whole16(core') /\ call' = call /\ todo' = << >>
      BY <2>3, <3>1, <3>2, DutyWrite
    <3>. QED
      BY <1>2, <3>4 DEF DutyInv, Setting, DutyCore
  <2>4. CASE todo = << Duty!Read("DUTYCYCLE_8") >>
    <3>1. core' = core /\ call' = call /\ todo' = << >>
      BY <2>4, DutyRead
    <3>. QED
      BY <1>2, <3>1 DEF DutyInv, Setting, DutyCore
  <2>. QED
    BY <1>1, <1>2, <2>1, <2>2, <2>3, <2>4 DEF DutyInv, Setting
<1>3. CASE call.op = "getDutyCycle"
  <2>0. ASSUME core' = core, call' = call, Reading' PROVE DutyInv'
    BY <1>3, <2>0 DEF DutyInv, DutyCore
  <2>1. CASE todo = << Low8, Duty!Keep, High8, Duty!Keep >> /\ kept = << >>
    <3>1. /\ core' = core /\ call' = call /\ kept' = kept
          /\ todo' = << Duty!Keep, High8, Duty!Keep >>
          /\ ok' => buffer' = core.DUTYCYCLE_LOW
      BY <2>1, DutyRead DEF Low8
    <3>. QED
      BY <2>0, <2>1, <3>1 DEF Reading
  <2>2. CASE /\ todo = << Duty!Keep, High8, Duty!Keep >> /\ kept = << >>
             /\ ok => buffer = core.DUTYCYCLE_LOW
    <3>1. /\ core' = core /\ call' = call /\ kept' = << buffer >>
          /\ todo' = << High8, Duty!Keep >>
          /\ ok' => ok
      BY <2>2, DutyLocal, KeptFirst
    <3>. QED
      BY <2>0, <2>2, <3>1 DEF Reading
  <2>3. ASSUME NEW low, todo = << High8, Duty!Keep >>, kept = << low >>,
               ok => low = core.DUTYCYCLE_LOW
        PROVE  DutyInv'
    <3>1. /\ core' = core /\ call' = call /\ kept' = kept /\ todo' = << Duty!Keep >>
          /\ ok' => ok /\ buffer' = core.DUTYCYCLE_HIGH
      BY <2>3, DutyRead DEF High8
    <3>. QED
      BY <2>0, <2>3, <3>1 DEF Reading
  <2>4. ASSUME NEW low, todo = << Duty!Keep >>, kept = << low >>,
               ok => low = core.DUTYCYCLE_LOW /\ buffer = core.DUTYCYCLE_HIGH
        PROVE  DutyInv'
    <3>1. /\ core' = core /\ call' = call /\ kept' = << low, buffer >> /\ todo' = << >>
          /\ ok' => ok
      BY <2>4, DutyLocal, KeptSecond
    <3>2. << core.DUTYCYCLE_LOW, core.DUTYCYCLE_HIGH >> \in Whole
      BY DEF DutyInv, DutyCore, Whole16
    <3>. QED
      BY <2>0, <2>4, <3>1, <3>2 DEF Reading
  <2>. QED
    BY <1>1, <1>3, <2>1, <2>2, <2>3, <2>4 DEF DutyInv, Reading
<1>. QED
  BY <1>2, <1>3

\* The invariant says what the property asks.
LEMMA DutyHonest == DutyInv => Duty!DutyCycleWhole
<1>. SUFFICES ASSUME DutyInv PROVE Duty!DutyCycleWhole
  OBVIOUS
<1>1. << core.DUTYCYCLE_LOW, core.DUTYCYCLE_HIGH >> \in Whole
  BY DEF DutyInv, DutyCore, Whole16
<1>2. ASSUME todo = << >>, ok, call.op = "getDutyCycle" PROVE kept \in Whole
  BY <1>2 DEF DutyInv, Reading
<1>. QED
  BY <1>1, <1>2 DEF Duty!DutyCycleWhole, Whole

\* No step of a Pwm leaves its invariant.
LEMMA DutyInductive == DutyInv /\ [Duty!Next]_(Duty!vars) => DutyInv'
<1>1. ASSUME DutyInv, Duty!Next PROVE DutyInv'
  BY <1>1, DutyCall, DutyRepeated, DutyHost DEF Duty!Next, Duty!Host, DutyGoesOn
<1>2. ASSUME DutyInv, UNCHANGED Duty!vars PROVE DutyInv'
  BY <1>2 DEF Duty!vars, DutyInv, DutyCore, Reading, Setting
<1>. QED
  BY <1>1, <1>2

-----------------------------------------------------------------------------
(* Gpio8.                                                                  *)

Cells == Gpio!REGISTER \cup {"edges", "readable"}

\* The registers that can be written.
Writable == Gpio!REGISTER \ {"IN"}

\* Those that the operation may write.
Clearing == call.op \in {"clearInterrupts", "clearInterrupt"}
Target   == Writable \ (IF Clearing THEN {} ELSE {"INTS"})

IsGpio(c) == c = [r \in Cells |-> c[r]]

\* c shows what the operation promises.
Done(c) ==
    LET w == Gpio!Wanted(before, call)
    IN  /\ \A r \in {"OUT", "OE", "INTE", "PTRIG", "CTRL"} :
                (r = "OUT" /\ call.op = "setPin" => c.readable) => c[r] = w[r]
        /\ w.INTS \subseteq c.INTS

\* c can become d by edges at the pins.
Later(c, d) ==
    /\ IsGpio(c) /\ IsGpio(d)
    /\ \A r \in {"OUT", "OE", "INTE", "PTRIG", "CTRL"} : c[r] = d[r]
    /\ c.INTS \subseteq d.INTS
    /\ c.readable = d.readable

Changed(v, on, off) == (v \cup on) \ off

\* What is left of the operation leads from here to what it promises.
Idle    == todo = << >> /\ (ok => Done(core))
Looking == /\ \/ \E r : todo = << Gpio!Read(r) >>
              \/ todo = << Gpio!OrStop(Gpio!Read("INTS")), Gpio!Require(Gpio!Bits) >>
              \/ todo = << Gpio!Require(Gpio!Bits) >>
           /\ ok => Done(core)
OneWrite == \E r \in Target : \E v :
    /\ todo = << Gpio!Write(r, v) >>
    /\ ok => Done(Gpio!AfterWrite(core, r, v))
TwoWrites == \E r \in Target, q \in Target : \E v, w :
    /\ todo = << Gpio!Write(r, v), Gpio!Write(q, w) >>
    /\ ok => Done(Gpio!AfterWrite(Gpio!AfterWrite(core, r, v), q, w))
OneBack == \E r \in Target : \E on, off :
    /\ todo = << Gpio!WriteBack(r, on, off) >>
    /\ ok => Done(Gpio!AfterWrite(core, r, Changed(buffer, on, off)))
OneChange == \E r \in Target : \E on, off :
    /\ todo = << Gpio!Read(r), Gpio!WriteBack(r, on, off) >>
    /\ ok => Done(Gpio!AfterWrite(core, r, Changed(Gpio!Value(core, r), on, off)))
BackAndChange == \E r \in Target, q \in Target : \E on, off, up, down :
    /\ r # q
    /\ todo = << Gpio!WriteBack(r, on, off), Gpio!Read(q), Gpio!WriteBack(q, up, down) >>
    /\ ok => Done(Gpio!AfterWrite(Gpio!AfterWrite(core, r, Changed(buffer, on, off)),
                                  q, Changed(Gpio!Value(core, q), up, down)))
TwoChanges == \E r \in Target, q \in Target : \E on, off, up, down :
    /\ r # q
    /\ todo = << Gpio!Read(r), Gpio!WriteBack(r, on, off),
                 Gpio!Read(q), Gpio!WriteBack(q, up, down) >>
    /\ ok => Done(Gpio!AfterWrite(
                    Gpio!AfterWrite(core, r, Changed(Gpio!Value(core, r), on, off)),
                    q, Changed(Gpio!Value(core, q), up, down)))

GpioInv ==
    /\ IsGpio(core)
    /\ \/ Idle \/ Looking \/ OneWrite \/ TwoWrites \/ OneBack \/ OneChange
       \/ BackAndChange \/ TwoChanges

\* Before any operation.
LEMMA GpioInit == Gpio!Init => GpioInv
<1>. SUFFICES ASSUME Gpio!Init PROVE GpioInv
  OBVIOUS
<1>1. IsGpio(core)
  BY DEF Gpio!Init, Gpio!Begin, Gpio!Reset, IsGpio, Cells
<1>2. Done(core)
  BY DEF Gpio!Init, Gpio!Begin, Gpio!NoCall, Done, Gpio!Wanted
<1>3. Idle
  BY <1>2 DEF Gpio!Init, Gpio!Begin, Idle
<1>. QED
  BY <1>1, <1>3 DEF GpioInv

\* A write sets its register and no other.
LEMMA GpioWritten ==
    ASSUME NEW c, IsGpio(c), NEW r \in Writable, NEW v
    PROVE  /\ IsGpio(Gpio!AfterWrite(c, r, v))
           /\ Gpio!AfterWrite(Gpio!AfterWrite(c, r, v), r, v) = Gpio!AfterWrite(c, r, v)
           /\ Gpio!AfterWrite(c, r, v)[r] = v
           /\ \A q \in Cells \ {r} : Gpio!AfterWrite(c, r, v)[q] = c[q]
BY DEF Gpio!AfterWrite, IsGpio, Writable, Cells

\* What is read of another register stays.
LEMMA ValueElsewhere ==
    ASSUME NEW c, IsGpio(c), NEW r \in Writable, NEW q \in Writable, q # r, NEW v
    PROVE  Gpio!Value(Gpio!AfterWrite(c, r, v), q) = Gpio!Value(c, q)
<1>1. /\ Gpio!AfterWrite(c, r, v)[q] = c[q]
      /\ Gpio!AfterWrite(c, r, v)["readable"] = c["readable"]
  BY GpioWritten DEF Writable, Cells, Gpio!REGISTER
<1>. QED
  BY <1>1 DEF Gpio!Value

\* Pins may change before the write as well as after it.
LEMMA LaterWritten ==
    ASSUME NEW c, NEW d, Later(c, d), NEW r \in Writable, NEW v, NEW w,
           IF r = "INTS" THEN v \subseteq w ELSE v = w
    PROVE  Later(Gpio!AfterWrite(c, r, v), Gpio!AfterWrite(d, r, w))
<1>1. IsGpio(c) /\ IsGpio(d)
  BY DEF Later
<1>. QED
  BY <1>1, GpioWritten DEF Later, Writable, Cells, Gpio!REGISTER

\* An operation that is done stays done when pins change.
LEMMA LaterDone == ASSUME NEW c, NEW d, Later(c, d), Done(c) PROVE Done(d)
BY DEF Later, Done

\* No change at all is one.
LEMMA LaterSame == ASSUME NEW c, IsGpio(c) PROVE Later(c, c)
BY DEF Later

\* What can be written can be written as long as the operation is the same.
LEMMA TargetKept == Target \subseteq Writable /\ (call' = call => Target' = Target)
BY DEF Target, Clearing

\* The list of an operation that changes two registers.
LEMMA TwoAndTwo == \A a, b, c, d : << a, b >> \o << c, d >> = << a, b, c, d >>
<1>. TAKE a, b, c, d
<1>. DEFINE S == {a, b, c, d}
<1>1. << a, b >> \in Seq(S) /\ << c, d >> \in Seq(S) /\ << a, b, c, d >> \in Seq(S)
  OBVIOUS
<1>2. /\ << a, b >> \o << c, d >> \in Seq(S)
      /\ Len(<< a, b >> \o << c, d >>) = 4
      /\ \A i \in 1 .. 4 : (<< a, b >> \o << c, d >>)[i] = << a, b, c, d >>[i]
  BY <1>1, ConcatProperties
<1>. QED
  BY <1>1, <1>2, SeqEqual

\* What an operation begins with.
LEMMA GpioStart ==
    ASSUME NEW o, NEW b, NEW steps, GpioInv, Gpio!StartWith(o, b, steps)
    PROVE  /\ IsGpio(core') /\ core' = core /\ before' = core /\ call' = o /\ buffer' = b
           /\ todo' = steps
BY DEF Gpio!StartWith, GpioInv

\* A call makes a list with at most two changes, which lead to what it is wanted for.
LEMMA GpioCall == GpioInv /\ Gpio!Call => GpioInv'
<1>. SUFFICES ASSUME GpioInv, Gpio!Call PROVE GpioInv'
  OBVIOUS
<1>. USE DEF Gpio!Start
<1>0. ASSUME NEW o, Gpio!Wanted(core, o) = core, core' = core, before' = core, call' = o
      PROVE  Done(core)'
  BY <1>0 DEF Done
<1>1. ASSUME NEW o, NEW r, NEW b,
             Gpio!StartWith(o, b, << Gpio!Read(r) >>),
             \A c : Gpio!Wanted(c, o) = c
      PROVE  GpioInv'
  <2>1. Done(core)'
    BY <1>0, <1>1, GpioStart
  <2>. QED
    BY <1>1, <2>1, GpioStart DEF GpioInv, Looking
<1>2. ASSUME NEW o, NEW r \in Writable, NEW v, Gpio!Start(o, << Gpio!Write(r, v) >>),
             r = "INTS" => o.op = "clearInterrupts",
             Gpio!Wanted(core, o) = [core EXCEPT ![r] = v]
      PROVE  GpioInv'
  <2>1. Gpio!AfterWrite(core, r, v) = Gpio!Wanted(core, o)
    BY <1>2 DEF Gpio!AfterWrite, Writable
  <2>2. Done(Gpio!AfterWrite(core, r, v))'
    BY <1>2, <2>1, GpioStart DEF Done
  <2>3. r \in Target'
    BY <1>2, GpioStart DEF Target, Clearing
  <2>. QED
    BY <1>2, <2>2, <2>3, GpioStart DEF GpioInv, OneWrite
<1>3. ASSUME NEW o, NEW r \in Writable, NEW pin, NEW set \in BOOLEAN,
             Gpio!Start(o, Gpio!Modify(r, pin, set)),
             r = "INTS" => o.op = "clearInterrupt",
             r = "OUT" => o.op = "setPin",
             Gpio!Wanted(core, o)
                = [core EXCEPT ![r] = IF set THEN @ \cup {pin} ELSE @ \ {pin}]
      PROVE  GpioInv'
  <2>. DEFINE on == Gpio!Bit(pin, set)
              off == Gpio!Bit(pin, ~set)
  <2>1. Changed(core[r], on, off) = IF set THEN core[r] \cup {pin} ELSE core[r] \ {pin}
    BY DEF Changed, Gpio!Bit
  <2>2. Gpio!AfterWrite(core, r, Changed(core[r], on, off)) = Gpio!Wanted(core, o)
    BY <1>3, <2>1 DEF Gpio!AfterWrite, Writable, GpioInv, IsGpio
  <2>3. Done(Gpio!AfterWrite(core, r, Changed(Gpio!Value(core, r), on, off)))'
    <3>1. CASE Gpio!Value(core, r) = core[r]
      BY <1>3, <2>2, <3>1, GpioStart DEF Done
    <3>2. CASE Gpio!Value(core, r) # core[r]
      <4>1. r = "OUT" /\ ~core.readable
        BY <3>2 DEF Gpio!Value
      <4>2. /\ \A q \in Cells \ {"OUT"} :
                    Gpio!AfterWrite(core, r, Changed(Gpio!Value(core, r), on, off))[q]
                        = Gpio!Wanted(core, o)[q]
            /\ ~Gpio!AfterWrite(core, r, Changed(Gpio!Value(core, r), on, off)).readable
        BY <1>3, <4>1 DEF Gpio!AfterWrite, GpioInv, IsGpio, Cells
      <4>. HIDE DEF on, off
      <4>. QED
        BY <1>3, <4>1, <4>2, GpioStart DEF Done, Cells, Gpio!REGISTER
    <3>. QED
      BY <3>1, <3>2
  <2>4. todo' = << Gpio!Read(r), Gpio!WriteBack(r, on, off) >>
    BY <1>3, GpioStart DEF Gpio!Modify
  <2>5. r \in Target'
    BY <1>3, GpioStart DEF Target, Clearing
  <2>. QED
    BY <1>3, <2>3, <2>4, <2>5, GpioStart DEF GpioInv, OneChange
<1>4. ASSUME NEW pin, Gpio!IsPinInput(pin) \/ Gpio!GetPin(pin) \/ Gpio!ArePinsInput \/ Gpio!GetAllPins
      PROVE  GpioInv'
  BY <1>1, <1>4 DEF Gpio!IsPinInput, Gpio!GetPin, Gpio!ArePinsInput, Gpio!GetAllPins, Gpio!Wanted
<1>5. CASE Gpio!IdentifyInterruptingPins
  <2>. DEFINE o == [op |-> "identifyInterruptingPins"]
  <2>1. Gpio!StartWith(o, {}, << Gpio!OrStop(Gpio!Read("INTS")), Gpio!Require(Gpio!Bits) >>)
    BY <1>5 DEF Gpio!IdentifyInterruptingPins
  <2>2. Gpio!Wanted(core, o) = core
    BY DEF Gpio!Wanted
  <2>3. Done(core)'
    BY <1>0, <2>1, <2>2, GpioStart
  <2>. QED
    BY <2>1, <2>3, GpioStart DEF GpioInv, Looking
<1>6. CASE Gpio!MakeAllPinsInput
  BY <1>2, <1>6 DEF Gpio!MakeAllPinsInput, Gpio!Wanted, Writable, Gpio!REGISTER
<1>7. CASE Gpio!MakeAllPinsOutput
  BY <1>2, <1>7 DEF Gpio!MakeAllPinsOutput, Gpio!Wanted, Writable, Gpio!REGISTER
<1>8. CASE Gpio!ReleaseInterrupts
  BY <1>2, <1>8 DEF Gpio!ReleaseInterrupts, Gpio!Wanted, Writable, Gpio!REGISTER
<1>9. CASE Gpio!LockInterrupts
  BY <1>2, <1>9 DEF Gpio!LockInterrupts, Gpio!Wanted, Writable, Gpio!REGISTER
<1>10. CASE Gpio!ClearInterrupts
  BY <1>2, <1>10 DEF Gpio!ClearInterrupts, Gpio!Wanted, Writable, Gpio!REGISTER
<1>11. ASSUME NEW level, Gpio!SetAllPins(level) PROVE GpioInv'
  BY <1>2, <1>11 DEF Gpio!SetAllPins, Gpio!Wanted, Writable, Gpio!REGISTER
<1>12. ASSUME NEW pin, Gpio!MakePinInput(pin) PROVE GpioInv'
  BY <1>3, <1>12 DEF Gpio!MakePinInput, Gpio!Wanted, Writable, Gpio!REGISTER
<1>13. ASSUME NEW pin, Gpio!MakePinOutput(pin) PROVE GpioInv'
  BY <1>3, <1>13 DEF Gpio!MakePinOutput, Gpio!Wanted, Writable, Gpio!REGISTER
<1>14. ASSUME NEW pin, Gpio!ClearInterrupt(pin) PROVE GpioInv'
  BY <1>3, <1>14 DEF Gpio!ClearInterrupt, Gpio!Wanted, Writable, Gpio!REGISTER
<1>15. ASSUME NEW pin, NEW level \in BOOLEAN, Gpio!SetPin(pin, level) PROVE GpioInv'
  BY <1>3, <1>15 DEF Gpio!SetPin, Gpio!Wanted, Writable, Gpio!REGISTER
<1>16. ASSUME NEW up \in BOOLEAN, Gpio!EnableAllPinInterrupts(up) PROVE GpioInv'
  <2>. DEFINE o == [op |-> "enableAllPinInterrupts", risingEdge |-> up]
              v == IF up THEN Pins ELSE {}
  <2>1. Gpio!StartWith(o, {}, << Gpio!Write("INTE", Pins), Gpio!Write("PTRIG", v) >>)
    BY <1>16 DEF Gpio!EnableAllPinInterrupts
  <2>2. Gpio!AfterWrite(Gpio!AfterWrite(core, "INTE", Pins), "PTRIG", v) = Gpio!Wanted(core, o)
    BY DEF Gpio!AfterWrite, Gpio!Wanted
  <2>3. Done(Gpio!AfterWrite(Gpio!AfterWrite(core, "INTE", Pins), "PTRIG", v))'
    BY <2>1, <2>2, GpioStart DEF Done
  <2>4. {"INTE", "PTRIG"} \subseteq Target'
    BY DEF Target, Writable, Gpio!REGISTER
  <2>. QED
    BY <2>1, <2>3, <2>4, GpioStart DEF GpioInv, TwoWrites
<1>17. ASSUME NEW pin, NEW up \in BOOLEAN, Gpio!EnablePinInterrupt(pin, up) PROVE GpioInv'
  <2>. DEFINE o    == [op |-> "enablePinInterrupt", pin |-> pin, risingEdge |-> up]
              on   == Gpio!Bit(pin, TRUE)
              off  == Gpio!Bit(pin, ~TRUE)
              high == Gpio!Bit(pin, up)
              low  == Gpio!Bit(pin, ~up)
              end(c) == Gpio!AfterWrite(Gpio!AfterWrite(c, "INTE", Changed(c["INTE"], on, off)),
                                        "PTRIG", Changed(c["PTRIG"], high, low))
  <2>0. /\ Gpio!Modify("INTE", pin, TRUE)
              = << Gpio!Read("INTE"), Gpio!WriteBack("INTE", on, off) >>
        /\ Gpio!Modify("PTRIG", pin, up)
              = << Gpio!Read("PTRIG"), Gpio!WriteBack("PTRIG", high, low) >>
    BY DEF Gpio!Modify
  <2>1. Gpio!StartWith(o, {}, << Gpio!Read("INTE"), Gpio!WriteBack("INTE", on, off),
                                 Gpio!Read("PTRIG"), Gpio!WriteBack("PTRIG", high, low) >>)
    <3>1. Gpio!StartWith(o, {}, Gpio!Modify("INTE", pin, TRUE) \o Gpio!Modify("PTRIG", pin, up))
      BY <1>17 DEF Gpio!EnablePinInterrupt
    <3>2. Gpio!Modify("INTE", pin, TRUE) \o Gpio!Modify("PTRIG", pin, up)
             = << Gpio!Read("INTE"), Gpio!WriteBack("INTE", on, off),
                  Gpio!Read("PTRIG"), Gpio!WriteBack("PTRIG", high, low) >>
      <4>. HIDE DEF on, off, high, low
      <4>. QED
        BY <2>0, TwoAndTwo, Zenon
    <3>. QED
      BY <3>1, <3>2, Zenon
  <2>2. end(core) = Gpio!Wanted(core, o)
    <3>1. Changed(core["INTE"], on, off) = core.INTE \cup {pin}
      BY DEF Changed, Gpio!Bit
    <3>2. Changed(core["PTRIG"], high, low)
            = IF up THEN core.PTRIG \cup {pin} ELSE core.PTRIG \ {pin}
      BY DEF Changed, Gpio!Bit
    <3>. QED
      BY <3>1, <3>2 DEF Gpio!AfterWrite, Gpio!Wanted, GpioInv, IsGpio
  <2>3. Done(end(core))'
    BY <2>1, <2>2, GpioStart DEF Done
  <2>4. {"INTE", "PTRIG"} \subseteq Target'
    BY DEF Target, Writable, Gpio!REGISTER
  <2>5. TwoChanges'
    <3>1. Gpio!Value(core', "INTE") = core'["INTE"] /\ Gpio!Value(core', "PTRIG") = core'["PTRIG"]
      BY DEF Gpio!Value
    <3>. HIDE DEF on, off, high, low
    <3>. QED
      BY <2>1, <2>3, <2>4, <3>1, GpioStart DEF TwoChanges
  <2>. QED
    BY <2>1, <2>5, GpioStart DEF GpioInv
<1>. QED
  BY <1>4, <1>5, <1>6, <1>7, <1>8, <1>9, <1>10, <1>11, <1>12, <1>13, <1>14, <1>15, <1>16, <1>17
     DEF Gpio!Call

\* A step that goes on with the list: an exchange that is not to be sent again, or
\* a step without one.
GpioGoesOn == Gpio!ExchangeSucceeds \/ Gpio!ExchangeFails \/ Gpio!LocalStep

\* A read that succeeds fills the buffer, and changes nothing in this core.
LEMMA GpioRead ==
    ASSUME NEW r, NEW f \in {"note", "stop"},
           Head(todo) = [act |-> "read", reg |-> r, fail |-> f],
           GpioGoesOn
    PROVE  /\ core' = core /\ call' = call /\ before' = before
           /\ todo' = Tail(todo) \/ (todo' = << >> /\ f = "stop")
           /\ ok' => ok /\ buffer' = Gpio!Value(core, r) /\ todo' = Tail(todo)
<1>. USE DEF Gpio!Access, Gpio!Exchange
<1>1. CASE Gpio!ExchangeSucceeds
  BY <1>1 DEF Gpio!ExchangeSucceeds, Gpio!Accessed, Gpio!Reads, Gpio!AfterRead
<1>4. CASE Gpio!ExchangeFails
  <2>1. ok' = (ok /\ Head(todo).fail = "ignore") /\ Head(todo).fail # "ignore"
    BY <1>4 DEF Gpio!ExchangeFails
  <2>2. ~ok'
    BY <2>1, Zenon
  <2>. QED
    BY <1>4, <2>2 DEF Gpio!ExchangeFails, Gpio!Accessed, Gpio!Reads, Gpio!AfterRead
<1>5. CASE Gpio!LocalStep
  BY <1>5 DEF Gpio!LocalStep, Gpio!Local
<1>. QED
  BY <1>1, <1>4, <1>5 DEF GpioGoesOn

\* A write that succeeds has been made.
LEMMA GpioWrite ==
    ASSUME NEW r \in Writable, NEW v, IsGpio(core),
           \/ Head(todo) = Gpio!Write(r, v)
           \/ \E on, off : Head(todo) = Gpio!WriteBack(r, on, off) /\ v = Changed(buffer, on, off),
           GpioGoesOn
    PROVE  /\ IsGpio(core') /\ call' = call /\ before' = before /\ todo' = Tail(todo)
           /\ ok' => ok /\ core' = Gpio!AfterWrite(core, r, v)
<1>. USE DEF Gpio!Write, Gpio!WriteBack, Gpio!Access, Gpio!Exchange
<1>1. Gpio!Accessed = Gpio!AfterWrite(core, r, v)
  BY DEF Gpio!Accessed, Gpio!Written, Gpio!Reads, Changed
<1>2. IsGpio(Gpio!AfterWrite(core, r, v))
  BY GpioWritten
<1>3. CASE Gpio!ExchangeSucceeds
  BY <1>1, <1>2, <1>3 DEF Gpio!ExchangeSucceeds
<1>5. CASE Gpio!ExchangeFails
  <2>1. ok' = (ok /\ Head(todo).fail = "ignore") /\ Head(todo).fail # "ignore"
    BY <1>5 DEF Gpio!ExchangeFails
  <2>2. ~ok'
    BY <2>1, Zenon
  <2>. QED
    BY <1>1, <1>2, <1>5, <2>2 DEF Gpio!ExchangeFails
<1>6. CASE Gpio!LocalStep
  BY <1>6 DEF Gpio!LocalStep, Gpio!Local
<1>. QED
  BY <1>3, <1>5, <1>6 DEF GpioGoesOn

\* A step that may return false.
LEMMA GpioRequire ==
    ASSUME Head(todo) = Gpio!Require(Gpio!Bits), GpioGoesOn
    PROVE  /\ core' = core /\ call' = call /\ before' = before
           /\ todo' = Tail(todo) \/ todo' = << >>
           /\ ok' => ok
<1>. USE DEF Gpio!Require, Gpio!Access
<1>1. Gpio!LocalStep
  BY DEF GpioGoesOn, Gpio!ExchangeSucceeds, Gpio!ExchangeFails, Gpio!Exchange
<1>2. ok' = (ok /\ ~Gpio!LeavesEarly)
  BY <1>1 DEF Gpio!LocalStep
<1>3. ok' => ok
  BY <1>2, Zenon
<1>. QED
  BY <1>1, <1>3 DEF Gpio!LocalStep

\* An exchange that will be made again has made its access; what the list does is the
\* same if it begins with that access or with the same one again.
LEMMA GpioRepeated == GpioInv /\ Gpio!ExchangeRepeated => GpioInv'
<1>. SUFFICES ASSUME GpioInv, Gpio!ExchangeRepeated PROVE GpioInv'
  OBVIOUS
<1>0. /\ IsGpio(core) /\ todo # << >> /\ core' = Gpio!Accessed
      /\ Head(todo).act \in {"read", "poll", "write", "back"}
      /\ UNCHANGED << call, todo, buffer, ok, before >>
  BY DEF GpioInv, Gpio!ExchangeRepeated, Gpio!Exchange, Gpio!Access
<1>1. Target \subseteq Writable /\ Target' = Target
  BY <1>0, TargetKept
<1>2. ASSUME NEW d PROVE Done(d)' = Done(d)
  BY <1>0 DEF Done
<1>3. ASSUME NEW r \in Target, NEW v, core' = Gpio!AfterWrite(core, r, v)
      PROVE  /\ IsGpio(core')
             /\ Gpio!AfterWrite(core', r, v) = Gpio!AfterWrite(core, r, v)
             /\ \A q \in Target : q # r => Gpio!Value(core', q) = Gpio!Value(core, q)
  <2>1. /\ IsGpio(core')
        /\ Gpio!AfterWrite(core', r, v) = Gpio!AfterWrite(core, r, v)
    BY <1>0, <1>1, <1>3, GpioWritten
  <2>. QED
    BY <1>0, <1>1, <1>3, <2>1, ValueElsewhere
<1>4. CASE Head(todo).act = "read"
  <2>1. core' = core
    BY <1>0, <1>4 DEF Gpio!Accessed, Gpio!Reads, Gpio!Access, Gpio!AfterRead
  <2>2. CASE Idle \/ Looking
    BY <1>0, <1>1, <1>2, <2>1, <2>2 DEF GpioInv, Idle, Looking
  <2>3. CASE OneWrite \/ TwoWrites
    BY <1>0, <1>1, <1>2, <2>1, <2>3 DEF GpioInv, OneWrite, TwoWrites
  <2>4. CASE OneBack \/ OneChange
    BY <1>0, <1>1, <1>2, <2>1, <2>4 DEF GpioInv, OneBack, OneChange
  <2>5. CASE BackAndChange
    BY <1>0, <1>1, <1>2, <2>1, <2>5 DEF GpioInv, BackAndChange
  <2>6. CASE TwoChanges
    BY <1>0, <1>1, <1>2, <2>1, <2>6 DEF GpioInv, TwoChanges
  <2>. QED
    BY <2>2, <2>3, <2>4, <2>5, <2>6 DEF GpioInv
<1>5. CASE Looking \/ OneChange \/ TwoChanges
  <2>1. Head(todo).act = "read" \/ Head(todo).act = "require"
    BY <1>5 DEF Looking, OneChange, TwoChanges, Gpio!Read, Gpio!OrStop, Gpio!Require
  <2>. QED
    BY <1>0, <1>4, <2>1
<1>6. CASE OneWrite
  <2>1. PICK r \in Target : \E v : /\ todo = << Gpio!Write(r, v) >>
                                   /\ ok => Done(Gpio!AfterWrite(core, r, v))
    BY <1>6 DEF OneWrite
  <2>2. PICK v : /\ todo = << Gpio!Write(r, v) >>
                 /\ ok => Done(Gpio!AfterWrite(core, r, v))
    BY <2>1
  <2>3. core' = Gpio!AfterWrite(core, r, v)
    BY <1>0, <2>2 DEF Gpio!Accessed, Gpio!Reads, Gpio!Access, Gpio!Write, Gpio!Written
  <2>4. (ok => Done(Gpio!AfterWrite(core, r, v)))'
    BY <1>0, <1>2, <1>3, <2>2, <2>3
  <2>. QED
    BY <1>0, <1>1, <1>3, <2>2, <2>3, <2>4 DEF GpioInv, OneWrite
<1>7. CASE TwoWrites
  <2>1. PICK r \in Target, q \in Target : \E v, w :
          /\ todo = << Gpio!Write(r, v), Gpio!Write(q, w) >>
          /\ ok => Done(Gpio!AfterWrite(Gpio!AfterWrite(core, r, v), q, w))
    BY <1>7 DEF TwoWrites
  <2>2. PICK v, w :
          /\ todo = << Gpio!Write(r, v), Gpio!Write(q, w) >>
          /\ ok => Done(Gpio!AfterWrite(Gpio!AfterWrite(core, r, v), q, w))
    BY <2>1
  <2>3. core' = Gpio!AfterWrite(core, r, v)
    BY <1>0, <2>2 DEF Gpio!Accessed, Gpio!Reads, Gpio!Access, Gpio!Write, Gpio!Written
  <2>4. (ok => Done(Gpio!AfterWrite(Gpio!AfterWrite(core, r, v), q, w)))'
    BY <1>0, <1>2, <1>3, <2>2, <2>3
  <2>. QED
    BY <1>0, <1>1, <1>3, <2>2, <2>3, <2>4 DEF GpioInv, TwoWrites
<1>8. CASE OneBack
  <2>1. PICK r \in Target : \E on, off :
          /\ todo = << Gpio!WriteBack(r, on, off) >>
          /\ ok => Done(Gpio!AfterWrite(core, r, Changed(buffer, on, off)))
    BY <1>8 DEF OneBack
  <2>2. PICK on, off :
          /\ todo = << Gpio!WriteBack(r, on, off) >>
          /\ ok => Done(Gpio!AfterWrite(core, r, Changed(buffer, on, off)))
    BY <2>1
  <2>3. core' = Gpio!AfterWrite(core, r, Changed(buffer, on, off))
    BY <1>0, <2>2 DEF Gpio!Accessed, Gpio!Reads, Gpio!Access, Gpio!WriteBack, Gpio!Written, Changed
  <2>4. (ok => Done(Gpio!AfterWrite(core, r, Changed(buffer, on, off))))'
    BY <1>0, <1>2, <1>3, <2>2, <2>3
  <2>. QED
    BY <1>0, <1>1, <1>3, <2>2, <2>3, <2>4 DEF GpioInv, OneBack
<1>9. CASE BackAndChange
  <2>1. PICK r \in Target, q \in Target : \E on, off, up, down :
          /\ r # q
          /\ todo = << Gpio!WriteBack(r, on, off), Gpio!Read(q), Gpio!WriteBack(q, up, down) >>
          /\ ok => Done(Gpio!AfterWrite(Gpio!AfterWrite(core, r, Changed(buffer, on, off)),
                                        q, Changed(Gpio!Value(core, q), up, down)))
    BY <1>9 DEF BackAndChange
  <2>2. PICK on, off, up, down :
          /\ r # q
          /\ todo = << Gpio!WriteBack(r, on, off), Gpio!Read(q), Gpio!WriteBack(q, up, down) >>
          /\ ok => Done(Gpio!AfterWrite(Gpio!AfterWrite(core, r, Changed(buffer, on, off)),
                                        q, Changed(Gpio!Value(core, q), up, down)))
    BY <2>1
  <2>3. core' = Gpio!AfterWrite(core, r, Changed(buffer, on, off))
    BY <1>0, <2>2 DEF Gpio!Accessed, Gpio!Reads, Gpio!Access, Gpio!WriteBack, Gpio!Written, Changed
  <2>4. (ok => Done(Gpio!AfterWrite(Gpio!AfterWrite(core, r, Changed(buffer, on, off)),
                                    q, Changed(Gpio!Value(core, q), up, down))))'
    BY <1>0, <1>2, <1>3, <2>2, <2>3
  <2>. QED
    BY <1>0, <1>1, <1>3, <2>2, <2>3, <2>4 DEF GpioInv, BackAndChange
<1>. QED
  BY <1>0, <1>5, <1>6, <1>7, <1>8, <1>9 DEF GpioInv, Idle

\* The other steps of the host: what the rest of the list does is what is still wanted.
LEMMA GpioHost == GpioInv /\ GpioGoesOn => GpioInv'
<1>. SUFFICES ASSUME GpioInv, GpioGoesOn PROVE GpioInv'
  OBVIOUS
<1>0. IsGpio(core) /\ todo # << >>
  BY DEF GpioInv, GpioGoesOn, Gpio!ExchangeSucceeds, Gpio!ExchangeFails, Gpio!Exchange,
         Gpio!LocalStep
<1>t. Target \subseteq Writable /\ (call' = call => Target' = Target)
  BY TargetKept
<1>1. CASE Looking
  <2>1. CASE \E r : todo = << Gpio!Read(r) >>
    <3>0. PICK r : todo = << Gpio!Read(r) >>
      BY <2>1
    <3>2. Head(todo) = [act |-> "read", reg |-> r, fail |-> "note"] /\ Tail(todo) = << >>
      BY <3>0 DEF Gpio!Read
    <3>1. /\ core' = core /\ call' = call /\ before' = before /\ todo' = << >>
          /\ ok' => ok
      BY <3>2, GpioRead
    <3>. QED
      BY <1>0, <1>1, <3>1 DEF Looking, GpioInv, Idle, Done
  <2>2. CASE todo = << Gpio!OrStop(Gpio!Read("INTS")), Gpio!Require(Gpio!Bits) >>
    <3>1. Head(todo) = [act |-> "read", reg |-> "INTS", fail |-> "stop"]
      BY <2>2 DEF Gpio!Read, Gpio!OrStop
    <3>2. /\ core' = core /\ call' = call /\ before' = before
          /\ todo' = << Gpio!Require(Gpio!Bits) >> \/ todo' = << >>
          /\ ok' => ok
      BY <2>2, <3>1, GpioRead
    <3>. QED
      BY <1>0, <1>1, <3>2 DEF Looking, GpioInv, Idle, Done
  <2>3. CASE todo = << Gpio!Require(Gpio!Bits) >>
    <3>1. /\ core' = core /\ call' = call /\ before' = before /\ todo' = << >>
          /\ ok' => ok
      BY <2>3, GpioRequire
    <3>. QED
      BY <1>0, <1>1, <3>1 DEF Looking, GpioInv, Idle, Done
  <2>. QED
    BY <1>1, <2>1, <2>2, <2>3 DEF Looking
<1>2. ASSUME NEW r \in Target, NEW v, todo = << Gpio!Write(r, v) >>,
             ok => Done(Gpio!AfterWrite(core, r, v))
      PROVE  GpioInv'
  <2>1. /\ IsGpio(core') /\ call' = call /\ before' = before /\ todo' = << >>
        /\ ok' => ok /\ core' = Gpio!AfterWrite(core, r, v)
    BY <1>0, <1>t, <1>2, GpioWrite
  <2>. QED
    BY <1>2, <2>1 DEF GpioInv, Idle, Done
<1>3. ASSUME NEW r \in Target, NEW q \in Target, NEW v, NEW w,
             todo = << Gpio!Write(r, v), Gpio!Write(q, w) >>,
             ok => Done(Gpio!AfterWrite(Gpio!AfterWrite(core, r, v), q, w))
      PROVE  GpioInv'
  <2>1. /\ IsGpio(core') /\ call' = call /\ before' = before /\ todo' = << Gpio!Write(q, w) >>
        /\ ok' => ok /\ core' = Gpio!AfterWrite(core, r, v)
    BY <1>0, <1>t, <1>3, GpioWrite
  <2>2. ok' => Done(Gpio!AfterWrite(core, q, w))'
    BY <1>3, <2>1 DEF Done
  <2>. QED
    BY <1>t, <2>1, <2>2 DEF GpioInv, OneWrite
<1>4. ASSUME NEW r \in Target, NEW on, NEW off, todo = << Gpio!WriteBack(r, on, off) >>,
             ok => Done(Gpio!AfterWrite(core, r, Changed(buffer, on, off)))
      PROVE  GpioInv'
  <2>1. /\ IsGpio(core') /\ call' = call /\ before' = before /\ todo' = << >>
        /\ ok' => ok /\ core' = Gpio!AfterWrite(core, r, Changed(buffer, on, off))
    BY <1>0, <1>t, <1>4, GpioWrite
  <2>. QED
    BY <1>4, <2>1 DEF GpioInv, Idle, Done
<1>5. ASSUME NEW r \in Target, NEW on, NEW off,
             todo = << Gpio!Read(r), Gpio!WriteBack(r, on, off) >>,
             ok => Done(Gpio!AfterWrite(core, r, Changed(Gpio!Value(core, r), on, off)))
      PROVE  GpioInv'
  <2>0. /\ Head(todo) = [act |-> "read", reg |-> r, fail |-> "note"]
        /\ Tail(todo) = << Gpio!WriteBack(r, on, off) >>
    BY <1>5 DEF Gpio!Read
  <2>1. /\ core' = core /\ call' = call /\ before' = before
        /\ todo' = << Gpio!WriteBack(r, on, off) >>
        /\ ok' => ok /\ buffer' = Gpio!Value(core, r)
    BY <2>0, GpioRead
  <2>2. ok' => Done(Gpio!AfterWrite(core, r, Changed(buffer, on, off)))'
    BY <1>5, <2>1 DEF Done
  <2>. QED
    BY <1>0, <1>t, <2>1, <2>2 DEF GpioInv, OneBack
<1>6. ASSUME NEW r \in Target, NEW q \in Target, NEW on, NEW off, NEW up, NEW down,
             r # q,
             todo = << Gpio!WriteBack(r, on, off), Gpio!Read(q), Gpio!WriteBack(q, up, down) >>,
             ok => Done(Gpio!AfterWrite(Gpio!AfterWrite(core, r, Changed(buffer, on, off)),
                                        q, Changed(Gpio!Value(core, q), up, down)))
      PROVE  GpioInv'
  <2>1. /\ IsGpio(core') /\ call' = call /\ before' = before
        /\ todo' = << Gpio!Read(q), Gpio!WriteBack(q, up, down) >>
        /\ ok' => ok /\ core' = Gpio!AfterWrite(core, r, Changed(buffer, on, off))
    BY <1>0, <1>t, <1>6, GpioWrite
  <2>2. Gpio!Value(Gpio!AfterWrite(core, r, Changed(buffer, on, off)), q) = Gpio!Value(core, q)
    BY <1>0, <1>t, <1>6, ValueElsewhere
  <2>3. ok' => Done(Gpio!AfterWrite(core, q, Changed(Gpio!Value(core, q), up, down)))'
    BY <1>6, <2>1, <2>2 DEF Done
  <2>. QED
    BY <1>t, <2>1, <2>3 DEF GpioInv, OneChange
<1>7. ASSUME NEW r \in Target, NEW q \in Target, NEW on, NEW off, NEW up, NEW down,
             r # q,
             todo = << Gpio!Read(r), Gpio!WriteBack(r, on, off),
                       Gpio!Read(q), Gpio!WriteBack(q, up, down) >>,
             ok => Done(Gpio!AfterWrite(Gpio!AfterWrite(core, r, Changed(Gpio!Value(core, r), on, off)),
                                        q, Changed(Gpio!Value(core, q), up, down)))
      PROVE  GpioInv'
  <2>0. /\ Head(todo) = [act |-> "read", reg |-> r, fail |-> "note"]
        /\ Tail(todo) = << Gpio!WriteBack(r, on, off), Gpio!Read(q), Gpio!WriteBack(q, up, down) >>
    BY <1>7 DEF Gpio!Read
  <2>1. /\ core' = core /\ call' = call /\ before' = before
        /\ todo' = << Gpio!WriteBack(r, on, off), Gpio!Read(q), Gpio!WriteBack(q, up, down) >>
        /\ ok' => ok /\ buffer' = Gpio!Value(core, r)
    BY <2>0, GpioRead
  <2>2. ok' => Done(Gpio!AfterWrite(Gpio!AfterWrite(core, r, Changed(buffer, on, off)),
                                    q, Changed(Gpio!Value(core, q), up, down)))'
    BY <1>7, <2>1 DEF Done
  <2>3. BackAndChange'
    BY <1>7, <1>t, <2>1, <2>2 DEF BackAndChange
  <2>. QED
    BY <1>0, <2>1, <2>3 DEF GpioInv
<1>. QED
  BY <1>0, <1>1, <1>2, <1>3, <1>4, <1>5, <1>6, <1>7
     DEF GpioInv, Idle, OneWrite, TwoWrites, OneBack, OneChange, BackAndChange, TwoChanges

\* Nothing that edges do breaks what the rest of the operation leads to.
LEMMA GpioLater ==
    ASSUME GpioInv, Later(core, core'),
           call' = call, before' = before, todo' = todo, ok' = ok, buffer' = buffer
    PROVE  GpioInv'
<1>1. Later(core, core') /\ IsGpio(core')
  BY DEF Later
<1>2. ASSUME NEW d, NEW e, Later(d, e), ok => Done(d) PROVE ok' => Done(e)'
  BY <1>1, <1>2, LaterDone DEF Done
<1>t. Target \subseteq Writable /\ Target' = Target
  BY TargetKept
<1>3. ASSUME NEW d, NEW e, Later(d, e), NEW r \in Target, NEW on, NEW off
      PROVE  Later(Gpio!AfterWrite(d, r, Changed(Gpio!Value(core, r), on, off)),
                   Gpio!AfterWrite(e, r, Changed(Gpio!Value(core', r), on, off)))
  <2>1. IF r = "INTS" THEN Gpio!Value(core, r) \subseteq Gpio!Value(core', r)
                      ELSE Gpio!Value(core, r) = Gpio!Value(core', r)
    BY <1>1, <1>t DEF Later, Writable, Gpio!REGISTER, Gpio!Value
  <2>2. IF r = "INTS" THEN Changed(Gpio!Value(core, r), on, off)
                                \subseteq Changed(Gpio!Value(core', r), on, off)
                      ELSE Changed(Gpio!Value(core, r), on, off)
                                = Changed(Gpio!Value(core', r), on, off)
    BY <2>1 DEF Changed
  <2>. QED
    BY <1>3, <1>t, <2>2, LaterWritten
<1>4. ASSUME NEW d, NEW e, Later(d, e), NEW r \in Target, NEW v
      PROVE  Later(Gpio!AfterWrite(d, r, v), Gpio!AfterWrite(e, r, v))
  BY <1>4, <1>t, LaterWritten
<1>5. CASE Idle
  BY <1>1, <1>2, <1>5 DEF Idle, GpioInv
<1>6. CASE Looking
  BY <1>1, <1>2, <1>6 DEF Looking, GpioInv
<1>7. CASE OneWrite
  BY <1>1, <1>2, <1>4, <1>t, <1>7 DEF OneWrite, GpioInv
<1>8. CASE TwoWrites
  BY <1>1, <1>2, <1>4, <1>t, <1>8 DEF TwoWrites, GpioInv
<1>9. CASE OneBack
  BY <1>1, <1>2, <1>4, <1>t, <1>9 DEF OneBack, GpioInv
<1>10. CASE OneChange
  BY <1>1, <1>2, <1>3, <1>t, <1>10 DEF OneChange, GpioInv
<1>11. CASE BackAndChange
  <2>0. PICK r \in Target, q \in Target : \E on, off, up, down :
          /\ r # q
          /\ todo = << Gpio!WriteBack(r, on, off), Gpio!Read(q), Gpio!WriteBack(q, up, down) >>
          /\ ok => Done(Gpio!AfterWrite(Gpio!AfterWrite(core, r, Changed(buffer, on, off)),
                                        q, Changed(Gpio!Value(core, q), up, down)))
    BY <1>11 DEF BackAndChange
  <2>1. PICK on, off, up, down :
          /\ r # q
          /\ todo = << Gpio!WriteBack(r, on, off), Gpio!Read(q), Gpio!WriteBack(q, up, down) >>
          /\ ok => Done(Gpio!AfterWrite(Gpio!AfterWrite(core, r, Changed(buffer, on, off)),
                                        q, Changed(Gpio!Value(core, q), up, down)))
    BY <2>0
  <2>2. Later(Gpio!AfterWrite(core, r, Changed(buffer, on, off)),
              Gpio!AfterWrite(core', r, Changed(buffer, on, off)))
    BY <1>1, <1>4
  <2>3. Later(Gpio!AfterWrite(Gpio!AfterWrite(core, r, Changed(buffer, on, off)),
                              q, Changed(Gpio!Value(core, q), up, down)),
              Gpio!AfterWrite(Gpio!AfterWrite(core', r, Changed(buffer, on, off)),
                              q, Changed(Gpio!Value(core', q), up, down)))
    BY <1>3, <2>2
  <2>4. (ok => Done(Gpio!AfterWrite(Gpio!AfterWrite(core, r, Changed(buffer, on, off)),
                                    q, Changed(Gpio!Value(core, q), up, down))))'
    BY <1>2, <2>1, <2>3
  <2>5. BackAndChange'
    BY <1>1, <1>t, <2>1, <2>4 DEF BackAndChange
  <2>. QED
    BY <1>1, <2>5 DEF GpioInv
<1>12. CASE TwoChanges
  <2>0. PICK r \in Target, q \in Target : \E on, off, up, down :
          /\ r # q
          /\ todo = << Gpio!Read(r), Gpio!WriteBack(r, on, off),
                       Gpio!Read(q), Gpio!WriteBack(q, up, down) >>
          /\ ok => Done(Gpio!AfterWrite(Gpio!AfterWrite(core, r, Changed(Gpio!Value(core, r), on, off)),
                                        q, Changed(Gpio!Value(core, q), up, down)))
    BY <1>12 DEF TwoChanges
  <2>1. PICK on, off, up, down :
          /\ r # q
          /\ todo = << Gpio!Read(r), Gpio!WriteBack(r, on, off),
                       Gpio!Read(q), Gpio!WriteBack(q, up, down) >>
          /\ ok => Done(Gpio!AfterWrite(Gpio!AfterWrite(core, r, Changed(Gpio!Value(core, r), on, off)),
                                        q, Changed(Gpio!Value(core, q), up, down)))
    BY <2>0
  <2>2. Later(Gpio!AfterWrite(core, r, Changed(Gpio!Value(core, r), on, off)),
              Gpio!AfterWrite(core', r, Changed(Gpio!Value(core', r), on, off)))
    BY <1>1, <1>3
  <2>3. Later(Gpio!AfterWrite(Gpio!AfterWrite(core, r, Changed(Gpio!Value(core, r), on, off)),
                              q, Changed(Gpio!Value(core, q), up, down)),
              Gpio!AfterWrite(Gpio!AfterWrite(core', r, Changed(Gpio!Value(core', r), on, off)),
                              q, Changed(Gpio!Value(core', q), up, down)))
    BY <1>3, <2>2
  <2>4. (ok => Done(Gpio!AfterWrite(Gpio!AfterWrite(core, r, Changed(Gpio!Value(core, r), on, off)),
                                    q, Changed(Gpio!Value(core, q), up, down))))'
    BY <1>2, <2>1, <2>3
  <2>5. TwoChanges'
    BY <1>1, <1>t, <2>1, <2>4 DEF TwoChanges
  <2>. QED
    BY <1>1, <2>5 DEF GpioInv
<1>. QED
  BY <1>5, <1>6, <1>7, <1>8, <1>9, <1>10, <1>11, <1>12 DEF GpioInv

\* A pin changes between two exchanges.
LEMMA GpioEdge == ASSUME NEW pin, GpioInv, Gpio!Edge(pin) PROVE GpioInv'
<1>0. PICK up, hit :
         /\ core' = [core EXCEPT !.IN    = IF up THEN @ \cup {pin} ELSE @ \ {pin},
                                 !.INTS  = IF hit THEN @ \cup {pin} ELSE @,
                                 !.edges = @ + 1]
         /\ call' = call /\ before' = before /\ todo' = todo /\ ok' = ok /\ buffer' = buffer
  BY DEF Gpio!Edge, Gpio!CoreStep
<1>1. IsGpio(core)
  BY DEF GpioInv
<1>2. IsGpio(core')
  BY <1>0, <1>1 DEF IsGpio
<1>3. core.INTS \subseteq core'.INTS
  BY <1>0, <1>1 DEF IsGpio, Cells, Gpio!REGISTER
<1>4. \A r \in {"OUT", "OE", "INTE", "PTRIG", "CTRL", "readable"} : core[r] = core'[r]
  BY <1>0, <1>1 DEF IsGpio, Cells, Gpio!REGISTER
<1>. QED
  BY <1>0, <1>1, <1>2, <1>3, <1>4, GpioLater DEF Later

\* No step of a Gpio8 leaves its invariant.
LEMMA GpioInductive == GpioInv /\ [Gpio!Next]_(Gpio!vars) => GpioInv'
<1>1. ASSUME GpioInv, Gpio!Next PROVE GpioInv'
  BY <1>1, GpioCall, GpioRepeated, GpioHost, GpioEdge DEF Gpio!Next, Gpio!Host, GpioGoesOn
<1>2. ASSUME GpioInv, UNCHANGED Gpio!vars PROVE GpioInv'
  BY <1>2, LaterSame, GpioLater DEF Gpio!vars, GpioInv
<1>. QED
  BY <1>1, <1>2

\* What the host does to the core, if it does anything.
LEMMA GpioMoves ==
    ASSUME GpioInv, Gpio!Host
    PROVE  core' = core \/ \E r \in Target : \E v : core' = Gpio!AfterWrite(core, r, v)
<1>1. \/ core' = core
      \/ todo # << >> /\ Gpio!Exchange /\ core' = Gpio!Accessed
  BY DEF Gpio!Host, Gpio!ExchangeSucceeds, Gpio!ExchangeRepeated, Gpio!ExchangeFails,
         Gpio!LocalStep, Gpio!Exchange
<1>2. CASE Gpio!Reads
  BY <1>1, <1>2 DEF Gpio!Accessed, Gpio!AfterRead
<1>3. CASE todo # << >> /\ Gpio!Exchange /\ core' = Gpio!Accessed /\ ~Gpio!Reads
  <2>1. core' = Gpio!AfterWrite(core, Head(todo).reg, Gpio!Written)
    BY <1>3 DEF Gpio!Accessed, Gpio!Access
  <2>2. Head(todo).act \in {"write", "back"}
    BY <1>3 DEF Gpio!Exchange, Gpio!Reads, Gpio!Access
  <2>3. Head(todo).reg \in Target
    BY <1>3, <2>2 DEF GpioInv, Idle, Looking, OneWrite, TwoWrites, OneBack, OneChange,
         BackAndChange, TwoChanges, Gpio!Read, Gpio!OrStop, Gpio!Require, Gpio!Write,
         Gpio!WriteBack
  <2>. QED
    BY <2>1, <2>3
<1>. QED
  BY <1>1, <1>2, <1>3

\* An operation that returns true has nothing left to do but what happened to pins since.
LEMMA GpioHonest == ASSUME GpioInv, GpioInv', Gpio!Next PROVE Gpio!OnlyItsPin
<1>. SUFFICES ASSUME todo # << >>, todo' = << >>, ok' PROVE Gpio!OnlyItsPin
  BY DEF Gpio!OnlyItsPin, Gpio!ReturnsTrue
<1>1. Done(core)'
  BY DEF GpioInv, Idle, Looking, OneWrite, TwoWrites, OneBack, OneChange, BackAndChange, TwoChanges
<1>2. Gpio!Host \/ \E pin \in Pins : Gpio!Edge(pin)
  BY DEF Gpio!Next, Gpio!Call, Gpio!Start, Gpio!StartWith, Gpio!IsPinInput, Gpio!GetPin,
     Gpio!MakePinInput, Gpio!MakePinOutput, Gpio!ClearInterrupt, Gpio!SetPin,
     Gpio!EnablePinInterrupt, Gpio!ArePinsInput, Gpio!MakeAllPinsInput, Gpio!MakeAllPinsOutput,
     Gpio!ReleaseInterrupts, Gpio!LockInterrupts, Gpio!EnableAllPinInterrupts,
     Gpio!ClearInterrupts, Gpio!IdentifyInterruptingPins, Gpio!SetAllPins, Gpio!GetAllPins
<1>3. Gpio!Host
  BY <1>2 DEF Gpio!Edge, Gpio!CoreStep
<1>4. before' = before /\ call' = call
  BY <1>3 DEF Gpio!Host, Gpio!ExchangeSucceeds, Gpio!ExchangeRepeated,
     Gpio!ExchangeFails, Gpio!LocalStep
<1>5. ~(core.INTS \subseteq core'.INTS) => Clearing
  <2>1. CASE core' = core
    BY <2>1
  <2>2. ASSUME NEW r \in Target, NEW v, core' = Gpio!AfterWrite(core, r, v)
        PROVE  ~(core.INTS \subseteq core'.INTS) => r = "INTS"
    BY <2>2, TargetKept, GpioWritten DEF GpioInv, Cells, Gpio!REGISTER
  <2>. QED
    BY <1>3, <2>1, <2>2, GpioMoves DEF Target
<1>6. core'.readable = core.readable
  BY <1>3, GpioMoves, TargetKept, GpioWritten DEF GpioInv, Cells, Writable, Gpio!REGISTER
<1>. QED
  BY <1>1, <1>4, <1>5, <1>6 DEF Done, Clearing, Gpio!OnlyItsPin

-----------------------------------------------------------------------------
(* Lists of accesses.                                                      *)

From(s, k) == SubSeq(s, k, Len(s))

\* A list from place k on: its head, its tail, ...
LEMMA FromStep ==
    ASSUME NEW S, NEW s \in Seq(S), NEW k \in 1 .. Len(s)
    PROVE  /\ From(s, k) # << >>
           /\ Head(From(s, k)) = s[k]
           /\ Tail(From(s, k)) = From(s, k + 1)
<1>1. /\ From(s, k) \in Seq(S) /\ Len(From(s, k)) = Len(s) - k + 1
      /\ \A i \in 1 .. Len(s) - k + 1 : From(s, k)[i] = s[k + i - 1]
  BY SubSeqProperties DEF From
<1>2. /\ From(s, k + 1) \in Seq(S) /\ Len(From(s, k + 1)) = Len(s) - k
      /\ \A i \in 1 .. Len(s) - k : From(s, k + 1)[i] = s[k + i]
  <2>1. CASE k < Len(s)
    BY <2>1, SubSeqProperties DEF From
  <2>2. CASE k = Len(s)
    BY <2>2 DEF From
  <2>. QED
    BY <2>1, <2>2
<1>3. From(s, k) # << >>
  BY <1>1
<1>4. /\ Tail(From(s, k)) \in Seq(S) /\ Len(Tail(From(s, k))) = Len(s) - k
      /\ \A i \in 1 .. Len(s) - k : Tail(From(s, k))[i] = From(s, k)[i + 1]
  BY <1>1, <1>3, HeadTailProperties
<1>5. Tail(From(s, k)) = From(s, k + 1)
  <2>1. Len(Tail(From(s, k))) = Len(From(s, k + 1))
    BY <1>2, <1>4
  <2>2. ASSUME NEW i \in 1 .. Len(Tail(From(s, k)))
        PROVE  Tail(From(s, k))[i] = From(s, k + 1)[i]
    <3>1. i \in 1 .. Len(s) - k /\ i + 1 \in 1 .. Len(s) - k + 1
      BY <1>4
    <3>2. From(s, k)[i + 1] = s[k + (i + 1) - 1] /\ k + (i + 1) - 1 = k + i
      BY <1>1, <3>1
    <3>. QED
      BY <1>2, <1>4, <3>1, <3>2
  <2>. QED
    BY <1>2, <1>4, <2>1, <2>2, SeqEqual
<1>. QED
  BY <1>1, <1>3, <1>5

\* ... its end ...
LEMMA FromEnd == ASSUME NEW S, NEW s \in Seq(S) PROVE From(s, Len(s) + 1) = << >>
BY DEF From

\* ... and its beginning.
LEMMA FromStart == ASSUME NEW S, NEW s \in Seq(S) PROVE From(s, 1) = s
BY DEF From

-----------------------------------------------------------------------------
(* Uart.                                                                   *)

UartFields == {"LCR", "IER", "MCR", "DLL", "DLM", "sent", "received", "longFifo", "arrivals"}

IsUart(c) == c = [f \in UartFields |-> c[f]]

LineSteps(baudrate) ==
    << Ser!Ignoring(Ser!Read("LCR")), Ser!WriteBack("LCR", {7}, {}),
       Ser!Write("DLL", Ser!Low(baudrate)), Ser!Write("DLM", Ser!High(baudrate)),
       Ser!WriteBack("LCR", {}, {7}) >>

InitSteps(line, baudrate) ==
    << Ser!OrStop(Ser!Write("LCR", Ser!LcrContent(line))),
       Ser!Ignoring(Ser!Read("LCR")), Ser!WriteBack("LCR", {7}, {}),
       Ser!Write("DLL", Ser!Low(baudrate)), Ser!Write("DLM", Ser!High(baudrate)),
       Ser!WriteBack("LCR", {}, {7}),
       Ser!Check,
       Ser!OrStop(Ser!Read("LCR")), Ser!OrStop(Ser!WriteBack("LCR", {7}, {})),
       Ser!OrStop(Ser!Write("FCR", {0, 5})),
       Ser!OrStop(Ser!WriteBack("LCR", {}, {7})),
       Ser!Fresh({}), Ser!Read("IER"), Ser!WriteBack("IER", {}, {1}) >>

\* The settings made when the k-th step of init() comes next, or comes again.
Settings(k, line, baudrate) ==
    LET lcr == Ser!LcrContent(line)
    IN  /\ k \in {2, 7, 8, 12, 13, 14, 15} => core.LCR = lcr
        /\ k \in {3, 9} => core.LCR \in {lcr, lcr \cup {7}} /\ buffer = lcr
        /\ k \in {4, 5, 10} => core.LCR = lcr \cup {7} /\ buffer = lcr \cup {7}
        /\ k \in {6, 11} => core.LCR \in {lcr, lcr \cup {7}} /\ buffer = lcr \cup {7}
        /\ k >= 5 => core.DLL = Ser!Low(baudrate)
        /\ k >= 6 => core.DLM = Ser!High(baudrate)
        /\ k >= 11 => core.longFifo
        /\ k = 15 => 1 \notin core.IER

Smooth == ok /\ "ignored" \notin trouble

\* The latch is closed unless an access has failed.
Closed == "failed" \in trouble \/ 7 \notin core.LCR

Initializing == \E line, baudrate :
    /\ Ser!Legal(line)
    /\ call.line = line /\ call.baudrate = baudrate
    /\ \E k \in 1 .. 15 :
          /\ todo = From(InitSteps(line, baudrate), k)
          /\ Smooth => Settings(k, line, baudrate)
          /\ k \notin {3, 4, 5, 6, 9, 10, 11} => Closed

LeavingInit == Closed /\ ((todo = << >> /\ ~ok) \/ todo = << Ser!ReturnFalse >>)

\* The program ends before it comes to the latch.
Doomed ==
    /\ Closed
    /\ todo # << >>
    /\ \/ Head(todo) = Ser!Die
       \/ /\ \E line : Ser!Legal(line) /\ Head(todo) = Ser!OrStop(Ser!Write("LCR", Ser!LcrContent(line)))
          /\ Tail(todo) # << >> /\ Head(Tail(todo)) = Ser!Die

SettingBaudrate ==
    \/ \E baudrate : \E k \in 1 .. 6 :
          /\ todo = From(LineSteps(baudrate), k)
          /\ k \notin {2, 3, 4, 5} => Closed
    \/ todo = << >> /\ Closed

\* The steps of the other operations leave the latch and what is behind it alone.
Plain(a) ==
    \/ /\ \/ a.act = "read" /\ a.reg \in {"RX", "IER", "IIR", "MCR"}
          \/ a.act \in {"write", "back"} /\ a.reg \in {"TX", "IER", "FCR", "MCR"}
       /\ a.fail \in {"note", "ignore", "stop"}
    \/ a.act \in Ser!Local

Others ==
    /\ Closed
    /\ \/ todo = << >>
       \/ \E a : todo = << a >> /\ Plain(a)
       \/ \E a, b : todo = << a, b >> /\ Plain(a) /\ Plain(b)
       \/ \E a, b, c : todo = << a, b, c >> /\ Plain(a) /\ Plain(b) /\ Plain(c)

SerInv ==
    /\ IsUart(core)
    /\ CASE call.op = "init"        -> Initializing \/ LeavingInit \/ Doomed
         [] call.op = "setBaudrate" -> SettingBaudrate \/ Doomed
         [] OTHER                   -> Others

\* Before any operation.
LEMMA SerInit == Ser!Init => SerInv
<1>. SUFFICES ASSUME Ser!Init PROVE SerInv
  OBVIOUS
<1>1. IsUart(core) /\ 7 \notin core.LCR
  BY DEF Ser!Init, Ser!Begin, Ser!Reset, IsUart, UartFields
<1>2. Others /\ call.op = "none"
  BY <1>1 DEF Ser!Init, Ser!Begin, Ser!NoCall, Others, Closed
<1>. QED
  BY <1>1, <1>2 DEF SerInv

\* The content of LCR for a setting the driver takes leaves the divisor latch closed.
LEMMA LineContent == ASSUME NEW line, Ser!Legal(line) PROVE 7 \notin Ser!LcrContent(line)
BY DEF Ser!Legal, Ser!LcrContent, Ser!WordBits, Ser!StopBits, Ser!ParityBits

\* Lists put together from shorter ones.
LEMMA OneAndFive ==
    \A a, b, c, d, e, f :
       << a >> \o << b, c, d, e, f >> = << a, b, c, d, e, f >>
<1>. TAKE a, b, c, d, e, f
<1>. DEFINE S == {a, b, c, d, e, f}
            s == << a >>
            t == << b, c, d, e, f >>
            u == << a, b, c, d, e, f >>
<1>1. s \in Seq(S) /\ t \in Seq(S) /\ u \in Seq(S)
  OBVIOUS
<1>2. /\ s \o t \in Seq(S)
      /\ Len(s \o t) = 6
      /\ \A z \in 1 .. 6 : (s \o t)[z] = u[z]
  BY <1>1, ConcatProperties
<1>. QED
  BY <1>1, <1>2, SeqEqual

\* Lists put together, step by step.
LEMMA SixAndFive ==
    \A a, b, c, d, e, f, g, h, i, j, k :
       << a, b, c, d, e, f >> \o << g, h, i, j, k >> = << a, b, c, d, e, f, g, h, i, j, k >>
<1>. TAKE a, b, c, d, e, f, g, h, i, j, k
<1>. DEFINE S == {a, b, c, d, e, f, g, h, i, j, k}
            s == << a, b, c, d, e, f >>
            t == << g, h, i, j, k >>
            u == << a, b, c, d, e, f, g, h, i, j, k >>
<1>1. s \in Seq(S) /\ t \in Seq(S) /\ u \in Seq(S)
  OBVIOUS
<1>2. /\ s \o t \in Seq(S)
      /\ Len(s \o t) = 11
      /\ \A z \in 1 .. 11 : (s \o t)[z] = u[z]
  BY <1>1, ConcatProperties
<1>. QED
  BY <1>1, <1>2, SeqEqual

\* The first eleven steps and one more.
LEMMA ElevenAndOne ==
    \A a, b, c, d, e, f, g, h, i, j, k, l :
       << a, b, c, d, e, f, g, h, i, j, k >> \o << l >> = << a, b, c, d, e, f, g, h, i, j, k, l >>
<1>. TAKE a, b, c, d, e, f, g, h, i, j, k, l
<1>. DEFINE S == {a, b, c, d, e, f, g, h, i, j, k, l}
            s == << a, b, c, d, e, f, g, h, i, j, k >>
            t == << l >>
            u == << a, b, c, d, e, f, g, h, i, j, k, l >>
<1>1. s \in Seq(S) /\ t \in Seq(S) /\ u \in Seq(S)
  OBVIOUS
<1>2. /\ s \o t \in Seq(S)
      /\ Len(s \o t) = 12
      /\ \A z \in 1 .. 12 : (s \o t)[z] = u[z]
  BY <1>1, ConcatProperties
<1>. QED
  BY <1>1, <1>2, SeqEqual

\* Twelve steps and two more.
LEMMA TwelveAndTwo ==
    \A a, b, c, d, e, f, g, h, i, j, k, l, m, n :
       << a, b, c, d, e, f, g, h, i, j, k, l >> \o << m, n >> = << a, b, c, d, e, f, g, h, i, j, k, l, m, n >>
<1>. TAKE a, b, c, d, e, f, g, h, i, j, k, l, m, n
<1>. DEFINE S == {a, b, c, d, e, f, g, h, i, j, k, l, m, n}
            s == << a, b, c, d, e, f, g, h, i, j, k, l >>
            t == << m, n >>
            u == << a, b, c, d, e, f, g, h, i, j, k, l, m, n >>
<1>1. s \in Seq(S) /\ t \in Seq(S) /\ u \in Seq(S)
  OBVIOUS
<1>2. /\ s \o t \in Seq(S)
      /\ Len(s \o t) = 14
      /\ \A z \in 1 .. 14 : (s \o t)[z] = u[z]
  BY <1>1, ConcatProperties
<1>. QED
  BY <1>1, <1>2, SeqEqual

\* The accesses of Uart::init(), one after the other.
LEMMA InitList ==
    ASSUME NEW line, NEW baudrate, Ser!Sane(baudrate)
    PROVE  << Ser!OrStop(Ser!Write("LCR", Ser!LcrContent(line))) >>
             \o Ser!BaudrateSteps(baudrate)
             \o << Ser!Check,
                   Ser!OrStop(Ser!Read("LCR")), Ser!OrStop(Ser!WriteBack("LCR", {7}, {})),
                   Ser!OrStop(Ser!Write("FCR", {0, 5})),
                   Ser!OrStop(Ser!WriteBack("LCR", {}, {7})) >>
             \o << Ser!Fresh({}) >> \o Ser!Modify("IER", {}, {Ser!INTERRUPT["TX_EMPTY"]})
           = InitSteps(line, baudrate)
<1>. DEFINE a == Ser!OrStop(Ser!Write("LCR", Ser!LcrContent(line)))
            b == Ser!Ignoring(Ser!Read("LCR"))
            c == Ser!WriteBack("LCR", {7}, {})
            d == Ser!Write("DLL", Ser!Low(baudrate))
            e == Ser!Write("DLM", Ser!High(baudrate))
            f == Ser!WriteBack("LCR", {}, {7})
            g == Ser!Check
            h == Ser!OrStop(Ser!Read("LCR"))
            i == Ser!OrStop(Ser!WriteBack("LCR", {7}, {}))
            j == Ser!OrStop(Ser!Write("FCR", {0, 5}))
            k == Ser!OrStop(Ser!WriteBack("LCR", {}, {7}))
            l == Ser!Fresh({})
            m == Ser!Read("IER")
            n == Ser!WriteBack("IER", {}, {1})
<1>1. Ser!BaudrateSteps(baudrate) = << b, c, d, e, f >>
  BY DEF Ser!BaudrateSteps
<1>2. Ser!Modify("IER", {}, {Ser!INTERRUPT["TX_EMPTY"]}) = << m, n >>
  BY DEF Ser!Modify, Ser!INTERRUPT
<1>3. InitSteps(line, baudrate) = << a, b, c, d, e, f, g, h, i, j, k, l, m, n >>
  BY DEF InitSteps
<1>. HIDE DEF a, b, c, d, e, f, g, h, i, j, k, l, m, n
<1>4. << a >> \o << b, c, d, e, f >> = << a, b, c, d, e, f >>
  BY OneAndFive
<1>5. << a, b, c, d, e, f >> \o << g, h, i, j, k >> = << a, b, c, d, e, f, g, h, i, j, k >>
  BY SixAndFive
<1>6. << a, b, c, d, e, f, g, h, i, j, k >> \o << l >> = << a, b, c, d, e, f, g, h, i, j, k, l >>
  BY ElevenAndOne
<1>7. << a, b, c, d, e, f, g, h, i, j, k, l >> \o << m, n >>
        = << a, b, c, d, e, f, g, h, i, j, k, l, m, n >>
  BY TwelveAndTwo
<1>8. << a >> \o Ser!BaudrateSteps(baudrate) \o << g, h, i, j, k >> \o << l >>
        \o Ser!Modify("IER", {}, {Ser!INTERRUPT["TX_EMPTY"]})
        = InitSteps(line, baudrate)
  BY <1>1, <1>2, <1>3, <1>4, <1>5, <1>6, <1>7
<1>. QED
  BY <1>8 DEF a, g, h, i, j, k, l

\* d is c with v written to r.
Made(c, r, v, d) ==
    /\ IsUart(d)
    /\ d.LCR = IF r = "LCR" THEN v ELSE c.LCR
    /\ d.DLL = IF r \in {"DLL", "TX"} /\ 7 \in c.LCR THEN v ELSE c.DLL
    /\ d.DLM = IF r \in {"DLM", "IER"} /\ 7 \in c.LCR THEN v ELSE c.DLM
    /\ d.IER = IF r \in {"DLM", "IER"} /\ 7 \notin c.LCR THEN v ELSE c.IER
    /\ d.longFifo = IF r = "FCR" /\ 7 \in c.LCR THEN 5 \in v ELSE c.longFifo

UartWritable == {"LCR", "DLL", "DLM", "FCR", "IER", "MCR", "TX"}

\* What a write does to the fields the settings are about.
LEMMA UartWritten ==
    ASSUME NEW c, IsUart(c), NEW r \in UartWritable, NEW v
    PROVE  Made(c, r, v, Ser!AfterWrite(c, r, v))
<1>. USE DEF Ser!AfterWrite, Ser!Address, Ser!LatchOpen, Made, IsUart, UartFields
<1>1. CASE r = "LCR"
  BY <1>1
<1>2. CASE r = "DLL"
  BY <1>2
<1>3. CASE r = "DLM"
  BY <1>3
<1>4. CASE r = "FCR"
  <2>1. Ser!AfterWrite(c, r, v)
          = [c EXCEPT !.longFifo = IF 7 \in c.LCR THEN 5 \in v ELSE @,
                      !.received = IF 1 \in v THEN 0 ELSE @]
    BY <1>4
  <2>. HIDE DEF Ser!AfterWrite
  <2>2. IsUart(Ser!AfterWrite(c, r, v))
    BY <2>1
  <2>3. Ser!AfterWrite(c, r, v).longFifo = IF 7 \in c.LCR THEN 5 \in v ELSE c.longFifo
    BY <2>1
  <2>4. \A f \in UartFields \ {"longFifo", "received"} : Ser!AfterWrite(c, r, v)[f] = c[f]
    BY <2>1
  <2>. QED
    BY <1>4, <2>2, <2>3, <2>4
<1>5. CASE r = "IER"
  BY <1>5
<1>6. CASE r = "MCR"
  BY <1>6
<1>7. CASE r = "TX"
  BY <1>7
<1>. QED
  BY <1>1, <1>2, <1>3, <1>4, <1>5, <1>6, <1>7 DEF UartWritable

\* How an exchange ends.
Ends ==
    /\ call' = call /\ kept' = kept /\ trouble \subseteq trouble'
    /\ ok' => ok
    /\ todo' = Tail(todo) \/ (todo' = << >> /\ "failed" \in trouble' /\ ~ok')

\* A step that goes on with the list: an exchange that is not to be sent again, or
\* a step without one.
SerGoesOn == Ser!ExchangeSucceeds \/ Ser!ExchangeFails \/ Ser!LocalStep

\* What an exchange does that reads, ...
LEMMA SerRead ==
    ASSUME NEW r \in {"LCR", "IER"}, NEW f \in {"note", "ignore", "stop"},
           Head(todo) = [act |-> "read", reg |-> r, fail |-> f],
           IsUart(core), SerGoesOn
    PROVE  /\ Ends /\ core' = core
           /\ Smooth' => Smooth /\ todo' = Tail(todo) /\ (r = "LCR" => buffer' = core.LCR)
<1>. USE DEF Ser!Access, Ser!Exchange
<1>1. Ser!Accessed = core
  BY DEF Ser!Accessed, Ser!Reads, Ser!AfterRead, Ser!Address
<1>2. CASE Ser!ExchangeSucceeds
  <2>1. /\ core' = core /\ todo' = Tail(todo) /\ ok' = ok /\ call' = call /\ kept' = kept
        /\ trouble' = trouble
    BY <1>1, <1>2 DEF Ser!ExchangeSucceeds
  <2>2. r = "LCR" => buffer' = core.LCR
    BY <1>2 DEF Ser!ExchangeSucceeds, Ser!Reads, Ser!Value, Ser!Address
  <2>. QED
    BY <2>1, <2>2 DEF Ends, Smooth
<1>5. CASE Ser!ExchangeFails
  <2>1. ok' = (ok /\ Head(todo).fail = "ignore") /\ Head(todo).fail = f
    BY <1>5 DEF Ser!ExchangeFails
  <2>2. (ok' => ok) /\ (f # "ignore" => ~ok')
    BY <2>1, Zenon
  <2>3. core' = core
    BY <1>1, <1>5 DEF Ser!ExchangeFails
  <2>4. trouble' = trouble \cup {IF f = "ignore" THEN "ignored" ELSE "failed"}
    BY <1>5, <2>1 DEF Ser!ExchangeFails
  <2>5. call' = call /\ kept' = kept /\ (todo' = Tail(todo) \/ (todo' = << >> /\ f = "stop"))
    BY <1>5, <2>1 DEF Ser!ExchangeFails
  <2>6. ~Smooth'
    BY <2>2, <2>4 DEF Smooth
  <2>. QED
    BY <2>2, <2>3, <2>4, <2>5, <2>6 DEF Ends
<1>6. CASE Ser!LocalStep
  BY <1>6 DEF Ser!LocalStep, Ser!Local
<1>. QED
  BY <1>2, <1>5, <1>6 DEF SerGoesOn

\* ... and one that writes: all is as asked, or the failure is noted.
LEMMA SerWrite ==
    ASSUME NEW r \in UartWritable, NEW v, NEW f \in {"note", "stop"},
           \/ Head(todo) = [act |-> "write", reg |-> r, data |-> v, fail |-> f]
           \/ \E on, off :
                 /\ Head(todo) = [act |-> "back", reg |-> r, on |-> on, off |-> off, fail |-> f]
                 /\ v = Changed(buffer, on, off),
           IsUart(core), SerGoesOn
    PROVE  /\ Ends
           /\ core' = core \/ Made(core, r, v, core')
           /\ "failed" \notin trouble' => Made(core, r, v, core')
           /\ Smooth' => Smooth /\ todo' = Tail(todo) /\ Made(core, r, v, core')
           /\ buffer' = IF Head(todo).act = "back" THEN v ELSE buffer
<1>. USE DEF Ser!Access, Ser!Exchange
<1>1. Ser!Accessed = Ser!AfterWrite(core, r, v)
  BY DEF Ser!Accessed, Ser!Written, Ser!Reads, Changed
<1>2. Made(core, r, v, Ser!Accessed)
  BY <1>1, UartWritten
<1>3. ASSUME Head(todo).act = "back" PROVE Ser!Written = v
  BY <1>3 DEF Ser!Written, Changed
<1>4. CASE Ser!ExchangeSucceeds
  <2>1. core' = Ser!Accessed /\ todo' = Tail(todo) /\ ok' = ok /\ call' = call /\ kept' = kept
        /\ trouble' = trouble
    BY <1>4 DEF Ser!ExchangeSucceeds
  <2>2. buffer' = IF Head(todo).act = "back" THEN v ELSE buffer
    BY <1>3, <1>4 DEF Ser!ExchangeSucceeds, Ser!Reads
  <2>. QED
    BY <1>2, <2>1, <2>2 DEF Ends, Smooth
<1>6. CASE Ser!ExchangeFails
  <2>1. ok' = (ok /\ Head(todo).fail = "ignore") /\ Head(todo).fail = f
    BY <1>6 DEF Ser!ExchangeFails
  <2>2. ~ok'
    BY <2>1, Zenon
  <2>3. core' = core \/ Made(core, r, v, core')
    BY <1>2, <1>6 DEF Ser!ExchangeFails
  <2>4. trouble' = trouble \cup {"failed"}
    BY <1>6, <2>1 DEF Ser!ExchangeFails
  <2>5. call' = call /\ kept' = kept /\ (todo' = Tail(todo) \/ (todo' = << >> /\ f = "stop"))
    BY <1>6, <2>1 DEF Ser!ExchangeFails
  <2>6. buffer' = IF Head(todo).act = "back" THEN v ELSE buffer
    BY <1>3, <1>6 DEF Ser!ExchangeFails
  <2>. QED
    BY <2>2, <2>3, <2>4, <2>5, <2>6 DEF Ends, Smooth
<1>7. CASE Ser!LocalStep
  BY <1>7 DEF Ser!LocalStep, Ser!Local
<1>. QED
  BY <1>4, <1>6, <1>7 DEF SerGoesOn

\* More lists put together.
LEMMA OneAndOne ==
    \A a, b :
       << a >> \o << b >> = << a, b >>
<1>. TAKE a, b
<1>. DEFINE S == {a, b}
            s == << a >>
            t == << b >>
            u == << a, b >>
<1>1. s \in Seq(S) /\ t \in Seq(S) /\ u \in Seq(S)
  OBVIOUS
<1>2. /\ s \o t \in Seq(S)
      /\ Len(s \o t) = 2
      /\ \A z \in 1 .. 2 : (s \o t)[z] = u[z]
  BY <1>1, ConcatProperties
<1>. QED
  BY <1>1, <1>2, SeqEqual

\* One step and two more.
LEMMA OneAndTwo ==
    \A a, b, c :
       << a >> \o << b, c >> = << a, b, c >>
<1>. TAKE a, b, c
<1>. DEFINE S == {a, b, c}
            s == << a >>
            t == << b, c >>
            u == << a, b, c >>
<1>1. s \in Seq(S) /\ t \in Seq(S) /\ u \in Seq(S)
  OBVIOUS
<1>2. /\ s \o t \in Seq(S)
      /\ Len(s \o t) = 3
      /\ \A z \in 1 .. 3 : (s \o t)[z] = u[z]
  BY <1>1, ConcatProperties
<1>. QED
  BY <1>1, <1>2, SeqEqual

\* Two steps and five more.
LEMMA TwoAndFive ==
    \A a, b, c, d, e, f, g :
       << a, b >> \o << c, d, e, f, g >> = << a, b, c, d, e, f, g >>
<1>. TAKE a, b, c, d, e, f, g
<1>. DEFINE S == {a, b, c, d, e, f, g}
            s == << a, b >>
            t == << c, d, e, f, g >>
            u == << a, b, c, d, e, f, g >>
<1>1. s \in Seq(S) /\ t \in Seq(S) /\ u \in Seq(S)
  OBVIOUS
<1>2. /\ s \o t \in Seq(S)
      /\ Len(s \o t) = 7
      /\ \A z \in 1 .. 7 : (s \o t)[z] = u[z]
  BY <1>1, ConcatProperties
<1>. QED
  BY <1>1, <1>2, SeqEqual

\* Seven steps and one more.
LEMMA SevenAndOne ==
    \A a, b, c, d, e, f, g, h :
       << a, b, c, d, e, f, g >> \o << h >> = << a, b, c, d, e, f, g, h >>
<1>. TAKE a, b, c, d, e, f, g, h
<1>. DEFINE S == {a, b, c, d, e, f, g, h}
            s == << a, b, c, d, e, f, g >>
            t == << h >>
            u == << a, b, c, d, e, f, g, h >>
<1>1. s \in Seq(S) /\ t \in Seq(S) /\ u \in Seq(S)
  OBVIOUS
<1>2. /\ s \o t \in Seq(S)
      /\ Len(s \o t) = 8
      /\ \A z \in 1 .. 8 : (s \o t)[z] = u[z]
  BY <1>1, ConcatProperties
<1>. QED
  BY <1>1, <1>2, SeqEqual

\* Eight steps and two more.
LEMMA EightAndTwo ==
    \A a, b, c, d, e, f, g, h, i, j :
       << a, b, c, d, e, f, g, h >> \o << i, j >> = << a, b, c, d, e, f, g, h, i, j >>
<1>. TAKE a, b, c, d, e, f, g, h, i, j
<1>. DEFINE S == {a, b, c, d, e, f, g, h, i, j}
            s == << a, b, c, d, e, f, g, h >>
            t == << i, j >>
            u == << a, b, c, d, e, f, g, h, i, j >>
<1>1. s \in Seq(S) /\ t \in Seq(S) /\ u \in Seq(S)
  OBVIOUS
<1>2. /\ s \o t \in Seq(S)
      /\ Len(s \o t) = 10
      /\ \A z \in 1 .. 10 : (s \o t)[z] = u[z]
  BY <1>1, ConcatProperties
<1>. QED
  BY <1>1, <1>2, SeqEqual

\* The list of init() ...
LEMMA InitSteps14 ==
    ASSUME NEW line, NEW baudrate
    PROVE  \E S : InitSteps(line, baudrate) \in Seq(S) /\ Len(InitSteps(line, baudrate)) = 14
<1>. DEFINE s == InitSteps(line, baudrate)
            S == {s[1], s[2], s[3], s[4], s[5], s[6], s[7], s[8], s[9], s[10], s[11], s[12],
                  s[13], s[14]}
<1>1. s \in Seq(S) /\ Len(s) = 14
  BY DEF InitSteps
<1>. QED
  BY <1>1

\* ... and that of setBaudrate().
LEMMA LineSteps5 ==
    ASSUME NEW baudrate
    PROVE  \E S : LineSteps(baudrate) \in Seq(S) /\ Len(LineSteps(baudrate)) = 5
<1>. DEFINE s == LineSteps(baudrate)
            S == {s[1], s[2], s[3], s[4], s[5]}
<1>1. s \in Seq(S) /\ Len(s) = 5
  BY DEF LineSteps
<1>. QED
  BY <1>1

\* The step of init() at place k, and its end.
LEMMA InitAt ==
    ASSUME NEW line, NEW baudrate, NEW k \in 1 .. 14
    PROVE  /\ From(InitSteps(line, baudrate), k) # << >>
           /\ Head(From(InitSteps(line, baudrate), k)) = InitSteps(line, baudrate)[k]
           /\ Tail(From(InitSteps(line, baudrate), k)) = From(InitSteps(line, baudrate), k + 1)
<1>. DEFINE s == InitSteps(line, baudrate)
<1>1. PICK S : s \in Seq(S) /\ Len(s) = 14
  BY InitSteps14
<1>. HIDE DEF s
<1>2. k \in 1 .. Len(s)
  BY <1>1
<1>3. From(s, k) # << >> /\ Head(From(s, k)) = s[k] /\ Tail(From(s, k)) = From(s, k + 1)
  BY <1>1, <1>2, FromStep
<1>. QED
  BY <1>3 DEF s

\* init() begins at its first step and has none after its last.
LEMMA InitEnds ==
    ASSUME NEW line, NEW baudrate
    PROVE  /\ From(InitSteps(line, baudrate), 15) = << >>
           /\ From(InitSteps(line, baudrate), 1) = InitSteps(line, baudrate)
<1>1. PICK S : InitSteps(line, baudrate) \in Seq(S) /\ Len(InitSteps(line, baudrate)) = 14
  BY InitSteps14
<1>2. From(InitSteps(line, baudrate), 14 + 1) = << >>
  BY <1>1, FromEnd
<1>. QED
  BY <1>1, <1>2, FromStart

\* The same of setBaudrate().
LEMMA LineAt ==
    ASSUME NEW baudrate, NEW k \in 1 .. 5
    PROVE  /\ From(LineSteps(baudrate), k) # << >>
           /\ Head(From(LineSteps(baudrate), k)) = LineSteps(baudrate)[k]
           /\ Tail(From(LineSteps(baudrate), k)) = From(LineSteps(baudrate), k + 1)
<1>. DEFINE s == LineSteps(baudrate)
<1>1. PICK S : s \in Seq(S) /\ Len(s) = 5
  BY LineSteps5
<1>. HIDE DEF s
<1>2. k \in 1 .. Len(s)
  BY <1>1
<1>3. From(s, k) # << >> /\ Head(From(s, k)) = s[k] /\ Tail(From(s, k)) = From(s, k + 1)
  BY <1>1, <1>2, FromStep
<1>. QED
  BY <1>3 DEF s

\* So does setBaudrate().
LEMMA LineEnds ==
    ASSUME NEW baudrate
    PROVE  /\ From(LineSteps(baudrate), 6) = << >>
           /\ From(LineSteps(baudrate), 1) = LineSteps(baudrate)
<1>1. PICK S : LineSteps(baudrate) \in Seq(S) /\ Len(LineSteps(baudrate)) = 5
  BY LineSteps5
<1>2. From(LineSteps(baudrate), 5 + 1) = << >>
  BY <1>1, FromEnd
<1>. QED
  BY <1>1, <1>2, FromStart

\* Between two operations the divisor latch is closed, or one of them has failed.
LEMMA SerIdle == SerInv /\ todo = << >> => Closed
<1>. SUFFICES ASSUME SerInv, todo = << >> PROVE Closed
  OBVIOUS
<1>1. CASE Initializing
  <2>0. PICK line, baudrate : \E k \in 1 .. 15 :
          /\ todo = From(InitSteps(line, baudrate), k)
          /\ k \notin {3, 4, 5, 6, 9, 10, 11} => Closed
    BY <1>1 DEF Initializing
  <2>1. PICK k \in 1 .. 15 :
          /\ todo = From(InitSteps(line, baudrate), k)
          /\ k \notin {3, 4, 5, 6, 9, 10, 11} => Closed
    BY <2>0
  <2>2. k = 15
    <3>1. ASSUME k \in 1 .. 14 PROVE FALSE
      <4>1. From(InitSteps(line, baudrate), k) # << >>
        BY <3>1, InitAt
      <4>. QED
        BY <2>1, <4>1
    <3>. QED
      BY <3>1
  <2>. QED
    BY <2>1, <2>2
<1>2. CASE SettingBaudrate
  <2>1. ASSUME NEW baudrate, NEW k \in 1 .. 6, todo = From(LineSteps(baudrate), k),
               k \notin {2, 3, 4, 5} => Closed
        PROVE  Closed
    <3>1. k = 6
      BY <2>1, LineAt
    <3>. QED
      BY <2>1, <3>1
  <2>. QED
    BY <1>2, <2>1 DEF SettingBaudrate
<1>. QED
  BY <1>1, <1>2 DEF SerInv, LeavingInit, Doomed, Others

\* A call makes the list of init(), of setBaudrate(), or one that leaves the latch alone.
LEMMA SerCall == SerInv /\ Ser!Call => SerInv'
<1>. SUFFICES ASSUME SerInv, Ser!Call PROVE SerInv'
  OBVIOUS
<1>. USE DEF Ser!Start
<1>1. ASSUME NEW o, NEW steps, Ser!StartWith(o, {}, steps)
      PROVE  IsUart(core') /\ core' = core /\ call' = o /\ todo' = steps /\ Closed' /\ Closed
  BY <1>1, SerIdle DEF Ser!StartWith, SerInv, Closed
<1>0. ASSUME NEW o, NEW steps, o.op \notin {"init", "setBaudrate"}, Ser!StartWith(o, {}, steps),
             \/ \E a : steps = << a >> /\ Plain(a)
             \/ \E a, b : steps = << a, b >> /\ Plain(a) /\ Plain(b)
             \/ \E a, b, c : steps = << a, b, c >> /\ Plain(a) /\ Plain(b) /\ Plain(c)
      PROVE  SerInv'
  <2>1. IsUart(core') /\ call' = o /\ todo' = steps /\ Closed'
    BY <1>1, <1>0
  <2>2. Others'
    BY <1>0, <2>1 DEF Others
  <2>. QED
    BY <1>0, <2>1, <2>2 DEF SerInv
<1>2. ASSUME NEW o, NEW a, o.op \notin {"init", "setBaudrate"}, Plain(a),
             Ser!StartWith(o, {}, << a >>)
      PROVE  SerInv'
  BY <1>0, <1>2
<1>20. ASSUME NEW o, NEW a, NEW b, o.op \notin {"init", "setBaudrate"}, Plain(a), Plain(b),
              Ser!StartWith(o, {}, << a, b >>)
       PROVE  SerInv'
  BY <1>0, <1>20
<1>21. ASSUME NEW o, NEW a, NEW b, NEW c, o.op \notin {"init", "setBaudrate"},
              Plain(a), Plain(b), Plain(c), Ser!StartWith(o, {}, << a, b, c >>)
       PROVE  SerInv'
  BY <1>0, <1>21
<1>3. ASSUME NEW line, NEW baudrate, Ser!Initialize(line, baudrate) PROVE SerInv'
  <2>. DEFINE o == [op |-> "init", line |-> line, baudrate |-> baudrate]
  <2>1. CASE Ser!Sane(baudrate)
    <3>1. Ser!StartWith(o, {}, InitSteps(line, baudrate)) /\ Ser!Legal(line)
      BY <1>3, <2>1, InitList DEF Ser!Initialize
    <3>2. IsUart(core') /\ call' = o /\ todo' = From(InitSteps(line, baudrate), 1) /\ Closed'
      BY <1>1, <3>1, InitEnds
    <3>3. Settings(1, line, baudrate)'
      BY DEF Settings
    <3>4. Initializing'
      BY <3>1, <3>2, <3>3 DEF Initializing
    <3>. QED
      BY <3>2, <3>4 DEF SerInv
  <2>2. CASE ~Ser!Sane(baudrate)
    <3>. DEFINE a == Ser!OrStop(Ser!Write("LCR", Ser!LcrContent(line)))
                b == Ser!Die
                c == Ser!Check
                d == Ser!OrStop(Ser!Read("LCR"))
                e == Ser!OrStop(Ser!WriteBack("LCR", {7}, {}))
                f == Ser!OrStop(Ser!Write("FCR", {0, 5}))
                g == Ser!OrStop(Ser!WriteBack("LCR", {}, {7}))
                h == Ser!Fresh({})
                i == Ser!Read("IER")
                j == Ser!WriteBack("IER", {}, {1})
    <3>1. Ser!BaudrateSteps(baudrate) = << b >>
      BY <2>2 DEF Ser!BaudrateSteps
    <3>2. Ser!Modify("IER", {}, {Ser!INTERRUPT["TX_EMPTY"]}) = << i, j >>
      BY DEF Ser!Modify, Ser!INTERRUPT
    <3>3. Ser!StartWith(o, {}, << a >> \o Ser!BaudrateSteps(baudrate) \o << c, d, e, f, g >>
             \o << h >> \o Ser!Modify("IER", {}, {Ser!INTERRUPT["TX_EMPTY"]})) /\ Ser!Legal(line)
      BY <1>3 DEF Ser!Initialize
    <3>. HIDE DEF b, c, d, e, f, g, h, i, j
    <3>4. Ser!StartWith(o, {}, << a, b, c, d, e, f, g, h, i, j >>)
      <4>. HIDE DEF a, o
      <4>1. << a >> \o << b >> = << a, b >>
        BY OneAndOne
      <4>2. << a, b >> \o << c, d, e, f, g >> = << a, b, c, d, e, f, g >>
        BY TwoAndFive
      <4>3. << a, b, c, d, e, f, g >> \o << h >> = << a, b, c, d, e, f, g, h >>
        BY SevenAndOne
      <4>4. << a, b, c, d, e, f, g, h >> \o << i, j >> = << a, b, c, d, e, f, g, h, i, j >>
        BY EightAndTwo
      <4>. QED
        BY <3>1, <3>2, <3>3, <4>1, <4>2, <4>3, <4>4
    <3>5. /\ IsUart(core') /\ call' = o /\ Closed'
          /\ todo' = << a, b, c, d, e, f, g, h, i, j >>
      BY <1>1, <3>4
    <3>6. todo' # << >> /\ Head(todo') = a /\ Tail(todo') # << >> /\ Head(Tail(todo')) = b
      <4>. HIDE DEF a, o
      <4>. QED
        BY <3>5
    <3>7. Doomed'
      BY <3>3, <3>5, <3>6 DEF Doomed, b
    <3>. QED
      BY <3>5, <3>7 DEF SerInv
  <2>. QED
    BY <2>1, <2>2
<1>4. ASSUME NEW line, NEW baudrate, Ser!InitializeRefused(line, baudrate) PROVE SerInv'
  <2>. DEFINE o == [op |-> "init", line |-> line, baudrate |-> baudrate]
  <2>1. IsUart(core') /\ call' = o /\ todo' = << Ser!ReturnFalse >> /\ Closed'
    BY <1>1, <1>4 DEF Ser!InitializeRefused, Ser!Refuse
  <2>2. LeavingInit'
    BY <2>1 DEF LeavingInit
  <2>. QED
    BY <2>1, <2>2 DEF SerInv
<1>5. ASSUME NEW baudrate, Ser!SetBaudrate(baudrate) PROVE SerInv'
  <2>. DEFINE o == [op |-> "setBaudrate", baudrate |-> baudrate]
  <2>1. CASE Ser!Sane(baudrate)
    <3>1. Ser!BaudrateSteps(baudrate) = LineSteps(baudrate)
      BY <2>1 DEF Ser!BaudrateSteps, LineSteps
    <3>2. IsUart(core') /\ call' = o /\ todo' = From(LineSteps(baudrate), 1) /\ Closed'
      BY <1>1, <1>5, <3>1, LineEnds DEF Ser!SetBaudrate
    <3>3. SettingBaudrate'
      BY <3>2 DEF SettingBaudrate
    <3>. QED
      BY <3>2, <3>3 DEF SerInv
  <2>2. CASE ~Ser!Sane(baudrate)
    <3>1. IsUart(core') /\ call' = o /\ todo' = << Ser!Die >> /\ Closed'
      BY <1>1, <1>5, <2>2 DEF Ser!SetBaudrate, Ser!BaudrateSteps
    <3>2. Doomed'
      BY <3>1 DEF Doomed
    <3>. QED
      BY <3>1, <3>2 DEF SerInv
  <2>. QED
    BY <2>1, <2>2
<1>22. /\ \A r \in {"RX", "IER", "IIR", "MCR"} :
            Plain(Ser!Read(r)) /\ Plain(Ser!Ignoring(Ser!Read(r)))
       /\ \A r \in {"TX", "IER", "FCR", "MCR"} : \A v, w :
            Plain(Ser!Write(r, v)) /\ Plain(Ser!WriteBack(r, v, w))
       /\ \A v : Plain(Ser!Assign(v)) /\ Plain(Ser!Require(v)) /\ Plain(Ser!Exclude(v))
       /\ Plain(Ser!ReturnFalse)
  BY DEF Plain, Ser!Read, Ser!Write, Ser!WriteBack, Ser!Ignoring, Ser!Assign, Ser!ReturnFalse,
     Ser!Require, Ser!Exclude, Ser!Local
<1>6. ASSUME NEW o, NEW r \in {"IER", "MCR"}, NEW on, NEW off,
             o.op \notin {"init", "setBaudrate"}, Ser!Start(o, Ser!Modify(r, on, off))
      PROVE  SerInv'
  BY <1>20, <1>22, <1>6 DEF Ser!Modify
<1>7. ASSUME NEW level, Ser!SetRxTriggerLevel(level) PROVE SerInv'
  BY <1>20, <1>22, <1>7 DEF Ser!SetRxTriggerLevel, Ser!RxTriggerSteps
<1>8. ASSUME NEW i, Ser!EnableInterrupt(i) \/ Ser!DisableInterrupt(i) PROVE SerInv'
  BY <1>6, <1>8 DEF Ser!EnableInterrupt, Ser!DisableInterrupt
<1>9. CASE Ser!EnableInterrupts \/ Ser!DisableInterrupts
  BY <1>2, <1>22, <1>9 DEF Ser!EnableInterrupts, Ser!DisableInterrupts
<1>10. CASE Ser!IdentifyInterrupt
  BY <1>20, <1>22, <1>10 DEF Ser!IdentifyInterrupt, Ser!IdentifySteps
<1>11. CASE Ser!EnableAutoHardwareFlowControl
  BY <1>6, <1>11 DEF Ser!EnableAutoHardwareFlowControl
<1>12. ASSUME NEW bit, NEW level, Ser!SetAuxiliaryOutput(bit, level) PROVE SerInv'
  BY <1>6, <1>12 DEF Ser!SetAuxiliaryOutput
<1>13. ASSUME NEW b, Ser!Transmit(b) PROVE SerInv'
  BY <1>2, <1>22, <1>13 DEF Ser!Transmit
<1>14. CASE Ser!ReceiveByte
  BY <1>2, <1>22, <1>14 DEF Ser!ReceiveByte
<1>15. CASE Ser!ClearBuffers
  <2>. DEFINE a == Ser!Write("FCR", {0, 1, 2})
              b == Ser!Assign(56)
              c == Ser!ReturnFalse
  <2>1. << a >> \o Ser!RxTriggerSteps = << a, b, c >>
    BY OneAndTwo DEF Ser!RxTriggerSteps
  <2>2. Ser!StartWith([op |-> "clearBuffers"], {}, << a, b, c >>)
    BY <1>15, <2>1 DEF Ser!ClearBuffers
  <2>3. Plain(a) /\ Plain(b) /\ Plain(c)
    BY <1>22
  <2>. HIDE DEF a, b, c
  <2>. QED
    BY <1>21, <2>2, <2>3
<1>16. CASE Ser!NotImplemented
  BY <1>2, <1>22, <1>16 DEF Ser!NotImplemented, Ser!Refuse
<1>. QED
  BY <1>3, <1>4, <1>5, <1>7, <1>8, <1>9, <1>10, <1>11, <1>12, <1>13, <1>14, <1>15, <1>16 DEF Ser!Call

\* A step without an exchange goes on or returns false.
LEMMA SerLocal ==
    ASSUME Head(todo).act \in Ser!Local, Ser!Host
    PROVE  /\ core' = core /\ call' = call /\ trouble' = trouble
           /\ ok' => ok
           /\ todo' = Tail(todo) \/ (todo' = << >> /\ ~ok')
<1>1. Ser!LocalStep
  BY DEF Ser!Host, Ser!ExchangeSucceeds, Ser!ExchangeRepeated, Ser!ExchangeFails, Ser!Exchange,
     Ser!Access, Ser!Local
<1>2. ok' = (ok /\ ~Ser!LeavesEarly)
  BY <1>1 DEF Ser!LocalStep
<1>3. (ok' => ok) /\ (Ser!LeavesEarly => ~ok')
  BY <1>2, Zenon
<1>. QED
  BY <1>1, <1>3 DEF Ser!LocalStep

\* Each of the fourteen steps of init() adds its setting to those made.
LEMMA SerInitializing ==
    ASSUME NEW line, NEW baudrate, NEW k \in 1 .. 14,
           Ser!Legal(line), call.op = "init", call.line = line, call.baudrate = baudrate,
           todo = From(InitSteps(line, baudrate), k),
           IsUart(core),
           Smooth => Settings(k, line, baudrate),
           k \notin {3, 4, 5, 6, 9, 10, 11} => Closed,
           SerGoesOn
    PROVE  SerInv'
<1>. DEFINE lcr == Ser!LcrContent(line)
            s   == InitSteps(line, baudrate)
<1>1. Head(todo) = s[k] /\ Tail(todo) = From(s, k + 1) /\ 7 \notin lcr
  BY InitAt, LineContent
<1>2. ASSUME IsUart(core'), call' = call, todo' = From(s, k + 1),
             Smooth' => Settings(k + 1, line, baudrate)',
             k + 1 \notin {3, 4, 5, 6, 9, 10, 11} => Closed'
      PROVE  SerInv'
  <2>1. k + 1 \in 1 .. 15
    OBVIOUS
  <2>2. Initializing'
    BY <1>2, <2>1 DEF Initializing
  <2>. QED
    BY <1>2, <2>2 DEF SerInv
<1>3. ASSUME IsUart(core'), call' = call, todo' = << >>, ~ok', Closed' PROVE SerInv'
  BY <1>3 DEF SerInv, LeavingInit
<1>. HIDE DEF s
<1>4. ASSUME IsUart(core'), Ends,
             Smooth' => Settings(k + 1, line, baudrate)',
             k + 1 \notin {3, 4, 5, 6, 9, 10, 11} => Closed'
      PROVE  SerInv'
  <2>1. CASE todo' = Tail(todo)
    BY <1>1, <1>2, <1>4, <2>1 DEF Ends
  <2>2. CASE todo' = << >> /\ "failed" \in trouble' /\ ~ok'
    BY <1>3, <1>4, <2>2 DEF Ends, Closed
  <2>. QED
    BY <1>4, <2>1, <2>2 DEF Ends
\* One step for each kind of access.
<1>5. ASSUME k \in {2, 8}, NEW f \in {"ignore", "stop"},
             s[k] = [act |-> "read", reg |-> "LCR", fail |-> f]
      PROVE  SerInv'
  <2>1. /\ Ends /\ core' = core
        /\ Smooth' => Smooth /\ buffer' = core.LCR
    BY <1>1, <1>5, SerRead
  <2>2. Smooth' => Settings(k + 1, line, baudrate)'
    BY <1>5, <2>1 DEF Settings
  <2>3. Closed'
    BY <1>5, <2>1 DEF Closed, Ends
  <2>. QED
    BY <1>4, <2>1, <2>2, <2>3
<1>6. ASSUME k \in {3, 9}, NEW f \in {"note", "stop"},
             s[k] = [act |-> "back", reg |-> "LCR", on |-> {7}, off |-> {}, fail |-> f]
      PROVE  SerInv'
  <2>. DEFINE v == Changed(buffer, {7}, {})
  <2>1. /\ Ends /\ (core' = core \/ Made(core, "LCR", v, core'))
        /\ Smooth' => Smooth /\ Made(core, "LCR", v, core') /\ buffer' = v
    <3>1. /\ Head(todo) = [act |-> "back", reg |-> "LCR", on |-> {7}, off |-> {}, fail |-> f]
          /\ Head(todo).act = "back"
      BY <1>1, <1>6
    <3>. HIDE DEF v
    <3>2. \E on, off :
             /\ Head(todo) = [act |-> "back", reg |-> "LCR", on |-> on, off |-> off, fail |-> f]
             /\ v = Changed(buffer, on, off)
      BY <3>1 DEF v
    <3>. QED
      BY <1>1, <3>1, <3>2, SerWrite DEF UartWritable
  <2>2. IsUart(core')
    BY <2>1 DEF Made
  <2>3. Smooth' => Settings(k + 1, line, baudrate)'
    BY <1>6, <2>1 DEF Settings, Made, Changed
  <2>. QED
    BY <1>4, <1>6, <2>1, <2>2, <2>3
<1>7. ASSUME k \in {6, 11}, NEW f \in {"note", "stop"},
             s[k] = [act |-> "back", reg |-> "LCR", on |-> {}, off |-> {7}, fail |-> f]
      PROVE  SerInv'
  <2>. DEFINE v == Changed(buffer, {}, {7})
  <2>1. /\ Ends /\ (core' = core \/ Made(core, "LCR", v, core'))
        /\ "failed" \notin trouble' => Made(core, "LCR", v, core')
        /\ Smooth' => Smooth /\ Made(core, "LCR", v, core') /\ buffer' = v
    <3>1. /\ Head(todo) = [act |-> "back", reg |-> "LCR", on |-> {}, off |-> {7}, fail |-> f]
          /\ Head(todo).act = "back"
      BY <1>1, <1>7
    <3>. HIDE DEF v
    <3>2. \E on, off :
             /\ Head(todo) = [act |-> "back", reg |-> "LCR", on |-> on, off |-> off, fail |-> f]
             /\ v = Changed(buffer, on, off)
      BY <3>1 DEF v
    <3>. QED
      BY <1>1, <3>1, <3>2, SerWrite DEF UartWritable
  <2>2. IsUart(core')
    BY <2>1 DEF Made
  <2>3. Smooth' => Settings(k + 1, line, baudrate)'
    <3>1. Smooth' => v = lcr
      BY <1>1, <1>7, <2>1 DEF Settings, Changed
    <3>. HIDE DEF v
    <3>. QED
      BY <1>1, <1>7, <2>1, <3>1 DEF Settings, Made
  <2>4. Closed'
    BY <2>1 DEF Closed, Made, Changed
  <2>. QED
    BY <1>4, <2>1, <2>2, <2>3, <2>4
<1>8. ASSUME k \in {4, 5, 10}, NEW r \in UartWritable, NEW v, NEW f \in {"note", "stop"},
             s[k] = [act |-> "write", reg |-> r, data |-> v, fail |-> f],
             \/ k = 4 /\ r = "DLL" /\ v = Ser!Low(baudrate)
             \/ k = 5 /\ r = "DLM" /\ v = Ser!High(baudrate)
             \/ k = 10 /\ r = "FCR" /\ v = {0, 5}
      PROVE  SerInv'
  <2>1. /\ Ends /\ (core' = core \/ Made(core, r, v, core'))
        /\ Smooth' => Smooth /\ Made(core, r, v, core')
        /\ buffer' = buffer
    BY <1>1, <1>8, SerWrite
  <2>2. IsUart(core')
    BY <2>1 DEF Made
  <2>3. ASSUME Smooth' PROVE Settings(k + 1, line, baudrate)'
    <3>1. Settings(k, line, baudrate) /\ Made(core, r, v, core') /\ buffer' = buffer
      BY <2>1, <2>3
    <3>2. 7 \in core.LCR
      BY <1>8, <3>1 DEF Settings
    <3>3. CASE k = 4
      BY <1>8, <3>1, <3>2, <3>3 DEF Settings, Made
    <3>4. CASE k = 5
      BY <1>8, <3>1, <3>2, <3>4 DEF Settings, Made
    <3>5. CASE k = 10
      <4>1. core'.longFifo = (5 \in v) /\ 5 \in v
        BY <1>8, <3>1, <3>2, <3>5 DEF Made
      <4>2. core'.longFifo
        BY <4>1, Zenon
      <4>. QED
        BY <1>8, <3>1, <3>2, <3>5, <4>2 DEF Settings, Made
    <3>. QED
      BY <1>8, <3>3, <3>4, <3>5
  <2>. QED
    BY <1>4, <1>8, <2>1, <2>2, <2>3
<1>. USE DEF Ser!Read, Ser!Write, Ser!WriteBack, Ser!OrStop, Ser!Ignoring
<1>9. CASE k = 1
  <2>1. Head(todo) = [act |-> "write", reg |-> "LCR", data |-> lcr, fail |-> "stop"]
    BY <1>1, <1>9 DEF s, InitSteps
  <2>2. /\ Ends /\ (core' = core \/ Made(core, "LCR", lcr, core'))
        /\ "failed" \notin trouble' => Made(core, "LCR", lcr, core')
        /\ Smooth' => Smooth /\ Made(core, "LCR", lcr, core')
    BY <2>1, SerWrite DEF UartWritable
  <2>3. IsUart(core')
    BY <2>2 DEF Made
  <2>4. Smooth' => Settings(k + 1, line, baudrate)'
    BY <1>9, <2>2 DEF Settings, Made
  <2>5. Closed'
    BY <1>1, <2>2 DEF Closed, Made
  <2>. QED
    BY <1>4, <2>2, <2>3, <2>4, <2>5
<1>10. CASE k \in {2, 8}
  <2>1. /\ s[2] = [act |-> "read", reg |-> "LCR", fail |-> "ignore"]
        /\ s[8] = [act |-> "read", reg |-> "LCR", fail |-> "stop"]
    BY DEF s, InitSteps
  <2>. QED
    BY <1>5, <1>10, <2>1
<1>11. CASE k \in {3, 9}
  <2>1. /\ s[3] = [act |-> "back", reg |-> "LCR", on |-> {7}, off |-> {}, fail |-> "note"]
        /\ s[9] = [act |-> "back", reg |-> "LCR", on |-> {7}, off |-> {}, fail |-> "stop"]
    BY DEF s, InitSteps
  <2>. QED
    BY <1>6, <1>11, <2>1
<1>12. CASE k \in {6, 11}
  <2>1. /\ s[6] = [act |-> "back", reg |-> "LCR", on |-> {}, off |-> {7}, fail |-> "note"]
        /\ s[11] = [act |-> "back", reg |-> "LCR", on |-> {}, off |-> {7}, fail |-> "stop"]
    BY DEF s, InitSteps
  <2>. QED
    BY <1>7, <1>12, <2>1
<1>13. CASE k = 4
  <2>1. s[k] = [act |-> "write", reg |-> "DLL", data |-> Ser!Low(baudrate), fail |-> "note"]
    BY <1>13 DEF s, InitSteps
  <2>. QED
    BY <1>8, <1>13, <2>1 DEF UartWritable
<1>14. CASE k = 5
  <2>1. s[k] = [act |-> "write", reg |-> "DLM", data |-> Ser!High(baudrate), fail |-> "note"]
    BY <1>14 DEF s, InitSteps
  <2>. QED
    BY <1>8, <1>14, <2>1 DEF UartWritable
<1>15. CASE k = 10
  <2>1. s[k] = [act |-> "write", reg |-> "FCR", data |-> {0, 5}, fail |-> "stop"]
    BY <1>15 DEF s, InitSteps
  <2>. QED
    BY <1>8, <1>15, <2>1 DEF UartWritable
<1>16. CASE k \in {7, 12}
  <2>1. Head(todo).act \in Ser!Local
    BY <1>1, <1>16 DEF s, InitSteps, Ser!Check, Ser!Fresh, Ser!Local
  <2>2. /\ core' = core /\ call' = call /\ trouble' = trouble
        /\ ok' => ok
        /\ todo' = Tail(todo) \/ (todo' = << >> /\ ~ok')
    BY <2>1, SerLocal DEF SerGoesOn, Ser!Host
  <2>3. Smooth' => Settings(k + 1, line, baudrate)'
    BY <1>16, <2>2 DEF Settings, Smooth
  <2>4. Closed'
    BY <1>16, <2>2 DEF Closed
  <2>. QED
    BY <1>1, <1>2, <1>3, <2>2, <2>3, <2>4
<1>17. CASE k = 13
  <2>1. Head(todo) = [act |-> "read", reg |-> "IER", fail |-> "note"]
    BY <1>1, <1>17 DEF s, InitSteps
  <2>2. Ends /\ core' = core /\ (Smooth' => Smooth)
    BY <2>1, SerRead
  <2>3. Smooth' => Settings(k + 1, line, baudrate)'
    BY <1>17, <2>2 DEF Settings
  <2>4. Closed'
    BY <1>17, <2>2 DEF Closed, Ends
  <2>. QED
    BY <1>4, <2>2, <2>3, <2>4
<1>18. CASE k = 14
  <2>. DEFINE v == Changed(buffer, {}, {1})
  <2>1. Head(todo) = [act |-> "back", reg |-> "IER", on |-> {}, off |-> {1}, fail |-> "note"]
    BY <1>1, <1>18 DEF s, InitSteps
  <2>2. /\ Ends /\ (core' = core \/ Made(core, "IER", v, core'))
        /\ Smooth' => Smooth /\ Made(core, "IER", v, core')
    BY <2>1, SerWrite DEF UartWritable
  <2>3. IsUart(core') /\ core'.LCR = core.LCR
    BY <2>2 DEF Made
  <2>4. Smooth' => Settings(k + 1, line, baudrate)'
    BY <1>1, <1>18, <2>2 DEF Settings, Made, Changed
  <2>5. Closed'
    BY <1>18, <2>2, <2>3 DEF Closed, Ends
  <2>. QED
    BY <1>4, <2>2, <2>3, <2>4, <2>5
<1>. QED
  BY <1>9, <1>10, <1>11, <1>12, <1>13, <1>14, <1>15, <1>16, <1>17, <1>18

\* Each of the five steps of setBaudrate() leaves the latch open only for the divisor.
LEMMA SerSettingBaudrate ==
    ASSUME NEW baudrate, NEW k \in 1 .. 5,
           call.op = "setBaudrate",
           todo = From(LineSteps(baudrate), k),
           IsUart(core),
           k \notin {2, 3, 4, 5} => Closed,
           SerGoesOn
    PROVE  SerInv'
<1>. DEFINE s == LineSteps(baudrate)
<1>1. Head(todo) = s[k] /\ Tail(todo) = From(s, k + 1)
  BY LineAt
<1>2. ASSUME IsUart(core'), Ends, k + 1 \notin {2, 3, 4, 5} => Closed' PROVE SerInv'
  <2>1. CASE todo' = Tail(todo)
    <3>1. SettingBaudrate'
      <4>1. k + 1 \in 1 .. 6
        OBVIOUS
      <4>. QED
        BY <1>1, <1>2, <2>1, <4>1 DEF SettingBaudrate
    <3>. QED
      BY <1>2, <3>1 DEF SerInv, Ends
  <2>2. CASE todo' = << >> /\ "failed" \in trouble' /\ ~ok'
    BY <1>2, <2>2 DEF SerInv, Ends, SettingBaudrate, Closed
  <2>. QED
    BY <1>2, <2>1, <2>2 DEF Ends
<1>. HIDE DEF s
<1>. USE DEF Ser!Read, Ser!Write, Ser!WriteBack, Ser!OrStop, Ser!Ignoring
<1>3. CASE k = 1
  <2>1. Head(todo) = [act |-> "read", reg |-> "LCR", fail |-> "ignore"]
    BY <1>1, <1>3 DEF s, LineSteps
  <2>2. Ends /\ core' = core
    BY <2>1, SerRead
  <2>3. Closed'
    BY <1>3, <2>2 DEF Closed, Ends
  <2>. QED
    BY <1>2, <2>2, <2>3
<1>4. CASE k = 2
  <2>. DEFINE v == Changed(buffer, {7}, {})
  <2>1. Head(todo) = [act |-> "back", reg |-> "LCR", on |-> {7}, off |-> {}, fail |-> "note"]
    BY <1>1, <1>4 DEF s, LineSteps
  <2>2. Ends /\ (core' = core \/ Made(core, "LCR", v, core'))
    BY <2>1, SerWrite DEF UartWritable
  <2>3. IsUart(core')
    BY <2>2 DEF Made
  <2>. QED
    BY <1>2, <1>4, <2>2, <2>3
<1>5. CASE k = 3
  <2>1. Head(todo) = [act |-> "write", reg |-> "DLL", data |-> Ser!Low(baudrate), fail |-> "note"]
    BY <1>1, <1>5 DEF s, LineSteps
  <2>2. Ends /\ (core' = core \/ Made(core, "DLL", Ser!Low(baudrate), core'))
    BY <2>1, SerWrite DEF UartWritable
  <2>3. IsUart(core')
    BY <2>2 DEF Made
  <2>. QED
    BY <1>2, <1>5, <2>2, <2>3
<1>6. CASE k = 4
  <2>1. Head(todo) = [act |-> "write", reg |-> "DLM", data |-> Ser!High(baudrate), fail |-> "note"]
    BY <1>1, <1>6 DEF s, LineSteps
  <2>2. Ends /\ (core' = core \/ Made(core, "DLM", Ser!High(baudrate), core'))
    BY <2>1, SerWrite DEF UartWritable
  <2>3. IsUart(core')
    BY <2>2 DEF Made
  <2>. QED
    BY <1>2, <1>6, <2>2, <2>3
<1>7. CASE k = 5
  <2>. DEFINE v == Changed(buffer, {}, {7})
  <2>1. Head(todo) = [act |-> "back", reg |-> "LCR", on |-> {}, off |-> {7}, fail |-> "note"]
    BY <1>1, <1>7 DEF s, LineSteps
  <2>2. /\ Ends /\ (core' = core \/ Made(core, "LCR", v, core'))
        /\ "failed" \notin trouble' => Made(core, "LCR", v, core')
    BY <2>1, SerWrite DEF UartWritable
  <2>3. IsUart(core')
    BY <2>2 DEF Made
  <2>4. Closed'
    BY <2>2 DEF Closed, Made, Changed
  <2>. QED
    BY <1>2, <2>2, <2>3, <2>4
<1>. QED
  BY <1>3, <1>4, <1>5, <1>6, <1>7

\* The divisor is not touched while the latch is closed.
Untouched ==
    /\ core'.LCR = core.LCR
    /\ 7 \notin core.LCR => core'.DLL = core.DLL /\ core'.DLM = core.DLM

\* An access of another operation leaves LCR, and with it the divisor, as it was.
LEMMA SerPlain ==
    ASSUME IsUart(core), Plain(Head(todo)), Ser!Host
    PROVE  /\ IsUart(core') /\ Untouched /\ call' = call /\ trouble \subseteq trouble'
           /\ todo' = Tail(todo) \/ todo' = << >> \/ todo' = todo
<1>. DEFINE a == Head(todo)
            Alike(c, d) == /\ IsUart(d) /\ d.LCR = c.LCR
                           /\ 7 \notin c.LCR => d.DLL = c.DLL /\ d.DLM = c.DLM
<1>1. CASE a.act \in Ser!Local
  BY <1>1, SerLocal DEF Untouched
<1>2. CASE /\ \/ a.act = "read" /\ a.reg \in {"RX", "IER", "IIR", "MCR"}
              \/ a.act \in {"write", "back"} /\ a.reg \in {"TX", "IER", "FCR", "MCR"}
           /\ a.fail \in {"note", "ignore", "stop"}
  <2>1. Alike(core, core)
    OBVIOUS
  <2>2. Alike(core, Ser!Accessed)
    <3>1. CASE Ser!Reads
      <4>2. Ser!Accessed = Ser!AfterRead(core, a.reg)
        BY <3>1 DEF Ser!Accessed, Ser!Access
      <4>3. CASE Ser!AfterRead(core, a.reg) = core
        BY <2>1, <4>2, <4>3
      <4>4. CASE Ser!AfterRead(core, a.reg) = [core EXCEPT !.received = @ - 1]
        BY <4>2, <4>4 DEF IsUart, UartFields
      <4>. QED
        BY <4>3, <4>4 DEF Ser!AfterRead
    <3>2. CASE ~Ser!Reads
      <4>1. Ser!Accessed = Ser!AfterWrite(core, a.reg, Ser!Written)
        BY <3>2 DEF Ser!Accessed, Ser!Access
      <4>2. a.reg \in {"TX", "IER", "FCR", "MCR"}
        BY <1>2, <3>2 DEF Ser!Reads, Ser!Access
      <4>3. Made(core, a.reg, Ser!Written, Ser!Accessed)
        BY <4>1, <4>2, UartWritten DEF UartWritable
      <4>. QED
        BY <4>2, <4>3 DEF Made
    <3>. QED
      BY <3>1, <3>2
  <2>. HIDE DEF Alike
  <2>4. a.act # "poll"
    BY <1>2
  <2>5. CASE Ser!ExchangeSucceeds
    BY <2>2, <2>4, <2>5 DEF Ser!ExchangeSucceeds, Ser!Access, Untouched, Alike
  <2>6. CASE Ser!ExchangeRepeated
    BY <2>2, <2>6 DEF Ser!ExchangeRepeated, Untouched, Alike
  <2>7. CASE Ser!ExchangeFails
    BY <1>2, <2>1, <2>2, <2>7 DEF Ser!ExchangeFails, Ser!Access, Untouched, Alike
  <2>8. CASE Ser!LocalStep
    BY <1>2, <2>8 DEF Ser!LocalStep, Ser!Local, Ser!Access
  <2>. QED
    BY <2>5, <2>6, <2>7, <2>8 DEF Ser!Host
<1>. QED
  BY <1>1, <1>2 DEF Plain

\* So does each step of another operation.
LEMMA SerOthers ==
    ASSUME SerInv, call.op \notin {"init", "setBaudrate"}, Ser!Host
    PROVE  SerInv' /\ Untouched
<1>1. IsUart(core) /\ Others /\ todo # << >>
  BY DEF SerInv, Ser!Host, Ser!ExchangeSucceeds, Ser!ExchangeRepeated, Ser!ExchangeFails,
     Ser!Exchange, Ser!LocalStep
<1>2. ASSUME Plain(Head(todo)),
             \/ Tail(todo) = << >>
             \/ \E b : Tail(todo) = << b >> /\ Plain(b)
             \/ \E b, c : Tail(todo) = << b, c >> /\ Plain(b) /\ Plain(c)
      PROVE  SerInv' /\ Untouched
  <2>1. /\ IsUart(core') /\ Untouched /\ call' = call /\ trouble \subseteq trouble'
        /\ todo' = Tail(todo) \/ todo' = << >> \/ todo' = todo
    BY <1>1, <1>2, SerPlain
  <2>2. Closed'
    BY <1>1, <2>1 DEF Others, Closed, Untouched
  <2>3. Others'
    BY <1>1, <1>2, <2>1, <2>2 DEF Others
  <2>. QED
    BY <2>1, <2>3 DEF SerInv
<1>3. ASSUME NEW a, todo = << a >>, Plain(a) PROVE SerInv' /\ Untouched
  BY <1>2, <1>3
<1>4. ASSUME NEW a, NEW b, todo = << a, b >>, Plain(a), Plain(b) PROVE SerInv' /\ Untouched
  BY <1>2, <1>4
<1>5. ASSUME NEW a, NEW b, NEW c, todo = << a, b, c >>, Plain(a), Plain(b), Plain(c)
      PROVE  SerInv' /\ Untouched
  BY <1>2, <1>5
<1>. QED
  BY <1>1, <1>3, <1>4, <1>5 DEF Others

\* Every step that goes on with the list.
LEMMA SerHost == SerInv /\ SerGoesOn => SerInv'
<1>. SUFFICES ASSUME SerInv, SerGoesOn PROVE SerInv'
  OBVIOUS
<1>1. IsUart(core) /\ todo # << >> /\ Ser!Host
  BY DEF SerInv, SerGoesOn, Ser!Host, Ser!ExchangeSucceeds, Ser!ExchangeFails,
     Ser!Exchange, Ser!LocalStep
<1>2. ASSUME call.op = "init", Initializing PROVE SerInv'
  <2>1. PICK line, baudrate :
          /\ Ser!Legal(line)
          /\ call.line = line /\ call.baudrate = baudrate
          /\ \E k \in 1 .. 15 :
                /\ todo = From(InitSteps(line, baudrate), k)
                /\ Smooth => Settings(k, line, baudrate)
                /\ k \notin {3, 4, 5, 6, 9, 10, 11} => Closed
    BY <1>2 DEF Initializing
  <2>2. PICK k \in 1 .. 15 :
          /\ todo = From(InitSteps(line, baudrate), k)
          /\ Smooth => Settings(k, line, baudrate)
          /\ k \notin {3, 4, 5, 6, 9, 10, 11} => Closed
    BY <2>1
  <2>3. k # 15
    BY <1>1, <2>2, InitEnds
  <2>4. k \in 1 .. 14
    BY <2>3
  <2>. QED
    BY <1>1, <1>2, <2>1, <2>2, <2>4, SerInitializing
<1>3. ASSUME call.op = "init", LeavingInit PROVE SerInv'
  <2>1. todo = << Ser!ReturnFalse >> /\ Closed
    BY <1>1, <1>3 DEF LeavingInit
  <2>2. Ser!LocalStep
    BY <2>1 DEF SerGoesOn, Ser!ExchangeSucceeds, Ser!ExchangeFails, Ser!Exchange,
       Ser!Access, Ser!ReturnFalse, Ser!Require
  <2>3. Ser!LeavesEarly
    BY <2>1 DEF Ser!LeavesEarly, Ser!Access, Ser!ReturnFalse, Ser!Require
  <2>4. ok' = (ok /\ ~Ser!LeavesEarly)
    BY <2>2 DEF Ser!LocalStep
  <2>5. ~ok'
    BY <2>3, <2>4, Zenon
  <2>6. core' = core /\ call' = call /\ trouble' = trouble /\ todo' = << >>
    BY <2>2, <2>3 DEF Ser!LocalStep
  <2>7. LeavingInit'
    BY <2>1, <2>5, <2>6 DEF LeavingInit, Closed
  <2>. QED
    BY <1>1, <1>3, <2>6, <2>7 DEF SerInv
<1>4. ASSUME Doomed, call.op \in {"init", "setBaudrate"} PROVE SerInv'
  <2>1. Head(todo) # Ser!Die
    BY DEF SerGoesOn, Ser!ExchangeSucceeds, Ser!ExchangeFails, Ser!Exchange,
       Ser!LocalStep, Ser!Local, Ser!Access, Ser!Die
  <2>2. PICK line : Ser!Legal(line) /\ Head(todo) = Ser!OrStop(Ser!Write("LCR", Ser!LcrContent(line)))
    BY <1>4, <2>1 DEF Doomed
  <2>. DEFINE lcr == Ser!LcrContent(line)
  <2>3. Head(todo) = [act |-> "write", reg |-> "LCR", data |-> lcr, fail |-> "stop"]
    BY <2>2 DEF Ser!OrStop, Ser!Write
  <2>4. 7 \notin lcr
    BY <2>2, LineContent
  <2>. HIDE DEF lcr
  <2>5. Ends /\ (core' = core \/ Made(core, "LCR", lcr, core'))
    BY <1>1, <2>3, SerWrite DEF UartWritable
  <2>6. IsUart(core')
    BY <1>1, <2>5 DEF Made
  <2>7. Closed'
    BY <1>4, <2>4, <2>5 DEF Closed, Doomed, Ends, Made
  <2>8. CASE todo' = Tail(todo)
    <3>1. Doomed'
      BY <1>4, <2>1, <2>7, <2>8 DEF Doomed
    <3>. QED
      BY <1>4, <2>5, <2>6, <3>1 DEF SerInv, Ends
  <2>9. CASE todo' = << >> /\ ~ok'
    BY <1>4, <2>5, <2>6, <2>7, <2>9 DEF SerInv, Ends, LeavingInit, SettingBaudrate
  <2>. QED
    BY <2>5, <2>8, <2>9 DEF Ends
<1>5. ASSUME call.op = "setBaudrate", SettingBaudrate PROVE SerInv'
  <2>1. PICK baudrate : \E k \in 1 .. 6 :
          /\ todo = From(LineSteps(baudrate), k)
          /\ k \notin {2, 3, 4, 5} => Closed
    BY <1>1, <1>5 DEF SettingBaudrate
  <2>2. PICK k \in 1 .. 6 :
          /\ todo = From(LineSteps(baudrate), k)
          /\ k \notin {2, 3, 4, 5} => Closed
    BY <2>1
  <2>3. k # 6
    BY <1>1, <2>2, LineEnds
  <2>4. k \in 1 .. 5
    BY <2>3
  <2>. QED
    BY <1>1, <1>5, <2>2, <2>4, SerSettingBaudrate
<1>. QED
  BY <1>1, <1>2, <1>3, <1>4, <1>5, SerOthers DEF SerInv

\* An exchange that will be made again has made its access.
LEMMA SerRepeated == SerInv /\ Ser!ExchangeRepeated => SerInv'
<1>. SUFFICES ASSUME SerInv, Ser!ExchangeRepeated PROVE SerInv'
  OBVIOUS
<1>1. /\ IsUart(core) /\ todo # << >> /\ core' = Ser!Accessed
      /\ Head(todo).act \in {"read", "poll", "write", "back"}
      /\ call' = call /\ todo' = todo /\ buffer' = buffer /\ ok' = ok
      /\ trouble' = trouble \cup {"repeated"}
  BY DEF SerInv, Ser!ExchangeRepeated, Ser!Exchange, Ser!Access
<1>2. (Smooth' => Smooth) /\ ("failed" \in trouble => "failed" \in trouble')
  BY <1>1 DEF Smooth
<1>3. ASSUME NEW f, NEW r \in {"LCR", "IER"}, Head(todo) = [act |-> "read", reg |-> r, fail |-> f]
      PROVE  core' = core
  BY <1>1, <1>3 DEF Ser!Accessed, Ser!Reads, Ser!Access, Ser!AfterRead, Ser!Address
<1>4. ASSUME NEW f, NEW r \in UartWritable, NEW v,
             Head(todo) = [act |-> "write", reg |-> r, data |-> v, fail |-> f]
      PROVE  Made(core, r, v, core')
  <2>1. core' = Ser!AfterWrite(core, r, v)
    BY <1>1, <1>4 DEF Ser!Accessed, Ser!Written, Ser!Reads, Ser!Access
  <2>. QED
    BY <1>1, <2>1, UartWritten
<1>5. ASSUME NEW f, NEW r \in UartWritable, NEW on, NEW off,
             Head(todo) = [act |-> "back", reg |-> r, on |-> on, off |-> off, fail |-> f]
      PROVE  Made(core, r, Changed(buffer, on, off), core')
  <2>1. core' = Ser!AfterWrite(core, r, Changed(buffer, on, off))
    <3>1. /\ Head(todo).act = "back" /\ Head(todo).reg = r
          /\ Head(todo).on = on /\ Head(todo).off = off
      BY <1>5
    <3>2. Ser!Written = Changed(buffer, on, off)
      BY <3>1 DEF Ser!Written, Ser!Access, Changed
    <3>. QED
      BY <1>1, <3>1, <3>2 DEF Ser!Accessed, Ser!Reads, Ser!Access
  <2>. QED
    BY <1>1, <2>1, UartWritten
<1>6. ASSUME call.op = "init", Initializing PROVE SerInv'
  <2>1. PICK line, baudrate :
          /\ Ser!Legal(line)
          /\ call.line = line /\ call.baudrate = baudrate
          /\ \E k \in 1 .. 15 :
                /\ todo = From(InitSteps(line, baudrate), k)
                /\ Smooth => Settings(k, line, baudrate)
                /\ k \notin {3, 4, 5, 6, 9, 10, 11} => Closed
    BY <1>6 DEF Initializing
  <2>2. PICK k \in 1 .. 15 :
          /\ todo = From(InitSteps(line, baudrate), k)
          /\ Smooth => Settings(k, line, baudrate)
          /\ k \notin {3, 4, 5, 6, 9, 10, 11} => Closed
    BY <2>1
  <2>3. k \in 1 .. 14
    BY <1>1, <2>2, InitEnds
  <2>. DEFINE s   == InitSteps(line, baudrate)
              lcr == Ser!LcrContent(line)
  <2>4. Head(todo) = s[k] /\ 7 \notin lcr
    BY <2>1, <2>2, <2>3, InitAt, LineContent
  <2>5. ASSUME IsUart(core'), Smooth => Settings(k, line, baudrate)',
               k \notin {3, 4, 5, 6, 9, 10, 11} => Closed'
        PROVE  SerInv'
    <3>1. Initializing'
      BY <1>1, <1>2, <2>1, <2>2, <2>5 DEF Initializing
    <3>. QED
      BY <1>1, <1>6, <2>5, <3>1 DEF SerInv
  <2>. HIDE DEF s
  <2>. USE DEF Ser!Read, Ser!Write, Ser!WriteBack, Ser!OrStop, Ser!Ignoring
  <2>6. ASSUME core' = core PROVE SerInv'
    <3>1. Smooth => Settings(k, line, baudrate)'
      BY <1>1, <2>2, <2>6 DEF Settings
    <3>2. Closed => Closed'
      BY <1>2, <2>6 DEF Closed
    <3>. QED
      BY <1>1, <2>2, <2>5, <2>6, <3>1, <3>2
  <2>7. CASE k \in {2, 8, 13}
    <3>1. \E f \in {"ignore", "stop", "note"}, r \in {"LCR", "IER"} :
             s[k] = [act |-> "read", reg |-> r, fail |-> f]
      BY <2>7 DEF s, InitSteps
    <3>. QED
      BY <1>3, <2>4, <2>6, <3>1
  <2>8. CASE k = 1
    <3>1. Head(todo) = [act |-> "write", reg |-> "LCR", data |-> lcr, fail |-> "stop"]
      BY <2>4, <2>8 DEF s, InitSteps
    <3>2. Made(core, "LCR", lcr, core')
      BY <1>4, <3>1 DEF UartWritable
    <3>3. IsUart(core') /\ Closed' /\ Settings(k, line, baudrate)'
      BY <2>4, <2>8, <3>2 DEF Made, Closed, Settings
    <3>. QED
      BY <2>5, <3>3
  <2>9. CASE k \in {3, 9}
    <3>1. \E f \in {"note", "stop"} :
             s[k] = [act |-> "back", reg |-> "LCR", on |-> {7}, off |-> {}, fail |-> f]
      <4>1. CASE k = 3
        BY <4>1 DEF s, InitSteps
      <4>2. CASE k = 9
        BY <4>2 DEF s, InitSteps
      <4>. QED
        BY <2>9, <4>1, <4>2
    <3>2. Made(core, "LCR", Changed(buffer, {7}, {}), core')
      BY <1>5, <2>4, <3>1 DEF UartWritable
    <3>3. IsUart(core')
      BY <3>2 DEF Made
    <3>4. Smooth => Settings(k, line, baudrate)'
      BY <1>1, <2>2, <2>9, <3>2 DEF Made, Settings, Changed
    <3>. QED
      BY <2>5, <2>9, <3>3, <3>4
  <2>10. CASE k \in {6, 11}
    <3>1. \E f \in {"note", "stop"} :
             s[k] = [act |-> "back", reg |-> "LCR", on |-> {}, off |-> {7}, fail |-> f]
      <4>1. CASE k = 6
        BY <4>1 DEF s, InitSteps
      <4>2. CASE k = 11
        BY <4>2 DEF s, InitSteps
      <4>. QED
        BY <2>10, <4>1, <4>2
    <3>2. Made(core, "LCR", Changed(buffer, {}, {7}), core')
      BY <1>5, <2>4, <3>1 DEF UartWritable
    <3>3. IsUart(core')
      BY <3>2 DEF Made
    <3>4. Smooth => Changed(buffer, {}, {7}) = lcr
      BY <2>2, <2>4, <2>10 DEF Settings, Changed
    <3>5. Smooth => Settings(k, line, baudrate)'
      <4>. DEFINE v == Changed(buffer, {}, {7})
      <4>1. Made(core, "LCR", v, core') /\ (Smooth => v = lcr)
        BY <3>2, <3>4
      <4>. HIDE DEF v
      <4>. QED
        BY <1>1, <2>2, <2>10, <4>1 DEF Made, Settings
    <3>. QED
      BY <2>5, <2>10, <3>3, <3>5
  <2>11. ASSUME NEW r \in UartWritable, NEW v, NEW f,
                s[k] = [act |-> "write", reg |-> r, data |-> v, fail |-> f],
                \/ k = 4 /\ r = "DLL"
                \/ k = 5 /\ r = "DLM"
                \/ k = 10 /\ r = "FCR"
         PROVE  SerInv'
    <3>1. Made(core, r, v, core')
      BY <1>4, <2>4, <2>11
    <3>2. IsUart(core')
      BY <3>1 DEF Made
    <3>3. ASSUME Smooth PROVE Settings(k, line, baudrate)'
      <4>1. Settings(k, line, baudrate)
        BY <2>2, <3>3
      <4>2. core'.LCR = core.LCR /\ (k = 10 => core'.DLL = core.DLL /\ core'.DLM = core.DLM)
        BY <2>11, <3>1 DEF Made
      <4>3. (k = 5 => core'.DLL = core.DLL)
        BY <2>11, <3>1 DEF Made
      <4>. QED
        BY <1>1, <2>11, <4>1, <4>2, <4>3 DEF Settings
    <3>. QED
      BY <2>5, <2>11, <3>2, <3>3
  <2>12. CASE k = 4
    <3>1. s[k] = [act |-> "write", reg |-> "DLL", data |-> Ser!Low(baudrate), fail |-> "note"]
      BY <2>12 DEF s, InitSteps
    <3>. QED
      BY <2>11, <2>12, <3>1 DEF UartWritable
  <2>13. CASE k = 5
    <3>1. s[k] = [act |-> "write", reg |-> "DLM", data |-> Ser!High(baudrate), fail |-> "note"]
      BY <2>13 DEF s, InitSteps
    <3>. QED
      BY <2>11, <2>13, <3>1 DEF UartWritable
  <2>14. CASE k = 10
    <3>1. s[k] = [act |-> "write", reg |-> "FCR", data |-> {0, 5}, fail |-> "stop"]
      BY <2>14 DEF s, InitSteps
    <3>. QED
      BY <2>11, <2>14, <3>1 DEF UartWritable
  <2>15. k \notin {7, 12}
    BY <1>1, <2>4 DEF s, InitSteps, Ser!Check, Ser!Fresh
  <2>16. CASE k = 14
    <3>1. Head(todo) = [act |-> "back", reg |-> "IER", on |-> {}, off |-> {1}, fail |-> "note"]
      BY <2>4, <2>16 DEF s, InitSteps
    <3>. DEFINE v == Changed(buffer, {}, {1})
    <3>2. Made(core, "IER", v, core')
      BY <1>5, <3>1 DEF UartWritable
    <3>. HIDE DEF v
    <3>3. IsUart(core') /\ core'.LCR = core.LCR /\ core'.longFifo = core.longFifo
      BY <3>2 DEF Made
    <3>4. Closed'
      BY <1>2, <2>2, <2>16, <3>3 DEF Closed
    <3>5. Smooth => Settings(k, line, baudrate)'
      BY <1>1, <2>2, <2>4, <2>16, <3>2 DEF Settings, Made
    <3>. QED
      BY <2>5, <3>3, <3>4, <3>5
  <2>. QED
    BY <2>3, <2>7, <2>8, <2>9, <2>10, <2>12, <2>13, <2>14, <2>15, <2>16
<1>7. ~LeavingInit
  BY <1>1 DEF LeavingInit, Ser!ReturnFalse, Ser!Require
<1>8. ASSUME Doomed, call.op \in {"init", "setBaudrate"} PROVE SerInv'
  <2>1. Head(todo) # Ser!Die
    BY <1>1 DEF Ser!Die
  <2>2. PICK line : Ser!Legal(line) /\ Head(todo) = Ser!OrStop(Ser!Write("LCR", Ser!LcrContent(line)))
    BY <1>8, <2>1 DEF Doomed
  <2>. DEFINE lcr == Ser!LcrContent(line)
  <2>3. Head(todo) = [act |-> "write", reg |-> "LCR", data |-> lcr, fail |-> "stop"]
    BY <2>2 DEF Ser!OrStop, Ser!Write
  <2>4. 7 \notin lcr
    BY <2>2, LineContent
  <2>. HIDE DEF lcr
  <2>5. Made(core, "LCR", lcr, core')
    BY <1>4, <2>3 DEF UartWritable
  <2>6. IsUart(core') /\ Closed'
    BY <2>4, <2>5 DEF Made, Closed
  <2>7. Doomed'
    BY <1>1, <1>8, <2>6 DEF Doomed
  <2>. QED
    BY <1>1, <1>8, <2>6, <2>7 DEF SerInv
<1>9. ASSUME call.op = "setBaudrate", SettingBaudrate PROVE SerInv'
  <2>1. PICK baudrate : \E k \in 1 .. 6 :
          /\ todo = From(LineSteps(baudrate), k)
          /\ k \notin {2, 3, 4, 5} => Closed
    BY <1>1, <1>9 DEF SettingBaudrate
  <2>2. PICK k \in 1 .. 6 :
          /\ todo = From(LineSteps(baudrate), k)
          /\ k \notin {2, 3, 4, 5} => Closed
    BY <2>1
  <2>. DEFINE s == LineSteps(baudrate)
  <2>3. k \in 1 .. 5 /\ Head(todo) = s[k]
    BY <1>1, <2>2, LineEnds, LineAt
  <2>4. ASSUME IsUart(core'), k = 1 => core' = core PROVE SerInv'
    <3>1. k = 1 => Closed'
      BY <1>2, <2>2, <2>4 DEF Closed
    <3>2. SettingBaudrate'
      BY <1>1, <2>2, <2>3, <3>1 DEF SettingBaudrate
    <3>. QED
      BY <1>1, <1>9, <2>4, <3>2 DEF SerInv
  <2>. HIDE DEF s
  <2>. USE DEF Ser!Read, Ser!Write, Ser!WriteBack, Ser!OrStop, Ser!Ignoring
  <2>5. CASE k = 1
    <3>1. Head(todo) = [act |-> "read", reg |-> "LCR", fail |-> "ignore"]
      BY <2>3, <2>5 DEF s, LineSteps
    <3>. QED
      BY <1>1, <1>3, <2>4, <3>1
  <2>6. CASE k = 2
    <3>1. Head(todo) = [act |-> "back", reg |-> "LCR", on |-> {7}, off |-> {}, fail |-> "note"]
      BY <2>3, <2>6 DEF s, LineSteps
    <3>2. IsUart(core')
      BY <1>5, <3>1 DEF UartWritable, Made
    <3>. QED
      BY <2>4, <2>6, <3>2
  <2>7. CASE k = 3
    <3>1. Head(todo) = [act |-> "write", reg |-> "DLL", data |-> Ser!Low(baudrate), fail |-> "note"]
      BY <2>3, <2>7 DEF s, LineSteps
    <3>2. IsUart(core')
      BY <1>4, <3>1 DEF UartWritable, Made
    <3>. QED
      BY <2>4, <2>7, <3>2
  <2>8. CASE k = 4
    <3>1. Head(todo) = [act |-> "write", reg |-> "DLM", data |-> Ser!High(baudrate), fail |-> "note"]
      BY <2>3, <2>8 DEF s, LineSteps
    <3>2. IsUart(core')
      BY <1>4, <3>1 DEF UartWritable, Made
    <3>. QED
      BY <2>4, <2>8, <3>2
  <2>9. CASE k = 5
    <3>1. Head(todo) = [act |-> "back", reg |-> "LCR", on |-> {}, off |-> {7}, fail |-> "note"]
      BY <2>3, <2>9 DEF s, LineSteps
    <3>2. IsUart(core')
      BY <1>5, <3>1 DEF UartWritable, Made
    <3>. QED
      BY <2>4, <2>9, <3>2
  <2>. QED
    BY <2>3, <2>5, <2>6, <2>7, <2>8, <2>9
<1>. QED
  BY <1>6, <1>7, <1>8, <1>9, SerOthers DEF SerInv, Ser!Host

\* A byte comes in between two exchanges.
LEMMA SerArrive == SerInv /\ Ser!Arrive => SerInv'
<1>. SUFFICES ASSUME SerInv, Ser!Arrive PROVE SerInv'
  OBVIOUS
<1>1. /\ core' = [core EXCEPT !.arrivals = @ + 1, !.received = @ + 1]
      /\ call' = call /\ todo' = todo /\ buffer' = buffer /\ ok' = ok /\ trouble' = trouble
  BY DEF Ser!Arrive, Ser!CoreStep
<1>2. IsUart(core) /\ IsUart(core')
  BY <1>1 DEF SerInv, IsUart, UartFields
<1>3. \A f \in {"LCR", "IER", "DLL", "DLM", "longFifo"} : core'[f] = core[f]
  BY <1>1, <1>2 DEF IsUart, UartFields
<1>4. \A k, line, baudrate : Settings(k, line, baudrate) => Settings(k, line, baudrate)'
  BY <1>1, <1>3 DEF Settings
<1>5. (Closed <=> Closed') /\ (Smooth <=> Smooth')
  BY <1>1, <1>3 DEF Closed, Smooth
<1>6. Initializing => Initializing'
  BY <1>1, <1>4, <1>5 DEF Initializing
<1>7. (LeavingInit => LeavingInit') /\ (Doomed => Doomed')
  BY <1>1, <1>5 DEF LeavingInit, Doomed
<1>8. (SettingBaudrate => SettingBaudrate') /\ (Others => Others')
  BY <1>1, <1>5 DEF SettingBaudrate, Others
<1>. QED
  BY <1>1, <1>2, <1>6, <1>7, <1>8 DEF SerInv

\* No step of a Uart leaves its invariant.
LEMMA SerInductive == SerInv /\ [Ser!Next]_(Ser!vars) => SerInv'
<1>1. ASSUME SerInv, Ser!Next PROVE SerInv'
  BY <1>1, SerCall, SerHost, SerRepeated, SerArrive DEF Ser!Next, Ser!Host, SerGoesOn
<1>2. ASSUME SerInv, UNCHANGED Ser!vars PROVE SerInv'
  BY <1>2 DEF Ser!vars, SerInv, Initializing, Settings, Smooth, Closed, LeavingInit, Doomed,
     SettingBaudrate, Others
<1>. QED
  BY <1>1, <1>2

\* At the end of init() all its settings are made.
LEMMA SerHonest == SerInv => Ser!SettingsHonouredIfRead
<1>. SUFFICES ASSUME SerInv, "ignored" \notin trouble, todo = << >>, ok, call.op = "init"
              PROVE  /\ core.LCR = Ser!LcrContent(call.line)
                     /\ core.DLL = Ser!Low(call.baudrate) /\ core.DLM = Ser!High(call.baudrate)
                     /\ core.longFifo
                     /\ Ser!INTERRUPT["TX_EMPTY"] \notin core.IER
  BY DEF Ser!SettingsHonouredIfRead, Ser!SettingsHonoured
<1>1. Initializing
  BY DEF SerInv, LeavingInit, Doomed
<1>2. PICK line, baudrate :
        /\ call.line = line /\ call.baudrate = baudrate
        /\ \E k \in 1 .. 15 :
              /\ todo = From(InitSteps(line, baudrate), k)
              /\ Smooth => Settings(k, line, baudrate)
  BY <1>1 DEF Initializing
<1>3. PICK k \in 1 .. 15 :
        /\ todo = From(InitSteps(line, baudrate), k)
        /\ Smooth => Settings(k, line, baudrate)
  BY <1>2
<1>4. k = 15
  <2>1. ASSUME k \in 1 .. 14 PROVE FALSE
    <3>1. From(InitSteps(line, baudrate), k) # << >>
      BY <2>1, InitAt
    <3>. QED
      BY <1>3, <3>1
  <2>. QED
    BY <2>1
<1>5. Settings(15, line, baudrate)
  BY <1>3, <1>4 DEF Smooth
<1>. QED
  BY <1>2, <1>5 DEF Settings, Ser!INTERRUPT

\* While the latch is closed no write reaches the divisor.
LEMMA SerDivisor == SerInv /\ Ser!Next => Ser!DivisorKept
<1>. SUFFICES ASSUME SerInv, Ser!Next, call.op \notin {"init", "setBaudrate"},
                     "failed" \notin trouble
              PROVE  core'.DLL = core.DLL /\ core'.DLM = core.DLM
  BY DEF Ser!DivisorKept
<1>1. CASE Ser!Host
  <2>1. 7 \notin core.LCR
    BY DEF SerInv, Others, Closed
  <2>. QED
    BY <1>1, <2>1, SerOthers DEF Untouched
<1>2. CASE Ser!Arrive
  BY <1>2 DEF Ser!Arrive, Ser!CoreStep, SerInv, IsUart, UartFields
<1>3. CASE Ser!Call
  BY <1>3 DEF Ser!Call, Ser!Start, Ser!StartWith, Ser!Initialize, Ser!InitializeRefused,
     Ser!Refuse, Ser!SetBaudrate, Ser!SetRxTriggerLevel, Ser!EnableInterrupt,
     Ser!DisableInterrupt, Ser!EnableInterrupts, Ser!DisableInterrupts, Ser!IdentifyInterrupt,
     Ser!EnableAutoHardwareFlowControl, Ser!SetAuxiliaryOutput, Ser!Transmit, Ser!ReceiveByte,
     Ser!ClearBuffers, Ser!NotImplemented
<1>. QED
  BY <1>1, <1>2, <1>3 DEF Ser!Next

-----------------------------------------------------------------------------
(* Can.                                                                    *)

Cell  == 0 .. 31
Byte8 == SUBSET (0 .. 7)
Rules == {"note", "skip", "stop", "ignore"}

\* Steps that release nothing from the receive buffer and leave the mode alone, ...
Quiet ==
    [act : {"read"}, reg : Cell, fail : Rules]
    \cup [act : {"poll"}, reg : Cell, bit : 0 .. 7, level : BOOLEAN, fail : Rules]
    \cup [act : {"write"}, reg : Cell \ {1}, data : Byte8, fail : Rules]
    \cup [act : {"write"}, reg : {1}, data : {{0}, {4}}, fail : Rules]
    \cup [act : {"back"}, reg : Cell \ {1}, on : Byte8, off : Byte8, fail : Rules]
    \cup [act : {"require"}, bits : Byte8]

\* ... that leave the mode alone, ...
Still ==
    Quiet
    \cup [act : {"write"}, reg : {1}, data : Byte8, fail : Rules]
    \cup [act : {"back"}, reg : {1}, on : Byte8, off : Byte8, fail : Rules]
    \cup [act : {"fresh"}, to : {{}}]

\* ... and those of init().
Assigning == [act : {"assign", "failed"}, to : UsageModes \cup {"UNDEFINED"}]

\* A list of such steps.  No step is left out after its last one.
Firm(a) == a.act \in {"require", "fresh", "assign", "failed"} \/ a.fail # "skip"

Lists(S) == { s \in Seq(S) : s # << >> => Firm(s[Len(s)]) }

CanFields == {"reg", "tx", "locked", "sent", "fifo", "pending", "asleep", "arrivals"}

IsCan(c) ==
    /\ c = [f \in CanFields |-> c[f]]
    /\ c.reg = [a \in {0, 4, 5, 6, 7, 31} |-> c.reg[a]]
    /\ c.tx = [i \in 0 .. 9 |-> c.tx[i]]
    /\ c.fifo \in Seq(Identifiers)

\* setAcceptanceCode() and setAcceptanceMask().
FilterList(a, value) ==
    << [act |-> "read", reg |-> 0, fail |-> "skip"],
       [act |-> "back", reg |-> 0, on |-> {0}, off |-> {}, fail |-> "note"],
       [act |-> "write", reg |-> a, data |-> value, fail |-> "note"],
       [act |-> "read", reg |-> 0, fail |-> "skip"],
       [act |-> "back", reg |-> 0, on |-> {}, off |-> {0}, fail |-> "note"] >>

IsFilter == call.op \in {"setAcceptanceCode", "setAcceptanceMask"}

FilterCell == IF call.op = "setAcceptanceCode" THEN 4 ELSE 5

FilterStage(k) ==
    /\ k \in {3, 4} => 0 \in core.reg[0]
    /\ k \in 4 .. 6 => core.reg[FilterCell] = call.value
    /\ k = 6 => 0 \notin core.reg[0]

Filtering == \E k \in 1 .. 6 :
    /\ todo = From(FilterList(FilterCell, call.value), k)
    /\ ok => FilterStage(k)

\* transmit().
TransmitList == Net!TransmitSteps("BASIC_MODE", call.id)

TransmitStage(k) ==
    /\ success
    /\ k \in 2 .. 12 /\ core.locked => k = 12
    /\ 0 \notin core.reg[0] =>
          /\ k = 12 /\ core.locked => core.sent = call.id
          /\ k \in 3 .. 12 => core.tx[0] = call.id[1]
          /\ k \in 4 .. 12 => core.tx[1] = call.id[2]
          /\ k = 13 => core.sent = call.id

Transmitting ==
    /\ call.id \in Identifiers
    /\ \E k \in 1 .. 13 :
          /\ todo = From(TransmitList, k)
          /\ ok => TransmitStage(k)

\* getReceivedFrame().
ReceiveList ==
    << [act |-> "read", reg |-> 2, fail |-> "note"],
       [act |-> "require", bits |-> {0}],
       [act |-> "fresh", to |-> {}],
       [act |-> "read", reg |-> 20, fail |-> "note"],
       [act |-> "write", reg |-> 1, data |-> {2}, fail |-> "note"] >>

ReceiveStage(k) ==
    /\ k = 2 /\ 0 \in buffer => core.fifo # << >>
    /\ k \in 3 .. 5 => core.fifo # << >>
    /\ k = 5 => buffer = Head(core.fifo)[1]

Receiving == \E k \in 1 .. 6 :
    /\ todo = From(ReceiveList, k)
    /\ trouble = {} => ReceiveStage(k)

Basic == members = "BASIC_MODE"

Other == call.op \notin {"init", "setAcceptanceCode", "setAcceptanceMask", "transmit",
                         "getReceivedFrame"}

NetInv ==
    /\ IsCan(core)
    /\ call.op = "init" => todo \in Lists(Quiet \cup Assigning)
    /\ call.op # "init" /\ ~Basic => todo \in Lists(Still)
    /\ Basic /\ IsFilter => Filtering
    /\ Basic /\ call.op = "transmit" => Transmitting
    /\ Basic /\ call.op = "getReceivedFrame" => Receiving
    /\ Basic /\ Other => todo \in Lists(Quiet)

\* The empty list, and what is left of one after its first step.
LEMMA NoList == ASSUME NEW S PROVE << >> \in Lists(S)
BY DEF Lists

\* A list is its first step and a list.
LEMMA ListTail ==
    ASSUME NEW S, NEW s \in Lists(S), s # << >>
    PROVE  /\ Head(s) \in S /\ Tail(s) \in Lists(S)
           /\ Tail(s) = << >> => Firm(Head(s))
<1>1. s \in Seq(S) /\ Firm(s[Len(s)])
  BY DEF Lists
<1>2. /\ Head(s) \in S /\ Tail(s) \in Seq(S) /\ Len(Tail(s)) = Len(s) - 1
      /\ \A i \in 1 .. Len(Tail(s)) : Tail(s)[i] = s[i + 1]
  BY <1>1, HeadTailProperties
<1>3. Len(s) \in Nat \ {0} /\ Head(s) = s[1]
  BY <1>1
<1>4. ASSUME Tail(s) # << >> PROVE Firm(Tail(s)[Len(Tail(s))])
  <2>1. Len(Tail(s)) \in 1 .. Len(Tail(s))
    BY <1>2, <1>4
  <2>2. Tail(s)[Len(Tail(s))] = s[Len(s)]
    BY <1>2, <1>3, <2>1
  <2>. QED
    BY <1>1, <2>2
<1>5. ASSUME Tail(s) = << >> PROVE Len(s) = 1
  <2>. DEFINE t == Tail(s)
  <2>1. t \in Seq(S) /\ t = << >> /\ Len(t) = Len(s) - 1
    BY <1>2, <1>5
  <2>. HIDE DEF t
  <2>2. Len(t) = 0
    BY <2>1
  <2>. QED
    BY <1>3, <2>1, <2>2
<1>. HIDE DEF Firm
<1>. QED
  BY <1>1, <1>2, <1>3, <1>4, <1>5 DEF Lists

\* Before any operation.
LEMMA NetInit == Net!Init => NetInv
<1>. SUFFICES ASSUME Net!Init PROVE NetInv
  OBVIOUS
<1>1. IsCan(core)
  BY DEF Net!Init, Net!Begin, Net!Reset, IsCan, CanFields
<1>2. todo = << >> /\ call.op = "none" /\ ~Basic
  BY DEF Net!Init, Net!Begin, Net!NoCall, Basic
<1>. QED
  BY <1>1, <1>2, NoList DEF NetInv, IsFilter, Other

-----------------------------------------------------------------------------
(* What the controller does.                                               *)

\* It stays a controller, whatever is read or written.
LEMMA CanAccessed ==
    ASSUME NEW c, IsCan(c), NEW a \in Cell, NEW v
    PROVE  IsCan(Net!AfterRead(c, a)) /\ IsCan(Net!AfterWrite(c, a, v))
<1>1. IsCan(Net!AfterRead(c, a))
  BY DEF Net!AfterRead, IsCan, CanFields
<1>2. CASE a = 1
  <2>1. Net!AfterWrite(c, a, v) = Net!Command(c, v)
    BY <1>2 DEF Net!AfterWrite
  <2>2. c.fifo # << >> => Tail(c.fifo) \in Seq(Identifiers)
    BY DEF IsCan
  <2>3. IsCan(Net!Command(c, v))
    BY <2>2 DEF Net!Command, IsCan, CanFields
  <2>. QED
    BY <1>1, <2>1, <2>3
<1>3. CASE a # 1
  <2>. DEFINE d == Net!AfterWrite(c, a, v)
  <2>1. CASE a \in {0, 31} \cup 4 .. 7
    <3>1. d = c \/ d = [c EXCEPT !.reg[a] = v]
      BY <2>1 DEF Net!AfterWrite
    <3>. QED
      BY <1>1, <2>1, <3>1 DEF IsCan, CanFields
  <2>2. CASE a \in 10 .. 19
    <3>1. d = c \/ d = [c EXCEPT !.tx[a - 10] = v]
      BY <2>2 DEF Net!AfterWrite
    <3>. QED
      BY <1>1, <2>2, <3>1 DEF IsCan, CanFields
  <2>3. CASE a \notin {0, 1, 31} \cup 4 .. 7 \cup 10 .. 19
    <3>1. d = c
      BY <2>3 DEF Net!AfterWrite, Cell
    <3>. QED
      BY <1>1, <3>1
  <2>. QED
    BY <1>3, <2>1, <2>2, <2>3
<1>. QED
  BY <1>2, <1>3

\* What a command does: the frame is taken, or a frame received is released.
LEMMA Commanded ==
    ASSUME NEW c, IsCan(c), NEW v, NEW d, d = Net!AfterWrite(c, 1, v)
    PROVE  /\ d.reg = c.reg /\ d.tx = c.tx
           /\ d.fifo = IF 2 \in v /\ c.fifo # << >> THEN Tail(c.fifo) ELSE c.fifo
           /\ 0 \in v /\ 0 \notin c.reg[0] /\ ~c.locked => d.sent = << c.tx[0], c.tx[1] >> /\ d.locked
           /\ c.locked => d.sent = c.sent /\ d.locked
<1>. DEFINE taken == 0 \in v /\ Net!Operating(c) /\ ~c.locked
<1>1. d = Net!Command(c, v)
  BY DEF Net!AfterWrite
<1>2. /\ d.reg = c.reg /\ d.tx = c.tx
      /\ d.fifo = IF 2 \in v /\ c.fifo # << >> THEN Tail(c.fifo) ELSE c.fifo
  BY <1>1 DEF Net!Command, IsCan, CanFields
<1>3. d.sent = IF taken THEN << c.tx[0], c.tx[1] >> ELSE c.sent
  BY <1>1 DEF Net!Command, IsCan, CanFields
<1>4. d.locked = (c.locked \/ taken)
  BY <1>1 DEF Net!Command, IsCan, CanFields
<1>. HIDE DEF taken
<1>5. (c.locked => d.locked) /\ (taken => d.locked)
  BY <1>4, Zenon
<1>. QED
  BY <1>2, <1>3, <1>5 DEF taken, Net!Operating

\* What a write to a register does to the others.
LEMMA CanWritten ==
    ASSUME NEW c, IsCan(c), NEW a \in Cell \ {1}, NEW v, NEW d, d = Net!AfterWrite(c, a, v)
    PROVE  /\ d.fifo = c.fifo /\ d.sent = c.sent /\ d.locked = c.locked
           /\ a = 0 => d.reg[0] = v
           /\ a # 0 => d.reg[0] = c.reg[0]
           /\ a \in {4, 5} /\ 0 \in c.reg[0] => d.reg[a] = v
           /\ \A r \in {4, 5} \ {a} : d.reg[r] = c.reg[r]
           /\ a \in 10 .. 19 /\ 0 \notin c.reg[0] /\ ~c.locked => d.tx[a - 10] = v
           /\ \A i \in (0 .. 9) \ {a - 10} : d.tx[i] = c.tx[i]
<1>1. CASE a \in {0, 31}
  <2>1. d = [c EXCEPT !.reg[a] = v]
    BY <1>1 DEF Net!AfterWrite
  <2>2. /\ d.reg = [c.reg EXCEPT ![a] = v]
        /\ d.fifo = c.fifo /\ d.sent = c.sent /\ d.locked = c.locked /\ d.tx = c.tx
    BY <2>1 DEF IsCan, CanFields
  <2>3. DOMAIN c.reg = {0, 4, 5, 6, 7, 31}
    BY DEF IsCan
  <2>. QED
    BY <1>1, <2>2, <2>3
<1>2. CASE a \in 4 .. 7
  BY <1>2 DEF Net!AfterWrite, Net!Operating, IsCan, CanFields
<1>3. CASE a \in 10 .. 19
  BY <1>3 DEF Net!AfterWrite, Net!Operating, IsCan, CanFields
<1>4. CASE a \notin {0, 1, 31} \cup 4 .. 7 \cup 10 .. 19
  BY <1>4 DEF Net!AfterWrite, Cell
<1>. QED
  BY <1>1, <1>2, <1>3, <1>4

-----------------------------------------------------------------------------
(* What a step of the host does.                                           *)

\* An exchange succeeds with what was read or written, ...
Smoothly ==
    /\ ok' = ok /\ success' = success /\ trouble \subseteq trouble'

\* ... or fails, which is noted.
Badly == ~ok' /\ trouble' # {}

\* A step that goes on with the list: an exchange that is not to be sent again, or
\* a step without one.
NetGoesOn == Net!ExchangeSucceeds \/ Net!ExchangeFails \/ Net!LocalStep

\* An exchange that reads: the rest of the list, and what was read.
LEMMA NetRead ==
    ASSUME NEW r \in {0, 2, 20}, NEW f \in {"note", "skip"},
           Head(todo) = [act |-> "read", reg |-> r, fail |-> f], NetGoesOn
    PROVE  /\ core' = core /\ call' = call /\ members' = members
           /\ \/ Smoothly /\ todo' = Tail(todo) /\ buffer' = Net!Value(core, r)
              \/ Badly /\ f = "note" /\ todo' = Tail(todo)
              \/ Badly /\ f = "skip" /\ todo' = Tail(Tail(todo))
<1>. USE DEF Net!Access, Net!Exchange
<1>1. Net!Accessed = core
  BY DEF Net!Accessed, Net!Reads, Net!AfterRead
<1>3. CASE Net!ExchangeSucceeds
  BY <1>1, <1>3 DEF Net!ExchangeSucceeds, Net!Reads, Smoothly
<1>5. CASE Net!ExchangeFails
  <2>1. ok' = (ok /\ Head(todo).fail = "ignore") /\ Head(todo).fail = f
    BY <1>5 DEF Net!ExchangeFails
  <2>2. ~ok'
    BY <2>1, Zenon
  <2>. QED
    BY <1>1, <1>5, <2>1, <2>2 DEF Net!ExchangeFails, Badly
<1>6. CASE Net!LocalStep
  BY <1>6 DEF Net!LocalStep, Net!Local
<1>. QED
  BY <1>3, <1>5, <1>6 DEF NetGoesOn

\* An exchange that writes, or may not have written.
LEMMA NetWrite ==
    ASSUME NEW r \in Cell, NEW v,
           \/ Head(todo) = [act |-> "write", reg |-> r, data |-> v, fail |-> "note"]
           \/ \E on, off :
                 /\ Head(todo) = [act |-> "back", reg |-> r, on |-> on, off |-> off,
                                  fail |-> "note"]
                 /\ v = Changed(buffer, on, off),
           NetGoesOn
    PROVE  LET d == Net!AfterWrite(core, r, v)
           IN  /\ call' = call /\ members' = members /\ todo' = Tail(todo)
               /\ \/ Smoothly /\ core' = d
                  \/ Badly /\ core' \in {core, d}
<1>. USE DEF Net!Access, Net!Exchange
<1>1. Net!Accessed = Net!AfterWrite(core, r, v)
  BY DEF Net!Accessed, Net!Written, Net!Reads, Changed
<1>3. CASE Net!ExchangeSucceeds
  BY <1>1, <1>3 DEF Net!ExchangeSucceeds, Smoothly
<1>5. CASE Net!ExchangeFails
  <2>1. ok' = (ok /\ Head(todo).fail = "ignore") /\ Head(todo).fail = "note"
    BY <1>5 DEF Net!ExchangeFails
  <2>2. ~ok'
    BY <2>1, Zenon
  <2>. QED
    BY <1>1, <1>5, <2>1, <2>2 DEF Net!ExchangeFails, Badly
<1>6. CASE Net!LocalStep
  BY <1>6 DEF Net!LocalStep, Net!Local
<1>. QED
  BY <1>3, <1>5, <1>6 DEF NetGoesOn

\* An exchange that will be made again has made its access.
LEMMA NetAgain ==
    ASSUME Net!ExchangeRepeated
    PROVE  /\ call' = call /\ members' = members /\ todo' = todo /\ buffer' = buffer
           /\ success' = success /\ ok' = ok /\ trouble' # {}
           /\ todo # << >> /\ Head(todo).act \in {"read", "poll", "write", "back"}
           /\ core' = Net!Accessed
BY DEF Net!ExchangeRepeated, Net!Exchange, Net!Access

\* The loop ends when the bit is read, or after a failure.
LEMMA NetPoll ==
    ASSUME NEW r \in {2}, NEW bit,
           Head(todo) = [act |-> "poll", reg |-> r, bit |-> bit, level |-> TRUE, fail |-> "note"],
           NetGoesOn
    PROVE  /\ core' = core /\ call' = call /\ members' = members
           /\ \/ Smoothly /\ todo' = todo
              \/ Smoothly /\ todo' = Tail(todo) /\ (success => bit \in Net!Value(core, r))
              \/ Badly /\ todo' = Tail(todo)
<1>. USE DEF Net!Access, Net!Exchange
<1>1. Net!Accessed = core
  BY DEF Net!Accessed, Net!Reads, Net!AfterRead
<1>3. CASE Net!ExchangeSucceeds
  <2>1. /\ core' = core /\ call' = call /\ members' = members /\ Smoothly
        /\ buffer' = Net!Value(core, r)
    BY <1>1, <1>3 DEF Net!ExchangeSucceeds, Net!Reads, Smoothly
  <2>. DEFINE missing == (Head(todo).bit \in buffer') # Head(todo).level
  <2>2. todo' = IF Head(todo).act = "poll" /\ missing /\ success THEN todo ELSE Tail(todo)
    BY <1>3, Zenon DEF Net!ExchangeSucceeds
  <2>3. /\ Head(todo).act = "poll" /\ Head(todo).bit = bit /\ Head(todo).level = TRUE
    OBVIOUS
  <2>4. ~missing => bit \in buffer'
    BY <2>3, Zenon
  <2>. HIDE DEF missing
  <2>. QED
    BY <2>1, <2>2, <2>4
<1>5. CASE Net!ExchangeFails
  <2>1. ok' = (ok /\ Head(todo).fail = "ignore") /\ Head(todo).fail = "note"
    BY <1>5 DEF Net!ExchangeFails
  <2>2. ~ok'
    BY <2>1, Zenon
  <2>. QED
    BY <1>1, <1>5, <2>1, <2>2 DEF Net!ExchangeFails, Badly
<1>6. CASE Net!LocalStep
  BY <1>6 DEF Net!LocalStep, Net!Local
<1>. QED
  BY <1>3, <1>5, <1>6 DEF NetGoesOn

\* A step without an exchange.
LEMMA NetLocal ==
    ASSUME Head(todo).act \in {"require", "fresh"}, Net!Host
    PROVE  /\ core' = core /\ call' = call /\ members' = members /\ trouble' = trouble
           /\ Head(todo).act = "require" =>
                 /\ buffer' = buffer
                 /\ \/ buffer \cap Head(todo).bits # {} /\ todo' = Tail(todo)
                    \/ todo' = << >>
           /\ Head(todo).act = "fresh" => todo' = Tail(todo)
<1>1. Net!LocalStep
  BY DEF Net!Host, Net!ExchangeSucceeds, Net!ExchangeRepeated, Net!ExchangeFails, Net!Exchange,
     Net!Access
<1>. QED
  BY <1>1 DEF Net!LocalStep, Net!LeavesEarly, Net!Access

\* What is left of a list.
LEMMA NetSeq ==
    ASSUME NEW S, todo \in Lists(S), Net!Host
    PROVE  /\ Head(todo) \in S /\ todo' \in Lists(S) /\ call' = call
           /\ Head(todo).act \notin {"assign", "failed"} => members' = members
<1>. USE DEF Net!Access, Net!Exchange
<1>1. todo # << >>
  BY DEF Net!Host, Net!ExchangeSucceeds, Net!ExchangeRepeated, Net!ExchangeFails, Net!LocalStep
<1>2. Head(todo) \in S /\ Tail(todo) \in Lists(S) /\ << >> \in Lists(S) /\ todo \in Lists(S)
  BY <1>1, ListTail, NoList
<1>4. CASE Net!ExchangeSucceeds
  BY <1>2, <1>4 DEF Net!ExchangeSucceeds
<1>5. CASE Net!ExchangeRepeated
  BY <1>2, <1>5 DEF Net!ExchangeRepeated
<1>6. CASE Net!ExchangeFails
  <2>1. CASE Head(todo).fail = "skip"
    <3>1. Head(todo).act \in {"read", "poll", "write", "back"}
      BY <1>6 DEF Net!ExchangeFails
    <3>2. Tail(todo) # << >>
      BY <1>1, <2>1, <3>1, ListTail DEF Firm
    <3>3. Tail(Tail(todo)) \in Lists(S)
      BY <1>2, <3>2, ListTail
    <3>. QED
      BY <1>2, <1>6, <2>1, <3>3 DEF Net!ExchangeFails
  <2>2. CASE Head(todo).fail # "skip"
    BY <1>2, <1>6, <2>2 DEF Net!ExchangeFails
  <2>. QED
    BY <2>1, <2>2
<1>7. CASE Net!LocalStep
  BY <1>2, <1>7 DEF Net!LocalStep
<1>. QED
  BY <1>4, <1>5, <1>6, <1>7 DEF Net!Host

\* An exchange of a list is with one of the registers, and a release is not quiet.
LEMMA StepFields ==
    ASSUME NEW a \in Still \cup Assigning, a.act \in {"read", "poll", "write", "back"}
    PROVE  /\ a.reg \in Cell
           /\ a \in Quiet \cup Assigning /\ a.reg = 1 /\ a.act \in {"write", "back"} =>
                 a.act = "write" /\ a.data \in {{0}, {4}}
<1>1. CASE a \in Assigning
  BY <1>1 DEF Assigning
<1>2. CASE a \in Quiet
  BY <1>2 DEF Quiet, Cell
<1>3. CASE a \in Still \ Quiet /\ a \notin Assigning
  BY <1>3 DEF Still, Cell
<1>. QED
  BY <1>1, <1>2, <1>3

\* What a step does to the controller.
LEMMA NetCore ==
    ASSUME IsCan(core), Head(todo) \in Still \cup Assigning, Net!Host
    PROVE  /\ IsCan(core')
           /\ Head(todo) \in Quiet \cup Assigning => core'.fifo = core.fifo
<1>. USE DEF Net!Access, Net!Exchange
<1>. DEFINE a == Head(todo)
            Same(c, d) == IsCan(d) /\ (a \in Quiet \cup Assigning => d.fifo = c.fifo)
<1>1. ASSUME a.act \in {"read", "poll", "write", "back"}
      PROVE  Same(core, Net!Accessed)
  <2>1. CASE Net!Reads
    <3>1. a.reg \in Cell
      BY <1>1, StepFields
    <3>2. Net!Accessed = Net!AfterRead(core, a.reg)
      BY <2>1 DEF Net!Accessed
    <3>3. Net!AfterRead(core, a.reg).fifo = core.fifo
      BY <1>1 DEF Net!AfterRead, IsCan, CanFields
    <3>. QED
      BY <1>1, <3>1, <3>2, <3>3, CanAccessed
  <2>2. CASE ~Net!Reads
    <3>1. a.reg \in Cell
      BY <1>1, StepFields
    <3>. DEFINE v == Net!Written
    <3>2. Net!Accessed = Net!AfterWrite(core, a.reg, v)
      BY <2>2 DEF Net!Accessed
    <3>3. IsCan(Net!Accessed)
      BY <1>1, <3>1, <3>2, CanAccessed
    <3>4. ASSUME a \in Quiet \cup Assigning PROVE Net!Accessed.fifo = core.fifo
      <4>1. CASE a.reg = 1
        <5>0. a.act \in {"write", "back"}
          BY <1>1, <2>2 DEF Net!Reads
        <5>1. v \in {{0}, {4}}
          BY <1>1, <3>4, <4>1, <5>0, StepFields DEF Net!Written
        <5>. HIDE DEF v
        <5>. QED
          BY <1>1, <3>2, <4>1, <5>1, Commanded
      <4>2. CASE a.reg # 1
        <5>. HIDE DEF v
        <5>. QED
          BY <1>1, <3>1, <3>2, <4>2, CanWritten
      <4>. QED
        BY <4>1, <4>2
    <3>. QED
      BY <3>3, <3>4
  <2>. QED
    BY <2>1, <2>2
<1>2. Same(core, core)
  OBVIOUS
<1>. HIDE DEF Same
<1>4. Same(core, core')
  <2>1. CASE Net!ExchangeSucceeds
    BY <1>1, <2>1 DEF Net!ExchangeSucceeds
  <2>2. CASE Net!ExchangeRepeated
    BY <1>1, <2>2 DEF Net!ExchangeRepeated
  <2>3. CASE Net!ExchangeFails
    BY <1>1, <1>2, <2>3 DEF Net!ExchangeFails
  <2>4. CASE Net!LocalStep
    BY <1>2, <2>4 DEF Net!LocalStep
  <2>. QED
    BY <2>1, <2>2, <2>3, <2>4 DEF Net!Host
<1>. QED
  BY <1>4 DEF Same

-----------------------------------------------------------------------------
(* The lists of the operations.                                            *)

\* Lists put together.
LEMMA Join ==
    ASSUME NEW S, NEW s \in Seq(S), NEW t \in Lists(S), t # << >>
    PROVE  /\ s \o t \in Lists(S) /\ s \o t # << >>
           /\ t \in Seq(S)
<1>1. t \in Seq(S) /\ Firm(t[Len(t)]) /\ Len(t) \in Nat \ {0} /\ Len(s) \in Nat
  BY EmptySeq DEF Lists
<1>. HIDE DEF Firm
<1>2. /\ s \o t \in Seq(S) /\ Len(s \o t) = Len(s) + Len(t)
      /\ \A i \in 1 .. Len(s) + Len(t) :
            (s \o t)[i] = IF i <= Len(s) THEN s[i] ELSE t[i - Len(s)]
  BY <1>1, ConcatProperties
<1>3. Len(s) + Len(t) \in 1 .. Len(s) + Len(t) /\ ~(Len(s) + Len(t) <= Len(s))
  BY <1>1
<1>4. (s \o t)[Len(s) + Len(t)] = t[Len(t)]
  BY <1>1, <1>2, <1>3
<1>5. s \o t # << >>
  BY <1>1, <1>2
<1>. QED
  BY <1>1, <1>2, <1>4, <1>5 DEF Lists

\* More steps allowed, more lists.
LEMMA ListsGrow == ASSUME NEW S, NEW T, S \subseteq T PROVE Lists(S) \subseteq Lists(T)
BY DEF Lists

\* Lists of one step, ...
LEMMA OneStep ==
    ASSUME NEW S, NEW a \in S, Firm(a) PROVE << a >> \in Lists(S) /\ << a >> # << >>
BY DEF Lists

\* ... of two ...
LEMMA TwoSteps ==
    ASSUME NEW S, NEW a \in S, NEW b \in S, Firm(b)
    PROVE  << a, b >> \in Lists(S) /\ << a, b >> # << >>
BY DEF Lists

\* ... and of three.
LEMMA ThreeSteps ==
    ASSUME NEW S, NEW a \in S, NEW b \in S, NEW c \in S, Firm(c)
    PROVE  << a, b, c >> \in Lists(S) /\ << a, b, c >> # << >>
BY DEF Lists

\* The steps they are put together from.
LEMMA ReadStep ==
    ASSUME NEW r \in Cell
    PROVE  /\ Net!Read(r) \in Quiet /\ Firm(Net!Read(r))
           /\ Net!OrStop(Net!Read(r)) \in Quiet /\ Firm(Net!OrStop(Net!Read(r)))
           /\ [Net!Read(r) EXCEPT !.fail = "skip"] \in Quiet
BY DEF Net!Read, Net!OrStop, Quiet, Rules, Firm

\* A write is quiet unless it is a command to release.
LEMMA WriteStep ==
    ASSUME NEW r \in Cell, NEW v \in Byte8
    PROVE  /\ Net!Write(r, v) \in Still /\ Firm(Net!Write(r, v))
           /\ r # 1 \/ v \in {{0}, {4}} => Net!Write(r, v) \in Quiet
           /\ r # 1 => [Net!Write(r, v) EXCEPT !.fail = "skip"] \in Quiet
<1>1. Net!Write(r, v) = [act |-> "write", reg |-> r, data |-> v, fail |-> "note"]
  BY DEF Net!Write
<1>2. [Net!Write(r, v) EXCEPT !.fail = "skip"]
        = [act |-> "write", reg |-> r, data |-> v, fail |-> "skip"]
  BY DEF Net!Write
<1>3. Firm(Net!Write(r, v))
  BY <1>1 DEF Firm
<1>4. CASE r = 1
  BY <1>1, <1>2, <1>3, <1>4 DEF Still, Quiet, Rules
<1>5. CASE r # 1
  BY <1>1, <1>2, <1>3, <1>5 DEF Still, Quiet, Rules
<1>. QED
  BY <1>4, <1>5

\* A check makes no exchange.
LEMMA RequireStep ==
    ASSUME NEW v \in Byte8
    PROVE  Net!Require(v) \in Quiet /\ Firm(Net!Require(v))
BY DEF Net!Require, Quiet, Firm

\* A read and a write, the second left out if the first fails.
LEMMA ChangeBitSteps ==
    ASSUME NEW r \in Cell, NEW bit \in 0 .. 7, NEW set
    PROVE  /\ Net!ChangeBit(r, bit, set) \in Lists(Still) /\ Net!ChangeBit(r, bit, set) # << >>
           /\ r # 1 => Net!ChangeBit(r, bit, set) \in Lists(Quiet)
<1>. DEFINE on   == IF set THEN {bit} ELSE {}
            off  == IF set THEN {} ELSE {bit}
            back == [act |-> "back", reg |-> r, on |-> on, off |-> off, fail |-> "note"]
            skip == [Net!Read(r) EXCEPT !.fail = "skip"]
<1>1. Net!ChangeBit(r, bit, set) = << skip, back >>
  BY DEF Net!ChangeBit, Net!WriteBack
<1>2. on \in Byte8 /\ off \in Byte8
  BY DEF Byte8
<1>3. Firm(back)
  BY DEF Firm
<1>4. back \in Still /\ (r # 1 => back \in Quiet)
  <2>. HIDE DEF on, off
  <2>1. CASE r = 1
    BY <1>2, <2>1 DEF Still, Rules
  <2>2. CASE r # 1
    BY <1>2, <2>2 DEF Still, Quiet, Rules
  <2>. QED
    BY <2>1, <2>2
<1>5. skip \in Quiet /\ skip \in Still
  BY ReadStep DEF Still
<1>. HIDE DEF back, skip
<1>. QED
  BY <1>1, <1>3, <1>4, <1>5, TwoSteps

\* setBusTiming().
LEMMA BusTimingSteps ==
    ASSUME NEW mode \in Net!USAGE_MODE, NEW prescaler
    PROVE  Net!SetBusTiming(mode, prescaler, 2, 5, 2) \in Lists(Quiet)
<1>1. /\ Net!InMode(mode, "BM_BUS_TIMING_0", "EM_BUS_TIMING_0") = 6
      /\ Net!InMode(mode, "BM_BUS_TIMING_1", "EM_BUS_TIMING_1") = 7
  BY DEF Net!InMode, Net!Address
<1>2. \A n : Net!ByteBits(n) \in Byte8
  BY DEF Net!ByteBits, Net!Bits, Byte8
<1>3. PICK v \in Byte8, w \in Byte8 :
        Net!SetBusTiming(mode, prescaler, 2, 5, 2)
            = << [Net!Write(6, v) EXCEPT !.fail = "skip"], Net!Write(7, w) >>
  BY <1>1, <1>2 DEF Net!SetBusTiming
<1>4. 6 \in Cell /\ 7 \in Cell /\ 6 # 1 /\ 7 # 1
  BY DEF Cell
<1>5. [Net!Write(6, v) EXCEPT !.fail = "skip"] \in Quiet
  BY <1>4, WriteStep
<1>6. Net!Write(7, w) \in Quiet /\ Firm(Net!Write(7, w))
  BY <1>4, WriteStep
<1>. QED
  BY <1>3, <1>5, <1>6, TwoSteps

\* init().
LEMMA CanInitSteps ==
    ASSUME NEW bitrate \in DOMAIN Net!BITRATE, NEW mode \in Net!USAGE_MODE \cap UsageModes
    PROVE  (((((<< Net!Assign(mode) >> \o Net!EnterResetMode(mode))
                \o Net!ChangeBit(Net!InMode(mode, "BM_CLOCK_DIVIDER", "EM_CLOCK_DIVIDER"), 7, FALSE))
                \o Net!SetBusTiming(mode, Net!BITRATE[bitrate], 2, 5, 2))
                \o (IF mode = "BASIC_MODE" THEN << >>
                    ELSE Net!ChangeBit(Net!Address["EM_MODE"], 3, TRUE)))
                \o Net!EnterOperationMode(mode))
                \o << Net!AssignIfFailed("UNDEFINED") >> \in Lists(Quiet \cup Assigning)
<1>. DEFINE S  == Quiet \cup Assigning
            s1 == << Net!Assign(mode) >>
            s2 == Net!EnterResetMode(mode)
            s3 == Net!ChangeBit(Net!InMode(mode, "BM_CLOCK_DIVIDER", "EM_CLOCK_DIVIDER"), 7, FALSE)
            s4 == Net!SetBusTiming(mode, Net!BITRATE[bitrate], 2, 5, 2)
            s5 == IF mode = "BASIC_MODE" THEN << >>
                  ELSE Net!ChangeBit(Net!Address["EM_MODE"], 3, TRUE)
            s6 == Net!EnterOperationMode(mode)
            s7 == << Net!AssignIfFailed("UNDEFINED") >>
<1>0. \A s \in Lists(Quiet) : s \in Seq(S)
  BY DEF Lists
<1>1. s1 \in Seq(S)
  BY DEF Net!Assign, Assigning
<1>2. s2 \in Seq(S) /\ s6 \in Seq(S)
  <2>1. Net!InMode(mode, "BM_CONTROL", "EM_MODE") = 0
    BY DEF Net!InMode, Net!Address
  <2>2. \A set : Net!ChangeBit(0, 0, set) \in Lists(Quiet)
    BY ChangeBitSteps DEF Cell
  <2>. QED
    BY <1>0, <2>1, <2>2 DEF Net!EnterResetMode, Net!EnterOperationMode
<1>3. s3 \in Seq(S)
  <2>1. Net!InMode(mode, "BM_CLOCK_DIVIDER", "EM_CLOCK_DIVIDER") = 31
    BY DEF Net!InMode, Net!Address
  <2>2. \A set : Net!ChangeBit(31, 7, set) \in Lists(Quiet)
    BY ChangeBitSteps DEF Cell
  <2>3. Net!ChangeBit(31, 7, FALSE) \in Lists(Quiet)
    BY <2>2, Zenon
  <2>. QED
    BY <1>0, <2>1, <2>3
<1>4. s4 \in Seq(S)
  BY <1>0, BusTimingSteps
<1>5. s5 \in Seq(S)
  <2>1. Net!ChangeBit(0, 3, TRUE) \in Lists(Quiet) /\ << >> \in Lists(Quiet)
    <3>1. \A set : Net!ChangeBit(0, 3, set) \in Lists(Quiet)
      BY ChangeBitSteps DEF Cell
    <3>. QED
      BY <3>1, NoList, Zenon
  <2>2. Net!Address["EM_MODE"] = 0
    BY DEF Net!Address
  <2>3. s5 \in Lists(Quiet)
    BY <2>1, <2>2
  <2>. QED
    BY <1>0, <2>3
<1>6. s7 \in Lists(S) /\ s7 # << >>
  <2>1. Net!AssignIfFailed("UNDEFINED") \in S /\ Firm(Net!AssignIfFailed("UNDEFINED"))
    BY DEF Net!AssignIfFailed, Assigning, Firm
  <2>. QED
    BY <2>1, OneStep
<1>. HIDE DEF s1, s2, s3, s4, s5, s6, s7, S
<1>7. ((((s1 \o s2) \o s3) \o s4) \o s5) \o s6 \in Seq(S)
  BY <1>1, <1>2, <1>3, <1>4, <1>5, ConcatProperties
<1>8. (((((s1 \o s2) \o s3) \o s4) \o s5) \o s6) \o s7 \in Lists(S)
  BY <1>6, <1>7, Join
<1>. QED
  BY <1>8 DEF s1, s2, s3, s4, s5, s6, s7, S

\* enableInterrupt() and its like.
LEMMA CanInterruptSteps ==
    ASSUME NEW mode, NEW bit \in 0 .. 7, NEW on
    PROVE  /\ Net!InterruptSteps(mode, bit, on) \in Lists(Still)
           /\ Net!InterruptSteps(mode, bit, on) # << >>
           /\ mode = "BASIC_MODE" => Net!InterruptSteps(mode, bit, on) \in Lists(Quiet)
<1>1. CASE mode # "BASIC_MODE"
  BY <1>1, ChangeBitSteps DEF Net!InterruptSteps, Net!Address, Cell
<1>2. CASE mode = "BASIC_MODE" /\ bit > 4
  <2>1. Net!ReturnFalse \in Quiet /\ Firm(Net!ReturnFalse)
    BY RequireStep DEF Net!ReturnFalse, Byte8
  <2>2. Net!ReturnFalse \in Still
    BY <2>1 DEF Still
  <2>. QED
    BY <1>2, <2>1, <2>2, OneStep DEF Net!InterruptSteps
<1>3. CASE mode = "BASIC_MODE" /\ ~(bit > 4)
  <2>1. bit + 1 \in 0 .. 7
    BY <1>3
  <2>2. Net!ChangeBit(0, bit + 1, on) \in Lists(Still) /\ Net!ChangeBit(0, bit + 1, on) # << >>
        /\ Net!ChangeBit(0, bit + 1, on) \in Lists(Quiet)
    BY <2>1, ChangeBitSteps DEF Cell
  <2>. QED
    BY <1>3, <2>2 DEF Net!InterruptSteps, Net!Address
<1>. QED
  BY <1>1, <1>2, <1>3

\* Five read-modify-writes in basic mode, one write in extended mode.
LEMMA CanAllInterrupts ==
    ASSUME NEW on, members \in Net!USAGE_MODE
    PROVE  /\ Net!AllInterrupts(on) \in Lists(Still)
           /\ Basic => Net!AllInterrupts(on) \in Lists(Quiet)
<1>1. CASE members # "BASIC_MODE"
  <2>. DEFINE v == IF on THEN Net!Bits ELSE {}
  <2>1. v \in Byte8
    BY DEF Byte8, Net!Bits
  <2>2. Net!AllInterrupts(on) = << Net!Write(4, v) >>
    BY <1>1 DEF Net!AllInterrupts, Net!Address
  <2>. HIDE DEF v
  <2>0. 4 \in Cell
    BY DEF Cell
  <2>3. Net!Write(4, v) \in Still /\ Firm(Net!Write(4, v))
    BY <2>0, <2>1, WriteStep
  <2>. QED
    BY <1>1, <2>2, <2>3, OneStep DEF Basic
<1>2. CASE members = "BASIC_MODE"
  <2>. DEFINE e(n) == Net!InterruptSteps("BASIC_MODE", n, on)
  <2>1. \A n \in 0 .. 4 : e(n) \in Lists(Quiet) /\ e(n) # << >>
    BY CanInterruptSteps
  <2>2. Net!AllInterrupts(on) = (((e(0) \o e(1)) \o e(2)) \o e(3)) \o e(4)
    BY <1>2 DEF Net!AllInterrupts
  <2>. HIDE DEF e
  <2>3. \A n \in 0 .. 4 : e(n) \in Seq(Quiet)
    BY <2>1 DEF Lists
  <2>4. ((e(0) \o e(1)) \o e(2)) \o e(3) \in Seq(Quiet)
    BY <2>3, ConcatProperties
  <2>. DEFINE s == ((e(0) \o e(1)) \o e(2)) \o e(3)
              t == e(4)
  <2>7. s \in Seq(Quiet) /\ t \in Lists(Quiet) /\ t # << >> /\ Net!AllInterrupts(on) = s \o t
    BY <2>1, <2>2, <2>4
  <2>. HIDE DEF s, t
  <2>5. Net!AllInterrupts(on) \in Lists(Quiet)
    BY <2>7, Join
  <2>6. Lists(Quiet) \subseteq Lists(Still)
    BY ListsGrow DEF Still
  <2>. QED
    BY <2>5, <2>6
<1>. QED
  BY <1>1, <1>2

\* An identifier is two bytes.
LEMMA TwoBytes ==
    ASSUME NEW id \in Identifiers
    PROVE  /\ id \in Seq(Byte8) /\ Len(id) = 2
           /\ id = << id[1], id[2] >> /\ id[1] \in Byte8 /\ id[2] \in Byte8
<1>1. id \in Byte8 \X Byte8
  BY CoresAssumption DEF Byte8
<1>. HIDE DEF Byte8
<1>2. id = << id[1], id[2] >> /\ id[1] \in Byte8 /\ id[2] \in Byte8
  BY <1>1
<1>3. << id[1], id[2] >> \in Seq(Byte8) /\ Len(<< id[1], id[2] >>) = 2
  BY <1>2
<1>. QED
  BY <1>2, <1>3

\* The bytes of a frame.
LEMMA Append2 ==
    ASSUME NEW S, NEW s \in Seq(S), NEW t \in Seq(S)
    PROVE  /\ s \o t \in Seq(S) /\ Len(s \o t) = Len(s) + Len(t)
           /\ \A i \in 1 .. Len(s) : (s \o t)[i] = s[i]
           /\ \A i \in 1 .. Len(t) : (s \o t)[Len(s) + i] = t[i]
<1>1. Len(s) \in Nat /\ Len(t) \in Nat
  OBVIOUS
<1>2. /\ s \o t \in Seq(S) /\ Len(s \o t) = Len(s) + Len(t)
      /\ \A i \in 1 .. Len(s) + Len(t) :
            (s \o t)[i] = IF i <= Len(s) THEN s[i] ELSE t[i - Len(s)]
  BY ConcatProperties
<1>3. ASSUME NEW i \in 1 .. Len(t) PROVE (s \o t)[Len(s) + i] = t[i]
  <2>1. Len(s) + i \in 1 .. Len(s) + Len(t) /\ ~(Len(s) + i <= Len(s)) /\ Len(s) + i - Len(s) = i
    BY <1>1
  <2>. QED
    BY <1>2, <2>1
<1>. QED
  BY <1>1, <1>2, <1>3

\* The data of a frame.
LEMMA Zeros ==
    ASSUME NEW n \in Nat
    PROVE  [i \in 1 .. n |-> {}] \in Seq(Byte8) /\ Len([i \in 1 .. n |-> {}]) = n
BY DEF Byte8

\* The thirteen bytes of a frame in extended mode, ...
LEMMA ExtendedFrame ==
    ASSUME NEW mode, mode # "BASIC_MODE", NEW id \in Identifiers
    PROVE  Net!FrameBytes(mode, id) \in Seq(Byte8) /\ Len(Net!FrameBytes(mode, id)) = 13
<1>. DEFINE info == << {} >>
            zero == [i \in 1 .. 10 |-> {}]
<1>1. info \in Seq(Byte8) /\ Len(info) = 1
  BY DEF Byte8
<1>2. zero \in Seq(Byte8) /\ Len(zero) = 10
  BY Zeros
<1>3. id \in Seq(Byte8) /\ Len(id) = 2
  BY TwoBytes
<1>4. Net!FrameBytes(mode, id) = (info \o id) \o zero
  BY DEF Net!FrameBytes
<1>. HIDE DEF info, zero
<1>5. info \o id \in Seq(Byte8) /\ Len(info \o id) = 3
  <2>1. info \in Seq(Byte8) /\ id \in Seq(Byte8)
    BY <1>1, <1>3
  <2>2. info \o id \in Seq(Byte8) /\ Len(info \o id) = Len(info) + Len(id)
    BY ONLY <2>1, Append2
  <2>3. Len(info \o id) = Len(info) + Len(id) /\ Len(info) = 1 /\ Len(id) = 2
    BY <1>1, <1>3, <2>2
  <2>4. Len(info \o id) = 3
    BY ONLY <2>3
  <2>. QED
    BY <2>2, <2>4
<1>. DEFINE head == info \o id
<1>6. head \in Seq(Byte8) /\ Len(head) = 3
  BY <1>5
<1>. HIDE DEF head
<1>7. head \o zero \in Seq(Byte8) /\ Len(head \o zero) = 13
  <2>1. head \in Seq(Byte8) /\ zero \in Seq(Byte8)
    BY <1>6, <1>2
  <2>2. head \o zero \in Seq(Byte8) /\ Len(head \o zero) = Len(head) + Len(zero)
    BY ONLY <2>1, Append2
  <2>3. Len(head \o zero) = Len(head) + Len(zero) /\ Len(head) = 3 /\ Len(zero) = 10
    BY <1>6, <1>2, <2>2
  <2>4. Len(head \o zero) = 13
    BY ONLY <2>3
  <2>. QED
    BY <2>2, <2>4
<1>. QED
  BY <1>4, <1>7 DEF head

\* ... and the ten in basic mode.
LEMMA BasicFrame ==
    ASSUME NEW id \in Identifiers
    PROVE  /\ Net!FrameBytes("BASIC_MODE", id) \in Seq(Byte8)
           /\ Len(Net!FrameBytes("BASIC_MODE", id)) = 10
           /\ Net!FrameBytes("BASIC_MODE", id)[1] = id[1]
           /\ Net!FrameBytes("BASIC_MODE", id)[2] = id[2]
<1>. DEFINE zero == [i \in 1 .. 8 |-> {}]
<1>1. zero \in Seq(Byte8) /\ Len(zero) = 8
  BY Zeros
<1>2. id \in Seq(Byte8) /\ Len(id) = 2
  BY TwoBytes
<1>3. Net!FrameBytes("BASIC_MODE", id) = (<< >> \o id) \o zero
  BY DEF Net!FrameBytes
<1>4. << >> \o id = id
  BY <1>2, ConcatEmptySeq
<1>. HIDE DEF zero
<1>5. id \o zero \in Seq(Byte8) /\ Len(id \o zero) = 10
  <2>1. id \in Seq(Byte8) /\ zero \in Seq(Byte8)
    BY <1>2, <1>1
  <2>2. id \o zero \in Seq(Byte8) /\ Len(id \o zero) = Len(id) + Len(zero)
    BY ONLY <2>1, Append2
  <2>3. Len(id \o zero) = Len(id) + Len(zero) /\ Len(id) = 2 /\ Len(zero) = 8
    BY <1>2, <1>1, <2>2
  <2>4. Len(id \o zero) = 10
    BY ONLY <2>3
  <2>. QED
    BY <2>2, <2>4
<1>6. \A i \in 1 .. Len(id) : (id \o zero)[i] = id[i]
  <2>1. id \in Seq(Byte8) /\ zero \in Seq(Byte8)
    BY <1>1, <1>2
  <2>. QED
    BY ONLY <2>1, Append2
<1>7. (id \o zero)[1] = id[1] /\ (id \o zero)[2] = id[2]
  <2>1. Len(id) = 2
    BY <1>2
  <2>2. 1 \in 1 .. Len(id) /\ 2 \in 1 .. Len(id)
    BY ONLY <2>1
  <2>. QED
    BY ONLY <1>6, <2>2
<1>. QED
  BY <1>3, <1>4, <1>5, <1>7

\* The writes that fill the transmit buffer from its first address on.
LEMMA FillSteps ==
    ASSUME NEW n \in 10 .. 13, NEW bytes \in Seq(Byte8), Len(bytes) = n, NEW first \in {10, 16}
    PROVE  LET fill == [i \in DOMAIN bytes |-> Net!Write(first + i - 1, bytes[i])]
           IN  /\ fill \in Seq(Quiet) /\ Len(fill) = n
               /\ \A i \in 1 .. n : fill[i] = Net!Write(first + i - 1, bytes[i])
<1>1. DOMAIN bytes = 1 .. n /\ \A i \in 1 .. n : bytes[i] \in Byte8
  OBVIOUS
<1>2. ASSUME NEW i \in 1 .. n PROVE Net!Write(first + i - 1, bytes[i]) \in Quiet
  <2>1. first + i - 1 \in Cell /\ first + i - 1 # 1
    <3>1. CASE first = 10
      BY <3>1 DEF Cell
    <3>2. CASE first = 16
      BY <3>2 DEF Cell
    <3>. QED
      BY <3>1, <3>2
  <2>. QED
    BY <1>1, <2>1, WriteStep
<1>. DEFINE w(i) == Net!Write(first + i - 1, bytes[i])
<1>3. \A i \in 1 .. n : w(i) \in Quiet
  BY <1>2
<1>. HIDE DEF w
<1>4. /\ [i \in 1 .. n |-> w(i)] \in Seq(Quiet) /\ Len([i \in 1 .. n |-> w(i)]) = n
      /\ \A i \in 1 .. n : [j \in 1 .. n |-> w(j)][i] = w(i)
  BY <1>3
<1>. QED
  BY <1>1, <1>4 DEF w

\* The loop that waits for the transmit buffer.
LEMMA PollStep ==
    \A level : [Net!Poll(2, 2, level) EXCEPT !.fail = "note"]
        = [act |-> "poll", reg |-> 2, bit |-> 2, level |-> level, fail |-> "note"]
BY DEF Net!Poll

\* transmit() in extended mode, ...
LEMMA CanTransmitSteps ==
    ASSUME NEW mode, mode # "BASIC_MODE", NEW id \in Identifiers
    PROVE  Net!TransmitSteps(mode, id) \in Lists(Still)
<1>. DEFINE bytes == Net!FrameBytes(mode, id)
            poll  == [act |-> "poll", reg |-> 2, bit |-> 2, level |-> TRUE, fail |-> "note"]
            fill  == [i \in DOMAIN bytes |-> Net!Write(16 + i - 1, bytes[i])]
            send  == Net!Write(1, {0})
<1>1. Net!TransmitSteps(mode, id) = (<< poll >> \o fill) \o << send >>
  <2>1. Net!InMode(mode, "BM_TX_IDENTIFIER_1", "EM_FRAME_INFORMATION") = 16
    BY DEF Net!InMode, Net!Address
  <2>2. [Net!Poll(2, 2, TRUE) EXCEPT !.fail = "note"] = poll
    BY PollStep, Zenon
  <2>3. Net!Address["BM_STATUS"] = 2 /\ Net!Address["BM_COMMAND"] = 1
    BY DEF Net!Address
  <2>. HIDE DEF bytes, poll
  <2>. QED
    BY <2>1, <2>2, <2>3, Zenon DEF Net!TransmitSteps, bytes
<1>2. fill \in Seq(Quiet)
  <2>1. bytes \in Seq(Byte8) /\ Len(bytes) = 13
    BY ExtendedFrame
  <2>. HIDE DEF bytes
  <2>2. 13 \in 10 .. 13 /\ 16 \in {10, 16}
    OBVIOUS
  <2>. QED
    BY <2>1, <2>2, FillSteps
<1>3. poll \in Quiet
  BY DEF Quiet, Cell, Rules
<1>4. send \in Quiet /\ Firm(send)
  BY WriteStep DEF Cell, Byte8
<1>. HIDE DEF poll, fill, send
<1>5. << poll >> \o fill \in Seq(Quiet)
  BY <1>2, <1>3, ConcatProperties
<1>6. (<< poll >> \o fill) \o << send >> \in Lists(Quiet)
  BY <1>4, <1>5, OneStep, Join
<1>. QED
  BY <1>1, <1>6, ListsGrow DEF Still

\* ... and in basic mode.
LEMMA BasicTransmit ==
    ASSUME NEW id \in Identifiers
    PROVE  LET s == Net!TransmitSteps("BASIC_MODE", id)
           IN  /\ s \in Seq(Quiet) /\ Len(s) = 12
               /\ s[1] = [act |-> "poll", reg |-> 2, bit |-> 2, level |-> TRUE, fail |-> "note"]
               /\ s[2] = Net!Write(10, id[1]) /\ s[3] = Net!Write(11, id[2])
               /\ \A k \in 4 .. 11 : \E v : s[k] = Net!Write(8 + k, v)
               /\ s[12] = Net!Write(1, {0})
<1>. DEFINE bytes == Net!FrameBytes("BASIC_MODE", id)
            poll  == [act |-> "poll", reg |-> 2, bit |-> 2, level |-> TRUE, fail |-> "note"]
            fill  == [i \in DOMAIN bytes |-> Net!Write(10 + i - 1, bytes[i])]
            send  == Net!Write(1, {0})
            s     == Net!TransmitSteps("BASIC_MODE", id)
<1>1. s = (<< poll >> \o fill) \o << send >>
  <2>1. Net!InMode("BASIC_MODE", "BM_TX_IDENTIFIER_1", "EM_FRAME_INFORMATION") = 10
    BY DEF Net!InMode, Net!Address
  <2>2. [Net!Poll(2, 2, TRUE) EXCEPT !.fail = "note"] = poll
    BY PollStep, Zenon
  <2>3. Net!Address["BM_STATUS"] = 2 /\ Net!Address["BM_COMMAND"] = 1
    BY DEF Net!Address
  <2>. HIDE DEF bytes, poll
  <2>. QED
    BY <2>1, <2>2, <2>3, Zenon DEF Net!TransmitSteps, bytes
<1>2. /\ fill \in Seq(Quiet) /\ Len(fill) = 10
      /\ \A i \in 1 .. 10 : fill[i] = Net!Write(10 + i - 1, bytes[i])
  <2>1. bytes \in Seq(Byte8) /\ Len(bytes) = 10
    BY BasicFrame
  <2>. HIDE DEF bytes
  <2>2. 10 \in 10 .. 13 /\ 10 \in {10, 16}
    OBVIOUS
  <2>. QED
    BY <2>1, <2>2, FillSteps
<1>3. poll \in Quiet
  BY DEF Quiet, Cell, Rules
<1>4. send \in Quiet
  BY WriteStep DEF Cell, Byte8
<1>5. bytes[1] = id[1] /\ bytes[2] = id[2]
  BY BasicFrame
<1>. DEFINE first == << poll >>
            last  == << send >>
            head  == first \o fill
<1>6. first \in Seq(Quiet) /\ last \in Seq(Quiet)
  BY <1>3, <1>4
<1>7. Len(first) = 1 /\ Len(last) = 1 /\ first[1] = poll /\ last[1] = send
  OBVIOUS
<1>. HIDE DEF poll, fill, send, bytes, s, first, last
<1>8. /\ head \in Seq(Quiet) /\ Len(head) = Len(first) + Len(fill)
      /\ \A i \in 1 .. Len(first) : head[i] = first[i]
      /\ \A i \in 1 .. Len(fill) : head[Len(first) + i] = fill[i]
  <2>1. first \in Seq(Quiet) /\ fill \in Seq(Quiet)
    BY <1>2, <1>6
  <2>. QED
    BY ONLY <2>1, Append2
<1>9. head \in Seq(Quiet) /\ Len(head) = 11 /\ head[1] = poll /\ \A k \in 2 .. 11 : head[k] = fill[k - 1]
  <2>1. Len(first) = 1 /\ Len(fill) = 10 /\ first[1] = poll
    BY <1>2, <1>7
  <2>2. Len(head) = 11 /\ \A i \in 1 .. 10 : head[1 + i] = fill[i]
    BY ONLY <1>8, <2>1
  <2>3. 1 \in 1 .. Len(first)
    BY ONLY <2>1
  <2>4. head[1] = poll
    BY ONLY <1>8, <2>1, <2>3
  <2>5. ASSUME NEW k \in 2 .. 11 PROVE head[k] = fill[k - 1]
    <3>1. k - 1 \in 1 .. 10 /\ 1 + (k - 1) = k
      OBVIOUS
    <3>. QED
      BY <2>2, <3>1
  <2>. QED
    BY <1>8, <2>2, <2>4, <2>5
<1>. HIDE DEF head
<1>10. /\ head \o last \in Seq(Quiet) /\ Len(head \o last) = Len(head) + Len(last)
       /\ \A i \in 1 .. Len(head) : (head \o last)[i] = head[i]
       /\ \A i \in 1 .. Len(last) : (head \o last)[Len(head) + i] = last[i]
  <2>1. head \in Seq(Quiet) /\ last \in Seq(Quiet)
    BY <1>6, <1>9
  <2>. QED
    BY ONLY <2>1, Append2
<1>11. s = head \o last
  BY <1>1 DEF head, first, last
<1>12. s \in Seq(Quiet) /\ Len(s) = 12 /\ s[12] = send /\ \A i \in 1 .. 11 : s[i] = head[i]
  <2>1. Len(head) = 11 /\ Len(last) = 1 /\ last[1] = send
    BY <1>7, <1>9
  <2>2. Len(s) = 12 /\ \A i \in 1 .. 11 : s[i] = head[i]
    BY ONLY <1>10, <1>11, <2>1
  <2>3. 1 \in 1 .. Len(last) /\ Len(head) + 1 = 12
    BY ONLY <2>1
  <2>4. s[12] = send
    BY ONLY <1>10, <1>11, <2>1, <2>3
  <2>. QED
    BY <1>10, <1>11, <2>2, <2>4
<1>13. s[1] = poll /\ \A k \in 2 .. 11 : s[k] = Net!Write(8 + k, bytes[k - 1])
  <2>1. s[1] = poll
    BY <1>9, <1>12
  <2>2. ASSUME NEW k \in 2 .. 11 PROVE s[k] = Net!Write(8 + k, bytes[k - 1])
    <3>1. k \in 1 .. 11 /\ k - 1 \in 1 .. 10 /\ 10 + (k - 1) - 1 = 8 + k
      OBVIOUS
    <3>2. s[k] = fill[k - 1] /\ fill[k - 1] = Net!Write(10 + (k - 1) - 1, bytes[k - 1])
      BY <1>2, <1>9, <1>12, <3>1
    <3>. QED
      BY <3>1, <3>2
  <2>. QED
    BY <2>1, <2>2
<1>14. s[2] = Net!Write(10, id[1]) /\ s[3] = Net!Write(11, id[2])
  BY <1>5, <1>13
<1>15. \A k \in 4 .. 11 : \E v : s[k] = Net!Write(8 + k, v)
  <2>. TAKE k \in 4 .. 11
  <2>1. s[k] = Net!Write(8 + k, bytes[k - 1])
    BY <1>13
  <2>. QED
    BY <2>1
<1>. QED
  BY <1>12, <1>13, <1>14, <1>15 DEF poll, send, s

\* Two steps and one more.
LEMMA CanTwoAndOne ==
    \A a, b, c :
       << a, b >> \o << c >> = << a, b, c >>
<1>. TAKE a, b, c
<1>. DEFINE S == {a, b, c}
            s == << a, b >>
            t == << c >>
            u == << a, b, c >>
<1>1. s \in Seq(S) /\ t \in Seq(S) /\ u \in Seq(S)
  OBVIOUS
<1>2. /\ s \o t \in Seq(S)
      /\ Len(s \o t) = 3
      /\ \A z \in 1 .. 3 : (s \o t)[z] = u[z]
  BY <1>1, ConcatProperties
<1>. QED
  BY <1>1, <1>2, SeqEqual


\* Three steps and two more.
LEMMA CanThreeAndTwo ==
    \A a, b, c, d, e :
       << a, b, c >> \o << d, e >> = << a, b, c, d, e >>
<1>. TAKE a, b, c, d, e
<1>. DEFINE S == {a, b, c, d, e}
            s == << a, b, c >>
            t == << d, e >>
            u == << a, b, c, d, e >>
<1>1. s \in Seq(S) /\ t \in Seq(S) /\ u \in Seq(S)
  OBVIOUS
<1>2. /\ s \o t \in Seq(S)
      /\ Len(s \o t) = 5
      /\ \A z \in 1 .. 5 : (s \o t)[z] = u[z]
  BY <1>1, ConcatProperties
<1>. QED
  BY <1>1, <1>2, SeqEqual


\* setAcceptanceCode() and setAcceptanceMask().
LEMMA CanFilterSteps ==
    ASSUME NEW value
    PROVE  /\ Net!FilterSteps("BASIC_MODE", "BM_ACCEPTANCE_CODE", "EM_FRAME_INFORMATION", value)
                = FilterList(4, value)
           /\ Net!FilterSteps("BASIC_MODE", "BM_ACCEPTANCE_MASK", "EM_DATA_2", value)
                = FilterList(5, value)
<1>. DEFINE read == [act |-> "read", reg |-> 0, fail |-> "skip"]
            on   == [act |-> "back", reg |-> 0, on |-> {0}, off |-> {}, fail |-> "note"]
            off  == [act |-> "back", reg |-> 0, on |-> {}, off |-> {0}, fail |-> "note"]
            w(a) == [act |-> "write", reg |-> a, data |-> value, fail |-> "note"]
<1>1. Net!EnterResetMode("BASIC_MODE") = << read, on >>
  BY DEF Net!EnterResetMode, Net!ChangeBit, Net!Read, Net!WriteBack, Net!InMode, Net!Address
<1>2. Net!EnterOperationMode("BASIC_MODE") = << read, off >>
  BY DEF Net!EnterOperationMode, Net!ChangeBit, Net!Read, Net!WriteBack, Net!InMode, Net!Address
<1>3. /\ Net!Write(Net!InMode("BASIC_MODE", "BM_ACCEPTANCE_CODE", "EM_FRAME_INFORMATION"), value)
            = w(4)
      /\ Net!Write(Net!InMode("BASIC_MODE", "BM_ACCEPTANCE_MASK", "EM_DATA_2"), value) = w(5)
  BY DEF Net!Write, Net!InMode, Net!Address
<1>. HIDE DEF read, on, off, w
<1>4. \A a : (<< read, on >> \o << w(a) >>) \o << read, off >> = << read, on, w(a), read, off >>
  <2>. TAKE a
  <2>1. << read, on >> \o << w(a) >> = << read, on, w(a) >>
    BY CanTwoAndOne
  <2>2. << read, on, w(a) >> \o << read, off >> = << read, on, w(a), read, off >>
    BY CanThreeAndTwo
  <2>. QED
    BY <2>1, <2>2
<1>5. \A a : FilterList(a, value) = << read, on, w(a), read, off >>
  BY DEF FilterList, read, on, off, w
<1>. QED
  BY <1>1, <1>2, <1>3, <1>4, <1>5 DEF Net!FilterSteps

\* It has five steps.
LEMMA FilterSteps5 ==
    ASSUME NEW a, NEW value
    PROVE  \E S : FilterList(a, value) \in Seq(S) /\ Len(FilterList(a, value)) = 5
<1>. DEFINE s == FilterList(a, value)
<1>1. s \in Seq({s[1], s[2], s[3], s[4], s[5]}) /\ Len(s) = 5
  BY DEF FilterList
<1>. QED
  BY <1>1

\* getReceivedFrame().
LEMMA CanReceiveSteps ==
    /\ Net!ReceiveSteps("BASIC_MODE") = ReceiveList
    /\ \E S : ReceiveList \in Seq(S) /\ Len(ReceiveList) = 5
    /\ \A mode : Net!ReceiveSteps(mode) \in Lists(Still)
<1>1. Net!ReceiveSteps("BASIC_MODE") = ReceiveList
  BY DEF Net!ReceiveSteps, ReceiveList, Net!Read, Net!Require, Net!Fresh, Net!Write, Net!InMode,
     Net!Address
<1>2. \E S : ReceiveList \in Seq(S) /\ Len(ReceiveList) = 5
  <2>. DEFINE s == ReceiveList
  <2>1. s \in Seq({s[1], s[2], s[3], s[4], s[5]}) /\ Len(s) = 5
    BY DEF ReceiveList
  <2>. QED
    BY <2>1
<1>3. ASSUME NEW mode PROVE Net!ReceiveSteps(mode) \in Lists(Still)
  <2>1. /\ Net!Read(2) \in Still /\ Net!Read(20) \in Still /\ Net!Read(16) \in Still
    BY ReadStep DEF Cell, Still
  <2>2. Net!Require({0}) \in Still
    BY RequireStep DEF Byte8, Still
  <2>3. Net!Fresh({}) \in Still
    BY DEF Net!Fresh, Still
  <2>4. Net!Write(1, {2}) \in Still /\ Firm(Net!Write(1, {2}))
    BY WriteStep DEF Byte8, Cell
  <2>5. PICK r \in {16, 20} :
          Net!ReceiveSteps(mode) = << Net!Read(2), Net!Require({0}), Net!Fresh({}), Net!Read(r),
                                      Net!Write(1, {2}) >>
    BY DEF Net!ReceiveSteps, Net!InMode, Net!Address
  <2>6. \A a, b, c, d, e \in Still : Firm(e) => << a, b, c, d, e >> \in Lists(Still)
    BY DEF Lists
  <2>. QED
    BY <2>1, <2>2, <2>3, <2>4, <2>5, <2>6
<1>. QED
  BY <1>1, <1>2, <1>3


\* A call makes one of these lists.
LEMMA NetCall == NetInv /\ Net!Call => NetInv'
<1>. SUFFICES ASSUME NetInv, Net!Call PROVE NetInv'
  OBVIOUS
<1>1. ASSUME NEW o, NEW steps, Net!Start(o, steps)
      PROVE  /\ IsCan(core') /\ core' = core /\ members' = members /\ call' = o /\ todo' = steps
             /\ success' /\ buffer' = {}
             /\ Basic' = Basic /\ IsFilter' = (o.op \in {"setAcceptanceCode", "setAcceptanceMask"})
  BY <1>1 DEF Net!Start, Net!StartWith, NetInv, Basic, IsFilter
<1>. DEFINE Plain2(o) == o.op \notin {"init", "setAcceptanceCode", "setAcceptanceMask", "transmit",
                                     "getReceivedFrame"}
\* The lists that need no more than to be quiet, ...
<1>2. ASSUME NEW o, NEW steps, Net!Start(o, steps), o.op # "init",
             Basic => Plain2(o) /\ steps \in Lists(Quiet),
             ~Basic => steps \in Lists(Still)
      PROVE  NetInv'
  BY <1>1, <1>2 DEF NetInv, Basic, IsFilter, Other
<1>3. << Net!ReturnFalse >> \in Lists(Quiet) /\ << Net!ReturnFalse >> \in Lists(Still)
  <2>1. Net!ReturnFalse \in Quiet /\ Firm(Net!ReturnFalse)
    BY RequireStep DEF Net!ReturnFalse, Byte8
  <2>2. << Net!ReturnFalse >> \in Lists(Quiet)
    BY <2>1, OneStep
  <2>3. Lists(Quiet) \subseteq Lists(Still)
    BY ListsGrow DEF Still
  <2>. QED
    BY <2>2, <2>3
\* ... most of which need a mode.
<1>4. ASSUME NEW o, NEW steps, Net!InUsageMode(o, steps), o.op # "init",
             Basic => Plain2(o) /\ steps \in Lists(Quiet),
             ~Basic /\ members \in Net!USAGE_MODE => steps \in Lists(Still)
      PROVE  NetInv'
  <2>1. CASE members \in Net!USAGE_MODE
    BY <1>2, <1>4, <2>1 DEF Net!InUsageMode
  <2>2. CASE members \notin Net!USAGE_MODE
    BY <1>2, <1>3, <1>4, <2>2 DEF Net!InUsageMode, Net!Refuse, Net!USAGE_MODE, Basic
  <2>. QED
    BY <2>1, <2>2
<1>5. ASSUME NEW bitrate \in Bitrates, NEW mode \in UsageModes, Net!Initialize(bitrate, mode)
      PROVE  NetInv'
  <2>. DEFINE o == [op |-> "init", bitrate |-> bitrate, mode |-> mode]
  <2>1. ASSUME NEW steps, Net!Start(o, steps), steps \in Lists(Quiet \cup Assigning) PROVE NetInv'
    BY <1>1, <2>1 DEF NetInv, IsFilter, Other
  <2>2. << Net!ReturnFalse >> \in Lists(Quiet \cup Assigning)
    BY <1>3, ListsGrow
  <2>3. << Net!Assign(mode), Net!ReturnFalse >> \in Lists(Quiet \cup Assigning)
    <3>1. Net!Assign(mode) \in Quiet \cup Assigning
      BY DEF Net!Assign, Assigning
    <3>2. Net!ReturnFalse \in Quiet \cup Assigning /\ Firm(Net!ReturnFalse)
      BY RequireStep DEF Net!ReturnFalse, Byte8
    <3>. QED
      BY <3>1, <3>2, TwoSteps
  <2>4. CASE bitrate \notin DOMAIN Net!BITRATE
    BY <1>5, <2>1, <2>2, <2>4 DEF Net!Initialize, Net!Refuse
  <2>5. CASE bitrate \in DOMAIN Net!BITRATE /\ mode \notin Net!USAGE_MODE
    BY <1>5, <2>1, <2>3, <2>5 DEF Net!Initialize
  <2>6. CASE bitrate \in DOMAIN Net!BITRATE /\ mode \in Net!USAGE_MODE
    <3>. DEFINE steps == (((((<< Net!Assign(mode) >> \o Net!EnterResetMode(mode))
                \o Net!ChangeBit(Net!InMode(mode, "BM_CLOCK_DIVIDER", "EM_CLOCK_DIVIDER"), 7, FALSE))
                \o Net!SetBusTiming(mode, Net!BITRATE[bitrate], 2, 5, 2))
                \o (IF mode = "BASIC_MODE" THEN << >>
                    ELSE Net!ChangeBit(Net!Address["EM_MODE"], 3, TRUE)))
                \o Net!EnterOperationMode(mode))
                \o << Net!AssignIfFailed("UNDEFINED") >>
    <3>1. Net!Start(o, steps)
      BY <1>5, <2>6, Zenon DEF Net!Initialize
    <3>2. steps \in Lists(Quiet \cup Assigning)
      BY <2>6, CanInitSteps
    <3>. HIDE DEF steps
    <3>. QED
      BY <2>1, <3>1, <3>2
  <2>. QED
    BY <2>4, <2>5, <2>6
<1>6. ASSUME NEW i \in {"TRANSMIT", "BUS_ERROR"}, Net!EnableInterrupt(i) \/ Net!DisableInterrupt(i)
      PROVE  NetInv'
  <2>1. Net!INTERRUPT[i] \in 0 .. 7
    BY DEF Net!INTERRUPT
  <2>2. \A on : /\ Net!InterruptSteps(members, Net!INTERRUPT[i], on) \in Lists(Still)
                /\ Basic => Net!InterruptSteps(members, Net!INTERRUPT[i], on) \in Lists(Quiet)
    BY <2>1, CanInterruptSteps DEF Basic
  <2>3. CASE Net!EnableInterrupt(i)
    <3>. DEFINE o     == [op |-> "enableInterrupt"]
                steps == Net!InterruptSteps(members, Net!INTERRUPT[i], TRUE)
    <3>1. Net!InUsageMode(o, steps) /\ o.op = "enableInterrupt"
      BY <2>3 DEF Net!EnableInterrupt
    <3>2. steps \in Lists(Still) /\ (Basic => steps \in Lists(Quiet))
      BY <2>2, Zenon
    <3>. HIDE DEF o, steps
    <3>. QED
      BY <1>4, <3>1, <3>2
  <2>4. CASE Net!DisableInterrupt(i)
    <3>. DEFINE o     == [op |-> "disableInterrupt"]
                steps == Net!InterruptSteps(members, Net!INTERRUPT[i], FALSE)
    <3>1. Net!InUsageMode(o, steps) /\ o.op = "disableInterrupt"
      BY <2>4 DEF Net!DisableInterrupt
    <3>2. steps \in Lists(Still) /\ (Basic => steps \in Lists(Quiet))
      BY <2>2, Zenon
    <3>. HIDE DEF o, steps
    <3>. QED
      BY <1>4, <3>1, <3>2
  <2>. QED
    BY <1>6, <2>3, <2>4
<1>7. ASSUME Net!EnableInterrupts \/ Net!DisableInterrupts PROVE NetInv'
  <2>0. PICK on : \E name \in {"enableInterrupts", "disableInterrupts"} :
          Net!InUsageMode([op |-> name], Net!AllInterrupts(on))
    BY <1>7, Zenon DEF Net!EnableInterrupts, Net!DisableInterrupts
  <2>1. PICK name \in {"enableInterrupts", "disableInterrupts"} :
          Net!InUsageMode([op |-> name], Net!AllInterrupts(on))
    BY <2>0, Zenon
  <2>2. members \in Net!USAGE_MODE =>
          /\ Net!AllInterrupts(on) \in Lists(Still)
          /\ Basic => Net!AllInterrupts(on) \in Lists(Quiet)
    BY CanAllInterrupts
  <2>3. Basic => members \in Net!USAGE_MODE
    BY DEF Basic, Net!USAGE_MODE
  <2>. QED
    BY <1>4, <2>1, <2>2, <2>3
<1>8. CASE Net!IdentifyInterrupt
  <2>1. Net!OrStop(Net!Read(3)) \in Quiet /\ Net!Require(Net!Bits) \in Quiet /\ Firm(Net!Require(Net!Bits))
    BY ReadStep, RequireStep DEF Cell, Byte8, Net!Bits
  <2>. DEFINE steps == << Net!OrStop(Net!Read(3)), Net!Require(Net!Bits) >>
  <2>2. steps \in Lists(Quiet) /\ steps \in Lists(Still)
    BY <2>1, TwoSteps, ListsGrow DEF Still
  <2>3. Net!InUsageMode([op |-> "identifyInterrupt"], steps)
    BY <1>8 DEF Net!IdentifyInterrupt, Net!Address
  <2>. HIDE DEF steps
  <2>. QED
    BY <1>4, <2>2, <2>3
<1>9. ASSUME NEW id \in Identifiers, Net!Transmit(id) PROVE NetInv'
  <2>. DEFINE o == [op |-> "transmit", id |-> id]
  <2>1. CASE ~Basic
    BY <1>4, <1>9, <2>1, CanTransmitSteps DEF Net!Transmit, Basic
  <2>2. CASE Basic
    <3>. DEFINE s == Net!TransmitSteps("BASIC_MODE", id)
    <3>1. Net!Start(o, s)
      BY <1>9, <2>2 DEF Net!Transmit, Net!InUsageMode, Net!USAGE_MODE, Basic
    <3>2. IsCan(core') /\ call' = o /\ todo' = s /\ success' /\ Basic' /\ ~IsFilter'
      <4>1. IsCan(core') /\ call' = o /\ todo' = s /\ success' /\ members' = members
        BY <1>1, <3>1, Zenon
      <4>2. Basic' /\ ~IsFilter'
        BY <2>2, <4>1 DEF Basic, IsFilter
      <4>. QED
        BY <4>1, <4>2
    <3>3. From(s, 1) = s
      BY BasicTransmit, FromStart
    <3>4. TransmitList' = s
      BY <3>2 DEF TransmitList
    <3>. HIDE DEF s
    <3>5. TransmitStage(1)'
      BY <3>2 DEF TransmitStage
    <3>6. Transmitting'
      BY <3>2, <3>3, <3>4, <3>5 DEF Transmitting
    <3>. QED
      BY <3>2, <3>6 DEF NetInv, Other
  <2>. QED
    BY <2>1, <2>2
<1>10. ASSUME NEW a \in {4, 5}, NEW value, NEW o,
              o.value = value, o.op = IF a = 4 THEN "setAcceptanceCode" ELSE "setAcceptanceMask",
              Net!Start(o, FilterList(a, value)), Basic
       PROVE  NetInv'
  <2>1. IsCan(core') /\ call' = o /\ todo' = FilterList(a, value) /\ Basic'
    BY <1>1, <1>10
  <2>2. From(FilterList(a, value), 1) = FilterList(a, value)
    BY FilterSteps5, FromStart
  <2>3. FilterCell' = a
    BY <1>10, <2>1 DEF FilterCell
  <2>4. FilterStage(1)'
    BY DEF FilterStage
  <2>5. Filtering'
    BY <1>10, <2>1, <2>2, <2>3, <2>4 DEF Filtering
  <2>. QED
    BY <1>10, <2>1, <2>5 DEF NetInv, Other
<1>11. ASSUME NEW value \in Byte8, NEW op, NEW basic, NEW extended,
              \/ op = "setAcceptanceCode" /\ basic = "BM_ACCEPTANCE_CODE"
                    /\ extended = "EM_FRAME_INFORMATION"
              \/ op = "setAcceptanceMask" /\ basic = "BM_ACCEPTANCE_MASK"
                    /\ extended = "EM_DATA_2",
              Net!InUsageMode([op |-> op, value |-> value],
                              Net!FilterSteps(members, basic, extended, value))
       PROVE  NetInv'
  <2>1. CASE ~Basic
    <3>1. Net!FilterSteps(members, basic, extended, value) \in Lists(Still)
      <4>. DEFINE s == Net!EnterResetMode(members)
                  w == Net!Write(Net!InMode(members, basic, extended), value)
                  t == Net!EnterOperationMode(members)
      <4>1. Net!InMode(members, "BM_CONTROL", "EM_MODE") = 0
        BY DEF Net!InMode, Net!Address
      <4>2. \A set : Net!ChangeBit(0, 0, set) \in Lists(Still) /\ Net!ChangeBit(0, 0, set) # << >>
        BY ChangeBitSteps DEF Cell
      <4>3. s \in Lists(Still) /\ t \in Lists(Still) /\ t # << >>
        BY <4>1, <4>2 DEF Net!EnterResetMode, Net!EnterOperationMode
      <4>4. Net!InMode(members, basic, extended) \in Cell
        BY <1>11, <2>1 DEF Net!InMode, Net!Address, Cell
      <4>5. w \in Still
        BY <4>4, WriteStep
      <4>6. Net!FilterSteps(members, basic, extended, value) = (s \o << w >>) \o t
        BY DEF Net!FilterSteps
      <4>. HIDE DEF s, w, t
      <4>7. s \in Seq(Still) /\ << w >> \in Seq(Still)
        BY <4>3, <4>5 DEF Lists
      <4>8. s \o << w >> \in Seq(Still)
        BY <4>7, ConcatProperties
      <4>. QED
        BY <4>3, <4>6, <4>8, Join
    <3>. QED
      BY <1>4, <1>11, <2>1, <3>1
  <2>2. CASE Basic
    <3>. DEFINE a == IF op = "setAcceptanceCode" THEN 4 ELSE 5
    <3>1. Net!FilterSteps(members, basic, extended, value) = FilterList(a, value)
      BY <1>11, <2>2, CanFilterSteps DEF Basic
    <3>2. Net!Start([op |-> op, value |-> value], FilterList(a, value))
      BY <1>11, <2>2, <3>1 DEF Net!InUsageMode, Net!USAGE_MODE, Basic
    <3>. QED
      BY <1>10, <1>11, <2>2, <3>2
  <2>. QED
    BY <2>1, <2>2
<1>12. ASSUME NEW id \in Identifiers, Net!SetAcceptanceCode(id[1]) PROVE NetInv'
  <2>1. id[1] \in Byte8
    BY TwoBytes
  <2>. QED
    BY <1>11, <1>12, <2>1 DEF Net!SetAcceptanceCode
<1>13. ASSUME NEW mask \in Masks, Net!SetAcceptanceMask(mask) PROVE NetInv'
  <2>1. mask \in Byte8
    BY CoresAssumption DEF Byte8
  <2>. QED
    BY <1>11, <1>13, <2>1 DEF Net!SetAcceptanceMask
<1>14. CASE Net!SetAcceptanceRefused
  BY <1>2, <1>3, <1>14 DEF Net!SetAcceptanceRefused, Net!Refuse
<1>15. CASE Net!GetReceivedFrame
  <2>. DEFINE o == [op |-> "getReceivedFrame"]
  <2>1. CASE ~Basic
    BY <1>4, <1>15, <2>1, CanReceiveSteps DEF Net!GetReceivedFrame
  <2>2. CASE Basic
    <3>1. Net!Start(o, ReceiveList)
      BY <1>15, <2>2, CanReceiveSteps DEF Net!GetReceivedFrame, Net!InUsageMode, Net!USAGE_MODE, Basic
    <3>2. IsCan(core') /\ call' = o /\ todo' = ReceiveList /\ Basic' /\ ~IsFilter'
      <4>1. IsCan(core') /\ call' = o /\ todo' = ReceiveList /\ members' = members
        BY <1>1, <3>1, Zenon
      <4>2. Basic' /\ ~IsFilter'
        BY <2>2, <4>1 DEF Basic, IsFilter
      <4>. QED
        BY <4>1, <4>2
    <3>3. From(ReceiveList, 1) = ReceiveList
      BY CanReceiveSteps, FromStart
    <3>4. ReceiveStage(1)'
      BY DEF ReceiveStage
    <3>5. Receiving'
      BY <3>2, <3>3, <3>4 DEF Receiving
    <3>. QED
      BY <3>2, <3>5 DEF NetInv, Other
  <2>. QED
    BY <2>1, <2>2
<1>16. ASSUME Net!GoToSleep \/ Net!WakeUp PROVE NetInv'
  <2>1. CASE Basic
    <3>1. Net!Write(1, {4}) \in Quiet /\ Firm(Net!Write(1, {4}))
      BY WriteStep DEF Cell, Byte8
    <3>. DEFINE steps == << Net!Write(1, {4}) >>
    <3>2. steps \in Lists(Quiet)
      BY <3>1, OneStep
    <3>3. \/ Net!InUsageMode([op |-> "goToSleep"], steps)
          \/ Net!InUsageMode([op |-> "wakeUp"], steps)
      BY <1>16, <2>1 DEF Net!GoToSleep, Net!WakeUp, Net!Address, Basic
    <3>. HIDE DEF steps
    <3>. QED
      BY <1>4, <2>1, <3>2, <3>3
  <2>2. CASE ~Basic
    <3>0. Net!Address["EM_COMMAND"] = 1
      BY DEF Net!Address
    <3>a. PICK set : \E name \in {"goToSleep", "wakeUp"} :
            Net!InUsageMode([op |-> name], Net!ChangeBit(1, 4, set))
      BY <1>16, <2>2, <3>0, Zenon DEF Net!GoToSleep, Net!WakeUp, Basic
    <3>1. PICK name \in {"goToSleep", "wakeUp"} :
            Net!InUsageMode([op |-> name], Net!ChangeBit(1, 4, set))
      BY <3>a, Zenon
    <3>2. Net!ChangeBit(1, 4, set) \in Lists(Still)
      BY ChangeBitSteps DEF Cell
    <3>. QED
      BY <1>4, <2>2, <3>1, <3>2
  <2>. QED
    BY <2>1, <2>2
<1>17. CASE Net!LogStatus
  <2>1. Net!OrStop(Net!Read(2)) \in Quiet /\ Firm(Net!OrStop(Net!Read(2)))
    BY ReadStep DEF Cell
  <2>. DEFINE steps == << Net!OrStop(Net!Read(2)) >>
  <2>2. steps \in Lists(Quiet) /\ steps \in Lists(Still)
    BY <2>1, OneStep, ListsGrow DEF Still
  <2>3. Net!Start([op |-> "logStatus"], steps)
    BY <1>17 DEF Net!LogStatus, Net!Address
  <2>. HIDE DEF steps
  <2>. QED
    BY <1>2, <2>2, <2>3
<1>. HIDE DEF Plain2
<1>. QED
  BY <1>5, <1>6, <1>7, <1>8, <1>9, <1>12, <1>13, <1>14, <1>15, <1>16, <1>17 DEF Net!Call

-----------------------------------------------------------------------------
(* The steps of an operation in basic mode.                                *)

\* The list is at one of its steps, and there is one left.
LEMMA Place ==
    ASSUME NEW S, NEW s \in Seq(S), NEW k \in 1 .. Len(s) + 1, todo = From(s, k), Net!Host
    PROVE  /\ k \in 1 .. Len(s) /\ Head(todo) = s[k] /\ Tail(todo) = From(s, k + 1)
           /\ k < Len(s) => Tail(Tail(todo)) = From(s, k + 2)
<1>0. Len(s) \in Nat
  OBVIOUS
<1>1. todo # << >>
  BY DEF Net!Host, Net!ExchangeSucceeds, Net!ExchangeRepeated, Net!ExchangeFails, Net!LocalStep,
     Net!Exchange
<1>2. k # Len(s) + 1
  BY <1>1, FromEnd
<1>3. k \in 1 .. Len(s)
  BY <1>0, <1>2
<1>4. Head(todo) = s[k] /\ Tail(todo) = From(s, k + 1)
  BY <1>3, FromStep
<1>5. ASSUME k < Len(s) PROVE Tail(Tail(todo)) = From(s, k + 2)
  <2>1. k + 1 \in 1 .. Len(s) /\ (k + 1) + 1 = k + 2
    BY <1>0, <1>3, <1>5
  <2>2. Tail(From(s, k + 1)) = From(s, (k + 1) + 1)
    BY <2>1, FromStep
  <2>. QED
    BY <1>4, <2>1, <2>2
<1>. QED
  BY <1>3, <1>4, <1>5

\* Register a of controller d has got value v, everything else is as in c.
Put(c, d, a, v) ==
    /\ IsCan(d) /\ d.fifo = c.fifo /\ d.sent = c.sent /\ d.locked = c.locked
    /\ a = 0 => d.reg[0] = v
    /\ a # 0 => d.reg[0] = c.reg[0]
    /\ a \in {4, 5} /\ 0 \in c.reg[0] => d.reg[a] = v
    /\ \A r \in {4, 5} \ {a} : d.reg[r] = c.reg[r]
    /\ a \in 10 .. 19 /\ 0 \notin c.reg[0] /\ ~c.locked => d.tx[a - 10] = v
    /\ \A i \in (0 .. 9) \ {a - 10} : d.tx[i] = c.tx[i]

\* That is what a write does; ...
LEMMA WritePuts ==
    ASSUME IsCan(core), NEW r \in Cell \ {1}, NEW v
    PROVE  Put(core, Net!AfterWrite(core, r, v), r, v)
<1>. DEFINE w == Net!AfterWrite(core, r, v)
<1>1. IsCan(w)
  BY CanAccessed
<1>. HIDE DEF w
<1>2. w = Net!AfterWrite(core, r, v)
  BY DEF w
<1>3. Put(core, w, r, v)
  BY ONLY IsCan(core), <1>1, <1>2, r \in Cell \ {1}, CanWritten DEF Put
<1>. QED
  BY <1>3 DEF w

\* ... a failed one may have done nothing.
LEMMA NetPut ==
    ASSUME IsCan(core), NEW r \in Cell \ {1}, NEW v,
           \/ Head(todo) = [act |-> "write", reg |-> r, data |-> v, fail |-> "note"]
           \/ \E on, off :
                 /\ Head(todo) = [act |-> "back", reg |-> r, on |-> on, off |-> off,
                                  fail |-> "note"]
                 /\ v = Changed(buffer, on, off),
           NetGoesOn
    PROVE  /\ call' = call /\ members' = members /\ todo' = Tail(todo)
           /\ \/ Smoothly /\ Put(core, core', r, v)
              \/ Badly /\ (core' = core \/ Put(core, core', r, v))
BY NetWrite, WritePuts

\* One that will be made again has been made.
LEMMA NetPutAgain ==
    ASSUME IsCan(core), NEW r \in Cell \ {1}, NEW v,
           \/ Head(todo) = [act |-> "write", reg |-> r, data |-> v, fail |-> "note"]
           \/ \E on, off :
                 /\ Head(todo) = [act |-> "back", reg |-> r, on |-> on, off |-> off,
                                  fail |-> "note"]
                 /\ v = Changed(buffer, on, off),
           Net!ExchangeRepeated
    PROVE  Put(core, core', r, v)
<1>1. Net!Written = v /\ ~Net!Reads /\ Head(todo).reg = r
  BY DEF Net!Written, Net!Reads, Changed, Net!Access
<1>2. Net!Accessed = Net!AfterWrite(core, r, v)
  BY <1>1 DEF Net!Accessed, Net!Access
<1>. QED
  BY <1>2, NetAgain, WritePuts

\* What Smoothly and Badly say of ok and trouble.
LEMMA Noted ==
    /\ Smoothly => /\ ok' => ok
                   /\ success => success'
                   /\ trouble' = {} => trouble = {}
    /\ Badly => ~ok' /\ trouble' # {}
<1>1. ASSUME Smoothly PROVE (ok' => ok) /\ (success => success')
  <2>1. ok' = ok /\ success' = success
    BY <1>1 DEF Smoothly
  <2>2. ASSUME ok' PROVE ok
    BY <2>1, <2>2, Zenon
  <2>3. ASSUME success PROVE success'
    BY <2>1, <2>3, Zenon
  <2>. QED
    BY <2>2, <2>3
<1>2. Smoothly => (trouble' = {} => trouble = {})
  BY DEF Smoothly
<1>3. Badly => ~ok' /\ trouble' # {}
  BY Zenon DEF Badly
<1>. QED
  BY <1>1, <1>2, <1>3

\* setAcceptanceCode() and setAcceptanceMask().
LEMMA FilterHost ==
    ASSUME IsCan(core), IsFilter, Filtering, NetGoesOn
    PROVE  IsCan(core') /\ core'.fifo = core.fifo /\ members' = members /\ call' = call /\ Filtering'
<1>. DEFINE cell  == FilterCell
            value == call.value
            s     == FilterList(cell, value)
<1>1. PICK S : s \in Seq(S) /\ Len(s) = 5
  BY FilterSteps5
<1>2. PICK k \in 1 .. 6 : todo = From(s, k) /\ (ok => FilterStage(k))
  BY DEF Filtering
<1>3. cell \in {4, 5}
  BY DEF FilterCell
<1>4. /\ s[1] = [act |-> "read", reg |-> 0, fail |-> "skip"]
      /\ s[2] = [act |-> "back", reg |-> 0, on |-> {0}, off |-> {}, fail |-> "note"]
      /\ s[3] = [act |-> "write", reg |-> cell, data |-> value, fail |-> "note"]
      /\ s[4] = [act |-> "read", reg |-> 0, fail |-> "skip"]
      /\ s[5] = [act |-> "back", reg |-> 0, on |-> {}, off |-> {0}, fail |-> "note"]
  BY DEF FilterList
<1>. HIDE DEF s
<1>5. /\ k \in 1 .. 5 /\ Head(todo) = s[k] /\ Tail(todo) = From(s, k + 1)
      /\ k < 5 => Tail(Tail(todo)) = From(s, k + 2)
  <2>1. k \in 1 .. Len(s) + 1
    BY <1>1
  <2>2. /\ k \in 1 .. Len(s) /\ Head(todo) = s[k] /\ Tail(todo) = From(s, k + 1)
        /\ k < Len(s) => Tail(Tail(todo)) = From(s, k + 2)
    BY <1>1, <1>2, <2>1, Place DEF NetGoesOn, Net!Host
  <2>. QED
    BY <1>1, <2>2
\* The next state is at place j.
<1>6. ASSUME NEW j \in 1 .. 6, todo' = From(s, j), call' = call, ok' => FilterStage(j)'
      PROVE  Filtering'
  BY <1>6 DEF Filtering, FilterCell, s
<1>7. FilterCell' = cell \/ call' # call
  BY DEF FilterCell
<1>8. CASE k \in {1, 4}
  <2>1. /\ core' = core /\ call' = call /\ members' = members
        /\ \/ Smoothly /\ todo' = Tail(todo)
           \/ Badly /\ todo' = Tail(Tail(todo))
    <3>1. Head(todo) = [act |-> "read", reg |-> 0, fail |-> "skip"]
      BY <1>4, <1>5, <1>8
    <3>. QED
      BY <3>1, NetRead
  <2>2. CASE Smoothly /\ todo' = Tail(todo)
    <3>1. ok' => FilterStage(k + 1)'
      BY <1>2, <1>7, <1>8, <2>1, <2>2, Noted DEF FilterStage
    <3>2. k + 1 \in 1 .. 6 /\ todo' = From(s, k + 1)
      BY <1>5, <1>8, <2>2
    <3>3. Filtering'
      BY <1>6, <2>1, <3>1, <3>2
    <3>. QED
      BY <2>1, <3>3
  <2>3. CASE Badly /\ todo' = Tail(Tail(todo))
    <3>1. k + 2 \in 1 .. 6 /\ todo' = From(s, k + 2)
      BY <1>5, <1>8, <2>3
    <3>2. ~ok'
      BY <2>3, Noted
    <3>3. Filtering'
      BY <1>6, <2>1, <3>1, <3>2
    <3>. QED
      BY <2>1, <3>3
  <2>. QED
    BY <2>1, <2>2, <2>3
<1>9. ASSUME k \in {2, 3, 5}, NEW r \in {0, cell}, NEW v,
             \/ Head(todo) = [act |-> "write", reg |-> r, data |-> v, fail |-> "note"]
             \/ \E on, off :
                   /\ Head(todo) = [act |-> "back", reg |-> r, on |-> on, off |-> off,
                                    fail |-> "note"]
                   /\ v = Changed(buffer, on, off),
             FilterStage(k) /\ Put(core, core', r, v) /\ call' = call => FilterStage(k + 1)'
      PROVE  IsCan(core') /\ core'.fifo = core.fifo /\ members' = members /\ call' = call /\ Filtering'
  <2>1. r \in Cell \ {1}
    BY <1>3 DEF Cell
  <2>2. /\ call' = call /\ members' = members /\ todo' = Tail(todo)
        /\ \/ Smoothly /\ Put(core, core', r, v)
           \/ Badly /\ (core' = core \/ Put(core, core', r, v))
    BY <1>9, <2>1, NetPut
  <2>3. IsCan(core') /\ core'.fifo = core.fifo
    BY <2>2 DEF Put
  <2>4. ok' => FilterStage(k + 1)'
    BY <1>2, <1>9, <2>2, Noted
  <2>5. k + 1 \in 1 .. 6 /\ todo' = From(s, k + 1)
    BY <1>5, <2>2
  <2>6. Filtering'
    BY <1>6, <2>2, <2>4, <2>5
  <2>. QED
    BY <2>2, <2>3, <2>6
<1>10. CASE k = 2
  <2>. DEFINE v == Changed(buffer, {0}, {})
  <2>1. 0 \in v
    BY DEF Changed
  <2>2. FilterStage(2) /\ Put(core, core', 0, v) /\ call' = call => FilterStage(3)'
    BY <2>1 DEF FilterStage, Put
  <2>. HIDE DEF v
  <2>3. Head(todo) = [act |-> "back", reg |-> 0, on |-> {0}, off |-> {}, fail |-> "note"]
    BY <1>4, <1>5, <1>10
  <2>4. \E on, off :
          /\ Head(todo) = [act |-> "back", reg |-> 0, on |-> on, off |-> off, fail |-> "note"]
          /\ v = Changed(buffer, on, off)
    BY <2>3, Zenon DEF v
  <2>. QED
    BY <1>9, <1>10, <2>2, <2>4
<1>11. CASE k = 3
  <2>1. FilterStage(3) /\ Put(core, core', cell, value) /\ call' = call => FilterStage(4)'
    BY <1>3, <1>7 DEF FilterStage, Put
  <2>2. Head(todo) = [act |-> "write", reg |-> cell, data |-> value, fail |-> "note"]
    BY <1>4, <1>5, <1>11
  <2>. HIDE DEF cell, value
  <2>. QED
    BY <1>9, <1>11, <2>1, <2>2
<1>12. CASE k = 5
  <2>. DEFINE v == Changed(buffer, {}, {0})
  <2>1. 0 \notin v
    BY DEF Changed
  <2>2. FilterStage(5) /\ Put(core, core', 0, v) /\ call' = call => FilterStage(6)'
    BY <1>3, <1>7, <2>1 DEF FilterStage, Put
  <2>. HIDE DEF v
  <2>3. Head(todo) = [act |-> "back", reg |-> 0, on |-> {}, off |-> {0}, fail |-> "note"]
    BY <1>4, <1>5, <1>12
  <2>4. \E on, off :
          /\ Head(todo) = [act |-> "back", reg |-> 0, on |-> on, off |-> off, fail |-> "note"]
          /\ v = Changed(buffer, on, off)
    BY <2>3, Zenon DEF v
  <2>. QED
    BY <1>9, <1>12, <2>2, <2>4
<1>13. k \in {1, 4} => IsCan(core') /\ core'.fifo = core.fifo /\ members' = members /\ call' = call
  <2>1. k \in {1, 4} => Head(todo) = [act |-> "read", reg |-> 0, fail |-> "skip"]
    BY <1>4, <1>5
  <2>. QED
    BY <2>1, NetRead
<1>. QED
  BY <1>5, <1>8, <1>10, <1>11, <1>12, <1>13

\* An exchange of theirs that will be made again.
LEMMA FilterAgain ==
    ASSUME IsCan(core), IsFilter, Filtering, Net!ExchangeRepeated
    PROVE  IsCan(core') /\ core'.fifo = core.fifo /\ Filtering'
<1>. DEFINE cell  == FilterCell
            value == call.value
            s     == FilterList(cell, value)
<1>1. PICK S : s \in Seq(S) /\ Len(s) = 5
  BY FilterSteps5
<1>2. PICK k \in 1 .. 6 : todo = From(s, k) /\ (ok => FilterStage(k))
  BY DEF Filtering
<1>3. cell \in {4, 5} /\ FilterCell' = cell
  BY NetAgain DEF FilterCell
<1>4. /\ s[1] = [act |-> "read", reg |-> 0, fail |-> "skip"]
      /\ s[2] = [act |-> "back", reg |-> 0, on |-> {0}, off |-> {}, fail |-> "note"]
      /\ s[3] = [act |-> "write", reg |-> cell, data |-> value, fail |-> "note"]
      /\ s[4] = [act |-> "read", reg |-> 0, fail |-> "skip"]
      /\ s[5] = [act |-> "back", reg |-> 0, on |-> {}, off |-> {0}, fail |-> "note"]
  BY DEF FilterList
<1>. HIDE DEF s
<1>5. k \in 1 .. 5 /\ Head(todo) = s[k]
  <2>1. k \in 1 .. Len(s) + 1
    BY <1>1
  <2>2. k \in 1 .. Len(s) /\ Head(todo) = s[k]
    BY <1>1, <1>2, <2>1, Place DEF Net!Host
  <2>. QED
    BY <1>1, <2>2
<1>6. ASSUME ok => FilterStage(k)' PROVE Filtering'
  <2>1. ok' => FilterStage(k)'
    BY <1>6, NetAgain, Zenon
  <2>2. k \in 1 .. 6 /\ todo' = From(FilterList(FilterCell', call'.value), k)
    BY <1>2, <1>3, NetAgain DEF s
  <2>. QED
    BY <2>1, <2>2 DEF Filtering
<1>7. CASE k \in {1, 4}
  <2>1. core' = core
    BY <1>4, <1>5, <1>7, NetAgain DEF Net!Accessed, Net!Reads, Net!AfterRead, Net!Access
  <2>2. ok => FilterStage(k)'
    BY <1>2, <1>3, <2>1, NetAgain DEF FilterStage
  <2>. QED
    BY <1>6, <2>1, <2>2
<1>8. ASSUME NEW r \in {0, cell}, NEW v, Put(core, core', r, v),
             k \in {2, 3, 5}, k = 3 => r = cell, k = 5 => r = 0
      PROVE  IsCan(core') /\ core'.fifo = core.fifo /\ Filtering'
  <2>1. FilterStage(k) => FilterStage(k)'
    BY <1>3, <1>8, NetAgain DEF FilterStage, Put
  <2>2. ok => FilterStage(k)'
    BY <1>2, <2>1, Zenon
  <2>. QED
    BY <1>6, <1>8, <2>2 DEF Put
<1>9. CASE k \in {2, 5}
  <2>1. PICK on, off :
          Head(todo) = [act |-> "back", reg |-> 0, on |-> on, off |-> off, fail |-> "note"]
    BY <1>4, <1>5, <1>9
  <2>2. 0 \in Cell \ {1}
    BY DEF Cell
  <2>3. Put(core, core', 0, Changed(buffer, on, off))
    BY <2>1, <2>2, NetPutAgain
  <2>. QED
    BY <1>8, <1>9, <2>3
<1>10. CASE k = 3
  <2>1. Head(todo) = [act |-> "write", reg |-> cell, data |-> value, fail |-> "note"]
    BY <1>4, <1>5, <1>10
  <2>2. cell \in Cell \ {1}
    BY <1>3 DEF Cell
  <2>. HIDE DEF cell, value
  <2>3. Put(core, core', cell, value)
    BY <2>1, <2>2, NetPutAgain
  <2>. QED
    BY <1>8, <1>10, <2>3
<1>. QED
  BY <1>5, <1>7, <1>9, <1>10

\* transmit().
LEMMA TransmitHost ==
    ASSUME IsCan(core), call.op = "transmit", Transmitting, NetGoesOn
    PROVE  /\ IsCan(core') /\ core'.fifo = core.fifo /\ core'.reg[0] = core.reg[0]
           /\ members' = members /\ call' = call /\ Transmitting'
<1>. DEFINE s    == TransmitList
            Kept == /\ IsCan(core') /\ core'.fifo = core.fifo /\ core'.reg[0] = core.reg[0]
                    /\ members' = members /\ call' = call
<1>1. call.id \in Identifiers
  BY DEF Transmitting
<1>2. PICK k \in 1 .. 13 : todo = From(s, k) /\ (ok => TransmitStage(k))
  BY DEF Transmitting
<1>3. /\ s \in Seq(Quiet) /\ Len(s) = 12
      /\ s[1] = [act |-> "poll", reg |-> 2, bit |-> 2, level |-> TRUE, fail |-> "note"]
      /\ s[2] = Net!Write(10, call.id[1]) /\ s[3] = Net!Write(11, call.id[2])
      /\ \A i \in 4 .. 11 : \E v : s[i] = Net!Write(8 + i, v)
      /\ s[12] = Net!Write(1, {0})
  BY <1>1, BasicTransmit DEF TransmitList
<1>. HIDE DEF s
<1>4. k \in 1 .. 12 /\ Head(todo) = s[k] /\ Tail(todo) = From(s, k + 1)
  <2>1. k \in 1 .. Len(s) + 1
    BY <1>3
  <2>2. k \in 1 .. Len(s) /\ Head(todo) = s[k] /\ Tail(todo) = From(s, k + 1)
    BY <1>2, <1>3, <2>1, Place DEF NetGoesOn, Net!Host
  <2>. QED
    BY <1>3, <2>2
\* The next state is at place j.
<1>5. ASSUME NEW j \in 1 .. 13, todo' = From(s, j), call' = call, ok' => TransmitStage(j)'
      PROVE  Transmitting'
  BY <1>1, <1>5 DEF Transmitting, TransmitList, s
<1>6. CASE k = 1
  <2>1. Head(todo) = [act |-> "poll", reg |-> 2, bit |-> 2, level |-> TRUE, fail |-> "note"]
    BY <1>3, <1>4, <1>6
  <2>2. /\ core' = core /\ call' = call /\ members' = members
        /\ \/ Smoothly /\ todo' = todo
           \/ Smoothly /\ todo' = Tail(todo) /\ (success => 2 \in Net!Value(core, 2))
           \/ Badly /\ todo' = Tail(todo)
    BY <2>1, NetPoll
  <2>3. 2 \in Net!Value(core, 2) => ~core.locked
    BY DEF Net!Value, Net!Status
  <2>4. CASE Smoothly /\ todo' = todo
    <3>1. ok' => TransmitStage(1)'
      BY <1>2, <1>6, <2>2, <2>4, Noted DEF TransmitStage
    <3>. QED
      BY <1>2, <1>5, <1>6, <2>2, <2>4, <3>1
  <2>5. CASE Smoothly /\ todo' = Tail(todo) /\ (success => 2 \in Net!Value(core, 2))
    <3>1. ok' => success' /\ ~core'.locked
      BY <1>2, <1>6, <2>2, <2>3, <2>5, Noted DEF TransmitStage
    <3>2. ok' => TransmitStage(2)'
      BY <3>1 DEF TransmitStage
    <3>. QED
      BY <1>4, <1>5, <1>6, <2>2, <2>5, <3>2
  <2>6. CASE Badly /\ todo' = Tail(todo)
    BY <1>4, <1>5, <1>6, <2>2, <2>6, Noted
  <2>. QED
    BY <2>2, <2>4, <2>5, <2>6
<1>7. ASSUME k \in 2 .. 11, NEW v, Head(todo) = Net!Write(8 + k, v),
             k = 2 => v = call.id[1], k = 3 => v = call.id[2]
      PROVE  Kept /\ Transmitting'
  <2>. DEFINE r == 8 + k
  <2>1. r \in 10 .. 19 /\ r \in Cell \ {1} /\ r # 0
    BY <1>7 DEF Cell
  <2>2. Head(todo) = [act |-> "write", reg |-> r, data |-> v, fail |-> "note"]
    BY <1>7 DEF Net!Write
  <2>3. (k = 2 <=> r = 10) /\ (k = 3 <=> r = 11)
    BY <1>4
  <2>. HIDE DEF r
  <2>4. /\ call' = call /\ members' = members /\ todo' = Tail(todo)
        /\ \/ Smoothly /\ Put(core, core', r, v)
           \/ Badly /\ (core' = core \/ Put(core, core', r, v))
    BY <2>1, <2>2, NetPut
  <2>5. Kept
    BY <2>1, <2>4 DEF Put
  <2>6. ASSUME TransmitStage(k), Put(core, core', r, v), success => success'
        PROVE  TransmitStage(k + 1)'
    <3>1. success' /\ ~core.locked /\ core'.locked = core.locked /\ core'.reg[0] = core.reg[0]
      BY <1>7, <2>1, <2>6 DEF TransmitStage, Put
    <3>2. ~core'.locked
      BY <3>1, Zenon
    <3>3. ASSUME 0 \notin core.reg[0] PROVE (k + 1 \in 3 .. 12 => core'.tx[0] = call.id[1])
      <4>1. CASE k = 2
        BY <1>7, <2>1, <2>3, <2>6, <3>1, <3>3, <4>1 DEF Put
      <4>2. CASE k # 2
        <5>1. 0 # r - 10 /\ k \in 3 .. 12 /\ 0 \in 0 .. 9
          BY <1>7, <2>1, <2>3, <4>2
        <5>. QED
          BY <2>6, <3>3, <5>1 DEF Put, TransmitStage
      <4>. QED
        BY <4>1, <4>2
    <3>4. ASSUME 0 \notin core.reg[0] PROVE (k + 1 \in 4 .. 12 => core'.tx[1] = call.id[2])
      <4>1. CASE k = 3
        BY <1>7, <2>1, <2>3, <2>6, <3>1, <3>4, <4>1 DEF Put
      <4>2. CASE k # 3
        <5>1. 1 # r - 10 /\ 1 \in 0 .. 9 /\ (k + 1 \in 4 .. 12 => k \in 4 .. 12)
          BY <1>7, <2>1, <2>3, <4>2
        <5>. QED
          BY <2>6, <3>4, <5>1 DEF Put, TransmitStage
      <4>. QED
        BY <4>1, <4>2
    <3>5. k + 1 # 13
      BY <1>7
    <3>. QED
      BY <2>4, <3>1, <3>2, <3>3, <3>4, <3>5 DEF TransmitStage
  <2>7. ok' => TransmitStage(k + 1)'
    BY <1>2, <2>4, <2>6, Noted
  <2>8. k + 1 \in 1 .. 13 /\ todo' = From(s, k + 1)
    BY <1>4, <2>4
  <2>9. Transmitting'
    BY <1>5, <2>4, <2>7, <2>8
  <2>. QED
    BY <2>5, <2>9
<1>8. CASE k \in 2 .. 11
  <2>1. PICK v : s[k] = Net!Write(8 + k, v) /\ (k = 2 => v = call.id[1]) /\ (k = 3 => v = call.id[2])
    <3>1. CASE k = 2
      BY <1>3, <3>1
    <3>2. CASE k = 3
      BY <1>3, <3>2
    <3>3. CASE k \in 4 .. 11
      BY <1>3, <3>3
    <3>. QED
      BY <1>8, <3>1, <3>2, <3>3
  <2>. QED
    BY <1>4, <1>7, <1>8, <2>1
<1>9. CASE k = 12
  <2>1. Head(todo) = [act |-> "write", reg |-> 1, data |-> {0}, fail |-> "note"]
    BY <1>3, <1>4, <1>9 DEF Net!Write
  <2>. DEFINE d == Net!AfterWrite(core, 1, {0})
  <2>2. /\ call' = call /\ members' = members /\ todo' = Tail(todo)
        /\ \/ Smoothly /\ core' = d
           \/ Badly /\ core' \in {core, d}
    <3>1. 1 \in Cell
      BY DEF Cell
    <3>. QED
      BY <2>1, <3>1, NetWrite
  <2>3. IsCan(d)
    BY CanAccessed DEF Cell
  <2>. HIDE DEF d
  <2>4. /\ d.reg = core.reg /\ d.fifo = core.fifo
        /\ 0 \notin core.reg[0] /\ ~core.locked => d.sent = << core.tx[0], core.tx[1] >>
        /\ core.locked => d.sent = core.sent
    BY Commanded DEF d
  <2>6. Kept
    BY <2>2, <2>3, <2>4
  <2>7. ASSUME TransmitStage(12), core' = d, success => success'
        PROVE  TransmitStage(13)'
    <3>1. success'
      BY <2>7 DEF TransmitStage
    <3>2. ASSUME 0 \notin core'.reg[0] PROVE core'.sent = call'.id
      <4>1. 0 \notin core.reg[0]
        BY <2>4, <2>7, <3>2
      <4>2. core.tx[0] = call.id[1] /\ core.tx[1] = call.id[2] /\ (core.locked => core.sent = call.id)
        BY <2>7, <4>1 DEF TransmitStage
      <4>3. << call.id[1], call.id[2] >> = call.id
        BY <1>1, TwoBytes
      <4>. QED
        BY <2>2, <2>4, <2>7, <4>1, <4>2, <4>3
    <3>. QED
      BY <3>1, <3>2 DEF TransmitStage
  <2>8. ok' => TransmitStage(13)'
    BY <1>2, <1>9, <2>2, <2>7, Noted
  <2>9. todo' = From(s, 13)
    BY <1>4, <1>9, <2>2
  <2>10. Transmitting'
    BY <1>5, <2>2, <2>8, <2>9
  <2>. QED
    BY <2>6, <2>10
<1>10. k = 1 => Kept
  <2>1. k = 1 => Head(todo) = [act |-> "poll", reg |-> 2, bit |-> 2, level |-> TRUE, fail |-> "note"]
    BY <1>3, <1>4
  <2>. QED
    BY <2>1, NetPoll
<1>11. k = 1 \/ k \in 2 .. 11 \/ k = 12
  BY <1>4
<1>. QED
  BY <1>6, <1>8, <1>9, <1>10, <1>11

\* An exchange of transmit() that will be made again: the command may find the frame
\* taken already, or sent.
LEMMA TransmitAgain ==
    ASSUME IsCan(core), call.op = "transmit", Transmitting, Net!ExchangeRepeated
    PROVE  IsCan(core') /\ core'.fifo = core.fifo /\ core'.reg[0] = core.reg[0] /\ Transmitting'
<1>. DEFINE s    == TransmitList
            Kept == IsCan(core') /\ core'.fifo = core.fifo /\ core'.reg[0] = core.reg[0]
<1>1. call.id \in Identifiers
  BY DEF Transmitting
<1>2. PICK k \in 1 .. 13 : todo = From(s, k) /\ (ok => TransmitStage(k))
  BY DEF Transmitting
<1>3. /\ s \in Seq(Quiet) /\ Len(s) = 12
      /\ s[1] = [act |-> "poll", reg |-> 2, bit |-> 2, level |-> TRUE, fail |-> "note"]
      /\ s[2] = Net!Write(10, call.id[1]) /\ s[3] = Net!Write(11, call.id[2])
      /\ \A i \in 4 .. 11 : \E v : s[i] = Net!Write(8 + i, v)
      /\ s[12] = Net!Write(1, {0})
  BY <1>1, BasicTransmit DEF TransmitList
<1>. HIDE DEF s
<1>4. k \in 1 .. 12 /\ Head(todo) = s[k]
  <2>1. k \in 1 .. Len(s) + 1
    BY <1>3
  <2>2. k \in 1 .. Len(s) /\ Head(todo) = s[k]
    BY <1>2, <1>3, <2>1, Place DEF Net!Host
  <2>. QED
    BY <1>3, <2>2
<1>5. ASSUME TransmitStage(k) => TransmitStage(k)' PROVE Transmitting'
  <2>1. ok' => TransmitStage(k)'
    BY <1>2, <1>5, NetAgain, Zenon
  <2>2. call'.id \in Identifiers /\ todo' = From(TransmitList', k)
    BY <1>1, <1>2, NetAgain DEF s, TransmitList
  <2>. QED
    BY <2>1, <2>2 DEF Transmitting
<1>6. ASSUME TransmitStage(k) PROVE success'
  BY <1>6, NetAgain, Zenon DEF TransmitStage
<1>7. CASE k = 1
  <2>1. Head(todo) = [act |-> "poll", reg |-> 2, bit |-> 2, level |-> TRUE, fail |-> "note"]
    BY <1>3, <1>4, <1>7
  <2>2. core' = core
    BY <2>1, NetAgain DEF Net!Accessed, Net!Reads, Net!AfterRead, Net!Access
  <2>3. TransmitStage(k) => TransmitStage(k)'
    BY <1>6, <2>2, NetAgain DEF TransmitStage
  <2>. QED
    BY <1>5, <2>2, <2>3
<1>8. ASSUME k \in 2 .. 11, NEW v, Head(todo) = Net!Write(8 + k, v),
             k = 2 => v = call.id[1], k = 3 => v = call.id[2]
      PROVE  Kept /\ Transmitting'
  <2>. DEFINE r == 8 + k
  <2>1. r \in 10 .. 19 /\ r \in Cell \ {1} /\ r # 0
    BY <1>8 DEF Cell
  <2>2. Head(todo) = [act |-> "write", reg |-> r, data |-> v, fail |-> "note"]
    BY <1>8 DEF Net!Write
  <2>3. (k # 2 => 0 # r - 10) /\ (k # 3 => 1 # r - 10)
    BY <1>4
  <2>. HIDE DEF r
  <2>5. Put(core, core', r, v)
    BY <2>1, <2>2, NetPutAgain
  <2>6. Kept /\ core'.locked = core.locked
    BY <2>1, <2>5 DEF Put
  <2>7. ASSUME TransmitStage(k) PROVE TransmitStage(k)'
    <3>1. k # 12 /\ k # 13 /\ ~core.locked
      BY <1>8, <2>7 DEF TransmitStage
    <3>2. ~core'.locked
      BY <2>6, <3>1, Zenon
    <3>3. ASSUME 0 \notin core.reg[0], k \in 3 .. 12 PROVE core'.tx[0] = call.id[1]
      <4>1. 0 # r - 10 /\ 0 \in 0 .. 9
        BY <2>3, <3>3
      <4>. QED
        BY <2>5, <2>7, <3>3, <4>1 DEF Put, TransmitStage
    <3>4. ASSUME 0 \notin core.reg[0], k \in 4 .. 12 PROVE core'.tx[1] = call.id[2]
      <4>1. 1 # r - 10 /\ 1 \in 0 .. 9
        BY <2>3, <3>4
      <4>. QED
        BY <2>5, <2>7, <3>4, <4>1 DEF Put, TransmitStage
    <3>. QED
      BY <1>6, <2>6, <2>7, <3>1, <3>2, <3>3, <3>4, NetAgain DEF TransmitStage
  <2>. QED
    BY <1>5, <2>6, <2>7
<1>9. CASE k \in 2 .. 11
  <2>1. PICK v : s[k] = Net!Write(8 + k, v) /\ (k = 2 => v = call.id[1]) /\ (k = 3 => v = call.id[2])
    <3>1. CASE k = 2
      BY <1>3, <3>1
    <3>2. CASE k = 3
      BY <1>3, <3>2
    <3>3. CASE k \in 4 .. 11
      BY <1>3, <3>3
    <3>. QED
      BY <1>9, <3>1, <3>2, <3>3
  <2>. QED
    BY <1>4, <1>8, <1>9, <2>1
<1>10. CASE k = 12
  <2>1. Head(todo) = [act |-> "write", reg |-> 1, data |-> {0}, fail |-> "note"]
    BY <1>3, <1>4, <1>10 DEF Net!Write
  <2>2. core' = Net!AfterWrite(core, 1, {0})
    <3>1. Net!Accessed = Net!AfterWrite(core, 1, {0})
      BY <2>1 DEF Net!Accessed, Net!Written, Net!Reads, Net!Access
    <3>. QED
      BY <3>1, NetAgain
  <2>3. IsCan(core')
    BY <2>2, CanAccessed DEF Cell
  <2>4. /\ core'.reg = core.reg /\ core'.tx = core.tx /\ core'.fifo = core.fifo
        /\ 0 \notin core.reg[0] /\ ~core.locked => core'.sent = << core.tx[0], core.tx[1] >>
        /\ core.locked => core'.sent = core.sent
    BY <2>2, Commanded
  <2>5. ASSUME TransmitStage(12) PROVE TransmitStage(12)'
    <3>1. success'
      BY <1>6, <1>10, <2>5
    <3>2. << call.id[1], call.id[2] >> = call.id /\ call' = call
      BY <1>1, TwoBytes, NetAgain
    <3>3. ASSUME 0 \notin core.reg[0]
          PROVE  core.tx[0] = call.id[1] /\ core.tx[1] = call.id[2] /\ core'.sent = call.id
      BY <2>4, <2>5, <3>2, <3>3 DEF TransmitStage
    <3>. QED
      BY <2>4, <3>1, <3>2, <3>3 DEF TransmitStage
  <2>. QED
    BY <1>5, <1>10, <2>3, <2>4, <2>5
<1>11. k = 1 \/ k \in 2 .. 11 \/ k = 12
  BY <1>4
<1>. QED
  BY <1>7, <1>9, <1>10, <1>11

\* getReceivedFrame().
LEMMA ReceiveHost ==
    ASSUME IsCan(core), Receiving, NetGoesOn
    PROVE  /\ IsCan(core') /\ members' = members /\ call' = call /\ Receiving'
           /\ core'.fifo = core.fifo \/ (trouble' = {} => buffer = Head(core.fifo)[1])
<1>. DEFINE s == ReceiveList
<1>1. PICK S : s \in Seq(S) /\ Len(s) = 5
  BY CanReceiveSteps
<1>2. PICK k \in 1 .. 6 : todo = From(s, k) /\ (trouble = {} => ReceiveStage(k))
  BY DEF Receiving
<1>3. /\ s[1] = [act |-> "read", reg |-> 2, fail |-> "note"]
      /\ s[2] = [act |-> "require", bits |-> {0}]
      /\ s[3] = [act |-> "fresh", to |-> {}]
      /\ s[4] = [act |-> "read", reg |-> 20, fail |-> "note"]
      /\ s[5] = [act |-> "write", reg |-> 1, data |-> {2}, fail |-> "note"]
  BY DEF ReceiveList
<1>. HIDE DEF s
<1>4. k \in 1 .. 5 /\ Head(todo) = s[k] /\ Tail(todo) = From(s, k + 1)
  <2>1. k \in 1 .. Len(s) + 1
    BY <1>1
  <2>2. k \in 1 .. Len(s) /\ Head(todo) = s[k] /\ Tail(todo) = From(s, k + 1)
    BY <1>1, <1>2, <2>1, Place DEF NetGoesOn, Net!Host
  <2>. QED
    BY <1>1, <2>2
\* The next state is at place j.
<1>5. ASSUME NEW j \in 1 .. 6, todo' = From(s, j), trouble' = {} => ReceiveStage(j)'
      PROVE  Receiving'
  BY <1>5 DEF Receiving, ReceiveList, s
<1>6. CASE k \in {1, 4}
  <2>1. PICK r \in {2, 20} : /\ Head(todo) = [act |-> "read", reg |-> r, fail |-> "note"]
                             /\ r = IF k = 1 THEN 2 ELSE 20
    BY <1>3, <1>4, <1>6
  <2>2. /\ core' = core /\ call' = call /\ members' = members /\ todo' = Tail(todo)
        /\ \/ Smoothly /\ buffer' = Net!Value(core, r)
           \/ Badly
    BY <2>1, NetRead
  <2>3. /\ 0 \in Net!Value(core, 2) => core.fifo # << >>
        /\ core.fifo # << >> => Net!Value(core, 20) = Head(core.fifo)[1]
    BY DEF Net!Value, Net!Status
  <2>4. trouble' = {} => ReceiveStage(k + 1)'
    BY <1>2, <1>6, <2>1, <2>2, <2>3, Noted DEF ReceiveStage
  <2>5. k + 1 \in 1 .. 6 /\ todo' = From(s, k + 1)
    BY <1>4, <2>2
  <2>6. Receiving'
    BY <1>5, <2>4, <2>5
  <2>. QED
    BY <2>2, <2>6
<1>7. CASE k \in {2, 3}
  <2>1. /\ Head(todo).act = IF k = 2 THEN "require" ELSE "fresh"
        /\ k = 2 => Head(todo).bits = {0}
    BY <1>3, <1>4, <1>7
  <2>2. /\ core' = core /\ call' = call /\ members' = members /\ trouble' = trouble
        /\ \/ todo' = Tail(todo) /\ (k = 2 => 0 \in buffer)
           \/ todo' = << >>
    <3>1. CASE k = 2
      BY <2>1, <3>1, NetLocal DEF NetGoesOn, Net!Host
    <3>2. CASE k = 3
      BY <2>1, <3>2, NetLocal DEF NetGoesOn, Net!Host
    <3>. QED
      BY <1>7, <3>1, <3>2
  <2>3. CASE todo' = << >>
    <3>0. From(s, Len(s) + 1) = << >>
      BY <1>1, FromEnd
    <3>1. todo' = From(s, 6)
      BY <1>1, <2>3, <3>0
    <3>2. ReceiveStage(6)'
      BY DEF ReceiveStage
    <3>. QED
      BY <1>5, <2>2, <3>1, <3>2
  <2>4. CASE todo' = Tail(todo) /\ (k = 2 => 0 \in buffer)
    <3>1. trouble' = {} => ReceiveStage(k + 1)'
      BY <1>2, <1>7, <2>2, <2>4 DEF ReceiveStage
    <3>2. k + 1 \in 1 .. 6 /\ todo' = From(s, k + 1)
      BY <1>4, <2>4
    <3>3. Receiving'
      BY <1>5, <3>1, <3>2
    <3>. QED
      BY <2>2, <3>3
  <2>. QED
    BY <2>2, <2>3, <2>4
<1>8. CASE k = 5
  <2>1. Head(todo) = [act |-> "write", reg |-> 1, data |-> {2}, fail |-> "note"]
    BY <1>3, <1>4, <1>8
  <2>. DEFINE d == Net!AfterWrite(core, 1, {2})
  <2>2. /\ call' = call /\ members' = members /\ todo' = Tail(todo)
        /\ \/ Smoothly /\ core' = d
           \/ Badly /\ core' \in {core, d}
    <3>1. 1 \in Cell
      BY DEF Cell
    <3>. QED
      BY <2>1, <3>1, NetWrite
  <2>3. IsCan(d)
    BY CanAccessed DEF Cell
  <2>. HIDE DEF d
  <2>4. IsCan(core')
    BY <2>2, <2>3
  <2>5. todo' = From(s, 6) /\ ReceiveStage(6)'
    BY <1>4, <1>8, <2>2 DEF ReceiveStage
  <2>6. Receiving'
    BY <1>5, <2>5
  <2>7. trouble' = {} => trouble = {}
    BY <2>2, Noted
  <2>8. trouble' = {} => buffer = Head(core.fifo)[1]
    BY <1>2, <1>8, <2>7 DEF ReceiveStage
  <2>. QED
    BY <2>2, <2>4, <2>6, <2>8
<1>. QED
  BY <1>4, <1>6, <1>7, <1>8

\* After an exchange that is made again nothing is said of it.
LEMMA ReceiveAgain ==
    ASSUME IsCan(core), Receiving, Net!ExchangeRepeated
    PROVE  IsCan(core') /\ Receiving'
<1>. DEFINE s == ReceiveList
<1>1. PICK S : s \in Seq(S) /\ Len(s) = 5
  BY CanReceiveSteps
<1>2. PICK k \in 1 .. 6 : todo = From(s, k)
  BY DEF Receiving
<1>3. /\ s[1] = [act |-> "read", reg |-> 2, fail |-> "note"]
      /\ s[2] = [act |-> "require", bits |-> {0}]
      /\ s[3] = [act |-> "fresh", to |-> {}]
      /\ s[4] = [act |-> "read", reg |-> 20, fail |-> "note"]
      /\ s[5] = [act |-> "write", reg |-> 1, data |-> {2}, fail |-> "note"]
  BY DEF ReceiveList
<1>. HIDE DEF s
<1>4. k \in 1 .. 5 /\ Head(todo) = s[k]
  <2>1. k \in 1 .. Len(s) + 1
    BY <1>1
  <2>2. k \in 1 .. Len(s) /\ Head(todo) = s[k]
    BY <1>1, <1>2, <2>1, Place DEF Net!Host
  <2>. QED
    BY <1>1, <2>2
<1>5. Receiving'
  BY <1>2, NetAgain DEF Receiving, ReceiveList, s
<1>6. CASE k \in {1, 4}
  <2>1. core' = core
    BY <1>3, <1>4, <1>6, NetAgain DEF Net!Accessed, Net!Reads, Net!AfterRead, Net!Access
  <2>. QED
    BY <1>5, <2>1
<1>7. k \notin {2, 3}
  BY <1>3, <1>4, NetAgain
<1>8. CASE k = 5
  <2>1. core' = Net!AfterWrite(core, 1, {2})
    <3>1. Net!Accessed = Net!AfterWrite(core, 1, {2})
      BY <1>3, <1>4, <1>8 DEF Net!Accessed, Net!Written, Net!Reads, Net!Access
    <3>. QED
      BY <3>1, NetAgain
  <2>2. IsCan(core')
    BY <2>1, CanAccessed DEF Cell
  <2>. QED
    BY <1>5, <2>2
<1>. QED
  BY <1>4, <1>6, <1>7, <1>8

\* Whatever operation it is in, the host goes on with its list, and releases a frame only in
\* getReceivedFrame().
LEMMA NetHost ==
    ASSUME NetInv, Net!Host
    PROVE  /\ NetInv'
           /\ Basic => \/ core'.fifo = core.fifo
                       \/ call.op = "getReceivedFrame"
                             /\ (trouble' = {} => buffer = Head(core.fifo)[1])
           /\ Basic /\ call.op = "transmit" => core'.reg[0] = core.reg[0]
<1>0. IsCan(core) /\ (NetGoesOn \/ Net!ExchangeRepeated)
  BY DEF NetInv, NetGoesOn, Net!Host
<1>1. CASE call.op = "init"
  <2>1. todo \in Lists(Quiet \cup Assigning)
    BY <1>1 DEF NetInv
  <2>2. /\ Head(todo) \in Quiet \cup Assigning /\ todo' \in Lists(Quiet \cup Assigning)
        /\ call' = call
    BY <2>1, NetSeq
  <2>3. IsCan(core') /\ core'.fifo = core.fifo
    BY <1>0, <2>2, NetCore DEF Still
  <2>. QED
    BY <1>1, <2>2, <2>3 DEF NetInv, IsFilter, Other
<1>2. CASE call.op # "init" /\ ~Basic
  <2>1. todo \in Lists(Still)
    BY <1>2 DEF NetInv
  <2>2. /\ Head(todo) \in Still /\ todo' \in Lists(Still) /\ call' = call
        /\ Head(todo).act \notin {"assign", "failed"} => members' = members
    BY <2>1, NetSeq
  <2>3. members' = members
    BY <2>2 DEF Still, Quiet
  <2>4. IsCan(core')
    BY <1>0, <2>2, NetCore
  <2>5. ~Basic'
    BY <1>2, <2>3 DEF Basic
  <2>. QED
    BY <1>2, <2>2, <2>4, <2>5 DEF NetInv
<1>3. CASE Basic /\ IsFilter
  <2>1. IsCan(core') /\ core'.fifo = core.fifo /\ members' = members /\ call' = call /\ Filtering'
    BY <1>0, <1>3, FilterHost, FilterAgain, NetAgain DEF NetInv
  <2>2. Basic' /\ IsFilter'
    BY <1>3, <2>1 DEF Basic, IsFilter
  <2>. QED
    BY <1>3, <2>1, <2>2 DEF NetInv, IsFilter, Other
<1>4. CASE Basic /\ call.op = "transmit"
  <2>1. /\ IsCan(core') /\ core'.fifo = core.fifo /\ core'.reg[0] = core.reg[0]
        /\ members' = members /\ call' = call /\ Transmitting'
    BY <1>0, <1>4, TransmitHost, TransmitAgain, NetAgain DEF NetInv
  <2>2. Basic' /\ ~IsFilter'
    BY <1>4, <2>1 DEF Basic, IsFilter
  <2>. QED
    BY <1>4, <2>1, <2>2 DEF NetInv, Other
<1>5. CASE Basic /\ call.op = "getReceivedFrame"
  <2>1. /\ IsCan(core') /\ members' = members /\ call' = call /\ Receiving'
        /\ core'.fifo = core.fifo \/ (trouble' = {} => buffer = Head(core.fifo)[1])
    BY <1>0, <1>5, ReceiveHost, ReceiveAgain, NetAgain DEF NetInv
  <2>2. Basic' /\ ~IsFilter'
    BY <1>5, <2>1 DEF Basic, IsFilter
  <2>. QED
    BY <1>5, <2>1, <2>2 DEF NetInv, Other
<1>6. CASE Basic /\ Other
  <2>1. todo \in Lists(Quiet)
    BY <1>6 DEF NetInv
  <2>2. /\ Head(todo) \in Quiet /\ todo' \in Lists(Quiet) /\ call' = call
        /\ Head(todo).act \notin {"assign", "failed"} => members' = members
    BY <2>1, NetSeq
  <2>3. members' = members
    BY <2>2 DEF Quiet
  <2>4. IsCan(core') /\ core'.fifo = core.fifo
    BY <1>0, <2>2, NetCore DEF Still
  <2>5. Basic' /\ ~IsFilter' /\ Other' /\ call.op \notin {"init", "transmit", "getReceivedFrame"}
    BY <1>6, <2>2, <2>3 DEF Basic, IsFilter, Other
  <2>. QED
    BY <2>2, <2>4, <2>5 DEF NetInv
<1>. QED
  BY <1>1, <1>2, <1>3, <1>4, <1>5, <1>6 DEF IsFilter, Other, Basic

\* The controller has sent a frame, or one has come in.
LEMMA NetOwn ==
    ASSUME NetInv, Net!Sent \/ \E id \in Identifiers : Net!Arrive(id)
    PROVE  /\ NetInv' /\ todo' = todo
           /\ core'.fifo = core.fifo \/ \E id \in Identifiers : core'.fifo = Append(core.fifo, id)
<1>0. IsCan(core)
  BY DEF NetInv
<1>1. /\ IsCan(core') /\ core'.reg = core.reg /\ core'.tx = core.tx /\ core'.sent = core.sent
      /\ core'.fifo = core.fifo \/ \E id \in Identifiers : core'.fifo = Append(core.fifo, id)
      /\ \E c : Net!CoreStep(c)
  <2>1. CASE Net!Sent
    BY <1>0, <2>1 DEF Net!Sent, Net!CoreStep, IsCan, CanFields
  <2>2. ASSUME NEW id \in Identifiers, Net!Arrive(id)
        PROVE  /\ IsCan(core') /\ core'.reg = core.reg /\ core'.tx = core.tx
               /\ core'.sent = core.sent /\ core'.fifo = Append(core.fifo, id)
               /\ \E c : Net!CoreStep(c)
    <3>1. Net!CoreStep([core EXCEPT !.arrivals = @ + 1, !.asleep = FALSE,
                                    !.fifo = Append(@, id),
                                    !.pending = @ \cup Net!Raised(core, {0})])
      BY <2>2 DEF Net!Arrive
    <3>. DEFINE p == core.pending \cup Net!Raised(core, {0})
                q == Append(core.fifo, id)
    <3>2. core' = [core EXCEPT !.arrivals = @ + 1, !.asleep = FALSE, !.fifo = q, !.pending = p]
      BY <3>1 DEF Net!CoreStep
    <3>3. q \in Seq(Identifiers)
      BY <1>0 DEF IsCan
    <3>. HIDE DEF p, q
    <3>4. IsCan(core') /\ core'.reg = core.reg /\ core'.tx = core.tx /\ core'.sent = core.sent
      BY <1>0, <3>2, <3>3 DEF IsCan, CanFields
    <3>5. core'.fifo = q
      BY <1>0, <3>2 DEF IsCan, CanFields
    <3>. QED
      BY <3>1, <3>4, <3>5 DEF q
  <2>. QED
    BY <2>1, <2>2
<1>2. core'.locked => core.locked
  <2>1. CASE Net!Sent
    <3>1. core'.locked = FALSE
      BY <1>0, <2>1 DEF Net!Sent, Net!CoreStep, IsCan, CanFields
    <3>. QED
      BY <3>1, Zenon
  <2>2. ASSUME NEW id \in Identifiers, Net!Arrive(id) PROVE core'.locked = core.locked
    BY <1>0, <2>2 DEF Net!Arrive, Net!CoreStep, IsCan, CanFields
  <2>. QED
    BY <2>1, <2>2, Zenon
<1>3. /\ members' = members /\ call' = call /\ todo' = todo /\ buffer' = buffer
      /\ success' = success /\ ok' = ok /\ trouble' = trouble
  BY <1>1 DEF Net!CoreStep
<1>4. core.fifo # << >> => core'.fifo # << >> /\ Head(core'.fifo) = Head(core.fifo)
  <2>1. core.fifo \in Seq(Identifiers)
    BY <1>0 DEF IsCan
  <2>. QED
    BY <1>1, <2>1
<1>5. ASSUME NEW k \in Int
      PROVE  /\ FilterStage(k) => FilterStage(k)'
             /\ ReceiveStage(k) => ReceiveStage(k)'
  BY <1>1, <1>3, <1>4 DEF FilterStage, FilterCell, ReceiveStage
<1>6. ASSUME NEW k \in Int, TransmitStage(k) PROVE TransmitStage(k)'
  <2>1. success'
    BY <1>3, <1>6, Zenon DEF TransmitStage
  <2>2. k \in 2 .. 12 /\ core'.locked => k = 12 /\ core.locked
    BY <1>2, <1>6 DEF TransmitStage
  <2>. QED
    BY <1>1, <1>3, <1>6, <2>1, <2>2 DEF TransmitStage
<1>7. ok' => ok
  BY <1>3, Zenon
<1>8. Filtering => Filtering'
  <2>. SUFFICES ASSUME Filtering PROVE Filtering'
    OBVIOUS
  <2>1. PICK k \in 1 .. 6 : /\ todo = From(FilterList(FilterCell, call.value), k)
                            /\ ok => FilterStage(k)
    BY DEF Filtering
  <2>2. ok' => FilterStage(k)'
    BY <1>5, <1>7, <2>1
  <2>3. FilterCell' = FilterCell
    BY <1>3 DEF FilterCell
  <2>. QED
    BY <1>3, <2>1, <2>2, <2>3 DEF Filtering
<1>9. Transmitting => Transmitting'
  <2>. SUFFICES ASSUME Transmitting PROVE Transmitting'
    OBVIOUS
  <2>1. PICK k \in 1 .. 13 : todo = From(TransmitList, k) /\ (ok => TransmitStage(k))
    BY DEF Transmitting
  <2>2. ok' => TransmitStage(k)'
    BY <1>6, <1>7, <2>1
  <2>3. TransmitList' = TransmitList
    BY <1>3 DEF TransmitList
  <2>. QED
    BY <1>3, <2>1, <2>2, <2>3 DEF Transmitting
<1>10. Receiving => Receiving'
  <2>. SUFFICES ASSUME Receiving PROVE Receiving'
    OBVIOUS
  <2>1. PICK k \in 1 .. 6 : todo = From(ReceiveList, k) /\ (trouble = {} => ReceiveStage(k))
    BY DEF Receiving
  <2>2. trouble' = {} => ReceiveStage(k)'
    BY <1>3, <1>5, <2>1
  <2>. QED
    BY <1>3, <2>1, <2>2 DEF Receiving, ReceiveList
<1>11. (Basic' <=> Basic) /\ (IsFilter' <=> IsFilter) /\ (Other' <=> Other)
  BY <1>3 DEF Basic, IsFilter, Other
<1>. QED
  BY <1>1, <1>3, <1>8, <1>9, <1>10, <1>11 DEF NetInv

\* No step of a Can leaves its invariant.
LEMMA NetInductive == NetInv /\ [Net!Next]_(Net!vars) => NetInv'
<1>. SUFFICES ASSUME NetInv, [Net!Next]_(Net!vars) PROVE NetInv'
  OBVIOUS
<1>1. CASE UNCHANGED Net!vars
  BY <1>1 DEF Net!vars, NetInv, IsCan, IsFilter, Basic, Other, Filtering, FilterStage, FilterCell,
     Transmitting, TransmitStage, TransmitList, Receiving, ReceiveStage, ReceiveList
<1>2. CASE Net!Next
  BY <1>2, NetCall, NetHost, NetOwn DEF Net!Next
<1>. QED
  BY <1>1, <1>2

\* A filter reported as set is set.
LEMMA NetFilter == NetInv => Net!FilterSet
<1>. SUFFICES ASSUME NetInv, todo = << >>, ok, members = "BASIC_MODE", IsFilter
              PROVE  core.reg[FilterCell] = call.value /\ Net!Operating(core)
  BY DEF Net!FilterSet, IsFilter, FilterCell
<1>1. PICK k \in 1 .. 6 : /\ todo = From(FilterList(FilterCell, call.value), k)
                          /\ ok => FilterStage(k)
  BY DEF NetInv, Filtering, Basic
<1>2. PICK S : /\ FilterList(FilterCell, call.value) \in Seq(S)
               /\ Len(FilterList(FilterCell, call.value)) = 5
  BY FilterSteps5
<1>3. k = 6
  <2>. DEFINE s == FilterList(FilterCell, call.value)
  <2>. HIDE DEF s
  <2>1. \A j \in 1 .. Len(s) : From(s, j) # << >>
    BY <1>2, FromStep DEF s
  <2>2. \A j \in 1 .. 5 : From(s, j) # << >>
    BY <1>2, <2>1 DEF s
  <2>. QED
    BY <1>1, <2>2 DEF s
<1>. QED
  BY <1>1, <1>3 DEF FilterStage, Net!Operating

\* A frame reported as sent was taken.
LEMMA NetTaken == ASSUME NetInv, NetInv', Net!Next PROVE Net!OwnFrameTaken
<1>. SUFFICES ASSUME todo # << >>, todo' = << >>, ok', call.op = "transmit", Basic,
                     Net!Operating(core)
              PROVE  core'.sent = call.id
  BY DEF Net!OwnFrameTaken, Net!ReturnsTrue, Basic
<1>1. Net!Host
  <2>1. ~Net!Call
    BY DEF Net!Call, Net!Initialize, Net!EnableInterrupt, Net!DisableInterrupt,
       Net!EnableInterrupts, Net!DisableInterrupts, Net!IdentifyInterrupt, Net!Transmit,
       Net!SetAcceptanceCode, Net!SetAcceptanceMask, Net!SetAcceptanceRefused,
       Net!GetReceivedFrame, Net!GoToSleep, Net!WakeUp, Net!LogStatus, Net!InUsageMode,
       Net!Refuse, Net!Start, Net!StartWith
  <2>. QED
    BY <2>1, NetOwn DEF Net!Next
<1>2. /\ core'.reg[0] = core.reg[0] /\ members' = members /\ call' = call /\ Transmitting'
  BY <1>1, TransmitHost, TransmitAgain, NetAgain DEF NetInv, NetGoesOn, Net!Host
<1>3. PICK k \in 1 .. 13 : todo' = From(TransmitList', k) /\ (ok' => TransmitStage(k)')
  BY <1>2 DEF Transmitting
<1>4. TransmitList' \in Seq(Quiet) /\ Len(TransmitList') = 12
  BY <1>2, BasicTransmit DEF TransmitList, Transmitting
<1>5. k = 13
  <2>. DEFINE s == TransmitList'
  <2>. HIDE DEF s
  <2>1. \A j \in 1 .. Len(s) : From(s, j) # << >>
    BY <1>4, FromStep DEF s
  <2>2. \A j \in 1 .. 12 : From(s, j) # << >>
    BY <1>4, <2>1 DEF s
  <2>. QED
    BY <1>3, <2>2 DEF s
<1>. QED
  BY <1>2, <1>3, <1>5 DEF TransmitStage, Net!Operating

\* A frame that leaves the receive buffer was read.
LEMMA NetRelease == ASSUME NetInv, Net!Next PROVE Net!ReleasesWhatWasRead
<1>. SUFFICES ASSUME Len(core'.fifo) < Len(core.fifo), Basic, trouble' = {}
              PROVE  call.op = "getReceivedFrame" /\ buffer = Head(core.fifo)[1]
  BY DEF Net!ReleasesWhatWasRead, Basic
<1>1. core.fifo \in Seq(Identifiers) /\ Len(core.fifo) \in Nat
  BY DEF NetInv, IsCan
<1>2. core'.fifo # core.fifo
  <2>. DEFINE n == Len(core.fifo)
  <2>1. ~(n < n)
    BY <1>1
  <2>. HIDE DEF n
  <2>2. ASSUME core'.fifo = core.fifo PROVE Len(core'.fifo) = n
    BY <2>2 DEF n
  <2>. QED
    BY <2>1, <2>2 DEF n
<1>3. CASE Net!Host
  BY <1>2, <1>3, NetHost
<1>4. CASE Net!Call
  <2>1. core' = core
    BY <1>4 DEF Net!Call, Net!Initialize, Net!EnableInterrupt, Net!DisableInterrupt,
       Net!EnableInterrupts, Net!DisableInterrupts, Net!IdentifyInterrupt, Net!Transmit,
       Net!SetAcceptanceCode, Net!SetAcceptanceMask, Net!SetAcceptanceRefused,
       Net!GetReceivedFrame, Net!GoToSleep, Net!WakeUp, Net!LogStatus, Net!InUsageMode,
       Net!Refuse, Net!Start, Net!StartWith
  <2>. QED
    BY <1>2, <2>1
<1>5. CASE Net!Sent \/ \E id \in Identifiers : Net!Arrive(id)
  <2>1. PICK id \in Identifiers : core'.fifo = Append(core.fifo, id)
    BY <1>2, <1>5, NetOwn
  <2>2. Len(Append(core.fifo, id)) = Len(core.fifo) + 1
    BY <1>1
  <2>3. ~(Len(core.fifo) + 1 < Len(core.fifo))
    BY <1>1
  <2>. QED
    BY <2>1, <2>2, <2>3
<1>. QED
  BY <1>3, <1>4, <1>5 DEF Net!Next

-----------------------------------------------------------------------------
(* Spi.                                                                    *)

BusFields == {"SPCR", "SPER", "out", "sent", "ring", "wp", "rp", "full", "early", "lost"}

\* The core as a record.
IsBus(c) ==
    /\ c = [f \in BusFields |-> c[f]]
    /\ c.out \in Seq(Nat) /\ Len(c.out) <= 4 /\ c.sent \in Nat /\ c.ring \in [0 .. 3 -> Nat]
    /\ c.wp \in 0 .. 3 /\ c.rp \in 0 .. 3 /\ c.lost \in BOOLEAN

\* The steps of all operations.
BusRegisters == {"SPCR", "SPER"}
BusAccess ==
    [act : {"read"}, reg : BusRegisters \cup {"SPSR", "SPDR"}, fail : Rules]
    \cup [act : {"poll"}, reg : {"SPSR"}, bit : 0 .. 7, level : BOOLEAN, fail : Rules]
    \cup [act : {"write"}, reg : {"SPDR"}, data : {1, 4}, fail : Rules]
    \cup [act : {"back"}, reg : BusRegisters, on : Byte8, off : Byte8, fail : Rules]
    \cup [act : {"assign"}, to : Nat]
    \cup [act : {"check"}]
    \cup [act : {"require"}, bits : {{}}]
    \cup [act : {"loop"}, n : Nat]

\* The types of the state.
BusType == IsBus(core) /\ todo \in Seq(BusAccess) /\ members \in Nat /\ success = TRUE

\* A core that was never enabled, ...
Off == /\ 6 \notin core.SPCR /\ core.out = << >> /\ core.sent = 0 /\ ~core.full
       /\ \A i \in 0 .. 3 : core.ring[i] = 0

\* ... one whose receive FIFO holds or will hold n bytes modulo four, ...
On(n) == 6 \in core.SPCR /\ (core.rp + n) % 4 = (core.wp + Len(core.out)) % 4

Settled(n) == Off \/ On(n)

\* ... and one whose FIFOs have been cleared.
Emptied == core.out = << >> /\ ~core.full /\ core.wp = 0 /\ core.rp = 0

\* init(): the core is disabled before anything else and enabled after it.
InitAccess ==
    [act : {"read"}, reg : BusRegisters, fail : {"skip"}]
    \cup [act : {"back"}, reg : BusRegisters, on : Byte8, off : Byte8, fail : {"note"}]

Disabling == [act |-> "back", reg |-> "SPCR", on |-> {}, off |-> {6}, fail |-> "note"]
Enabling  == [act |-> "back", reg |-> "SPCR", on |-> {6}, off |-> {}, fail |-> "note"]

Configuring ==
    /\ todo \in Seq(InitAccess)
    /\ Len(todo) > 0 /\ todo[Len(todo)] = Enabling
    /\ members = 0
    /\ \/ Emptied
       \/ Len(todo) > 1 /\ todo[1] = Disabling
       \/ Len(todo) > 2 /\ todo[1].act = "read" /\ todo[2] = Disabling

\* resetBuffers().
ResetList ==
    << [act |-> "read", reg |-> "SPCR", fail |-> "skip"], Disabling,
       [act |-> "read", reg |-> "SPCR", fail |-> "skip"], Enabling,
       Bus!Check, Bus!Assign(0) >>

Resetting == \E k \in 1 .. 6 :
    /\ todo = From(ResetList, k)
    /\ k >= 3 => Emptied
    /\ k >= 5 => 6 \in core.SPCR
    /\ ok

\* transceive() and receive(), whose list begins at one of the first four places.
FullRing == before.full /\ call.transmittedOnly % 4 = 0

TransceiveList ==
    LET dummy == [act |-> "read", reg |-> "SPDR", fail |-> "stop"]
    IN  << dummy, dummy, dummy, Bus!Assign(0),
           [act |-> "write", reg |-> "SPDR", data |-> 1, fail |-> "stop"],
           [act |-> "poll", reg |-> "SPSR", bit |-> 0, level |-> FALSE, fail |-> "stop"], dummy >>

\* How many bytes it has still to read from the ring before step k.
Behind(k) == IF k <= 4 THEN 4 - k ELSE IF k = 5 THEN 0 ELSE 1

\* The last byte that was sent is on its way or the next one to be read.
LastIn == IF core.out = << >> THEN core.ring[core.rp] = core.sent
                              ELSE core.out[Len(core.out)] = core.sent

\* If none was on its way at the call, only its own is.
Untroubled(k) ==
    /\ k \in 1 .. 5 => core.out = << >>
    /\ k \in 4 .. 6 /\ core.full => FullRing
    /\ k \in {6, 7} /\ core.out # << >>
          => Len(core.out) = 1 /\ core.wp = core.rp /\ (k = 7 => FullRing)

TransceiveStage(k) ==
    \/ Off
    \/ /\ On(Behind(k))
       /\ k >= 5 => members = 0
       /\ k \in {6, 7} => LastIn
       /\ before.out = << >> => Untroubled(k)

Transceiving == \E k \in 1 .. 7 : todo = From(TransceiveList, k) /\ TransceiveStage(k)

\* transmit().
SendByte == [act |-> "write", reg |-> "SPDR", data |-> 1, fail |-> "stop"]
CountByte == Bus!Assign(Bus!Byte(members + 1))

SendingByte ==
    \/ todo = << SendByte, CountByte >> /\ Settled(members)
    \/ todo = << CountByte >> /\ Settled(members + 1)

\* A buffer is sent in packets of four.
SentSince(n) == 6 \in core.SPCR =>
    /\ call.length <= 252 => core.sent = before.sent + n
    /\ core.lost = before.lost

SendingBuffer == \E t \in 0 .. 255, k \in 1 .. 3 :
    /\ t % 4 = 0 /\ t < call.length
    /\ todo = From(Bus!PacketSteps(t), k)
    /\ k = 2 => core.out = << >>
    /\ SentSince(IF k = 3 THEN t + 4 ELSE t)

Sending == call.op = "transmitBuffer" =>
    /\ call.length \in 0 .. 255 /\ before.sent \in Nat
    /\ todo = << >> \/ SendingBuffer

\* The bytes in the receive FIFO are those that were only sent.
Transmits == {"transceive", "receive"}
Aligned ==
    \/ todo = << >> /\ Settled(members) /\ (call.op \in Transmits => buffer = {core.sent})
    \/ todo = << Bus!ReturnFalse >> /\ Settled(members) /\ call.op = "init"
    \/ call.op = "init" /\ Configuring
    \/ call.op = "resetBuffers" /\ Resetting
    \/ call.op \in Transmits /\ Transceiving
    \/ call.op = "transmit" /\ SendingByte
    \/ call.op = "transmitBuffer" /\ todo # << >> /\ Settled(members)

\* What holds while nothing has gone wrong.
Clean == ~core.early /\ ~core.lost
BusInv == trouble = {} =>
    /\ BusType
    /\ Sending
    /\ Clean /\ ~Again => Aligned

\* n bytes written to the transmit FIFO: those for which there is no room are lost.
LEMMA FifoFilled ==
    ASSUME NEW c, IsBus(c), NEW n \in Nat, NEW d, d = Bus!Filled(c, n)
    PROVE  /\ IsBus(d)
           /\ d.rp = c.rp /\ d.wp = c.wp /\ d.full = c.full /\ d.ring = c.ring
           /\ d.SPCR = c.SPCR /\ d.early = c.early
           /\ c.lost => d.lost
           /\ ~d.lost => Len(c.out) + n <= 4
           /\ Len(c.out) + n <= 4 => /\ d.sent = c.sent + n /\ Len(d.out) = Len(c.out) + n
                                     /\ d.lost = c.lost
           /\ n = 1 /\ Len(c.out) + n <= 4 => d.out[Len(d.out)] = d.sent
<1>. DEFINE l == Len(c.out)
            k == IF n <= 4 - l THEN n ELSE 4 - l
            new == [i \in 1 .. k |-> c.sent + i]
            o == c.out \o new
            m == c.sent + k
            x == c.lost \/ n > 4 - l
<1>1. d = [c EXCEPT !.out = o, !.sent = m, !.lost = x]
  BY DEF Bus!Filled, Bus!FIFO
<1>2. l \in Nat /\ l <= 4 /\ c.out \in Seq(Nat) /\ c.sent \in Nat /\ c.lost \in BOOLEAN
  BY DEF IsBus
<1>3. k \in Nat /\ l + k <= 4 /\ (l + n <= 4 => k = n)
  <2>. HIDE DEF l
  <2>. QED
    BY <1>2
<1>4. /\ x \in BOOLEAN /\ (c.lost => x) /\ (~x => l + n <= 4) /\ (l + n <= 4 => x = c.lost)
  <2>. HIDE DEF l
  <2>1. n > 4 - l <=> ~(l + n <= 4)
    BY <1>2
  <2>. QED
    BY <1>2, <2>1, Zenon
<1>. HIDE DEF k
<1>5. new \in Seq(Nat) /\ Len(new) = k /\ (\A i \in 1 .. k : new[i] = c.sent + i)
  <2>1. \A i \in 1 .. k : c.sent + i \in Nat
    BY <1>2, <1>3
  <2>. QED
    BY <1>3, <2>1, IsASeq
<1>. HIDE DEF new
<1>6. /\ o \in Seq(Nat) /\ Len(o) = l + k
      /\ \A i \in 1 .. l + k : o[i] = IF i <= l THEN c.out[i] ELSE new[i - l]
  BY <1>2, <1>5, ConcatProperties
<1>. HIDE DEF l, o, x
<1>7. m \in Nat
  BY <1>2, <1>3
<1>8. k = 1 => o[Len(o)] = m
  <2>. SUFFICES ASSUME k = 1 PROVE o[Len(o)] = m
    OBVIOUS
  <2>1. l + k \in 1 .. l + k /\ ~(l + k <= l) /\ (l + k) - l = 1 /\ 1 \in 1 .. k
    BY <1>2
  <2>2. o[l + k] = new[1] /\ new[1] = c.sent + 1
    BY <1>5, <1>6, <2>1
  <2>. QED
    BY <1>6, <2>2
<1>. HIDE DEF m
<1>9. /\ d.out = o /\ d.sent = m /\ d.lost = x /\ d.rp = c.rp /\ d.wp = c.wp
      /\ d.full = c.full /\ d.ring = c.ring /\ d.SPCR = c.SPCR /\ d.early = c.early
      /\ d = [f \in BusFields |-> d[f]]
  BY <1>1 DEF IsBus, BusFields
<1>10. IsBus(d)
  BY <1>3, <1>4, <1>6, <1>7, <1>9 DEF IsBus
<1>11. l + n <= 4 => d.sent = c.sent + n /\ Len(d.out) = l + n
  BY <1>3, <1>6, <1>9 DEF m
<1>12. n = 1 /\ l + n <= 4 => d.out[Len(d.out)] = d.sent
  BY <1>3, <1>8, <1>9
<1>. QED
  BY <1>4, <1>9, <1>10, <1>11, <1>12 DEF l

\* What reads and writes leave of the core.
LEMMA BusAccessed ==
    ASSUME NEW c, IsBus(c)
    PROVE  /\ \A r : IsBus(Bus!AfterRead(c, r))
           /\ \A v : IsBus(Bus!AfterWrite(c, "SPCR", v)) /\ IsBus(Bus!AfterWrite(c, "SPER", v))
           /\ \A n \in Nat : IsBus(Bus!AfterWrite(c, "SPDR", n))
<1>. USE DEF IsBus, BusFields
<1>0. \A n \in 0 .. 3 : (n + 1) % 4 \in 0 .. 3
  OBVIOUS
<1>1. ASSUME NEW r PROVE IsBus(Bus!AfterRead(c, r))
  <2>. DEFINE d == Bus!AfterRead(c, r)
  <2>1. CASE r = "SPDR"
    <3>. DEFINE p == (c.rp + 1) % 4
                e == c.early \/ c.out # << >>
    <3>1. d = [c EXCEPT !.rp = p, !.full = FALSE, !.early = e]
      BY <2>1 DEF Bus!AfterRead, Bus!FIFO
    <3>2. p \in 0 .. 3
      BY <1>0
    <3>. HIDE DEF p, e, d
    <3>3. d = [f \in BusFields |-> d[f]]
      BY <3>1
    <3>4. d.out = c.out /\ d.sent = c.sent /\ d.ring = c.ring /\ d.wp = c.wp /\ d.rp = p
          /\ d.lost = c.lost
      BY <3>1
    <3>. QED
      BY <3>2, <3>3, <3>4 DEF d
  <2>2. CASE r # "SPDR"
    BY <2>2 DEF Bus!AfterRead
  <2>. QED
    BY <2>1, <2>2
<1>2. ASSUME NEW v PROVE IsBus(Bus!AfterWrite(c, "SPCR", v)) /\ IsBus(Bus!AfterWrite(c, "SPER", v))
  <2>1. IsBus(Bus!AfterWrite(c, "SPER", v))
    BY DEF Bus!AfterWrite
  <2>2. CASE 6 \in v
    BY <2>1, <2>2 DEF Bus!AfterWrite
  <2>3. CASE 6 \notin v
    <3>. DEFINE b == [c EXCEPT !.SPCR = v]
    <3>1. Bus!AfterWrite(c, "SPCR", v) = [b EXCEPT !.out = << >>, !.wp = 0, !.rp = 0, !.full = FALSE]
      BY <2>3 DEF Bus!AfterWrite, Bus!Cleared
    <3>2. IsBus(b)
      OBVIOUS
    <3>. HIDE DEF b
    <3>3. IsBus([b EXCEPT !.out = << >>, !.wp = 0, !.rp = 0, !.full = FALSE])
      <4>. DEFINE d == [b EXCEPT !.out = << >>, !.wp = 0, !.rp = 0, !.full = FALSE]
      <4>1. d = [f \in BusFields |-> d[f]]
        BY <3>2
      <4>2. d.out = << >> /\ d.sent = b.sent /\ d.ring = b.ring /\ d.wp = 0 /\ d.rp = 0
            /\ d.lost = b.lost
        BY <3>2
      <4>. HIDE DEF d
      <4>3. d.out \in Seq(Nat) /\ Len(d.out) <= 4 /\ d.wp \in 0 .. 3 /\ d.rp \in 0 .. 3
        BY <4>2
      <4>4. IsBus(d)
        BY <3>2, <4>1, <4>2, <4>3
      <4>. QED
        BY <4>4 DEF d
    <3>. QED
      BY <2>1, <3>1, <3>3
  <2>. QED
    BY <2>2, <2>3
<1>3. ASSUME NEW n \in Nat PROVE IsBus(Bus!AfterWrite(c, "SPDR", n))
  <2>1. CASE 6 \notin c.SPCR
    BY <2>1 DEF Bus!AfterWrite
  <2>2. CASE 6 \in c.SPCR
    <3>. HIDE DEF IsBus, BusFields
    <3>1. Bus!AfterWrite(c, "SPDR", n) = Bus!Filled(c, n)
      BY <2>2 DEF Bus!AfterWrite
    <3>. QED
      BY <3>1, FifoFilled
  <2>. QED
    BY <2>1, <2>2
<1>. QED
  BY <1>1, <1>2, <1>3

\* A byte goes out and one comes in.
LEMMA BusShifted == ASSUME IsBus(core), Bus!Shift PROVE IsBus(core')
<1>1. Head(core.out) \in Nat /\ Tail(core.out) \in Seq(Nat) /\ Len(Tail(core.out)) <= 4
  BY HeadTailProperties DEF Bus!Shift, IsBus
<1>. DEFINE p == (core.wp + 1) % 4
            e == core.full \/ p = core.rp
            s == [core.ring EXCEPT ![core.wp] = Head(core.out)]
            o == Tail(core.out)
<1>2. core' = [core EXCEPT !.out = o, !.ring = s, !.wp = p, !.full = e]
  BY DEF Bus!Shift, Bus!CoreStep, Bus!Shifted, Bus!FIFO, IsBus, BusFields
<1>3. p \in 0 .. 3 /\ s \in [0 .. 3 -> Nat]
  <2>1. core.wp \in 0 .. 3 /\ core.ring \in [0 .. 3 -> Nat]
    BY DEF IsBus
  <2>2. p \in 0 .. 3
    <3>. DEFINE w == core.wp
    <3>1. w \in 0 .. 3
      BY <2>1
    <3>. HIDE DEF w
    <3>2. (w + 1) % 4 \in 0 .. 3
      BY <3>1
    <3>. QED
      BY <3>2 DEF w
  <2>. HIDE DEF p
  <2>3. s \in [0 .. 3 -> Nat]
    BY <1>1, <2>1
  <2>. QED
    BY <2>2, <2>3
<1>. HIDE DEF p, e, s, o
<1>4. core' = [f \in BusFields |-> core'[f]]
  BY <1>2 DEF IsBus, BusFields
<1>5. core'.out = o /\ core'.sent = core.sent /\ core'.ring = s /\ core'.wp = p /\ core'.rp = core.rp
      /\ core'.lost = core.lost
  BY <1>2 DEF IsBus, BusFields
<1>. QED
  BY <1>1, <1>3, <1>4, <1>5 DEF IsBus, o

\* Without trouble an exchange is made once, ...
LEMMA BusFine ==
    ASSUME Bus!Host, trouble' = {}
    PROVE  trouble = {} /\ todo # << >> /\ (Bus!ExchangeSucceeds \/ Bus!LocalStep)
BY DEF Bus!Host, Bus!ExchangeSucceeds, Bus!ExchangeRepeated, Bus!ExchangeFails, Bus!LocalStep,
   Bus!Exchange

\* An exchange that leaves the rest alone.
Same == call' = call /\ before' = before /\ (ok => ok') /\ success' = success

\* ... one that reads, ...
LEMMA BusRead ==
    ASSUME Bus!Host, trouble' = {},
           NEW r, NEW f, Head(todo) = [act |-> "read", reg |-> r, fail |-> f]
    PROVE  /\ core' = Bus!AfterRead(core, r) /\ buffer' = Bus!Value(core, r)
           /\ todo' = Tail(todo) /\ members' = members /\ Same
<1>. USE DEF Bus!Access, Same
<1>1. CASE Bus!ExchangeSucceeds
  BY <1>1 DEF Bus!ExchangeSucceeds, Bus!Accessed, Bus!Reads
<1>2. CASE Bus!LocalStep
  BY <1>2 DEF Bus!LocalStep, Bus!Local
<1>. QED
  BY <1>1, <1>2, BusFine

\* ... one that writes, ...
LEMMA BusWrite ==
    ASSUME Bus!Host, trouble' = {}, NEW r, NEW v, NEW f,
           \/ Head(todo) = [act |-> "write", reg |-> r, data |-> v, fail |-> f]
           \/ \E on, off :
                 /\ Head(todo) = [act |-> "back", reg |-> r, on |-> on, off |-> off, fail |-> f]
                 /\ v = Changed(buffer, on, off)
    PROVE  /\ core' = Bus!AfterWrite(core, r, v)
           /\ todo' = Tail(todo) /\ members' = members /\ Same
<1>. USE DEF Bus!Access, Same
<1>1. CASE Bus!ExchangeSucceeds
  <2>1. Bus!Accessed = Bus!AfterWrite(core, r, v) /\ Head(todo).act \in {"write", "back"}
    BY DEF Bus!Accessed, Bus!Reads, Bus!Written, Changed
  <2>. QED
    BY <1>1, <2>1 DEF Bus!ExchangeSucceeds
<1>2. CASE Bus!LocalStep
  <2>1. Head(todo).act \in {"write", "back"}
    OBVIOUS
  <2>. QED
    BY <1>2, <2>1 DEF Bus!LocalStep, Bus!Local
<1>. QED
  BY <1>1, <1>2, BusFine

\* ... what was read, with bits changed, ...
LEMMA BusBack ==
    ASSUME Bus!Host, trouble' = {}, NEW r, NEW on, NEW off, NEW f,
           Head(todo) = [act |-> "back", reg |-> r, on |-> on, off |-> off, fail |-> f]
    PROVE  /\ core' = Bus!AfterWrite(core, r, Changed(buffer, on, off))
           /\ todo' = Tail(todo) /\ members' = members /\ Same
<1>. DEFINE v == Changed(buffer, on, off)
<1>1. \E n, m : /\ Head(todo) = [act |-> "back", reg |-> r, on |-> n, off |-> m, fail |-> f]
                /\ v = Changed(buffer, n, m)
  OBVIOUS
<1>. HIDE DEF v
<1>2. core' = Bus!AfterWrite(core, r, v) /\ todo' = Tail(todo) /\ members' = members /\ Same
  BY <1>1, BusWrite
<1>. QED
  BY <1>2 DEF v

\* ... one of a loop, ...
LEMMA BusPoll ==
    ASSUME Bus!Host, trouble' = {}, success = TRUE, NEW bit, NEW level \in BOOLEAN, NEW f,
           Head(todo) = [act |-> "poll", reg |-> "SPSR", bit |-> bit, level |-> level, fail |-> f]
    PROVE  /\ core' = core /\ members' = members /\ Same
           /\ \/ todo' = todo
              \/ todo' = Tail(todo) /\ (bit \in Bus!Status(core)) = level
<1>. USE DEF Bus!Access, Same
<1>1. CASE Bus!ExchangeSucceeds
  BY <1>1 DEF Bus!ExchangeSucceeds, Bus!Accessed, Bus!Reads, Bus!AfterRead, Bus!Value
<1>2. CASE Bus!LocalStep
  BY <1>2 DEF Bus!LocalStep, Bus!Local
<1>. QED
  BY <1>1, <1>2, BusFine

\* ... and a step without one.
LEMMA BusLocal ==
    ASSUME Bus!Host, trouble' = {}, todo \in Seq(BusAccess),
           Head(todo).act \in {"assign", "check", "require"}
    PROVE  /\ core' = core /\ call' = call /\ before' = before /\ (success = TRUE => success' = TRUE)
           /\ todo' \in {Tail(todo), << >>}
           /\ members' = IF Head(todo).act = "assign" THEN Head(todo).to ELSE members
           /\ buffer' = buffer
           /\ Head(todo).act \in {"assign", "check"} /\ ok => todo' = Tail(todo) /\ ok'
           /\ Head(todo).act = "assign" => todo' = Tail(todo)
<1>. USE DEF Bus!Access
<1>1. CASE Bus!ExchangeSucceeds
  BY <1>1 DEF Bus!ExchangeSucceeds, Bus!Exchange
<1>2. CASE Bus!LocalStep
  <2>1. (ok /\ Head(todo).act \in {"assign", "check"} => ~Bus!LeavesEarly)
        /\ (Head(todo).act = "assign" => ~Bus!LeavesEarly)
    BY DEF Bus!LeavesEarly
  <2>2. ok' = (ok /\ ~Bus!LeavesEarly) /\ success' = (success \/ Head(todo).act = "fresh")
    BY <1>2 DEF Bus!LocalStep
  <2>3. /\ ok /\ ~Bus!LeavesEarly => ok'
        /\ success = TRUE => success' = TRUE
    BY <2>2, Zenon
  <2>. QED
    BY <1>2, <2>1, <2>3 DEF Bus!LocalStep
<1>. QED
  BY <1>1, <1>2, BusFine

-----------------------------------------------------------------------------
(* The lists of the operations.                                            *)

\* Three steps of init() or resetBuffers() for each bit.
LEMMA BusChangeBit ==
    ASSUME NEW r \in BusRegisters, NEW bit \in 0 .. 7, NEW set
    PROVE  LET read == [act |-> "read", reg |-> r, fail |-> "skip"]
               back == [act |-> "back", reg |-> r, on |-> IF set THEN {bit} ELSE {},
                        off |-> IF set THEN {} ELSE {bit}, fail |-> "note"]
           IN  /\ Bus!ChangeBit(r, bit, set) = << read, back >>
               /\ read \in InitAccess /\ back \in InitAccess
<1>. DEFINE on   == IF set THEN {bit} ELSE {}
            off  == IF set THEN {} ELSE {bit}
            back == [act |-> "back", reg |-> r, on |-> on, off |-> off, fail |-> "note"]
            read == [act |-> "read", reg |-> r, fail |-> "skip"]
<1>1. [Bus!Read(r) EXCEPT !.fail = "skip"] = read
  BY DEF Bus!Read
<1>2. Bus!ChangeBit(r, bit, set) = << read, back >>
  BY <1>1 DEF Bus!ChangeBit, Bus!WriteBack
<1>3. on \in Byte8 /\ off \in Byte8
  BY DEF Byte8
<1>. HIDE DEF on, off
<1>4. read \in InitAccess /\ back \in InitAccess
  BY <1>3 DEF InitAccess
<1>. QED
  BY <1>2, <1>4 DEF on, off

\* A list and two steps more.
LEMMA AndTwo ==
    ASSUME NEW S, NEW s \in Seq(S), Len(s) >= 2, NEW a \in S, NEW b \in S
    PROVE  LET t == s \o << a, b >>
           IN  t \in Seq(S) /\ Len(t) >= 2 /\ t[1] = s[1] /\ t[2] = s[2] /\ t[Len(t)] = b
<1>. DEFINE u == << a, b >>
<1>1. u \in Seq(S) /\ Len(u) = 2 /\ u[2] = b
  OBVIOUS
<1>. HIDE DEF u
<1>2. /\ s \o u \in Seq(S) /\ Len(s \o u) = Len(s) + 2
      /\ \A i \in 1 .. Len(s) + 2 : (s \o u)[i] = IF i <= Len(s) THEN s[i] ELSE u[i - Len(s)]
  <2>1. /\ s \o u \in Seq(S) /\ Len(s \o u) = Len(s) + Len(u)
        /\ \A i \in 1 .. Len(s) + Len(u) :
               (s \o u)[i] = IF i <= Len(s) THEN s[i] ELSE u[i - Len(s)]
    BY <1>1, ConcatProperties
  <2>. QED
    BY <1>1, <2>1
<1>3. Len(s) \in Nat
  OBVIOUS
<1>4. (s \o u)[1] = s[1] /\ (s \o u)[2] = s[2] /\ (s \o u)[Len(s) + 2] = u[2]
  BY <1>2, <1>3
<1>5. s \o u \in Seq(S) /\ Len(s \o u) >= 2 /\ (s \o u)[1] = s[1] /\ (s \o u)[2] = s[2]
      /\ (s \o u)[Len(s \o u)] = b
  BY <1>1, <1>2, <1>3, <1>4
<1>. QED
  BY <1>5 DEF u

\* The same of one of the bits.
LEMMA AndBit ==
    ASSUME NEW s \in Seq(InitAccess), Len(s) >= 2,
           NEW r \in BusRegisters, NEW bit \in 0 .. 7, NEW set
    PROVE  LET t == s \o Bus!ChangeBit(r, bit, set)
           IN  t \in Seq(InitAccess) /\ Len(t) >= 2 /\ t[1] = s[1] /\ t[2] = s[2]
<1>1. PICK a \in InitAccess, b \in InitAccess : Bus!ChangeBit(r, bit, set) = << a, b >>
  BY BusChangeBit
<1>. QED
  BY <1>1, AndTwo

\* The core is disabled and enabled.
LEMMA BusSwitch ==
    LET read == [act |-> "read", reg |-> "SPCR", fail |-> "skip"]
    IN  /\ Bus!DisableCore = << read, Disabling >> /\ Bus!EnableCore = << read, Enabling >>
        /\ read \in InitAccess /\ Disabling \in InitAccess /\ Enabling \in InitAccess
<1>. DEFINE read == [act |-> "read", reg |-> "SPCR", fail |-> "skip"]
<1>1. "SPCR" \in BusRegisters /\ 6 \in 0 .. 7
  BY DEF BusRegisters
<1>2. Bus!DisableCore = << read, Disabling >> /\ read \in InitAccess /\ Disabling \in InitAccess
  <2>1. Disabling = [act |-> "back", reg |-> "SPCR", on |-> IF FALSE THEN {6} ELSE {},
                     off |-> IF FALSE THEN {} ELSE {6}, fail |-> "note"]
    BY DEF Disabling
  <2>. QED
    BY <1>1, <2>1, BusChangeBit DEF Bus!DisableCore
<1>3. Bus!EnableCore = << read, Enabling >> /\ Enabling \in InitAccess
  <2>1. Enabling = [act |-> "back", reg |-> "SPCR", on |-> IF TRUE THEN {6} ELSE {},
                    off |-> IF TRUE THEN {} ELSE {6}, fail |-> "note"]
    BY DEF Enabling
  <2>. QED
    BY <1>1, <2>1, BusChangeBit DEF Bus!EnableCore
<1>. QED
  BY <1>2, <1>3

\* The accesses of init() ...
SettingList(a, b, c, d, e, f) ==
    Bus!DisableCore
    \o Bus!ChangeBit("SPCR", 2, a) \o Bus!ChangeBit("SPCR", 3, b)
    \o Bus!ChangeBit("SPCR", 0, c) \o Bus!ChangeBit("SPCR", 1, d)
    \o Bus!ChangeBit("SPER", 0, e) \o Bus!ChangeBit("SPER", 1, f)
    \o Bus!EnableCore

\* ... and what matters of them.
IsSetting(s) ==
    /\ s \in Seq(InitAccess) /\ Len(s) >= 2 /\ s[1].act = "read" /\ s[2] = Disabling
    /\ s[Len(s)] = Enabling

\* init() begins and ends with bit 6 of SPCR.
LEMMA BusInitList ==
    \A a, b, c, d, e, f : IsSetting(SettingList(a, b, c, d, e, f))
<1>. TAKE a, b, c, d, e, f
<1>. DEFINE L(s) == /\ s \in Seq(InitAccess) /\ Len(s) >= 2
                    /\ s[1].act = "read" /\ s[2] = Disabling
            s1 == Bus!DisableCore
            s2 == s1 \o Bus!ChangeBit("SPCR", 2, a)
            s3 == s2 \o Bus!ChangeBit("SPCR", 3, b)
            s4 == s3 \o Bus!ChangeBit("SPCR", 0, c)
            s5 == s4 \o Bus!ChangeBit("SPCR", 1, d)
            s6 == s5 \o Bus!ChangeBit("SPER", 0, e)
            s7 == s6 \o Bus!ChangeBit("SPER", 1, f)
            s8 == s7 \o Bus!EnableCore
            read == [act |-> "read", reg |-> "SPCR", fail |-> "skip"]
<1>0. "SPCR" \in BusRegisters /\ "SPER" \in BusRegisters
  BY DEF BusRegisters
<1>1. /\ s1 = << read, Disabling >> /\ Bus!EnableCore = << read, Enabling >>
      /\ read \in InitAccess /\ Disabling \in InitAccess /\ Enabling \in InitAccess
  BY BusSwitch
<1>. HIDE DEF s1
<1>2. L(s1)
  <2>. HIDE DEF read
  <2>1. s1 \in Seq(InitAccess) /\ Len(s1) = 2 /\ s1[1] = read /\ s1[2] = Disabling
    BY <1>1
  <2>. QED
    BY <2>1 DEF read
<1>3. L(s2)
  BY <1>0, <1>2, AndBit
<1>. HIDE DEF s2
<1>4. L(s3)
  BY <1>0, <1>3, AndBit
<1>. HIDE DEF s3
<1>5. L(s4)
  BY <1>0, <1>4, AndBit
<1>. HIDE DEF s4
<1>6. L(s5)
  BY <1>0, <1>5, AndBit
<1>. HIDE DEF s5
<1>7. L(s6)
  BY <1>0, <1>6, AndBit
<1>. HIDE DEF s6
<1>8. L(s7)
  BY <1>0, <1>7, AndBit
<1>. HIDE DEF s7
<1>9. L(s8) /\ s8[Len(s8)] = Enabling
  <2>. HIDE DEF read
  <2>. QED
    BY <1>1, <1>8, AndTwo
<1>. QED
  BY <1>9 DEF IsSetting, SettingList, s1, s2, s3, s4, s5, s6, s7, s8

\* They are steps of the core.
LEMMA BusInitSteps == InitAccess \subseteq BusAccess
BY DEF InitAccess, BusAccess, BusRegisters, Rules

\* Four steps and two more.
LEMMA FourAndTwo ==
    \A a, b, c, d, e, f : << a, b, c, d >> \o << e, f >> = << a, b, c, d, e, f >>
<1>. TAKE a, b, c, d, e, f
<1>. DEFINE S == {a, b, c, d, e, f}
<1>1. /\ << a, b, c, d >> \in Seq(S) /\ << e, f >> \in Seq(S)
      /\ << a, b, c, d, e, f >> \in Seq(S)
  OBVIOUS
<1>2. /\ << a, b, c, d >> \o << e, f >> \in Seq(S)
      /\ Len(<< a, b, c, d >> \o << e, f >>) = 6
      /\ \A i \in 1 .. 6 : (<< a, b, c, d >> \o << e, f >>)[i] = << a, b, c, d, e, f >>[i]
  BY <1>1, ConcatProperties
<1>. QED
  BY <1>1, <1>2, SeqEqual

\* A list of six.
LEMMA BusResetList ==
    /\ Bus!DisableCore \o Bus!EnableCore \o << Bus!Check, Bus!Assign(0) >> = ResetList
    /\ ResetList \in Seq(BusAccess) /\ Len(ResetList) = 6
<1>. DEFINE read == [act |-> "read", reg |-> "SPCR", fail |-> "skip"]
            e == Bus!Check
            f == Bus!Assign(0)
<1>1. Bus!DisableCore = << read, Disabling >> /\ Bus!EnableCore = << read, Enabling >>
      /\ read \in BusAccess /\ Disabling \in BusAccess /\ Enabling \in BusAccess
  BY BusSwitch, BusInitSteps
<1>2. e \in BusAccess /\ f \in BusAccess
  BY DEF Bus!Check, Bus!Assign, BusAccess
<1>3. ResetList = << read, Disabling, read, Enabling, e, f >>
  BY DEF ResetList
<1>. HIDE DEF read, e, f
<1>4. << read, Disabling >> \o << read, Enabling >> \o << e, f >>
         = << read, Disabling, read, Enabling, e, f >>
  <2>1. << read, Disabling >> \o << read, Enabling >> = << read, Disabling, read, Enabling >>
    BY TwoAndTwo
  <2>2. << read, Disabling, read, Enabling >> \o << e, f >>
           = << read, Disabling, read, Enabling, e, f >>
    BY FourAndTwo
  <2>. QED
    BY <2>1, <2>2, Zenon
<1>5. << read, Disabling, read, Enabling, e, f >> \in Seq(BusAccess)
      /\ Len(<< read, Disabling, read, Enabling, e, f >>) = 6
  BY <1>1, <1>2
<1>. QED
  BY <1>1, <1>3, <1>4, <1>5 DEF e, f

\* transceive() leaves out some of the first three steps.
LEMMA BusTransceiveList ==
    /\ TransceiveList \in Seq(BusAccess) /\ Len(TransceiveList) = 7
    /\ \A n \in Nat : Bus!TransceiveSteps(n) = From(TransceiveList, 4 - (n % 4))
<1>. DEFINE dummy == [act |-> "read", reg |-> "SPDR", fail |-> "stop"]
            a == Bus!Assign(0)
            w == [act |-> "write", reg |-> "SPDR", data |-> 1, fail |-> "stop"]
            p == [act |-> "poll", reg |-> "SPSR", bit |-> 0, level |-> FALSE, fail |-> "stop"]
            rest == << a, w, p, dummy >>
<1>1. TransceiveList = << dummy, dummy, dummy, a, w, p, dummy >>
  BY DEF TransceiveList
<1>2. dummy \in BusAccess /\ a \in BusAccess /\ w \in BusAccess /\ p \in BusAccess
  <2>1. dummy \in BusAccess
    BY DEF BusAccess, Rules
  <2>2. a \in BusAccess
    BY DEF BusAccess, Bus!Assign
  <2>3. w \in BusAccess
    BY DEF BusAccess, Rules
  <2>4. p \in BusAccess
    BY DEF BusAccess, Rules
  <2>. QED
    BY <2>1, <2>2, <2>3, <2>4
<1>3. ASSUME NEW n \in Nat PROVE Bus!TransceiveSteps(n) = From(TransceiveList, 4 - (n % 4))
  <2>. DEFINE m == n % 4
              s == [i \in 1 .. m |-> dummy]
              t == From(TransceiveList, 4 - m)
  <2>1. Bus!TransceiveSteps(n) = s \o rest
    <3>1. /\ Bus!OrStop(Bus!Read("SPDR")) = dummy /\ Bus!OrStop(Bus!Write("SPDR", 1)) = w
          /\ Bus!Poll("SPSR", 0, FALSE) = p
      BY DEF Bus!OrStop, Bus!Read, Bus!Write, Bus!Poll
    <3>. HIDE DEF dummy, a, w, p
    <3>2. Bus!TransceiveSteps(n) = [i \in 1 .. n % 4 |-> dummy] \o << a, w, p, dummy >>
      BY <3>1 DEF Bus!TransceiveSteps, Bus!DummyReads, a
    <3>. QED
      BY <3>2
  <2>2. m \in 0 .. 3
    OBVIOUS
  <2>. HIDE DEF m, dummy, a, w, p
  <2>3. s \in Seq(BusAccess) /\ Len(s) = m /\ \A i \in 1 .. m : s[i] = dummy
    BY <1>2, <2>2, IsASeq
  <2>4. rest \in Seq(BusAccess) /\ Len(rest) = 4
    BY <1>2
  <2>. HIDE DEF s
  <2>5. /\ s \o rest \in Seq(BusAccess) /\ Len(s \o rest) = m + 4
        /\ \A i \in 1 .. m + 4 : (s \o rest)[i] = IF i <= m THEN s[i] ELSE rest[i - m]
    <3>. HIDE DEF rest
    <3>1. /\ s \o rest \in Seq(BusAccess) /\ Len(s \o rest) = Len(s) + Len(rest)
          /\ \A i \in 1 .. Len(s) + Len(rest) :
                (s \o rest)[i] = IF i <= Len(s) THEN s[i] ELSE rest[i - Len(s)]
      BY <2>3, <2>4, ConcatProperties
    <3>. QED
      BY <2>3, <2>4, <3>1
  <2>6. /\ t \in Seq(BusAccess) /\ Len(t) = m + 4
        /\ \A i \in 1 .. m + 4 : t[i] = TransceiveList[3 - m + i]
    <3>. DEFINE L == << dummy, dummy, dummy, a, w, p, dummy >>
    <3>1. L \in Seq(BusAccess) /\ Len(L) = 7
      BY <1>2
    <3>. HIDE DEF L
    <3>2. LET u == SubSeq(L, 4 - m, 7)
          IN  /\ u \in Seq(BusAccess) /\ Len(u) = m + 4
              /\ \A i \in 1 .. m + 4 : u[i] = L[(4 - m) + i - 1]
      <4>1. 4 - m \in 1 .. 4
        BY <2>2
      <4>. DEFINE b == 4 - m
      <4>2. m + 4 = 7 - b + 1
        BY <2>2
      <4>. HIDE DEF b
      <4>3. LET u == SubSeq(L, b, 7)
            IN  /\ u \in Seq(BusAccess) /\ Len(u) = 7 - b + 1
                /\ \A i \in 1 .. 7 - b + 1 : u[i] = L[b + i - 1]
        <5>1. b \in 1 .. 4 /\ 7 \in b - 1 .. Len(L)
          BY <3>1, <4>1 DEF b
        <5>2. b \in Int /\ b <= 7 /\ \A i \in b .. 7 : L[i] \in BusAccess
          <6>1. \A i \in 1 .. 7 : L[i] \in BusAccess
            BY <3>1, ElementOfSeq
          <6>2. b \in Int /\ b <= 7 /\ \A i \in b .. 7 : i \in 1 .. 7
            BY <5>1
          <6>. QED
            BY <6>1, <6>2
        <5>. QED
          BY <5>2, SubSeqProperties
      <4>. QED
        BY <4>2, <4>3 DEF b
    <3>3. TransceiveList = L
      BY <1>1 DEF L
    <3>4. t = SubSeq(L, 4 - m, 7)
      BY <3>1, <3>3 DEF From
    <3>5. \A i \in 1 .. m + 4 : (4 - m) + i - 1 = 3 - m + i
      BY <2>2
    <3>. QED
      BY <3>2, <3>3, <3>4, <3>5
  <2>7. ASSUME NEW i \in 1 .. m + 4 PROVE (s \o rest)[i] = t[i]
    <3>. HIDE DEF t
    <3>0. i <= m \/ i > m
      BY <2>2
    <3>1. CASE i <= m
      <4>1. 3 - m + i \in {1, 2, 3}
        BY <2>2, <3>1
      <4>2. TransceiveList[3 - m + i] = dummy
        BY <1>1, <4>1
      <4>3. t[i] = dummy
        BY <2>6, <4>2
      <4>4. i \in 1 .. m
        BY <3>1
      <4>. QED
        BY <2>3, <2>5, <4>3, <4>4
    <3>2. CASE i > m
      <4>1. i - m \in {1, 2, 3, 4} /\ 3 - m + i = (i - m) + 3
        BY <2>2, <3>2
      <4>2. rest[1] = a /\ rest[2] = w /\ rest[3] = p /\ rest[4] = dummy
        OBVIOUS
      <4>3. rest[i - m] = TransceiveList[(i - m) + 3]
        BY <1>1, <4>1, <4>2
      <4>4. t[i] = TransceiveList[(i - m) + 3]
        BY <2>6, <4>1
      <4>5. (s \o rest)[i] = rest[i - m]
        BY <2>2, <2>5, <3>2
      <4>. QED
        BY <4>3, <4>4, <4>5
    <3>. QED
      BY <3>0, <3>1, <3>2
  <2>8. s \o rest = t
    <3>. HIDE DEF t, rest
    <3>. QED
      BY <2>5, <2>6, <2>7, SeqEqual
  <2>. QED
    BY <2>1, <2>8 DEF m
<1>4. TransceiveList \in Seq(BusAccess) /\ Len(TransceiveList) = 7
  <2>. HIDE DEF dummy, a, w, p
  <2>. QED
    BY <1>1, <1>2
<1>. QED
  BY <1>3, <1>4

\* A packet.
LEMMA BusPacket ==
    ASSUME NEW t \in Nat
    PROVE  LET s == Bus!PacketSteps(t)
           IN  /\ s \in Seq(BusAccess) /\ Len(s) = 3
               /\ s[1] = [act |-> "poll", reg |-> "SPSR", bit |-> 2, level |-> TRUE,
                          fail |-> "ignore"]
               /\ s[2] = [act |-> "write", reg |-> "SPDR", data |-> 4, fail |-> "stop"]
               /\ s[3] = [act |-> "loop", n |-> (t + 4) % 256]
<1>. DEFINE p == [act |-> "poll", reg |-> "SPSR", bit |-> 2, level |-> TRUE, fail |-> "ignore"]
            w == [act |-> "write", reg |-> "SPDR", data |-> 4, fail |-> "stop"]
            n == (t + 4) % 256
            l == [act |-> "loop", n |-> n]
<1>1. Bus!PacketSteps(t) = << p, w, l >>
  <2>1. /\ Bus!Ignoring(Bus!Poll("SPSR", 2, TRUE)) = p /\ Bus!OrStop(Bus!Write("SPDR", 4)) = w
        /\ Bus!Loop(Bus!Byte(t + 4)) = l
    <3>1. Bus!Ignoring(Bus!Poll("SPSR", 2, TRUE)) = p
      <4>1. \A level : Bus!Ignoring(Bus!Poll("SPSR", 2, level))
                        = [act |-> "poll", reg |-> "SPSR", bit |-> 2, level |-> level,
                           fail |-> "ignore"]
        BY DEF Bus!Ignoring, Bus!Poll
      <4>. QED
        BY <4>1
    <3>2. Bus!OrStop(Bus!Write("SPDR", 4)) = w
      BY DEF Bus!OrStop, Bus!Write
    <3>3. Bus!Loop(Bus!Byte(t + 4)) = l
      BY DEF Bus!Loop, Bus!Byte
    <3>. QED
      BY <3>1, <3>2, <3>3
  <2>. HIDE DEF p, w, l
  <2>. QED
    BY <2>1 DEF Bus!PacketSteps
<1>2. n \in Nat
  OBVIOUS
<1>3. p \in BusAccess
  BY DEF BusAccess, Rules
<1>4. w \in BusAccess
  BY DEF BusAccess, Rules
<1>5. l \in BusAccess
  <2>. HIDE DEF n
  <2>. QED
    BY <1>2 DEF BusAccess
<1>. HIDE DEF p, w, l
<1>6. << p, w, l >> \in Seq(BusAccess) /\ Len(<< p, w, l >>) = 3
  BY <1>3, <1>4, <1>5
<1>7. << p, w, l >>[1] = p /\ << p, w, l >>[2] = w /\ << p, w, l >>[3] = l
  OBVIOUS
<1>. QED
  BY <1>1, <1>6, <1>7 DEF p, w, l

-----------------------------------------------------------------------------
(* Operations of Spi.                                                      *)

\* Between operations the FIFO is in step with the count.
LEMMA BusBetween ==
    ASSUME Aligned, todo = << >>
    PROVE  Settled(members) /\ (call.op \in Transmits => buffer = {core.sent})
<1>1. \A k \in 1 .. 6 : From(ResetList, k) # << >>
  BY BusResetList, FromStep
<1>2. \A k \in 1 .. 7 : From(TransceiveList, k) # << >>
  BY BusTransceiveList, FromStep
<1>. QED
  BY <1>1, <1>2 DEF Aligned, Configuring, Resetting, Transceiving, SendingByte

\* What a call begins with.
LEMMA BusStart ==
    ASSUME BusInv, trouble' = {},
           NEW o, NEW s \in Seq(BusAccess), Bus!StartWith(o, {}, s)
    PROVE  /\ trouble = {} /\ BusType' /\ core' = core /\ call' = o /\ todo' = s
           /\ members' = members /\ before' = core /\ buffer' = {} /\ ok'
           /\ Clean /\ ~Again => Settled(members)
           /\ IsBus(core) /\ members \in Nat
<1>1. trouble = {} /\ todo = << >>
  BY DEF Bus!StartWith
<1>2. Clean /\ ~Again => Settled(members)
  BY <1>1, BusBetween DEF BusInv
<1>3. core' = core /\ members' = members /\ todo' = s /\ success' = TRUE /\ ok' = TRUE
  BY DEF Bus!StartWith
<1>4. BusType'
  BY <1>1, <1>3 DEF BusInv, BusType, IsBus
<1>. QED
  BY <1>1, <1>2, <1>3, <1>4 DEF Bus!StartWith, BusInv, BusType

\* Places of the ring.
LEMMA Mod4 ==
    /\ \A a \in 0 .. 3, n \in Nat : (a + (n % 4)) % 4 = (a + n) % 4
    /\ \A a \in 0 .. 3 : a % 4 = a
    /\ \A n \in Nat : n % 4 \in 0 .. 3
OBVIOUS

\* transceive() or receive() is called.
LEMMA BusTransceive ==
    ASSUME BusInv, trouble' = {}, NEW o \in Transmits, Bus!Transceive(o)
    PROVE  BusInv'
<1>. DEFINE c == [op |-> o, transmittedOnly |-> members]
<1>1. Bus!StartWith(c, {}, Bus!TransceiveSteps(members))
  BY DEF Bus!Transceive, Bus!Start
<1>2. members \in Nat
  BY DEF BusInv, BusType, Bus!Transceive, Bus!Start, Bus!StartWith
<1>3. PICK k \in 1 .. 4 : (members % 4) = 4 - k /\ k = 4 - (members % 4)
  BY <1>2, Mod4
<1>4. /\ Bus!TransceiveSteps(members) = From(TransceiveList, k)
      /\ From(TransceiveList, k) \in Seq(BusAccess)
  <2>1. Bus!TransceiveSteps(members) = From(TransceiveList, k)
    BY <1>2, <1>3, BusTransceiveList
  <2>2. \A i \in k .. 7 : TransceiveList[i] \in BusAccess
    <3>1. \A i \in 1 .. 7 : TransceiveList[i] \in BusAccess
      BY BusTransceiveList, ElementOfSeq
    <3>2. \A i \in k .. 7 : i \in 1 .. 7
      BY <1>3
    <3>. QED
      BY <3>1, <3>2
  <2>3. k \in Int /\ 7 \in Int
    BY <1>3
  <2>4. SubSeq(TransceiveList, k, 7) \in Seq(BusAccess)
    BY <2>2, <2>3, SubSeqProperties
  <2>. QED
    BY <2>1, <2>4, BusTransceiveList DEF From
<1>5. /\ trouble = {} /\ BusType' /\ core' = core /\ call' = c /\ todo' = From(TransceiveList, k)
      /\ members' = members /\ before' = core
      /\ Clean /\ ~Again => Settled(members)
      /\ IsBus(core)
  BY <1>1, <1>4, BusStart
<1>6. ASSUME Settled(members) PROVE TransceiveStage(k)'
  <2>1. CASE Off
    BY <1>5, <2>1 DEF TransceiveStage, Off
  <2>2. CASE On(members)
    <3>1. On(4 - k)'
      <4>1. (core.rp + members) % 4 = (core.wp + Len(core.out)) % 4
        BY <2>2 DEF On
      <4>2. core.rp \in 0 .. 3 /\ 4 - k = members % 4
        BY <1>3, <1>5 DEF IsBus
      <4>3. (core.rp + (4 - k)) % 4 = (core.wp + Len(core.out)) % 4
        BY <1>2, <4>1, <4>2, Mod4
      <4>. QED
        BY <1>5, <2>2, <4>3 DEF On
    <3>2. Behind(k) = 4 - k /\ ~(k >= 5) /\ k \notin {6, 7} /\ (k \in 4 .. 6 => k = 4)
      BY <1>3 DEF Behind
    <3>3. k = 4 => members % 4 = 0
      BY <1>3
    <3>4. before'.out = << >> => Untroubled(k)'
      BY <1>5, <3>2, <3>3 DEF Untroubled, FullRing
    <3>. QED
      BY <3>1, <3>2, <3>4 DEF TransceiveStage
  <2>. QED
    BY <1>6, <2>1, <2>2 DEF Settled
<1>7. Sending'
  BY <1>5 DEF Sending, Transmits
<1>8. Clean /\ ~Again => Aligned'
  <2>. SUFFICES ASSUME Clean /\ ~Again PROVE Aligned'
    OBVIOUS
  <2>1. TransceiveStage(k)' /\ k \in 1 .. 7
    BY <1>3, <1>5, <1>6
  <2>2. Transceiving'
    BY <1>5, <2>1 DEF Transceiving
  <2>3. call'.op \in Transmits
    BY <1>5
  <2>. QED
    BY <2>2, <2>3 DEF Aligned
<1>. QED
  BY <1>5, <1>7, <1>8 DEF BusInv, Clean

\* transmit() of a byte is called.
LEMMA BusTransmitByte ==
    ASSUME BusInv, trouble' = {}, Bus!TransmitByte PROVE BusInv'
<1>. DEFINE c == [op |-> "transmit"]
<1>1. Bus!StartWith(c, {}, << SendByte, CountByte >>)
  <2>1. Bus!OrStop(Bus!Write("SPDR", 1)) = SendByte
    BY DEF Bus!OrStop, Bus!Write, SendByte
  <2>. QED
    BY <2>1 DEF Bus!TransmitByte, Bus!Start, CountByte
<1>2. members \in Nat
  BY <1>1 DEF BusInv, BusType, Bus!StartWith
<1>3. << SendByte, CountByte >> \in Seq(BusAccess)
  <2>1. SendByte \in BusAccess
    BY DEF SendByte, BusAccess, Rules
  <2>2. CountByte \in BusAccess
    <3>1. (members + 1) % 256 \in Nat
      BY <1>2
    <3>. QED
      BY <3>1 DEF CountByte, Bus!Assign, Bus!Byte, BusAccess
  <2>. QED
    BY <2>1, <2>2
<1>4. /\ trouble = {} /\ BusType' /\ core' = core /\ call' = c /\ todo' = << SendByte, CountByte >>
      /\ members' = members
      /\ Clean /\ ~Again => Settled(members)
  BY <1>1, <1>3, BusStart
<1>5. Clean /\ ~Again => Aligned'
  BY <1>4 DEF Aligned, SendingByte, CountByte, Settled, Off, On
<1>6. Sending'
  BY <1>4 DEF Sending
<1>. QED
  BY <1>4, <1>5, <1>6 DEF BusInv, Clean

\* transmit() of a buffer is called.
LEMMA BusTransmit ==
    ASSUME BusInv, trouble' = {}, NEW length \in 0 .. 255, Bus!Transmit(length)
    PROVE  BusInv'
<1>. DEFINE c == [op |-> "transmitBuffer", length |-> length]
            s == IF length > 0 THEN Bus!PacketSteps(0) ELSE << >>
<1>1. Bus!StartWith(c, {}, s)
  BY DEF Bus!Transmit, Bus!Start
<1>2. Bus!PacketSteps(0) \in Seq(BusAccess) /\ Len(Bus!PacketSteps(0)) = 3
  BY BusPacket
<1>3. s \in Seq(BusAccess)
  BY <1>2
<1>4. /\ trouble = {} /\ BusType' /\ core' = core /\ call' = c /\ todo' = s
      /\ members' = members /\ before' = core
      /\ Clean /\ ~Again => Settled(members)
      /\ IsBus(core)
  <2>. HIDE DEF s
  <2>. QED
    BY <1>1, <1>3, BusStart
<1>5. Settled(members) => Settled(members)'
  BY <1>4 DEF Settled, Off, On
<1>6. CASE length = 0
  <2>1. todo' = << >>
    BY <1>4, <1>6
  <2>2. Sending'
    BY <1>4, <2>1 DEF Sending, IsBus
  <2>3. Clean /\ ~Again => Aligned'
    BY <1>4, <1>5, <2>1 DEF Aligned, Transmits
  <2>. QED
    BY <1>4, <2>2, <2>3 DEF BusInv, Clean
<1>7. CASE length > 0
  <2>1. todo' = From(Bus!PacketSteps(0), 1) /\ todo' # << >>
    BY <1>2, <1>4, <1>7, FromStart
  <2>2. SentSince(0)'
    BY <1>4 DEF SentSince, IsBus
  <2>3. SendingBuffer'
    BY <1>4, <1>7, <2>1, <2>2 DEF SendingBuffer
  <2>4. Sending'
    BY <1>4, <2>3 DEF Sending, IsBus
  <2>5. Clean /\ ~Again => Aligned'
    BY <1>4, <1>5, <2>1 DEF Aligned
  <2>. QED
    BY <1>4, <2>4, <2>5 DEF BusInv, Clean
<1>. QED
  BY <1>6, <1>7

\* resetBuffers() is called.
LEMMA BusReset ==
    ASSUME BusInv, trouble' = {}, Bus!ResetBuffers PROVE BusInv'
<1>1. Bus!StartWith([op |-> "resetBuffers"], {}, ResetList)
  BY BusResetList DEF Bus!ResetBuffers, Bus!Start
<1>2. /\ trouble = {} /\ BusType' /\ core' = core /\ call' = [op |-> "resetBuffers"]
      /\ todo' = ResetList /\ ok'
  BY <1>1, BusResetList, BusStart
<1>3. ResetList = From(ResetList, 1)
  BY BusResetList, FromStart
<1>4. Resetting'
  BY <1>2, <1>3 DEF Resetting
<1>. QED
  BY <1>2, <1>4 DEF BusInv, Clean, Aligned, Sending

\* init() is called ...
LEMMA BusInitialize ==
    ASSUME BusInv, trouble' = {}, NEW mode, NEW speed, Bus!Initialize(mode, speed)
    PROVE  BusInv'
<1>. DEFINE c == [op |-> "init", mode |-> mode, speed |-> speed]
<1>1. PICK s : /\ Bus!StartWith(c, {}, s) /\ (Again \/ members = 0)
               /\ s \in Seq(InitAccess) /\ Len(s) >= 2 /\ s[1].act = "read" /\ s[2] = Disabling
               /\ s[Len(s)] = Enabling
  <2>. DEFINE m == Bus!SPI_MODE[mode]
              p == Bus!CLOCK_SPEED[speed]
              s == SettingList(m.cpha, m.cpol, 0 \in p[1], 1 \in p[1], 0 \in p[2], 1 \in p[2])
  <2>1. Bus!StartWith(c, {}, s) /\ (Again \/ members = 0)
    BY DEF Bus!Initialize, Bus!Start, SettingList
  <2>2. /\ s \in Seq(InitAccess) /\ Len(s) >= 2 /\ s[1].act = "read" /\ s[2] = Disabling
        /\ s[Len(s)] = Enabling
    <3>1. IsSetting(s)
      BY BusInitList, Zenon
    <3>. QED
      BY <3>1 DEF IsSetting
  <2>. HIDE DEF s
  <2>. QED
    BY <2>1, <2>2
<1>2. s \in Seq(BusAccess)
  BY <1>1, BusInitSteps
<1>3. /\ trouble = {} /\ BusType' /\ core' = core /\ call' = c /\ todo' = s
      /\ members' = members
  BY <1>1, <1>2, BusStart
<1>4. Len(s) > 2
  <2>1. Disabling # Enabling
    BY DEF Disabling, Enabling
  <2>2. Len(s) # 2
    BY <1>1, <2>1
  <2>. DEFINE n == Len(s)
  <2>3. n \in Nat /\ n >= 2 /\ n # 2
    BY <1>1, <2>2
  <2>. HIDE DEF n
  <2>4. n > 2
    BY <2>3
  <2>. QED
    BY <2>4 DEF n
<1>5. ~Again => Configuring'
  BY <1>1, <1>3, <1>4 DEF Configuring
<1>. QED
  BY <1>3, <1>5 DEF BusInv, Clean, Aligned, Sending

\* ... with a mode or a speed of no enumeration.
LEMMA BusRefused ==
    ASSUME BusInv, trouble' = {}, Bus!InitializeRefused PROVE BusInv'
<1>. DEFINE c == [op |-> "init", mode |-> "none", speed |-> "none"]
<1>1. Bus!StartWith(c, {}, << Bus!ReturnFalse >>)
  BY DEF Bus!InitializeRefused, Bus!Refuse, Bus!Start
<1>2. << Bus!ReturnFalse >> \in Seq(BusAccess)
  <2>1. Bus!ReturnFalse \in BusAccess
    BY DEF Bus!ReturnFalse, Bus!Require, BusAccess
  <2>. QED
    BY <2>1
<1>3. /\ trouble = {} /\ BusType' /\ core' = core /\ call' = c /\ todo' = << Bus!ReturnFalse >>
      /\ members' = members
      /\ Clean /\ ~Again => Settled(members)
  BY <1>1, <1>2, BusStart
<1>. QED
  BY <1>3 DEF BusInv, Clean, Aligned, Sending, Settled, Off, On

\* An operation is called.
LEMMA BusCall ==
    ASSUME BusInv, CoresAssumption, Bus!Call PROVE BusInv'
<1>. SUFFICES ASSUME trouble' = {} PROVE BusInv'
  BY DEF BusInv
<1>. QED
  BY BusTransceive, BusTransmitByte, BusTransmit, BusReset, BusInitialize, BusRefused
     DEF Bus!Call, Transmits, CoresAssumption

\* No step leaves the types.
LEMMA BusTyped == ASSUME BusType, Bus!Host, trouble' = {} PROVE BusType'
<1>. DEFINE a == Head(todo)
<1>1. a \in BusAccess /\ Tail(todo) \in Seq(BusAccess) /\ todo # << >>
  BY BusFine, HeadTailProperties DEF BusType
<1>. USE DEF BusType, Same
<1>2. CASE a.act = "read"
  <2>1. a = [act |-> "read", reg |-> a.reg, fail |-> a.fail]
    BY <1>1, <1>2 DEF BusAccess
  <2>2. core' = Bus!AfterRead(core, a.reg) /\ todo' = Tail(todo) /\ members' = members /\ Same
    BY <2>1, BusRead
  <2>. QED
    BY <1>1, <2>2, BusAccessed
<1>3. CASE a.act = "write"
  <2>1. a = [act |-> "write", reg |-> "SPDR", data |-> a.data, fail |-> a.fail] /\ a.data \in Nat
    BY <1>1, <1>3 DEF BusAccess
  <2>2. /\ core' = Bus!AfterWrite(core, "SPDR", a.data) /\ todo' = Tail(todo)
        /\ members' = members /\ Same
    BY <2>1, BusWrite
  <2>. QED
    BY <1>1, <2>1, <2>2, BusAccessed
<1>4. CASE a.act = "back"
  <2>1. /\ a = [act |-> "back", reg |-> a.reg, on |-> a.on, off |-> a.off, fail |-> a.fail]
        /\ a.reg \in {"SPCR", "SPER"}
    BY <1>1, <1>4 DEF BusAccess, BusRegisters
  <2>2. /\ core' = Bus!AfterWrite(core, a.reg, Changed(buffer, a.on, a.off)) /\ todo' = Tail(todo)
        /\ members' = members /\ Same
    BY <2>1, BusBack
  <2>3. IsBus(core')
    BY <2>1, <2>2, BusAccessed
  <2>. QED
    BY <1>1, <2>2, <2>3
<1>5. CASE a.act = "poll"
  <2>1. /\ a = [act |-> "poll", reg |-> "SPSR", bit |-> a.bit, level |-> a.level, fail |-> a.fail]
        /\ a.level \in BOOLEAN
    BY <1>1, <1>5 DEF BusAccess
  <2>2. core' = core /\ todo' \in {todo, Tail(todo)} /\ members' = members /\ Same
    BY <2>1, BusPoll
  <2>. QED
    BY <1>1, <2>2 DEF IsBus
<1>6. CASE a.act \in {"assign", "check", "require"}
  <2>1. a.act = "assign" => a.to \in Nat
    BY <1>1 DEF BusAccess
  <2>2. << >> \in Seq(BusAccess)
    OBVIOUS
  <2>. QED
    BY <1>1, <1>6, <2>1, <2>2, BusLocal DEF IsBus
<1>7. a.act # "loop"
  BY BusFine DEF Bus!Access, Bus!ExchangeSucceeds, Bus!Exchange, Bus!LocalStep, Bus!Local
<1>8. a.act \in {"read", "write", "back", "poll", "assign", "check", "require"}
  BY <1>1, <1>7 DEF BusAccess
<1>. QED
  BY <1>2, <1>3, <1>4, <1>5, <1>6, <1>8

\* A core that was never enabled stays so, ...
LEMMA BusOff ==
    ASSUME Off, IsBus(core),
           \/ \E r : core' = Bus!AfterRead(core, r)
           \/ \E v : core' = Bus!AfterWrite(core, "SPDR", v)
           \/ core' = core
    PROVE  Off' /\ (core'.early <=> core.early)
<1>1. CASE core' = core
  BY <1>1 DEF Off
<1>2. ASSUME NEW v, core' = Bus!AfterWrite(core, "SPDR", v) PROVE core' = core
  BY <1>2 DEF Bus!AfterWrite, Off
<1>3. ASSUME NEW r, core' = Bus!AfterRead(core, r), r # "SPDR" PROVE core' = core
  BY <1>3 DEF Bus!AfterRead
<1>4. ASSUME core' = Bus!AfterRead(core, "SPDR") PROVE Off' /\ (core'.early <=> core.early)
  <2>. DEFINE e == core.early \/ core.out # << >>
              p == (core.rp + 1) % 4
  <2>1. core' = [core EXCEPT !.rp = p, !.full = FALSE, !.early = e]
    BY <1>4 DEF Bus!AfterRead, Bus!FIFO
  <2>2. core.out = << >>
    BY DEF Off
  <2>. HIDE DEF e, p
  <2>3. /\ core'.SPCR = core.SPCR /\ core'.out = core.out /\ core'.sent = core.sent
        /\ core'.ring = core.ring /\ core'.full = FALSE /\ core'.early = e
    BY <2>1 DEF IsBus, BusFields
  <2>4. core'.early <=> core.early
    BY <2>2, <2>3, Zenon DEF e
  <2>. QED
    BY <2>3, <2>4 DEF Off
<1>. QED
  BY <1>1, <1>2, <1>3, <1>4

\* ... and holds nothing.
LEMMA BusOffRead == ASSUME Off, IsBus(core) PROVE Bus!Value(core, "SPDR") = {core.sent}
BY DEF Off, IsBus, Bus!Value

\* A read of the receive FIFO.
LEMMA FifoRead ==
    ASSUME NEW c, IsBus(c), NEW d, d = Bus!AfterRead(c, "SPDR")
    PROVE  /\ d.rp = (c.rp + 1) % 4 /\ ~d.full /\ d.out = c.out /\ d.wp = c.wp /\ d.ring = c.ring
           /\ d.SPCR = c.SPCR /\ d.sent = c.sent /\ d.lost = c.lost
           /\ (c.early => d.early) /\ (c.out # << >> => d.early)
           /\ ~c.early /\ c.out = << >> => ~d.early
<1>. DEFINE e == c.early \/ c.out # << >>
            p == (c.rp + 1) % 4
<1>1. d = [c EXCEPT !.rp = p, !.full = FALSE, !.early = e]
  BY DEF Bus!AfterRead, Bus!FIFO
<1>. HIDE DEF e, p
<1>2. /\ d.rp = p /\ d.full = FALSE /\ d.out = c.out /\ d.wp = c.wp /\ d.ring = c.ring
      /\ d.SPCR = c.SPCR /\ d.sent = c.sent /\ d.early = e /\ d.lost = c.lost
  BY <1>1 DEF IsBus, BusFields
<1>3. (c.early => d.early) /\ (c.out # << >> => d.early) /\ (~c.early /\ c.out = << >> => ~d.early)
  BY <1>2, Zenon DEF e
<1>. QED
  BY <1>2, <1>3 DEF p

\* n bytes written to the transmit FIFO.
LEMMA FifoWritten ==
    ASSUME NEW c, IsBus(c), 6 \in c.SPCR, NEW n \in Nat,
           NEW d, d = Bus!AfterWrite(c, "SPDR", n)
    PROVE  /\ d.rp = c.rp /\ d.wp = c.wp /\ d.full = c.full /\ d.ring = c.ring
           /\ d.SPCR = c.SPCR /\ d.early = c.early
           /\ c.lost => d.lost
           /\ ~d.lost => Len(c.out) + n <= 4
           /\ Len(c.out) + n <= 4 => /\ d.sent = c.sent + n /\ Len(d.out) = Len(c.out) + n
                                     /\ d.lost = c.lost
           /\ n = 1 /\ Len(c.out) + n <= 4 => d.out[Len(d.out)] = d.sent
<1>1. d = Bus!Filled(c, n)
  BY DEF Bus!AfterWrite
<1>. QED
  BY <1>1, FifoFilled

\* SPCR written: without bit 6 the FIFOs are cleared.
LEMMA FifoCleared ==
    ASSUME NEW c, IsBus(c), NEW r \in BusRegisters, NEW v, NEW d, d = Bus!AfterWrite(c, r, v)
    PROVE  /\ d.early = c.early /\ d.lost = c.lost
           /\ r = "SPCR" => d.SPCR = v
           /\ r = "SPCR" /\ 6 \notin v => d.out = << >> /\ ~d.full /\ d.wp = 0 /\ d.rp = 0
           /\ r # "SPCR" \/ 6 \in v => /\ d.out = c.out /\ d.wp = c.wp /\ d.rp = c.rp
                                       /\ d.full = c.full
<1>1. CASE r = "SPER"
  BY <1>1 DEF Bus!AfterWrite, IsBus, BusFields
<1>2. CASE r = "SPCR" /\ 6 \in v
  BY <1>2 DEF Bus!AfterWrite, IsBus, BusFields
<1>3. CASE r = "SPCR" /\ 6 \notin v
  <2>1. d = Bus!Cleared([c EXCEPT !.SPCR = v])
    BY <1>3 DEF Bus!AfterWrite
  <2>. QED
    BY <1>3, <2>1 DEF Bus!Cleared, IsBus, BusFields
<1>. QED
  BY <1>1, <1>2, <1>3 DEF BusRegisters

\* One byte more on both sides.
LEMMA OneMore ==
    \A a, b, c, d \in Nat : (a + b) % 4 = (c + d) % 4 => (a + (b + 1)) % 4 = (c + (d + 1)) % 4
<1>. TAKE a, b, c, d \in Nat
<1>. DEFINE x == a + b
            y == c + d
<1>1. x \in Nat /\ y \in Nat /\ a + (b + 1) = x + 1 /\ c + (d + 1) = y + 1
  OBVIOUS
<1>. HIDE DEF x, y
<1>2. x % 4 = y % 4 => (x + 1) % 4 = (y + 1) % 4
  BY <1>1
<1>. QED
  BY <1>1, <1>2 DEF x, y

\* transceive() and receive().
LEMMA BusTransceiving ==
    ASSUME BusType, call.op \in Transmits, Transceiving, Bus!Host, trouble' = {}
    PROVE  /\ core'.early => core.early \/ FullRing \/ before.out # << >>
           /\ Clean' => Aligned'
           /\ todo' = << >> => core'.sent = core.sent
<1>. DEFINE s == TransceiveList
            dummy == [act |-> "read", reg |-> "SPDR", fail |-> "stop"]
            x == [act |-> "write", reg |-> "SPDR", data |-> 1, fail |-> "stop"]
            p == [act |-> "poll", reg |-> "SPSR", bit |-> 0, level |-> FALSE, fail |-> "stop"]
<1>1. PICK k \in 1 .. 7 : todo = From(s, k) /\ TransceiveStage(k)
  BY DEF Transceiving
<1>2. Head(todo) = s[k] /\ Tail(todo) = From(s, k + 1)
  BY <1>1, BusTransceiveList, FromStep
<1>3. /\ s[1] = dummy /\ s[2] = dummy /\ s[3] = dummy /\ s[4] = Bus!Assign(0)
      /\ s[5] = x /\ s[6] = p /\ s[7] = dummy
  BY DEF TransceiveList
<1>4. From(s, 8) = << >>
  <2>1. Len(s) + 1 = 8
    BY BusTransceiveList
  <2>2. From(s, Len(s) + 1) = << >>
    BY BusTransceiveList, FromEnd
  <2>. HIDE DEF s
  <2>. QED
    BY <2>1, <2>2
<1>. HIDE DEF s
<1>5. ASSUME call' = call, NEW j \in 1 .. 7, todo' = From(s, j), TransceiveStage(j)' PROVE Aligned'
  BY <1>5 DEF Aligned, Transceiving, s
<1>5a. \A j \in 1 .. 7 : From(s, j) # << >>
  BY BusTransceiveList, FromStep DEF s
<1>6. call' = call /\ before' = before
         => FullRing' = FullRing /\ (before'.out = << >> <=> before.out = << >>)
  BY DEF FullRing
<1>7. IsBus(core) /\ members \in Nat /\ todo \in Seq(BusAccess) /\ success = TRUE
  BY DEF BusType
<1>7a. core.rp \in 0 .. 3 /\ core.wp \in 0 .. 3 /\ Len(core.out) \in Nat
  BY <1>7 DEF IsBus
<1>8. CASE k \in {1, 2, 3}
  <2>1. /\ core' = Bus!AfterRead(core, "SPDR") /\ todo' = From(s, k + 1)
        /\ members' = members /\ call' = call /\ before' = before
    BY <1>2, <1>3, <1>8, BusRead DEF Same
  <2>2. CASE Off
    <3>1. Off' /\ (core'.early <=> core.early)
      BY <1>7, <2>1, <2>2, BusOff
    <3>. QED
      BY <1>5, <1>5a, <1>8, <2>1, <3>1 DEF TransceiveStage
  <2>3. CASE ~Off
    <3>1. On(4 - k) /\ (before.out = << >> => core.out = << >>)
      BY <1>1, <1>8, <2>3 DEF TransceiveStage, Untroubled, Behind
    <3>2. /\ core'.rp = (core.rp + 1) % 4 /\ ~core'.full /\ core'.out = core.out
          /\ core'.wp = core.wp /\ core'.SPCR = core.SPCR
          /\ (core.early => core'.early) /\ (~core.early /\ core.out = << >> => ~core'.early)
      BY <1>7, <2>1, FifoRead
    <3>3. On(4 - (k + 1))'
      <4>. DEFINE w == (core.wp + Len(core.out)) % 4
                  r == core.rp
      <4>1. (r + (4 - k)) % 4 = w /\ r \in 0 .. 3
        BY <1>7a, <3>1 DEF On
      <4>. HIDE DEF w, r
      <4>2. (((r + 1) % 4) + (4 - (k + 1))) % 4 = w
        BY <1>8, <4>1
      <4>. QED
        BY <3>1, <3>2, <4>2 DEF On, w, r
    <3>4. TransceiveStage(k + 1)'
      <4>1. k + 1 \in 1 .. 4 /\ ~(k + 1 >= 5) /\ k + 1 \notin {6, 7}
            /\ Behind(k + 1) = 4 - (k + 1)
        BY <1>8 DEF Behind
      <4>. QED
        BY <1>6, <2>1, <3>1, <3>2, <3>3, <4>1 DEF TransceiveStage, Untroubled
    <3>. QED
      BY <1>5, <1>5a, <1>8, <2>1, <3>1, <3>2, <3>4
  <2>. QED
    BY <2>2, <2>3
<1>9. CASE k = 4
  <2>0. Head(todo) = s[4] /\ Tail(todo) = From(s, 5)
    <3>1. k + 1 = 5
      BY <1>9
    <3>. QED
      BY <1>2, <1>9, <3>1
  <2>1. Head(todo) = [act |-> "assign", to |-> 0]
    BY <1>3, <2>0 DEF Bus!Assign
  <2>2. /\ core' = core /\ todo' = From(s, 5) /\ members' = 0 /\ call' = call /\ before' = before
    <3>1. /\ Head(todo).act = "assign" /\ Head(todo).to = 0
          /\ Head(todo).act \in {"assign", "check", "require"}
      BY <2>1
    <3>2. /\ core' = core /\ call' = call /\ before' = before /\ todo' = Tail(todo)
          /\ members' = IF Head(todo).act = "assign" THEN Head(todo).to ELSE members
      BY <1>7, <3>1, BusLocal
    <3>. QED
      BY <2>0, <3>1, <3>2
  <2>3. TransceiveStage(5)'
    <3>1. CASE Off
      BY <2>2, <3>1 DEF TransceiveStage, Off
    <3>2. CASE ~Off
      <4>1. On(0) /\ (before.out = << >> => core.out = << >> /\ (core.full => FullRing))
        BY <1>1, <1>9, <3>2 DEF TransceiveStage, Untroubled, Behind
      <4>2. On(0)'
        BY <2>2, <4>1 DEF On
      <4>3. Behind(5) = 0 /\ 5 \notin {6, 7} /\ (before'.out = << >> => Untroubled(5)')
        BY <1>6, <2>2, <4>1 DEF Behind, Untroubled
      <4>. QED
        BY <2>2, <4>2, <4>3 DEF TransceiveStage
    <3>. QED
      BY <3>1, <3>2
  <2>. QED
    BY <1>5, <1>5a, <2>2, <2>3
<1>10. CASE k = 5
  <2>0. Head(todo) = s[5] /\ Tail(todo) = From(s, 6)
    <3>1. k + 1 = 6
      BY <1>10
    <3>. QED
      BY <1>2, <1>10, <3>1
  <2>1. /\ core' = Bus!AfterWrite(core, "SPDR", 1) /\ todo' = From(s, 6) /\ members' = members
        /\ call' = call /\ before' = before
    BY <1>3, <2>0, BusWrite DEF Same
  <2>2. CASE Off
    <3>1. Off' /\ (core'.early <=> core.early)
      BY <1>7, <2>1, <2>2, BusOff
    <3>. QED
      BY <1>5, <1>5a, <2>1, <3>1 DEF TransceiveStage
  <2>3. CASE ~Off
    <3>1. /\ On(0) /\ members = 0
          /\ before.out = << >> => core.out = << >> /\ (core.full => FullRing)
      BY <1>1, <1>10, <2>3 DEF TransceiveStage, Untroubled, Behind
    <3>2. /\ core'.rp = core.rp /\ core'.wp = core.wp /\ core'.full = core.full
          /\ core'.SPCR = core.SPCR /\ core'.early = core.early
          /\ ~core'.lost => /\ Len(core'.out) = Len(core.out) + 1
                           /\ core'.out[Len(core'.out)] = core'.sent
      BY <1>7, <2>1, <3>1, FifoWritten DEF On
    <3>3. ASSUME Clean' PROVE TransceiveStage(6)'
      <4>1. Len(core'.out) = Len(core.out) + 1 /\ LastIn'
        <5>1. Len(core'.out) = Len(core.out) + 1 /\ core'.out[Len(core'.out)] = core'.sent
          BY <3>2, <3>3 DEF Clean
        <5>2. core'.out # << >>
          BY <1>7a, <5>1
        <5>. QED
          BY <5>1, <5>2 DEF LastIn
      <4>2. On(1)'
        <5>. DEFINE l == Len(core.out)
                    w == core.wp
                    r == core.rp
        <5>1. (r + 0) % 4 = (w + l) % 4 /\ r \in 0 .. 3 /\ w \in 0 .. 3 /\ l \in Nat
          BY <1>7a, <3>1 DEF On
        <5>. HIDE DEF l, w, r
        <5>2. (r + 1) % 4 = (w + (l + 1)) % 4
          BY <5>1, OneMore
        <5>. QED
          BY <3>1, <3>2, <4>1, <5>2 DEF On, l, w, r
      <4>3. before'.out = << >> => Untroubled(6)'
        <5>. SUFFICES ASSUME before.out = << >> PROVE Untroubled(6)'
          BY <2>1
        <5>1. core.out = << >> /\ (core.full => FullRing) /\ Len(core.out) = 0
          BY <3>1
        <5>2. core.rp = core.wp
          <6>1. (core.rp + 0) % 4 = (core.wp + 0) % 4
            BY <3>1, <5>1 DEF On
          <6>2. core.rp + 0 = core.rp /\ core.wp + 0 = core.wp
            BY <1>7a
          <6>. QED
            BY <1>7a, <6>1, <6>2, Mod4
        <5>. QED
          BY <1>6, <2>1, <3>2, <4>1, <5>1, <5>2 DEF Untroubled
      <4>4. Behind(6) = 1 /\ 6 >= 5
        BY DEF Behind
      <4>. QED
        BY <2>1, <3>1, <4>1, <4>2, <4>3, <4>4 DEF TransceiveStage
    <3>. QED
      BY <1>5, <1>5a, <2>1, <3>2, <3>3
  <2>. QED
    BY <2>2, <2>3
<1>11. CASE k = 6
  <2>0. Head(todo) = s[6] /\ Tail(todo) = From(s, 7)
    <3>1. k + 1 = 7
      BY <1>11
    <3>. QED
      BY <1>2, <1>11, <3>1
  <2>1. /\ core' = core /\ members' = members /\ call' = call /\ before' = before
        /\ \/ todo' = todo
           \/ todo' = From(s, 7) /\ 0 \notin Bus!Status(core)
    BY <1>3, <1>7, <2>0, BusPoll DEF Same
  <2>2. CASE todo' = todo
    <3>1. TransceiveStage(6)'
      BY <1>1, <1>6, <1>11, <2>1 DEF TransceiveStage, Off, On, Untroubled, LastIn
    <3>. QED
      BY <1>1, <1>5, <1>11, <2>1, <2>2, <3>1
  <2>3. CASE todo' = From(s, 7) /\ 0 \notin Bus!Status(core)
    <3>1. TransceiveStage(7)'
      <4>1. CASE Off
        BY <2>1, <4>1 DEF TransceiveStage, Off
      <4>2. CASE ~Off
        <5>1. core.wp # core.rp \/ core.full
          BY <2>3 DEF Bus!Status, Bus!Empty
        <5>2. On(1) /\ members = 0 /\ LastIn /\ (before.out = << >> => Untroubled(6))
          BY <1>1, <1>11, <4>2 DEF TransceiveStage, Behind
        <5>3. On(1)' /\ members' = 0 /\ LastIn' /\ Behind(7) = 1
          BY <2>1, <5>2 DEF On, LastIn, Behind
        <5>4. before'.out = << >> => Untroubled(7)'
          BY <1>6, <2>1, <5>1, <5>2 DEF Untroubled
        <5>. QED
          BY <5>3, <5>4 DEF TransceiveStage
      <4>. QED
        BY <4>1, <4>2
    <3>. QED
      BY <1>5, <2>1, <2>3, <3>1
  <2>. QED
    BY <2>1, <2>2, <2>3
<1>12. CASE k = 7
  <2>0. Head(todo) = s[7] /\ Tail(todo) = From(s, 8)
    <3>1. k + 1 = 8
      BY <1>12
    <3>. QED
      BY <1>2, <1>12, <3>1
  <2>1. /\ core' = Bus!AfterRead(core, "SPDR") /\ buffer' = Bus!Value(core, "SPDR")
        /\ todo' = << >> /\ members' = members /\ call' = call
    BY <1>3, <1>4, <2>0, BusRead DEF Same
  <2>2. CASE Off
    <3>1. Off' /\ (core'.early <=> core.early)
      BY <1>7, <2>1, <2>2, BusOff
    <3>2. buffer' = {core'.sent}
      BY <1>7, <2>1, <2>2, <3>1, BusOffRead DEF Off
    <3>. QED
      BY <2>1, <2>2, <3>1, <3>2 DEF Aligned, Settled, Off
  <2>3. CASE ~Off
    <3>1. /\ On(1) /\ members = 0 /\ LastIn
          /\ before.out = << >> /\ core.out # << >> => FullRing
      BY <1>1, <1>12, <2>3 DEF TransceiveStage, Untroubled, Behind
    <3>2. /\ core'.rp = (core.rp + 1) % 4 /\ core'.out = core.out /\ core'.wp = core.wp
          /\ core'.SPCR = core.SPCR /\ core'.sent = core.sent
          /\ (core.out # << >> => core'.early)
          /\ (~core.early /\ core.out = << >> => ~core'.early)
      BY <1>7, <2>1, FifoRead
    <3>3. core'.early => core.early \/ FullRing \/ before.out # << >>
      BY <3>1, <3>2
    <3>4. ASSUME Clean' PROVE Aligned'
      <4>1. core.out = << >> /\ core.ring[core.rp] = core.sent
        BY <3>1, <3>2, <3>4 DEF LastIn, Clean
      <4>2. buffer' = {core'.sent}
        BY <2>1, <3>2, <4>1 DEF Bus!Value
      <4>3. On(members)'
        <5>1. (core.rp + 1) % 4 = (core.wp + Len(core.out)) % 4 /\ members' = 0
          BY <2>1, <3>1 DEF On
        <5>2. (core.rp + 1) % 4 \in 0 .. 3 /\ ((core.rp + 1) % 4) + 0 = (core.rp + 1) % 4
          BY <1>7a
        <5>3. (((core.rp + 1) % 4) + 0) % 4 = (core.rp + 1) % 4
          BY <5>2, Mod4
        <5>. QED
          BY <3>1, <3>2, <5>1, <5>3 DEF On
      <4>. QED
        BY <2>1, <4>2, <4>3 DEF Aligned, Settled
    <3>. QED
      BY <2>1, <3>2, <3>3, <3>4
  <2>. QED
    BY <2>2, <2>3
<1>. QED
  BY <1>8, <1>9, <1>10, <1>11, <1>12

\* A list of more than one step without its first.
LEMMA Rest ==
    ASSUME NEW S, NEW s \in Seq(S), Len(s) > 1
    PROVE  /\ Tail(s) \in Seq(S) /\ Len(Tail(s)) = Len(s) - 1
           /\ Tail(s)[Len(Tail(s))] = s[Len(s)] /\ Tail(s)[1] = s[2] /\ Head(s) = s[1]
<1>1. s # << >> /\ Len(s) \in Nat
  OBVIOUS
<1>2. /\ Tail(s) \in Seq(S) /\ Len(Tail(s)) = Len(s) - 1 /\ Head(s) = s[1]
      /\ \A i \in 1 .. Len(s) - 1 : Tail(s)[i] = s[i + 1]
  BY <1>1, HeadTailProperties
<1>3. Len(s) - 1 \in 1 .. Len(s) - 1 /\ 1 \in 1 .. Len(s) - 1
      /\ (Len(s) - 1) + 1 = Len(s) /\ 1 + 1 = 2
  BY <1>1
<1>. QED
  BY <1>2, <1>3

\* init().
LEMMA BusConfiguring ==
    ASSUME BusType, call.op = "init", Configuring, Bus!Host, trouble' = {}
    PROVE  Aligned' /\ (core'.early <=> core.early)
<1>. DEFINE a == Head(todo)
<1>1. IsBus(core) /\ todo \in Seq(InitAccess) /\ todo # << >> /\ Len(todo) \in Nat /\ a = todo[1]
  BY HeadTailProperties DEF BusType, Configuring
<1>2. a \in InitAccess
  BY <1>1, HeadTailProperties
<1>3. Len(todo) > 1 => /\ Tail(todo) \in Seq(InitAccess) /\ Len(Tail(todo)) > 0
                       /\ Tail(todo)[Len(Tail(todo))] = Enabling /\ Tail(todo)[1] = todo[2]
                       /\ Len(Tail(todo)) = Len(todo) - 1
  BY <1>1, Rest DEF Configuring
<1>4. CASE a.act = "read"
  <2>1. a = [act |-> "read", reg |-> a.reg, fail |-> a.fail] /\ a.reg \in BusRegisters
    BY <1>2, <1>4 DEF InitAccess
  <2>2. /\ core' = Bus!AfterRead(core, a.reg) /\ todo' = Tail(todo) /\ members' = members
        /\ call' = call
    BY <2>1, BusRead DEF Same
  <2>3. core' = core
    BY <2>1, <2>2 DEF Bus!AfterRead, BusRegisters
  <2>4. Len(todo) > 1
    BY <1>1, <1>4 DEF Configuring, Enabling
  <2>5. todo[1] # Disabling
    BY <1>1, <1>4 DEF Disabling
  <2>6. CASE Emptied
    BY <1>3, <2>2, <2>3, <2>4, <2>6 DEF Aligned, Configuring, Emptied
  <2>7. CASE Len(todo) > 2 /\ todo[2] = Disabling
    <3>1. Len(todo') > 1 /\ todo'[1] = Disabling
      BY <1>1, <1>3, <2>2, <2>7
    <3>. QED
      BY <1>3, <2>2, <2>3, <2>4, <3>1 DEF Aligned, Configuring
  <2>. QED
    BY <2>5, <2>6, <2>7 DEF Configuring
<1>5. CASE a.act = "back"
  <2>. DEFINE v == Changed(buffer, a.on, a.off)
  <2>1. /\ a = [act |-> "back", reg |-> a.reg, on |-> a.on, off |-> a.off, fail |-> a.fail]
        /\ a.reg \in BusRegisters
    BY <1>2, <1>5 DEF InitAccess
  <2>2. /\ core' = Bus!AfterWrite(core, a.reg, v) /\ todo' = Tail(todo) /\ members' = members
        /\ call' = call
    BY <2>1, BusBack DEF Same
  <2>3. a = Disabling => a.reg = "SPCR" /\ 6 \notin v
    BY DEF Disabling, Changed
  <2>4. a = Enabling => a.reg = "SPCR" /\ 6 \in v
    BY DEF Enabling, Changed
  <2>. HIDE DEF v
  <2>5. /\ core'.early = core.early
        /\ a.reg = "SPCR" => core'.SPCR = v
        /\ a.reg = "SPCR" /\ 6 \notin v
              => core'.out = << >> /\ ~core'.full /\ core'.wp = 0 /\ core'.rp = 0
        /\ a.reg # "SPCR" \/ 6 \in v
              => /\ core'.out = core.out /\ core'.wp = core.wp /\ core'.rp = core.rp
                 /\ core'.full = core.full
    BY <1>1, <2>1, <2>2, FifoCleared
  <2>6. Emptied'
    BY <1>1, <1>5, <2>3, <2>5 DEF Configuring, Emptied
  <2>7. CASE Len(todo) > 1
    <3>1. Configuring'
      BY <1>3, <2>2, <2>6, <2>7 DEF Configuring
    <3>. QED
      BY <2>2, <2>5, <3>1 DEF Aligned
  <2>8. CASE Len(todo) = 1
    <3>1. a = Enabling
      BY <1>1, <2>8 DEF Configuring
    <3>2. todo' = << >>
      <4>1. Len(Tail(todo)) = 0 /\ Tail(todo) \in Seq(InitAccess)
        BY <1>1, <2>8, HeadTailProperties
      <4>. QED
        BY <2>2, <4>1, EmptySeq
    <3>3. On(members)'
      <4>1. members' = 0
        BY <2>2 DEF Configuring
      <4>2. 6 \in core'.SPCR
        BY <2>4, <2>5, <3>1
      <4>. QED
        BY <2>6, <4>1, <4>2 DEF On, Emptied
    <3>. QED
      BY <2>2, <2>5, <3>2, <3>3 DEF Aligned, Settled, Transmits
  <2>9. Len(todo) > 1 \/ Len(todo) = 1
    <3>. DEFINE n == Len(todo)
    <3>1. n > 0 /\ n \in Nat
      BY <1>1 DEF Configuring
    <3>. HIDE DEF n
    <3>2. n > 1 \/ n = 1
      BY <3>1
    <3>. QED
      BY <3>2 DEF n
  <2>. QED
    BY <2>7, <2>8, <2>9
<1>. QED
  BY <1>2, <1>4, <1>5 DEF InitAccess

\* resetBuffers().
LEMMA BusResetting ==
    ASSUME BusType, call.op = "resetBuffers", Resetting, Bus!Host, trouble' = {}
    PROVE  Aligned' /\ (core'.early <=> core.early)
<1>. DEFINE s == ResetList
            read == [act |-> "read", reg |-> "SPCR", fail |-> "skip"]
<1>1. PICK k \in 1 .. 6 : /\ todo = From(s, k) /\ ok
                          /\ k >= 3 => Emptied
                          /\ k >= 5 => 6 \in core.SPCR
  BY DEF Resetting
<1>2. Head(todo) = s[k] /\ Tail(todo) = From(s, k + 1)
  BY <1>1, BusResetList, FromStep
<1>3. /\ s[1] = read /\ s[2] = Disabling /\ s[3] = read /\ s[4] = Enabling
      /\ s[5] = [act |-> "check"] /\ s[6] = [act |-> "assign", to |-> 0]
  BY DEF ResetList, Bus!Check, Bus!Assign
<1>4. From(s, 7) = << >>
  <2>1. Len(s) + 1 = 7
    BY BusResetList
  <2>2. From(s, Len(s) + 1) = << >>
    BY BusResetList, FromEnd
  <2>. HIDE DEF s
  <2>. QED
    BY <2>1, <2>2
<1>. HIDE DEF s
<1>5. ASSUME call' = call, ok', k < 6, todo' = From(s, k + 1),
             k + 1 >= 3 => Emptied', k + 1 >= 5 => 6 \in core'.SPCR
      PROVE  Aligned'
  <2>1. k + 1 \in 1 .. 6
    BY <1>5
  <2>2. Resetting'
    BY <1>5, <2>1 DEF Resetting, s
  <2>. QED
    BY <1>5, <2>2 DEF Aligned
<1>6. IsBus(core) /\ todo \in Seq(BusAccess)
  BY DEF BusType
<1>7. CASE k \in {1, 3}
  <2>1. core' = Bus!AfterRead(core, "SPCR") /\ todo' = Tail(todo) /\ call' = call /\ ok'
    BY <1>1, <1>2, <1>3, <1>7, BusRead DEF Same
  <2>2. core' = core
    BY <2>1 DEF Bus!AfterRead
  <2>. QED
    BY <1>1, <1>2, <1>5, <1>7, <2>1, <2>2 DEF Emptied
<1>8. CASE k \in {2, 4}
  <2>1. PICK v : /\ core' = Bus!AfterWrite(core, "SPCR", v)
                 /\ todo' = Tail(todo) /\ call' = call /\ ok'
                 /\ k = 2 => 6 \notin v
                 /\ k = 4 => 6 \in v
    <3>1. CASE k = 2
      <4>1. Head(todo) = [act |-> "back", reg |-> "SPCR", on |-> {}, off |-> {6}, fail |-> "note"]
        BY <1>2, <1>3, <3>1 DEF Disabling
      <4>2. 6 \notin Changed(buffer, {}, {6})
        BY DEF Changed
      <4>3. /\ core' = Bus!AfterWrite(core, "SPCR", Changed(buffer, {}, {6}))
            /\ todo' = Tail(todo) /\ call' = call /\ ok'
        BY <1>1, <4>1, BusBack DEF Same
      <4>. QED
        BY <3>1, <4>2, <4>3
    <3>2. CASE k = 4
      <4>1. Head(todo) = [act |-> "back", reg |-> "SPCR", on |-> {6}, off |-> {}, fail |-> "note"]
        BY <1>2, <1>3, <3>2 DEF Enabling
      <4>2. 6 \in Changed(buffer, {6}, {})
        BY DEF Changed
      <4>3. /\ core' = Bus!AfterWrite(core, "SPCR", Changed(buffer, {6}, {}))
            /\ todo' = Tail(todo) /\ call' = call /\ ok'
        BY <1>1, <4>1, BusBack DEF Same
      <4>. QED
        BY <3>2, <4>2, <4>3
    <3>. QED
      BY <1>8, <3>1, <3>2
  <2>2. /\ core'.early = core.early /\ core'.SPCR = v
        /\ 6 \notin v => core'.out = << >> /\ ~core'.full /\ core'.wp = 0 /\ core'.rp = 0
        /\ 6 \in v => /\ core'.out = core.out /\ core'.wp = core.wp /\ core'.rp = core.rp
                      /\ core'.full = core.full
    BY <1>6, <2>1, FifoCleared DEF BusRegisters
  <2>3. Emptied'
    BY <1>1, <1>8, <2>1, <2>2 DEF Emptied
  <2>. QED
    BY <1>2, <1>5, <1>8, <2>1, <2>2, <2>3
<1>9. CASE k = 5
  <2>1. Head(todo).act = "check"
    BY <1>2, <1>3, <1>9
  <2>2. core' = core /\ call' = call /\ todo' = Tail(todo) /\ ok'
    BY <1>1, <1>6, <2>1, BusLocal
  <2>. QED
    BY <1>1, <1>2, <1>5, <1>9, <2>2 DEF Emptied
<1>10. CASE k = 6
  <2>1. Head(todo).act = "assign" /\ Head(todo).to = 0 /\ Tail(todo) = << >>
    <3>1. k + 1 = 7
      BY <1>10
    <3>. QED
      BY <1>2, <1>3, <1>4, <1>10, <3>1
  <2>2. core' = core /\ call' = call /\ todo' = << >> /\ members' = 0
    BY <1>1, <1>6, <2>1, BusLocal
  <2>3. On(members)'
    BY <1>1, <1>10, <2>2 DEF On, Emptied
  <2>. QED
    BY <2>2, <2>3 DEF Aligned, Settled, Transmits
<1>. QED
  BY <1>7, <1>8, <1>9, <1>10

\* transmit().
LEMMA BusSendingByte ==
    ASSUME BusType, call.op = "transmit", SendingByte, Bus!Host, trouble' = {}
    PROVE  (~core'.lost => Aligned') /\ (core'.early <=> core.early)
<1>1. IsBus(core) /\ members \in Nat /\ todo \in Seq(BusAccess)
  BY DEF BusType
<1>2. CASE todo = << SendByte, CountByte >> /\ Settled(members)
  <2>1. Head(todo) = SendByte /\ Tail(todo) = << CountByte >>
    BY <1>2
  <2>2. /\ core' = Bus!AfterWrite(core, "SPDR", 1) /\ todo' = << CountByte >>
        /\ members' = members /\ call' = call
    BY <2>1, BusWrite DEF Same, SendByte
  <2>3. (~core'.lost => Settled(members + 1)') /\ (core'.early <=> core.early)
    <3>1. CASE Off
      BY <1>1, <2>2, <3>1, BusOff DEF Settled
    <3>2. CASE On(members)
      <4>1. /\ ~core'.lost => Len(core'.out) = Len(core.out) + 1
            /\ core'.rp = core.rp /\ core'.wp = core.wp
            /\ core'.SPCR = core.SPCR /\ core'.early = core.early
        BY <1>1, <2>2, <3>2, FifoWritten DEF On
      <4>2. (core.rp + (members + 1)) % 4 = (core.wp + (Len(core.out) + 1)) % 4
        <5>0. (core.rp + members) % 4 = (core.wp + Len(core.out)) % 4
          BY <3>2 DEF On
        <5>1. core.rp \in Nat /\ core.wp \in Nat /\ Len(core.out) \in Nat
          BY <1>1 DEF IsBus
        <5>. DEFINE a == core.rp
                    c == core.wp
                    d == Len(core.out)
        <5>2. /\ a \in Nat /\ c \in Nat /\ d \in Nat /\ members \in Nat
              /\ (a + members) % 4 = (c + d) % 4
          BY <1>1, <5>0, <5>1
        <5>. HIDE DEF a, c, d
        <5>3. (a + (members + 1)) % 4 = (c + (d + 1)) % 4
          BY <5>2, OneMore
        <5>. QED
          BY <5>3 DEF a, c, d
      <4>. QED
        BY <2>2, <3>2, <4>1, <4>2 DEF On, Settled
    <3>. QED
      BY <1>2, <3>1, <3>2 DEF Settled
  <2>4. ~core'.lost => SendingByte'
    BY <2>2, <2>3 DEF SendingByte, CountByte
  <2>. QED
    BY <2>2, <2>3, <2>4 DEF Aligned
<1>3. CASE todo = << CountByte >> /\ Settled(members + 1)
  <2>1. Head(todo) = [act |-> "assign", to |-> (members + 1) % 256] /\ Tail(todo) = << >>
    BY <1>3 DEF CountByte, Bus!Assign, Bus!Byte
  <2>2. Head(todo).act = "assign" /\ Head(todo).to = (members + 1) % 256
    BY <2>1
  <2>3. core' = core /\ call' = call /\ todo' = << >> /\ members' = (members + 1) % 256
    BY <1>1, <2>1, <2>2, BusLocal
  <2>4. Settled(members)'
    <3>1. CASE Off
      BY <2>3, <3>1 DEF Settled, Off
    <3>2. CASE On(members + 1)
      <4>1. (core.rp + members') % 4 = (core.rp + (members + 1)) % 4
        BY <1>1, <2>3 DEF IsBus
      <4>. QED
        BY <2>3, <3>2, <4>1 DEF On, Settled
    <3>. QED
      BY <1>3, <3>1, <3>2 DEF Settled
  <2>. QED
    BY <2>3, <2>4 DEF Aligned, Transmits
<1>. QED
  BY <1>2, <1>3 DEF SendingByte

\* A packet of a buffer.
LEMMA BusSendingBuffer ==
    ASSUME BusType, call.op = "transmitBuffer", Sending, todo # << >>, Bus!Host, trouble' = {}
    PROVE  /\ Sending' /\ todo' # << >> /\ call' = call
           /\ Settled(members) => Settled(members)'
           /\ core'.early = core.early /\ core'.lost = core.lost
<1>1. IsBus(core) /\ members \in Nat /\ todo \in Seq(BusAccess) /\ success = TRUE
  BY DEF BusType
<1>2. PICK t \in 0 .. 255, k \in 1 .. 3 :
         /\ t % 4 = 0 /\ t < call.length
         /\ todo = From(Bus!PacketSteps(t), k)
         /\ k = 2 => core.out = << >>
         /\ SentSince(IF k = 3 THEN t + 4 ELSE t)
  BY DEF Sending, SendingBuffer
<1>. DEFINE s == Bus!PacketSteps(t)
<1>3. /\ s \in Seq(BusAccess) /\ Len(s) = 3
      /\ s[1] = [act |-> "poll", reg |-> "SPSR", bit |-> 2, level |-> TRUE, fail |-> "ignore"]
      /\ s[2] = [act |-> "write", reg |-> "SPDR", data |-> 4, fail |-> "stop"]
      /\ s[3].act = "loop"
  <2>1. t \in Nat
    OBVIOUS
  <2>. HIDE DEF s
  <2>2. s = Bus!PacketSteps(t)
    BY DEF s
  <2>3. /\ s \in Seq(BusAccess) /\ Len(s) = 3
        /\ s[1] = [act |-> "poll", reg |-> "SPSR", bit |-> 2, level |-> TRUE, fail |-> "ignore"]
        /\ s[2] = [act |-> "write", reg |-> "SPDR", data |-> 4, fail |-> "stop"]
        /\ s[3] = [act |-> "loop", n |-> (t + 4) % 256]
    BY <2>1, <2>2, BusPacket
  <2>. QED
    BY <2>3
<1>4. \A j \in 1 .. 3 : From(s, j) # << >>
  BY <1>3, FromStep
<1>5. Head(todo) = s[k] /\ Tail(todo) = From(s, k + 1)
  BY <1>2, <1>3, FromStep
<1>6. ASSUME call' = call, before' = before, NEW j \in 1 .. 3, todo' = From(s, j),
             j = 2 => core'.out = << >>, SentSince(IF j = 3 THEN t + 4 ELSE t)'
      PROVE  Sending' /\ todo' # << >>
  <2>1. todo' # << >>
    BY <1>4, <1>6
  <2>2. SendingBuffer'
    BY <1>2, <1>6 DEF SendingBuffer
  <2>. QED
    BY <1>6, <2>1, <2>2 DEF Sending
<1>. HIDE DEF s
<1>7. CASE k = 1
  <2>1. /\ core' = core /\ members' = members /\ call' = call /\ before' = before
        /\ \/ todo' = todo
           \/ todo' = Tail(todo) /\ 2 \in Bus!Status(core)
    <3>1. Head(todo) = [act |-> "poll", reg |-> "SPSR", bit |-> 2, level |-> TRUE,
                        fail |-> "ignore"]
      BY <1>3, <1>5, <1>7
    <3>. QED
      BY <1>1, <3>1, BusPoll DEF Same
  <2>2. \/ todo' = From(s, 1)
        \/ todo' = From(s, 2) /\ core'.out = << >>
    <3>1. k + 1 = 2
      BY <1>7
    <3>. QED
      BY <1>2, <1>5, <1>7, <2>1, <3>1 DEF s, Bus!Status
  <2>3. SentSince(t)'
    BY <1>2, <1>7, <2>1 DEF SentSince
  <2>4. Sending' /\ todo' # << >>
    BY <1>6, <2>1, <2>2, <2>3
  <2>. QED
    BY <2>1, <2>4 DEF Settled, Off, On
<1>8. CASE k = 2
  <2>1. /\ core' = Bus!AfterWrite(core, "SPDR", 4) /\ members' = members /\ call' = call
        /\ before' = before /\ todo' = From(s, 3)
    <3>1. k + 1 = 3
      BY <1>8
    <3>2. Head(todo) = [act |-> "write", reg |-> "SPDR", data |-> 4, fail |-> "stop"]
          /\ Tail(todo) = From(s, 3)
      BY <1>3, <1>5, <1>8, <3>1
    <3>3. /\ core' = Bus!AfterWrite(core, "SPDR", 4) /\ todo' = Tail(todo)
          /\ members' = members /\ Same
      BY <3>2, BusWrite
    <3>. QED
      BY <3>2, <3>3 DEF Same
  <2>2. CASE 6 \in core.SPCR
    <3>1. /\ core'.sent = core.sent + 4 /\ Len(core'.out) = Len(core.out) + 4
          /\ core'.rp = core.rp /\ core'.wp = core.wp
          /\ core'.SPCR = core.SPCR /\ core'.early = core.early /\ core'.lost = core.lost
      <4>1. Len(core.out) + 4 <= 4
        BY <1>2, <1>8
      <4>. QED
        BY <1>1, <2>1, <2>2, <4>1, FifoWritten
    <3>2. SentSince(t + 4)'
      <4>1. /\ call.length <= 252 => core.sent = before.sent + t
            /\ core.lost = before.lost
        BY <1>2, <1>8, <2>2 DEF SentSince
      <4>2. before.sent \in Nat
        BY DEF Sending
      <4>. QED
        BY <2>1, <3>1, <4>1, <4>2 DEF SentSince
    <3>3. On(members) => On(members)'
      <4>1. core.rp \in Nat /\ core.wp \in Nat /\ Len(core.out) \in Nat
        BY <1>1 DEF IsBus
      <4>. DEFINE w == core.wp
                  l == Len(core.out)
      <4>2. w \in Nat /\ l \in Nat
        BY <4>1
      <4>. HIDE DEF w, l
      <4>3. (w + (l + 4)) % 4 = (w + l) % 4
        BY <4>2
      <4>4. (core.wp + (Len(core.out) + 4)) % 4 = (core.wp + Len(core.out)) % 4
        BY <4>3 DEF w, l
      <4>. QED
        BY <2>1, <3>1, <4>4 DEF On
    <3>4. ~Off
      BY <2>2 DEF Off
    <3>5. Sending' /\ todo' # << >>
      BY <1>6, <2>1, <3>2
    <3>. QED
      BY <2>1, <3>1, <3>3, <3>4, <3>5 DEF Settled
  <2>3. CASE 6 \notin core.SPCR
    <3>1. core' = core
      BY <2>1, <2>3 DEF Bus!AfterWrite
    <3>2. SentSince(t + 4)'
      BY <2>3, <3>1 DEF SentSince
    <3>3. Sending' /\ todo' # << >>
      BY <1>6, <2>1, <3>2
    <3>. QED
      BY <2>1, <3>1, <3>3 DEF Settled, Off, On
  <2>. QED
    BY <2>2, <2>3
<1>9. k # 3
  BY <1>3, <1>5, BusFine DEF Bus!Access, Bus!ExchangeSucceeds, Bus!Exchange, Bus!LocalStep, Bus!Local
<1>. QED
  BY <1>7, <1>8, <1>9

\* The bytes of whole packets.
WholePackets(length) == 4 * ((length + 3) \div 4)

\* What is left of a buffer after a packet.
LEMMA PacketsLeft ==
    ASSUME NEW t \in 0 .. 255, t % 4 = 0, NEW length \in 0 .. 255, t < length
    PROVE  LET n == (t + 4) % 256
           IN  /\ n \in 0 .. 255 /\ n % 4 = 0
               /\ length <= 252 => n = t + 4
               /\ n >= length => length <= 252 /\ t + 4 = WholePackets(length)
<1>1. t <= 252
  OBVIOUS
<1>2. CASE t = 252
  BY <1>2
<1>3. CASE t < 252
  <2>1. t <= 248
    BY <1>3
  <2>2. (t + 4) % 256 = t + 4 /\ (t + 4) % 4 = 0
    BY <2>1
  <2>3. t + 4 >= length => t + 4 = WholePackets(length)
    <3>. SUFFICES ASSUME t + 4 >= length PROVE t + 4 = 4 * ((length + 3) \div 4)
      BY DEF WholePackets
    <3>. DEFINE q == t \div 4
    <3>1. q \in Nat /\ t = 4 * q
      OBVIOUS
    <3>. HIDE DEF q
    <3>2. (length + 3) \div 4 = q + 1
      BY <3>1
    <3>. QED
      BY <3>1, <3>2
  <2>. QED
    BY <2>1, <2>2, <2>3
<1>. QED
  BY <1>1, <1>2, <1>3

\* The loop of transmit() goes round.
LEMMA BusNextPacket ==
    ASSUME BusType, Sending, call.op = "transmitBuffer", Bus!NextPacket
    PROVE  /\ Sending'
           /\ todo' = << >> => /\ call.length <= 252
                               /\ 6 \in core.SPCR
                                     => /\ core.sent - before.sent = WholePackets(call.length)
                                        /\ core.lost = before.lost
<1>1. PICK t \in 0 .. 255, k \in 1 .. 3 :
         /\ t % 4 = 0 /\ t < call.length
         /\ todo = From(Bus!PacketSteps(t), k)
         /\ k = 2 => core.out = << >>
         /\ SentSince(IF k = 3 THEN t + 4 ELSE t)
  BY DEF Sending, SendingBuffer, Bus!NextPacket
<1>. DEFINE s == Bus!PacketSteps(t)
            n == (t + 4) % 256
<1>2. /\ s \in Seq(BusAccess) /\ Len(s) = 3
      /\ s[1].act = "poll" /\ s[2].act = "write" /\ s[3] = [act |-> "loop", n |-> n]
  <2>1. t \in Nat
    OBVIOUS
  <2>. HIDE DEF s
  <2>2. s = Bus!PacketSteps(t)
    BY DEF s
  <2>3. /\ s \in Seq(BusAccess) /\ Len(s) = 3
        /\ s[1] = [act |-> "poll", reg |-> "SPSR", bit |-> 2, level |-> TRUE, fail |-> "ignore"]
        /\ s[2] = [act |-> "write", reg |-> "SPDR", data |-> 4, fail |-> "stop"]
        /\ s[3] = [act |-> "loop", n |-> n]
    BY <2>1, <2>2, BusPacket
  <2>. HIDE DEF n
  <2>. QED
    BY <2>3
<1>. HIDE DEF n
<1>3. Head(todo) = s[k]
  <2>1. todo = From(s, k)
    BY <1>1
  <2>. HIDE DEF s
  <2>. QED
    BY <2>1, <1>2, FromStep
<1>. HIDE DEF s
<1>4. k = 3 /\ Head(todo).n = n
  BY <1>2, <1>3 DEF Bus!NextPacket, Bus!Access
<1>5. SentSince(t + 4)
  BY <1>1, <1>4
<1>6. /\ core' = core /\ call' = call /\ before' = before
      /\ todo' = IF n < call.length THEN Bus!PacketSteps(n) ELSE << >>
  BY <1>4 DEF Bus!NextPacket, Bus!MorePackets, Bus!Access
<1>7. call.length \in 0 .. 255 /\ before.sent \in Nat
  BY DEF Sending
<1>8. /\ n \in 0 .. 255 /\ n % 4 = 0
      /\ call.length <= 252 => n = t + 4
      /\ n >= call.length => call.length <= 252 /\ t + 4 = WholePackets(call.length)
  <2>. DEFINE length == call.length
  <2>1. length \in 0 .. 255 /\ t < length /\ t % 4 = 0
    BY <1>1, <1>7
  <2>. HIDE DEF length
  <2>2. /\ n \in 0 .. 255 /\ n % 4 = 0
        /\ length <= 252 => n = t + 4
        /\ n >= length => length <= 252 /\ t + 4 = WholePackets(length)
    BY <2>1, PacketsLeft DEF n
  <2>. QED
    BY <2>2 DEF length
<1>9. CASE n < call.length
  <2>1. n \in Nat
    BY <1>8
  <2>2. Bus!PacketSteps(n) \in Seq(BusAccess) /\ Len(Bus!PacketSteps(n)) = 3
    BY <2>1, BusPacket
  <2>3. todo' = From(Bus!PacketSteps(n), 1) /\ todo' # << >>
    <3>. DEFINE p == Bus!PacketSteps(n)
    <3>1. todo' = p
      BY <1>6, <1>9
    <3>2. p \in Seq(BusAccess) /\ Len(p) = 3
      BY <2>2
    <3>. HIDE DEF p
    <3>3. p # << >>
      BY <3>2
    <3>4. From(p, 1) = p
      BY <3>2, FromStart
    <3>. QED
      BY <3>1, <3>3, <3>4 DEF p
  <2>4. SentSince(n)'
    BY <1>5, <1>6, <1>8 DEF SentSince
  <2>5. SendingBuffer'
    <3>1. 1 \in 1 .. 3 /\ 1 # 2 /\ (IF 1 = 3 THEN n + 4 ELSE n) = n
      OBVIOUS
    <3>. QED
      BY <1>6, <1>8, <1>9, <2>3, <2>4, <3>1 DEF SendingBuffer
  <2>. QED
    BY <1>6, <1>7, <2>3, <2>5 DEF Sending
<1>10. CASE n >= call.length
  <2>1. todo' = << >>
    <3>1. ~(n < call.length)
      <4>. DEFINE l == call.length
      <4>1. n \in Int /\ l \in Int /\ n >= l
        BY <1>7, <1>8, <1>10
      <4>. HIDE DEF l
      <4>2. ~(n < l)
        BY <4>1
      <4>. QED
        BY <4>2 DEF l
    <3>. QED
      BY <1>6, <3>1
  <2>2. Sending'
    BY <1>6, <1>7, <2>1 DEF Sending
  <2>3. call.length <= 252 /\ t + 4 = WholePackets(call.length)
    BY <1>8, <1>10
  <2>4. 6 \in core.SPCR => /\ core.sent - before.sent = WholePackets(call.length)
                           /\ core.lost = before.lost
    <3>. DEFINE b == before.sent
                u == t + 4
    <3>1. 6 \in core.SPCR => core.sent = b + u /\ core.lost = before.lost
      BY <1>5, <2>3 DEF SentSince
    <3>2. b \in Nat /\ u \in Nat
      BY <1>7
    <3>3. u = WholePackets(call.length)
      BY <2>3
    <3>. HIDE DEF b, u
    <3>4. (b + u) - b = u
      BY <3>2
    <3>5. 6 \in core.SPCR => core.sent - b = WholePackets(call.length) /\ core.lost = before.lost
      BY <3>1, <3>3, <3>4
    <3>. QED
      BY <3>5 DEF b
  <2>. QED
    BY <2>2, <2>3, <2>4
<1>11. n < call.length \/ n >= call.length
  BY <1>7, <1>8
<1>. QED
  BY <1>9, <1>10, <1>11

\* Only transmit() has a loop of packets.
LEMMA OnlyBuffers ==
    ASSUME Aligned, Bus!NextPacket PROVE call.op = "transmitBuffer" /\ Settled(members)
<1>. USE DEF Bus!NextPacket, Bus!Access
<1>1. ~(todo = << Bus!ReturnFalse >>)
  BY DEF Bus!ReturnFalse, Bus!Require
<1>2. ~Configuring
  <2>1. ASSUME Configuring PROVE Head(todo) \in InitAccess
    BY <2>1, HeadTailProperties DEF Configuring
  <2>. QED
    BY <2>1 DEF InitAccess
<1>3. ~Resetting
  <2>1. ASSUME NEW k \in 1 .. 6, todo = From(ResetList, k) PROVE FALSE
    <3>1. Head(todo) = ResetList[k]
      BY <2>1, BusResetList, FromStep
    <3>2. \A j \in 1 .. 6 : ResetList[j].act # "loop"
      <4>1. /\ ResetList[1].act = "read" /\ ResetList[2].act = "back"
            /\ ResetList[3].act = "read" /\ ResetList[4].act = "back"
            /\ ResetList[5].act = "check" /\ ResetList[6].act = "assign"
        BY DEF ResetList, Disabling, Enabling, Bus!Check, Bus!Assign
      <4>. QED
        BY <4>1
    <3>. QED
      BY <3>1, <3>2
  <2>. QED
    BY <2>1 DEF Resetting
<1>4. ~Transceiving
  <2>1. ASSUME NEW k \in 1 .. 7, todo = From(TransceiveList, k) PROVE FALSE
    <3>1. Head(todo) = TransceiveList[k]
      BY <2>1, BusTransceiveList, FromStep
    <3>2. \A j \in 1 .. 7 : TransceiveList[j].act # "loop"
      <4>1. /\ TransceiveList[1].act = "read" /\ TransceiveList[2].act = "read"
            /\ TransceiveList[3].act = "read" /\ TransceiveList[4].act = "assign"
            /\ TransceiveList[5].act = "write" /\ TransceiveList[6].act = "poll"
            /\ TransceiveList[7].act = "read"
        BY DEF TransceiveList, Bus!Assign
      <4>. QED
        BY <4>1
    <3>. QED
      BY <3>1, <3>2
  <2>. QED
    BY <2>1 DEF Transceiving
<1>5. ~SendingByte
  <2>1. SendByte.act # "loop" /\ CountByte.act # "loop"
    BY DEF SendByte, CountByte, Bus!Assign
  <2>2. Head(<< SendByte, CountByte >>) = SendByte /\ Head(<< CountByte >>) = CountByte
    OBVIOUS
  <2>. QED
    BY <2>1, <2>2 DEF SendingByte
<1>. QED
  BY <1>1, <1>2, <1>3, <1>4, <1>5 DEF Aligned

\* The next packet, for every operation.
LEMMA BusPackets == ASSUME BusInv, Bus!NextPacket PROVE BusInv'
<1>. SUFFICES ASSUME trouble' = {} PROVE BusInv'
  BY DEF BusInv
<1>1. BusType /\ Sending /\ (Clean /\ ~Again => Aligned)
  BY DEF BusInv, Bus!NextPacket
<1>2. /\ core' = core /\ call' = call /\ members' = (members + 4) % 256
      /\ success' = success
  BY DEF Bus!NextPacket, Bus!Byte
<1>3. members \in Nat /\ members' \in Nat
  BY <1>1, <1>2 DEF BusType
<1>4. todo' \in Seq(BusAccess)
  <2>. DEFINE a == Head(todo)
  <2>1. a \in BusAccess /\ a.act = "loop"
    BY <1>1, HeadTailProperties DEF BusType, Bus!NextPacket, Bus!Access
  <2>2. a.n \in Nat
    BY <2>1 DEF BusAccess
  <2>3. Bus!PacketSteps(a.n) \in Seq(BusAccess)
    BY <2>2, BusPacket
  <2>4. << >> \in Seq(BusAccess)
    OBVIOUS
  <2>. QED
    BY <2>3, <2>4 DEF Bus!NextPacket, Bus!Access
<1>5. BusType'
  BY <1>1, <1>2, <1>3, <1>4 DEF BusType, IsBus
<1>6. Sending'
  <2>1. CASE call.op = "transmitBuffer"
    BY <1>1, <2>1, BusNextPacket
  <2>2. CASE call.op # "transmitBuffer"
    BY <1>2, <2>2 DEF Sending
  <2>. QED
    BY <2>1, <2>2
<1>7. Clean' /\ ~Again => Aligned'
  <2>. SUFFICES ASSUME Clean, ~Again PROVE Aligned'
    BY <1>2 DEF Clean
  <2>1. call.op = "transmitBuffer" /\ Settled(members)
    BY <1>1, OnlyBuffers
  <2>2. Settled(members)'
    <3>1. CASE Off
      BY <1>2, <3>1 DEF Settled, Off
    <3>2. CASE On(members)
      <4>. DEFINE r == core.rp
                  m == members
      <4>1. r \in Nat /\ m \in Nat /\ members' = (m + 4) % 256
        BY <1>1, <1>2, <1>3 DEF BusType, IsBus
      <4>. HIDE DEF r, m
      <4>2. (r + ((m + 4) % 256)) % 4 = (r + m) % 4
        BY <4>1
      <4>3. (core.rp + members') % 4 = (core.rp + members) % 4
        BY <4>1, <4>2 DEF r, m
      <4>. QED
        BY <1>2, <3>2, <4>3 DEF Settled, On
    <3>. QED
      BY <2>1, <3>1, <3>2 DEF Settled
  <2>. QED
    BY <1>2, <2>1, <2>2 DEF Aligned, Transmits
<1>. QED
  BY <1>5, <1>6, <1>7 DEF BusInv

\* A byte goes out while an operation waits or none is active.
LEMMA BusShift == ASSUME BusInv, Bus!Shift PROVE BusInv'
<1>. SUFFICES ASSUME trouble' = {} PROVE BusInv'
  BY DEF BusInv
<1>1. BusType /\ Sending /\ (Clean /\ ~Again => Aligned)
  BY DEF BusInv, Bus!Shift, Bus!CoreStep
<1>2. /\ call' = call /\ todo' = todo /\ members' = members /\ success' = success
      /\ buffer' = buffer /\ before' = before /\ ok' = ok
      /\ core' = Bus!Shifted(core) /\ core.out # << >>
  BY DEF Bus!Shift, Bus!CoreStep
<1>3. IsBus(core) /\ IsBus(core')
  BY <1>1, BusShifted DEF BusType
<1>4. /\ core'.SPCR = core.SPCR /\ core'.sent = core.sent /\ core'.rp = core.rp
      /\ core'.early = core.early /\ core'.lost = core.lost /\ core'.out = Tail(core.out)
      /\ core'.wp = (core.wp + 1) % 4
      /\ core'.ring = [core.ring EXCEPT ![core.wp] = Head(core.out)]
      /\ (core'.full => core.full \/ (core.wp + 1) % 4 = core.rp)
  <2>. DEFINE f == core.full \/ (core.wp + 1) % 4 = core.rp
              p == (core.wp + 1) % 4
              r == [core.ring EXCEPT ![core.wp] = Head(core.out)]
              o == Tail(core.out)
  <2>1. core' = [core EXCEPT !.out = o, !.ring = r, !.wp = p, !.full = f]
    BY <1>2, <1>3 DEF Bus!Shifted, Bus!FIFO, IsBus, BusFields
  <2>. HIDE DEF f, p, r, o
  <2>2. /\ core'.SPCR = core.SPCR /\ core'.sent = core.sent /\ core'.rp = core.rp
        /\ core'.early = core.early /\ core'.out = o /\ core'.wp = p /\ core'.ring = r
        /\ core'.full = f /\ core'.lost = core.lost
    BY <1>3, <2>1 DEF IsBus, BusFields
  <2>3. core'.full => f
    BY <2>2, Zenon
  <2>. QED
    BY <2>2, <2>3 DEF f, p, r, o
<1>5. Len(core.out) \in Nat /\ Len(core.out) > 0 /\ Len(core'.out) = Len(core.out) - 1
      /\ core.wp \in 0 .. 3 /\ core.rp \in 0 .. 3
  <2>. DEFINE o == core.out
  <2>1. o \in Seq(Nat) /\ o # << >> /\ core'.out = Tail(o)
        /\ core.wp \in 0 .. 3 /\ core.rp \in 0 .. 3
    BY <1>2, <1>3, <1>4 DEF IsBus
  <2>. HIDE DEF o
  <2>2. Len(o) \in Nat /\ Len(o) > 0 /\ Len(Tail(o)) = Len(o) - 1
    BY <2>1
  <2>. QED
    BY <2>1, <2>2 DEF o
<1>6. BusType'
  BY <1>1, <1>2, <1>3 DEF BusType
<1>7. Sending'
  <2>1. ASSUME NEW n, SentSince(n) PROVE SentSince(n)'
    BY <1>2, <1>4, <2>1 DEF SentSince
  <2>2. SendingBuffer => SendingBuffer'
    <3>. SUFFICES ASSUME SendingBuffer PROVE SendingBuffer'
      OBVIOUS
    <3>1. PICK t \in 0 .. 255, k \in 1 .. 3 :
             /\ t % 4 = 0 /\ t < call.length
             /\ todo = From(Bus!PacketSteps(t), k)
             /\ k = 2 => core.out = << >>
             /\ SentSince(IF k = 3 THEN t + 4 ELSE t)
      BY DEF SendingBuffer
    <3>2. SentSince(IF k = 3 THEN t + 4 ELSE t)'
      BY <2>1, <3>1
    <3>3. k # 2
      BY <1>2, <3>1
    <3>. QED
      BY <1>2, <3>1, <3>2, <3>3 DEF SendingBuffer
  <2>. QED
    BY <1>1, <1>2, <2>2 DEF Sending
<1>8. ~Off /\ ~Emptied
  BY <1>2 DEF Off, Emptied
<1>9. ASSUME NEW n PROVE On(n) => On(n)'
  <2>. DEFINE l == Len(core.out)
              w == core.wp
  <2>1. l \in Nat /\ l > 0 /\ w \in 0 .. 3 /\ Len(core'.out) = l - 1 /\ core'.wp = (w + 1) % 4
    BY <1>4, <1>5
  <2>. HIDE DEF l, w
  <2>2. (((w + 1) % 4) + (l - 1)) % 4 = (w + l) % 4
    BY <2>1
  <2>3. (core'.wp + Len(core'.out)) % 4 = (w + l) % 4
    BY <2>1, <2>2
  <2>. QED
    BY <1>4, <2>3 DEF On, l, w
<1>10. ASSUME NEW n, Settled(n) PROVE On(n)'
  BY <1>8, <1>9, <1>10 DEF Settled
<1>11. Settled(members) => Settled(members)'
  BY <1>2, <1>10 DEF Settled, On
<1>12. Settled(members + 1) => Settled(members + 1)'
  BY <1>2, <1>10 DEF Settled, On
<1>13. Transceiving => Transceiving'
  <2>. SUFFICES ASSUME Transceiving PROVE Transceiving'
    OBVIOUS
  <2>1. PICK k \in 1 .. 7 : todo = From(TransceiveList, k) /\ TransceiveStage(k)
    BY DEF Transceiving
  <2>2. /\ On(Behind(k)) /\ (k >= 5 => members = 0) /\ (k \in {6, 7} => LastIn)
        /\ before.out = << >> => Untroubled(k)
    BY <1>8, <2>1 DEF TransceiveStage
  <2>3. On(Behind(k))'
    BY <1>9, <2>2 DEF Behind
  <2>4. ASSUME k \in {6, 7} PROVE LastIn'
    <3>1. core.out[Len(core.out)] = core.sent /\ On(1)
      BY <1>2, <2>2, <2>4 DEF LastIn, Behind
    <3>2. CASE Len(core.out) = 1
      <4>1. core'.out = << >> /\ Head(core.out) = core.sent
        <5>. DEFINE o == core.out
        <5>1. o \in Seq(Nat) /\ Len(o) = 1 /\ o[1] = core.sent /\ core'.out = Tail(o)
          BY <1>3, <1>4, <3>1, <3>2 DEF IsBus
        <5>. HIDE DEF o
        <5>2. Tail(o) = << >> /\ Head(o) = o[1]
          BY <5>1
        <5>. QED
          BY <5>1, <5>2 DEF o
      <4>2. core.wp = core.rp
        <5>1. (core.rp + 1) % 4 = (core.wp + 1) % 4
          BY <3>1, <3>2 DEF On
        <5>. DEFINE r == core.rp
                    w == core.wp
        <5>2. r \in 0 .. 3 /\ w \in 0 .. 3 /\ (r + 1) % 4 = (w + 1) % 4
          BY <1>5, <5>1
        <5>. HIDE DEF r, w
        <5>3. r = w
          BY <5>2
        <5>. QED
          BY <5>3 DEF r, w
      <4>3. core'.ring[core'.rp] = core'.sent
        BY <1>3, <1>4, <1>5, <4>1, <4>2 DEF IsBus
      <4>. QED
        BY <4>1, <4>3 DEF LastIn
    <3>3. CASE Len(core.out) # 1
      <4>. DEFINE o == core.out
      <4>1. o \in Seq(Nat) /\ o # << >> /\ core'.out = Tail(o) /\ core'.sent = core.sent
        BY <1>2, <1>3, <1>4 DEF IsBus
      <4>2. Len(o) # 1 /\ o[Len(o)] = core.sent
        BY <3>1, <3>3
      <4>. HIDE DEF o
      <4>. DEFINE l == Len(o)
      <4>3. Len(o) > 1
        <5>1. l \in Nat /\ l # 0 /\ l # 1
          BY <4>1, <4>2
        <5>. HIDE DEF l
        <5>2. l > 1
          BY <5>1
        <5>. QED
          BY <5>2 DEF l
      <4>4. Len(Tail(o)) = Len(o) - 1 /\ Tail(o)[Len(Tail(o))] = o[Len(o)]
        BY <4>1, <4>3, Rest
      <4>5. Tail(o) # << >>
        <5>1. l \in Nat /\ l > 1 /\ Len(Tail(o)) = l - 1
          BY <4>1, <4>3, <4>4
        <5>2. Len(<< >>) = 0
          OBVIOUS
        <5>. HIDE DEF l
        <5>3. Len(Tail(o)) # 0
          BY <5>1
        <5>. QED
          BY <5>2, <5>3
      <4>. QED
        BY <4>1, <4>2, <4>4, <4>5 DEF LastIn
    <3>. QED
      BY <3>2, <3>3
  <2>5. ASSUME before.out = << >> PROVE Untroubled(k)'
    <3>1. Untroubled(k)
      BY <2>2, <2>5
    <3>2. k \in {6, 7} /\ Len(core.out) = 1 /\ core.wp = core.rp
      BY <1>2, <3>1 DEF Untroubled
    <3>3. core'.out = << >>
      <4>. DEFINE o == core'.out
      <4>1. o \in Seq(Nat) /\ Len(o) = 0
        BY <1>3, <1>5, <3>2 DEF IsBus
      <4>. HIDE DEF o
      <4>2. o = << >>
        BY <4>1
      <4>. QED
        BY <4>2 DEF o
    <3>4. core'.full => core.full
      <4>1. \A w \in 0 .. 3 : (w + 1) % 4 # w
        OBVIOUS
      <4>. QED
        BY <1>4, <1>5, <3>2, <4>1
    <3>5. FullRing => FullRing'
      BY <1>2 DEF FullRing
    <3>6. k \notin 1 .. 5
      BY <3>2
    <3>. QED
      BY <3>1, <3>3, <3>4, <3>5, <3>6 DEF Untroubled
  <2>6. TransceiveStage(k)'
    BY <1>2, <2>2, <2>3, <2>4, <2>5 DEF TransceiveStage
  <2>. QED
    BY <1>2, <2>1, <2>6 DEF Transceiving
<1>14. Configuring => Configuring'
  BY <1>2, <1>8 DEF Configuring
<1>15. Resetting => Resetting'
  <2>. SUFFICES ASSUME Resetting PROVE Resetting'
    OBVIOUS
  <2>1. PICK k \in 1 .. 6 : /\ todo = From(ResetList, k) /\ ok
                            /\ k >= 3 => Emptied
                            /\ k >= 5 => 6 \in core.SPCR
    BY DEF Resetting
  <2>2. ~(k >= 3) /\ ~(k >= 5)
    BY <1>8, <2>1
  <2>. QED
    BY <1>2, <2>1, <2>2 DEF Resetting
<1>16. SendingByte => SendingByte'
  BY <1>2, <1>11, <1>12 DEF SendingByte, CountByte
<1>17. Aligned => Aligned'
  BY <1>2, <1>4, <1>11, <1>13, <1>14, <1>15, <1>16 DEF Aligned
<1>. QED
  BY <1>1, <1>4, <1>6, <1>7, <1>17 DEF BusInv, Clean

\* That the FIFO was read too early or a byte lost is not forgotten.
LEMMA BusEarly ==
    ASSUME BusType, Bus!Host, trouble' = {}
    PROVE  (core.early => core'.early) /\ (core.lost => core'.lost)
<1>. DEFINE a == Head(todo)
<1>1. a \in BusAccess /\ todo \in Seq(BusAccess) /\ IsBus(core) /\ success = TRUE
  BY BusFine, HeadTailProperties DEF BusType
<1>2. CASE a.act = "read"
  <2>1. a = [act |-> "read", reg |-> a.reg, fail |-> a.fail]
    BY <1>1, <1>2 DEF BusAccess
  <2>2. core' = Bus!AfterRead(core, a.reg)
    BY <2>1, BusRead
  <2>3. CASE a.reg = "SPDR"
    BY <1>1, <2>2, <2>3, FifoRead
  <2>4. CASE a.reg # "SPDR"
    BY <2>2, <2>4 DEF Bus!AfterRead
  <2>. QED
    BY <2>3, <2>4
<1>3. CASE a.act = "write"
  <2>1. a = [act |-> "write", reg |-> "SPDR", data |-> a.data, fail |-> a.fail] /\ a.data \in Nat
    BY <1>1, <1>3 DEF BusAccess
  <2>2. core' = Bus!AfterWrite(core, "SPDR", a.data)
    BY <2>1, BusWrite
  <2>3. CASE 6 \in core.SPCR
    BY <1>1, <2>1, <2>2, <2>3, FifoWritten
  <2>4. CASE 6 \notin core.SPCR
    BY <2>2, <2>4 DEF Bus!AfterWrite
  <2>. QED
    BY <2>3, <2>4
<1>4. CASE a.act = "back"
  <2>1. /\ a = [act |-> "back", reg |-> a.reg, on |-> a.on, off |-> a.off, fail |-> a.fail]
        /\ a.reg \in BusRegisters
    BY <1>1, <1>4 DEF BusAccess
  <2>2. core' = Bus!AfterWrite(core, a.reg, Changed(buffer, a.on, a.off))
    BY <2>1, BusBack
  <2>. QED
    BY <1>1, <2>1, <2>2, FifoCleared
<1>5. CASE a.act = "poll"
  <2>1. /\ a = [act |-> "poll", reg |-> "SPSR", bit |-> a.bit, level |-> a.level, fail |-> a.fail]
        /\ a.level \in BOOLEAN
    BY <1>1, <1>5 DEF BusAccess
  <2>. QED
    BY <1>1, <2>1, BusPoll
<1>6. CASE a.act \in {"assign", "check", "require"}
  BY <1>1, <1>6, BusLocal
<1>7. a.act # "loop"
  BY BusFine DEF Bus!Access, Bus!ExchangeSucceeds, Bus!Exchange, Bus!LocalStep, Bus!Local
<1>8. a.act \in {"read", "write", "back", "poll", "assign", "check", "require"}
  BY <1>1, <1>7 DEF BusAccess
<1>. QED
  BY <1>2, <1>3, <1>4, <1>5, <1>6, <1>8

\* An exchange of an operation leaves the operation's call alone.
LEMMA BusSameCall == ASSUME Bus!Host PROVE call' = call
BY DEF Bus!Host, Bus!ExchangeSucceeds, Bus!ExchangeRepeated, Bus!ExchangeFails, Bus!LocalStep

\* A step of the program while the FIFO is in step with the count.
LEMMA BusStep ==
    ASSUME BusType, Sending, Aligned, Bus!Host, trouble' = {}
    PROVE  /\ core'.early => \/ core.early
                             \/ call.op \in Transmits /\ (FullRing \/ before.out # << >>)
           /\ Clean' => Aligned'
           /\ call.op \in Transmits /\ todo' = << >> => core'.sent = core.sent
<1>1. todo # << >>
  BY BusFine
<1>2. CASE todo = << Bus!ReturnFalse >> /\ Settled(members) /\ call.op = "init"
  <2>1. Head(todo).act = "require" /\ Tail(todo) = << >> /\ todo \in Seq(BusAccess)
    BY <1>2 DEF Bus!ReturnFalse, Bus!Require, BusType
  <2>2. core' = core /\ call' = call /\ todo' = << >> /\ members' = members
    BY <2>1, BusLocal
  <2>. QED
    BY <1>2, <2>2 DEF Aligned, Settled, Off, On, Transmits
<1>3. CASE call.op = "init" /\ Configuring
  BY <1>3, BusConfiguring DEF Transmits
<1>4. CASE call.op = "resetBuffers" /\ Resetting
  BY <1>4, BusResetting DEF Transmits
<1>5. CASE call.op \in Transmits /\ Transceiving
  BY <1>5, BusTransceiving
<1>6. CASE call.op = "transmit" /\ SendingByte
  BY <1>6, BusSendingByte DEF Transmits, Clean
<1>7. CASE call.op = "transmitBuffer" /\ Settled(members)
  BY <1>1, <1>7, BusSendingBuffer DEF Transmits, Aligned
<1>. QED
  BY <1>1, <1>2, <1>3, <1>4, <1>5, <1>6, <1>7 DEF Aligned

\* A step of the program.
LEMMA BusHost == ASSUME BusInv, Bus!Host PROVE BusInv'
<1>. SUFFICES ASSUME trouble' = {} PROVE BusInv'
  BY DEF BusInv
<1>1. trouble = {} /\ todo # << >>
  BY BusFine
<1>2. BusType /\ Sending /\ (Clean /\ ~Again => Aligned)
  BY <1>1 DEF BusInv
<1>3. BusType'
  BY <1>2, BusTyped
<1>4. Sending'
  <2>1. CASE call.op = "transmitBuffer"
    BY <1>1, <1>2, <2>1, BusSendingBuffer
  <2>2. CASE call.op # "transmitBuffer"
    BY <2>2, BusSameCall DEF Sending
  <2>. QED
    BY <2>1, <2>2
<1>5. ASSUME Clean', ~Again PROVE Aligned'
  <2>1. Clean
    BY <1>2, <1>5, BusEarly DEF Clean
  <2>. QED
    BY <1>2, <1>5, <2>1, BusStep
<1>. QED
  BY <1>3, <1>4, <1>5 DEF BusInv

\* Every step.
LEMMA BusInductive == ASSUME BusInv, CoresAssumption, [Bus!Next]_(Bus!vars) PROVE BusInv'
<1>1. CASE UNCHANGED Bus!vars
  <2>1. /\ core' = core /\ todo' = todo /\ members' = members /\ call' = call /\ buffer' = buffer
        /\ success' = success /\ ok' = ok /\ before' = before /\ trouble' = trouble
    BY <1>1 DEF Bus!vars
  <2>2. (BusType => BusType') /\ (Sending => Sending')
    BY <2>1 DEF BusType, Sending, SendingBuffer, SentSince
  <2>3. Settled(members) => Settled(members)'
    BY <2>1 DEF Settled, Off, On
  <2>4. /\ Configuring => Configuring'
        /\ Resetting => Resetting'
        /\ Transceiving => Transceiving'
    BY <2>1 DEF Configuring, Emptied, Resetting, Transceiving, TransceiveStage, FullRing, Off,
                Untroubled, LastIn, On
  <2>5. SendingByte => SendingByte'
    BY <2>1 DEF SendingByte, CountByte, Settled, Off, On
  <2>6. Aligned => Aligned'
    <3>. SUFFICES ASSUME Aligned PROVE Aligned'
      OBVIOUS
    <3>. DEFINE P1 == /\ todo = << >> /\ Settled(members)
                      /\ call.op \in Transmits => buffer = {core.sent}
                P2 == \/ call.op = "init" /\ Configuring
                      \/ call.op = "resetBuffers" /\ Resetting
                      \/ call.op \in Transmits /\ Transceiving
                      \/ call.op = "transmit" /\ SendingByte
                P3 == todo = << Bus!ReturnFalse >> /\ Settled(members) /\ call.op = "init"
                P4 == call.op = "transmitBuffer" /\ todo # << >> /\ Settled(members)
    <3>1. CASE P1
      BY <2>1, <2>3, <3>1 DEF Aligned
    <3>2. CASE P2
      BY <2>1, <2>4, <2>5, <3>2 DEF Aligned
    <3>3. CASE P3
      BY <2>1, <2>3, <3>3 DEF Aligned
    <3>4. CASE P4
      BY <2>1, <2>3, <3>4 DEF Aligned
    <3>5. P1 \/ P2 \/ P3 \/ P4
      BY DEF Aligned
    <3>. HIDE DEF P1, P2, P3, P4
    <3>. QED
      BY <3>1, <3>2, <3>3, <3>4, <3>5
  <2>. QED
    BY <2>1, <2>2, <2>6 DEF BusInv, Clean
<1>. QED
  BY <1>1, BusCall, BusHost, BusPackets, BusShift DEF Bus!Next

\* The core as it comes up.
LEMMA BusInit == Bus!Init => BusInv
<1>. SUFFICES ASSUME Bus!Init PROVE BusInv
  OBVIOUS
<1>. DEFINE z == [i \in 0 .. 3 |-> 0]
<1>1. /\ core.SPCR = {4} /\ core.out = << >> /\ core.sent = 0 /\ core.wp = 0 /\ core.rp = 0
      /\ ~core.full /\ core.lost = FALSE /\ core.ring = z /\ core = [f \in BusFields |-> core[f]]
  BY DEF Bus!Init, Bus!Begin, Bus!Reset, Bus!FIFO, BusFields
<1>2. z \in [0 .. 3 -> Nat] /\ \A i \in 0 .. 3 : z[i] = 0
  OBVIOUS
<1>. HIDE DEF z
<1>3. todo = << >> /\ members = 0 /\ success = TRUE /\ call = [op |-> "none"]
  BY DEF Bus!Init, Bus!Begin, Bus!NoCall
<1>4. BusType
  <2>1. core.out \in Seq(Nat) /\ Len(core.out) <= 4
    BY <1>1
  <2>2. core.sent \in Nat /\ core.ring \in [0 .. 3 -> Nat] /\ core.wp \in 0 .. 3 /\ core.rp \in 0 .. 3
    BY <1>1, <1>2
  <2>3. core.lost \in BOOLEAN
    BY <1>1
  <2>4. core = [f \in BusFields |-> core[f]]
    BY <1>1
  <2>5. IsBus(core)
    BY <2>1, <2>2, <2>3, <2>4 DEF IsBus
  <2>6. todo \in Seq(BusAccess) /\ members \in Nat /\ success = TRUE
    BY <1>3
  <2>. QED
    BY <2>5, <2>6 DEF BusType
<1>5. Sending
  BY <1>3 DEF Sending
<1>6. Aligned
  BY <1>1, <1>2, <1>3 DEF Aligned, Settled, Off, Transmits
<1>. QED
  BY <1>4, <1>5, <1>6 DEF BusInv

\* The receive FIFO is read early only where the ring was full at a multiple of four
\* or a byte was on its way at the call.
LEMMA BusWaits == ASSUME ~Again, BusInv, Bus!Next PROVE Bus!WaitsForByte
<1>. SUFFICES ASSUME ~core.early, core'.early, trouble' = {}, ~core'.lost
              PROVE  FullRing \/ before.out # << >>
  BY DEF Bus!WaitsForByte, FullRing
<1>1. CASE Bus!Host
  <2>1. BusType /\ Sending /\ (Clean => Aligned)
    BY <1>1, BusFine DEF BusInv
  <2>2. Clean
    BY <1>1, <2>1, BusEarly DEF Clean
  <2>. QED
    BY <1>1, <2>1, <2>2, BusStep
<1>2. CASE Bus!Call \/ Bus!NextPacket
  <2>1. core' = core
    BY <1>2 DEF Bus!Call, Bus!NextPacket, Bus!Initialize, Bus!InitializeRefused, Bus!Refuse,
                Bus!Transceive, Bus!TransmitByte, Bus!Transmit, Bus!ResetBuffers, Bus!Start,
                Bus!StartWith
  <2>. QED
    BY <2>1
<1>3. CASE Bus!Shift
  <2>1. trouble = {}
    BY <1>3 DEF Bus!Shift, Bus!CoreStep
  <2>2. core'.early = core.early
    BY <1>3, <2>1 DEF BusInv, BusType, IsBus, BusFields, Bus!Shift, Bus!CoreStep, Bus!Shifted
  <2>. QED
    BY <2>2
<1>. QED
  BY <1>1, <1>2, <1>3 DEF Bus!Next

\* transceive() and receive() return the byte that came in for theirs.
LEMMA BusOwn == ASSUME ~Again, BusInv, BusInv', Bus!Next PROVE Bus!OwnByte
<1>. SUFFICES ASSUME Bus!ReturnsTrue, call.op \in Transmits, trouble' = {}, Clean'
              PROVE  buffer' = {core.sent}
  BY DEF Bus!OwnByte, Transmits, Clean
<1>1. todo # << >> /\ todo' = << >>
  BY DEF Bus!ReturnsTrue
<1>2. Bus!Host \/ Bus!NextPacket
  BY <1>1 DEF Bus!Next, Bus!Call, Bus!Initialize, Bus!InitializeRefused, Bus!Refuse,
              Bus!Transceive, Bus!TransmitByte, Bus!Transmit, Bus!ResetBuffers, Bus!Start,
              Bus!StartWith, Bus!Shift, Bus!CoreStep
<1>3. Aligned'
  BY DEF BusInv
<1>4. call'.op \in Transmits => buffer' = {core'.sent}
  <2>1. \A k \in 1 .. 6 : From(ResetList, k) # << >>
    BY BusResetList, FromStep
  <2>2. \A k \in 1 .. 7 : From(TransceiveList, k) # << >>
    BY BusTransceiveList, FromStep
  <2>. QED
    BY <1>1, <1>3, <2>1, <2>2 DEF Aligned, Configuring, Resetting, Transceiving, SendingByte
<1>5. CASE Bus!NextPacket
  BY <1>4, <1>5 DEF Bus!NextPacket
<1>6. CASE Bus!Host
  <2>1. BusType /\ Sending /\ Aligned
    <3>1. BusType /\ Sending /\ (Clean => Aligned)
      BY <1>6, BusFine DEF BusInv
    <3>2. Clean
      BY <1>6, <3>1, BusEarly DEF Clean
    <3>. QED
      BY <3>1, <3>2
  <2>2. core'.sent = core.sent
    BY <1>1, <1>6, <2>1, BusStep
  <2>3. call' = call
    BY <1>6, BusSameCall
  <2>. QED
    BY <1>4, <2>2, <2>3
<1>. QED
  BY <1>2, <1>5, <1>6

\* transmit() returns when its buffer has gone to the core in whole packets.
LEMMA BusSent == ASSUME BusInv, Bus!Next PROVE Bus!BufferSent
<1>. SUFFICES ASSUME todo # << >>, todo' = << >>, call.op = "transmitBuffer", 6 \in core.SPCR,
                     trouble' = {}
              PROVE  /\ core.sent - before.sent = WholePackets(call.length)
                     /\ core.lost = before.lost
  BY DEF Bus!BufferSent, Bus!ReturnsTrue, WholePackets
<1>1. Bus!Host \/ Bus!NextPacket
  BY DEF Bus!Next, Bus!Call, Bus!Initialize, Bus!InitializeRefused, Bus!Refuse,
         Bus!Transceive, Bus!TransmitByte, Bus!Transmit, Bus!ResetBuffers, Bus!Start,
         Bus!StartWith, Bus!Shift, Bus!CoreStep
<1>2. trouble = {} /\ BusType /\ Sending
  BY <1>1, BusFine DEF BusInv, Bus!NextPacket
<1>3. ~Bus!Host
  BY <1>2, BusSendingBuffer
<1>. QED
  BY <1>1, <1>2, <1>3, BusNextPacket

-----------------------------------------------------------------------------
(* I2c.                                                                    *)

TwoFields == {"CTRL", "PREREG_LOW", "PREREG_HIGH", "TX", "RX", "CR", "busy", "nack", "held",
              "slave", "pointer", "mem"}

IsTwo(c) == c = [f \in TwoFields |-> c[f]]

\* The transfers of readByte(): the address of the device, that of the register, the address
\* again to turn the direction round, and the byte.
SendSteps(data, command) ==
    << Two!Fresh({}), Two!Write("TX", data), Two!Write("CR", command),
       [act |-> "poll", reg |-> "SR", bit |-> 1, level |-> FALSE, fail |-> "note"],
       Two!Read("SR"), Two!Keep >>

ReceiveSteps(command) ==
    << Two!Fresh({}), Two!Write("CR", command),
       [act |-> "poll", reg |-> "SR", bit |-> 1, level |-> FALSE, fail |-> "note"],
       Two!Read("RX") >>

\* The addresses of devices.
SevenBits == 0 .. 127

ToWrite(device) == Two!Addressing(device, FALSE)
ToRead(device)  == Two!Addressing(device, TRUE)

ReadList(device, r) ==
    SendSteps(ToWrite(device), {4, 7}) \o SendSteps(r, {4, 6}) \o SendSteps(ToRead(device), {4, 7})
    \o ReceiveSteps({3, 5, 6}) \o << Two!NoneKept(7) >>

\* All bytes sent so far have been acknowledged.
Acked == \A i \in DOMAIN kept : 7 \notin kept[i]

\* The slave waits for the address of a register, has it, is to be read, has been read.
Addressed == ~core.busy /\ call.device = Slave /\ core.slave = "address"
Pointed   == ~core.busy /\ call.device = Slave /\ core.pointer = call.register
Turned    == Pointed /\ core.slave = "read"
HasByte   == /\ ~core.busy /\ ~core.held /\ call.device = Slave
             /\ core.RX = core.mem[call.register]

\* It has been read again, after it had sent the byte and the bus was free.
Missed == ~core.busy /\ ~core.held /\ call.device = Slave /\ core.RX = Two!Idle

Repeated == "repeated" \in trouble

\* What is known before each step.  A command may have been carried out or not; before it
\* is written, it may be there already, written by an attempt whose reply was damaged.
ReadStage(k) ==
    /\ k = 3 => core.TX = ToWrite(call.device)
    /\ k = 4 =>
          /\ core.TX = ToWrite(call.device) /\ core.CR = {4, 7}
          /\ core.busy \/ core.nack \/ Addressed
    /\ k = 5 => ~core.busy /\ (core.nack \/ Addressed)
    /\ k = 6 => 7 \in buffer \/ Addressed
    /\ k \in {7, 8} => Addressed
    /\ k = 9 =>
          /\ core.TX = call.register /\ call.device = Slave
          /\ core.slave \in {"address", "none"}
          /\ ~core.busy \/ core.CR = {4, 6}
    /\ k = 10 =>
          /\ core.TX = call.register /\ core.CR = {4, 6} /\ call.device = Slave
          /\ \/ core.busy /\ core.slave \in {"address", "none"}
             \/ ~core.busy /\ core.nack
             \/ Pointed
    /\ k = 11 => ~core.busy /\ (core.nack \/ Pointed)
    /\ k = 12 => 7 \in buffer \/ Pointed
    /\ k \in {13, 14} => Pointed
    /\ k = 15 =>
          /\ core.TX = ToRead(call.device) /\ call.device = Slave
          /\ core.pointer = call.register
          /\ ~core.busy \/ core.CR = {4, 7}
    /\ k = 16 =>
          /\ core.TX = ToRead(call.device) /\ core.CR = {4, 7} /\ call.device = Slave
          /\ core.pointer = call.register
          /\ core.busy \/ Turned
    /\ k \in {17, 18, 19} => Turned
    /\ k = 20 =>
          /\ call.device = Slave
          /\ ~core.busy \/ (core.CR = {3, 5, 6} /\ Repeated)
          /\ \/ core.slave = "read" /\ core.pointer = call.register
             \/ core.slave = "none" /\ Repeated
    /\ k = 21 =>
          /\ core.CR = {3, 5, 6} /\ call.device = Slave
          /\ \/ core.busy /\ core.slave = "read" /\ core.pointer = call.register
             \/ core.busy /\ core.slave = "none" /\ Repeated
             \/ HasByte
             \/ Missed /\ Repeated
    /\ k = 22 => HasByte \/ (Missed /\ Repeated)
    /\ k = 23 => \/ HasByte /\ buffer = core.mem[call.register]
                 \/ Missed /\ Repeated /\ buffer = Two!Idle

\* The operation is at place k of its list.
Places == 1 .. 23

At(k) ==
    /\ todo = From(ReadList(call.device, call.register), k)
    /\ k \in {6, 12, 18} => buffer \in Byte8
    /\ Acked => ReadStage(k)

ReadingByte ==
    /\ call.device \in SevenBits /\ call.register \in Registers
    /\ kept \in Seq(Byte8)
    /\ \E k \in Places : At(k)

TwoInv ==
    /\ IsTwo(core)
    /\ ok => success
    /\ ok /\ call.op = "readByte" => todo = << >> \/ todo = << Two!ReturnFalse >> \/ ReadingByte

\* Bytes that differ in a bit: equal halves and equal lowest bits are equal numbers.
LEMMA Halved == \A a, b \in Nat : a % 2 = b % 2 /\ a \div 2 = b \div 2 => a = b
OBVIOUS

\* A number below 256 is known by its bits.
LEMMA BitsOf ==
    ASSUME NEW n \in 0 .. 255, NEW m \in 0 .. 255, Two!ByteBits(n) = Two!ByteBits(m)
    PROVE  n = m
<1>. DEFINE B(x, w) == (x \div w) % 2
<1>1. /\ 2 ^ 0 = 1 /\ 2 ^ 1 = 2 /\ 2 ^ 2 = 4 /\ 2 ^ 3 = 8 /\ 2 ^ 4 = 16 /\ 2 ^ 5 = 32
      /\ 2 ^ 6 = 64 /\ 2 ^ 7 = 128
  OBVIOUS
<1>2. \A i \in 0 .. 7 : (n \div 2 ^ i) % 2 = 1 <=> (m \div 2 ^ i) % 2 = 1
  BY DEF Two!ByteBits
<1>3. /\ B(n, 1) = 1 <=> B(m, 1) = 1
      /\ B(n, 2) = 1 <=> B(m, 2) = 1
      /\ B(n, 4) = 1 <=> B(m, 4) = 1
      /\ B(n, 8) = 1 <=> B(m, 8) = 1
      /\ B(n, 16) = 1 <=> B(m, 16) = 1
      /\ B(n, 32) = 1 <=> B(m, 32) = 1
      /\ B(n, 64) = 1 <=> B(m, 64) = 1
      /\ B(n, 128) = 1 <=> B(m, 128) = 1
  BY <1>1, <1>2
<1>4. /\ B(n, 1) \in {0, 1} /\ B(m, 1) \in {0, 1}
      /\ B(n, 2) \in {0, 1} /\ B(m, 2) \in {0, 1}
      /\ B(n, 4) \in {0, 1} /\ B(m, 4) \in {0, 1}
      /\ B(n, 8) \in {0, 1} /\ B(m, 8) \in {0, 1}
      /\ B(n, 16) \in {0, 1} /\ B(m, 16) \in {0, 1}
      /\ B(n, 32) \in {0, 1} /\ B(m, 32) \in {0, 1}
      /\ B(n, 64) \in {0, 1} /\ B(m, 64) \in {0, 1}
      /\ B(n, 128) \in {0, 1} /\ B(m, 128) \in {0, 1}
  OBVIOUS
<1>. HIDE DEF B
<1>5. /\ B(n, 1) = B(m, 1) /\ B(n, 2) = B(m, 2) /\ B(n, 4) = B(m, 4) /\ B(n, 8) = B(m, 8)
      /\ B(n, 16) = B(m, 16) /\ B(n, 32) = B(m, 32) /\ B(n, 64) = B(m, 64)
      /\ B(n, 128) = B(m, 128)
  <2>1. B(n, 1) = B(m, 1)
    BY <1>3, <1>4
  <2>2. B(n, 2) = B(m, 2)
    BY <1>3, <1>4
  <2>3. B(n, 4) = B(m, 4)
    BY <1>3, <1>4
  <2>4. B(n, 8) = B(m, 8)
    BY <1>3, <1>4
  <2>5. B(n, 16) = B(m, 16)
    BY <1>3, <1>4
  <2>6. B(n, 32) = B(m, 32)
    BY <1>3, <1>4
  <2>7. B(n, 64) = B(m, 64)
    BY <1>3, <1>4
  <2>8. B(n, 128) = B(m, 128)
    BY <1>3, <1>4
  <2>. QED
    BY <2>1, <2>2, <2>3, <2>4, <2>5, <2>6, <2>7, <2>8
<1>. USE DEF B
<1>6. n \div 128 = m \div 128
  BY <1>5
<1>7. \A x \in 0 .. 255 :
        /\ x \div 1 = x
        /\ (x \div 1) \div 2 = x \div 2 /\ (x \div 2) \div 2 = x \div 4
        /\ (x \div 4) \div 2 = x \div 8 /\ (x \div 8) \div 2 = x \div 16
        /\ (x \div 16) \div 2 = x \div 32 /\ (x \div 32) \div 2 = x \div 64
        /\ (x \div 64) \div 2 = x \div 128
        /\ x \div 2 \in Nat /\ x \div 4 \in Nat /\ x \div 8 \in Nat /\ x \div 16 \in Nat
        /\ x \div 32 \in Nat /\ x \div 64 \in Nat /\ x \div 128 \in Nat /\ x \div 1 \in Nat
  OBVIOUS
<1>8. n \div 64 = m \div 64
  BY <1>5, <1>6, <1>7, Halved
<1>9. n \div 32 = m \div 32
  <2>. DEFINE a == n \div 32
              b == m \div 32
  <2>1. a \in Nat /\ b \in Nat /\ a % 2 = b % 2 /\ a \div 2 = b \div 2
    BY <1>5, <1>8, <1>7
  <2>. HIDE DEF a, b
  <2>2. a = b
    BY <2>1, Halved
  <2>. QED
    BY <2>2 DEF a, b
<1>10. n \div 16 = m \div 16
  <2>. DEFINE a == n \div 16
              b == m \div 16
  <2>1. a \in Nat /\ b \in Nat /\ a % 2 = b % 2 /\ a \div 2 = b \div 2
    BY <1>5, <1>9, <1>7
  <2>. HIDE DEF a, b
  <2>2. a = b
    BY <2>1, Halved
  <2>. QED
    BY <2>2 DEF a, b
<1>11. n \div 8 = m \div 8
  <2>. DEFINE a == n \div 8
              b == m \div 8
  <2>1. a \in Nat /\ b \in Nat /\ a % 2 = b % 2 /\ a \div 2 = b \div 2
    BY <1>5, <1>10, <1>7
  <2>. HIDE DEF a, b
  <2>2. a = b
    BY <2>1, Halved
  <2>. QED
    BY <2>2 DEF a, b
<1>12. n \div 4 = m \div 4
  <2>. DEFINE a == n \div 4
              b == m \div 4
  <2>1. a \in Nat /\ b \in Nat /\ a % 2 = b % 2 /\ a \div 2 = b \div 2
    BY <1>5, <1>11, <1>7
  <2>. HIDE DEF a, b
  <2>2. a = b
    BY <2>1, Halved
  <2>. QED
    BY <2>2 DEF a, b
<1>13. n \div 2 = m \div 2
  BY <1>5, <1>12, <1>7, Halved
<1>. QED
  BY <1>5, <1>7, <1>13, Halved

\* Only the device asked for takes its address, with either direction.
LEMMA Addresses ==
    \A d, e \in SevenBits :
        /\ ToWrite(d) \ {0} = Two!Addressing(e, FALSE) => d = e
        /\ ToWrite(d) \ {0} = ToWrite(d) /\ ToRead(d) \ {0} = ToWrite(d)
        /\ 0 \notin ToWrite(d) /\ 0 \in ToRead(d)
<1>. TAKE d, e \in SevenBits
<1>1. 2 * d \in 0 .. 255 /\ 2 * e \in 0 .. 255 /\ d \in 0 .. 127 /\ e \in 0 .. 127
  BY DEF SevenBits
<1>2. 0 \notin Two!ByteBits(2 * d)
  <2>1. 2 ^ 0 = 1 /\ ((2 * d) \div 1) % 2 # 1
    BY <1>1
  <2>. QED
    BY <2>1 DEF Two!ByteBits
<1>3. Two!ByteBits(2 * d) = Two!ByteBits(2 * e) => d = e
  <2>1. Two!ByteBits(2 * d) = Two!ByteBits(2 * e) => 2 * d = 2 * e
    BY <1>1, BitsOf
  <2>. QED
    BY <1>1, <2>1
<1>4. ToWrite(d) = Two!ByteBits(2 * d) /\ ToRead(d) = Two!ByteBits(2 * d) \cup {0}
      /\ Two!Addressing(e, FALSE) = Two!ByteBits(2 * e)
  BY DEF ToWrite, ToRead, Two!Addressing
<1>. QED
  BY <1>2, <1>3, <1>4

\* Two lists in a row.
LEMMA Joined ==
    ASSUME NEW S, NEW s \in Seq(S), NEW t \in Seq(S)
    PROVE  /\ s \o t \in Seq(S) /\ Len(s \o t) = Len(s) + Len(t)
           /\ \A i \in 1 .. Len(s) : (s \o t)[i] = s[i]
           /\ \A i \in 1 .. Len(t) : (s \o t)[Len(s) + i] = t[i]
<1>1. /\ s \o t \in Seq(S) /\ Len(s \o t) = Len(s) + Len(t)
      /\ \A i \in 1 .. Len(s) + Len(t) :
            (s \o t)[i] = IF i <= Len(s) THEN s[i] ELSE t[i - Len(s)]
  BY ConcatProperties
<1>2. Len(s) \in Nat /\ Len(t) \in Nat
  OBVIOUS
<1>. DEFINE l == Len(s)
            n == Len(t)
            u == s \o t
<1>. HIDE DEF l, n, u
<1>3. /\ l \in Nat /\ n \in Nat
      /\ \A i \in 1 .. l + n : u[i] = IF i <= l THEN s[i] ELSE t[i - l]
  BY <1>1, <1>2 DEF l, n, u
<1>4. \A i \in 1 .. l : u[i] = s[i]
  BY <1>3
<1>5. ASSUME NEW i \in 1 .. n PROVE u[l + i] = t[i]
  <2>1. l + i \in 1 .. l + n /\ ~(l + i <= l) /\ (l + i) - l = i
    BY <1>3
  <2>2. u[l + i] = t[(l + i) - l]
    BY <1>3, <2>1
  <2>. QED
    BY <2>1, <2>2
<1>. QED
  BY <1>1, <1>4, <1>5 DEF l, n, u

\* Short lists.
LEMMA ShortLists ==
    /\ \A a, b : << a >> \o << b >> = << a, b >>
    /\ \A a, b, c : << a >> \o << b, c >> = << a, b, c >>
    /\ \A a, b, c, d : << a, b, c >> \o << d >> = << a, b, c, d >>
<1>1. ASSUME NEW a, NEW b PROVE << a >> \o << b >> = << a, b >>
  <2>. DEFINE S == {a, b}
  <2>1. << a >> \in Seq(S) /\ << b >> \in Seq(S) /\ << a, b >> \in Seq(S)
    OBVIOUS
  <2>2. /\ << a >> \o << b >> \in Seq(S) /\ Len(<< a >> \o << b >>) = 2
        /\ \A i \in 1 .. 2 : (<< a >> \o << b >>)[i] = << a, b >>[i]
    BY <2>1, ConcatProperties
  <2>. QED
    BY <2>1, <2>2, SeqEqual
<1>2. ASSUME NEW a, NEW b, NEW c PROVE << a >> \o << b, c >> = << a, b, c >>
  <2>. DEFINE S == {a, b, c}
  <2>1. << a >> \in Seq(S) /\ << b, c >> \in Seq(S) /\ << a, b, c >> \in Seq(S)
    OBVIOUS
  <2>2. /\ << a >> \o << b, c >> \in Seq(S) /\ Len(<< a >> \o << b, c >>) = 3
        /\ \A i \in 1 .. 3 : (<< a >> \o << b, c >>)[i] = << a, b, c >>[i]
    BY <2>1, ConcatProperties
  <2>. QED
    BY <2>1, <2>2, SeqEqual
<1>3. ASSUME NEW a, NEW b, NEW c, NEW d PROVE << a, b, c >> \o << d >> = << a, b, c, d >>
  <2>. DEFINE S == {a, b, c, d}
  <2>1. << a, b, c >> \in Seq(S) /\ << d >> \in Seq(S) /\ << a, b, c, d >> \in Seq(S)
    OBVIOUS
  <2>2. /\ << a, b, c >> \o << d >> \in Seq(S) /\ Len(<< a, b, c >> \o << d >>) = 4
        /\ \A i \in 1 .. 4 : (<< a, b, c >> \o << d >>)[i] = << a, b, c, d >>[i]
    BY <2>1, ConcatProperties
  <2>. QED
    BY <2>1, <2>2, SeqEqual
<1>. QED
  BY <1>1, <1>2, <1>3

\* The steps of a transfer ...
LEMMA TwoSends ==
    ASSUME NEW data
    PROVE  /\ Two!TransferSteps(data, TRUE, 0, FALSE) = SendSteps(data, {4, 7})
           /\ Two!TransferSteps(data, TRUE, 2, FALSE) = SendSteps(data, {4, 6})
<1>. DEFINE f == Two!Fresh({})
            x == Two!Write("TX", data)
            p == [act |-> "poll", reg |-> "SR", bit |-> 1, level |-> FALSE, fail |-> "note"]
            s == Two!Read("SR")
            k == Two!Keep
<1>1. /\ Two!Command(TRUE, 0, FALSE) = {4, 7} /\ Two!Command(TRUE, 2, FALSE) = {4, 6}
  BY DEF Two!Command
<1>2. [Two!Poll("SR", 1, FALSE) EXCEPT !.fail = "note"] = p
  <2>1. \A level : [Two!Poll("SR", 1, level) EXCEPT !.fail = "note"]
                     = [act |-> "poll", reg |-> "SR", bit |-> 1, level |-> level, fail |-> "note"]
    BY DEF Two!Poll
  <2>. QED
    BY <2>1
<1>. HIDE DEF f, x, p, s, k
<1>3. \A c : << f >> \o << x >> \o << c, p >> \o << s, k >> = << f, x, c, p, s, k >>
  <2>. TAKE c
  <2>1. << f >> \o << x >> = << f, x >>
    BY ShortLists
  <2>2. << f, x >> \o << c, p >> = << f, x, c, p >>
    BY TwoAndTwo
  <2>3. << f, x, c, p >> \o << s, k >> = << f, x, c, p, s, k >>
    BY FourAndTwo
  <2>. QED
    BY <2>1, <2>2, <2>3, Zenon
<1>. DEFINE T(c) == << f >> \o << x >> \o << c, p >> \o << s, k >>
<1>4. /\ Two!TransferSteps(data, TRUE, 0, FALSE) = T(Two!Write("CR", {4, 7}))
      /\ Two!TransferSteps(data, TRUE, 2, FALSE) = T(Two!Write("CR", {4, 6}))
  BY <1>1, <1>2 DEF Two!TransferSteps, f, x, s, k
<1>5. \A c : T(c) = << f, x, c, p, s, k >>
  BY <1>3
<1>. HIDE DEF T
<1>. QED
  BY <1>4, <1>5 DEF SendSteps, f, x, p, s, k

\* ... that receives.
LEMMA TwoReceives ==
    \A data : Two!TransferSteps(data, FALSE, 1, TRUE) = ReceiveSteps({3, 5, 6})
<1>. TAKE data
<1>. DEFINE f == Two!Fresh({})
            p == [act |-> "poll", reg |-> "SR", bit |-> 1, level |-> FALSE, fail |-> "note"]
            s == Two!Read("RX")
            c == Two!Write("CR", {3, 5, 6})
<1>1. Two!Command(FALSE, 1, TRUE) = {3, 5, 6}
  BY DEF Two!Command
<1>2. [Two!Poll("SR", 1, FALSE) EXCEPT !.fail = "note"] = p
  <2>1. \A level : [Two!Poll("SR", 1, level) EXCEPT !.fail = "note"]
                     = [act |-> "poll", reg |-> "SR", bit |-> 1, level |-> level, fail |-> "note"]
    BY DEF Two!Poll
  <2>. QED
    BY <2>1
<1>3. Two!TransferSteps(data, FALSE, 1, TRUE) = << f >> \o << >> \o << c, p >> \o << s >>
  BY <1>1, <1>2 DEF Two!TransferSteps
<1>. HIDE DEF f, p, s, c
<1>4. << f >> \o << >> \o << c, p >> \o << s >> = << f, c, p, s >>
  <2>1. << f >> \o << >> = << f >>
    OBVIOUS
  <2>2. << f >> \o << c, p >> = << f, c, p >>
    BY ShortLists
  <2>3. << f, c, p >> \o << s >> = << f, c, p, s >>
    BY ShortLists
  <2>. QED
    BY <2>1, <2>2, <2>3, Zenon
<1>. QED
  BY <1>3, <1>4 DEF ReceiveSteps, f, p, s, c

\* What readByte() does, ...
ReadSteps(device, r) ==
    {Two!Fresh({}), Two!Write("TX", ToWrite(device)), Two!Write("TX", r),
     Two!Write("TX", ToRead(device)), Two!Write("CR", {4, 7}), Two!Write("CR", {4, 6}),
     Two!Write("CR", {3, 5, 6}),
     [act |-> "poll", reg |-> "SR", bit |-> 1, level |-> FALSE, fail |-> "note"],
     Two!Read("SR"), Two!Read("RX"), Two!Keep, Two!NoneKept(7)}

Transfers(device, r, L) ==
    /\ L[1] = Two!Fresh({}) /\ L[2] = Two!Write("TX", ToWrite(device))
    /\ L[3] = Two!Write("CR", {4, 7})
    /\ L[4] = [act |-> "poll", reg |-> "SR", bit |-> 1, level |-> FALSE, fail |-> "note"]
    /\ L[5] = Two!Read("SR") /\ L[6] = Two!Keep
    /\ L[7] = Two!Fresh({}) /\ L[8] = Two!Write("TX", r)
    /\ L[9] = Two!Write("CR", {4, 6})
    /\ L[10] = [act |-> "poll", reg |-> "SR", bit |-> 1, level |-> FALSE, fail |-> "note"]
    /\ L[11] = Two!Read("SR") /\ L[12] = Two!Keep
    /\ L[13] = Two!Fresh({}) /\ L[14] = Two!Write("TX", ToRead(device))
    /\ L[15] = Two!Write("CR", {4, 7})
    /\ L[16] = [act |-> "poll", reg |-> "SR", bit |-> 1, level |-> FALSE, fail |-> "note"]
    /\ L[17] = Two!Read("SR") /\ L[18] = Two!Keep
    /\ L[19] = Two!Fresh({})
    /\ L[20] = Two!Write("CR", {3, 5, 6})
    /\ L[21] = [act |-> "poll", reg |-> "SR", bit |-> 1, level |-> FALSE, fail |-> "note"]
    /\ L[22] = Two!Read("RX") /\ L[23] = Two!NoneKept(7)

\* ... step by step.
LEMMA TwoList ==
    ASSUME NEW d, NEW r
    PROVE  /\ ReadList(d, r) \in Seq(ReadSteps(d, r)) /\ Len(ReadList(d, r)) = 23
           /\ Transfers(d, r, ReadList(d, r))
<1>. DEFINE f  == Two!Fresh({})
            x1 == Two!Write("TX", ToWrite(d))
            x2 == Two!Write("TX", r)
            x3 == Two!Write("TX", ToRead(d))
            c1 == Two!Write("CR", {4, 7})
            c2 == Two!Write("CR", {4, 6})
            c3 == Two!Write("CR", {3, 5, 6})
            p  == [act |-> "poll", reg |-> "SR", bit |-> 1, level |-> FALSE, fail |-> "note"]
            s  == Two!Read("SR")
            x  == Two!Read("RX")
            k  == Two!Keep
            n  == Two!NoneKept(7)
            S  == {f, x1, x2, x3, c1, c2, c3, p, s, x, k, n}
            A1 == << f, x1, c1, p, s, k >>
            A2 == << f, x2, c2, p, s, k >>
            A3 == << f, x3, c1, p, s, k >>
            A4 == << f, c3, p, x >>
            A5 == << n >>
            L  == A1 \o A2 \o A3 \o A4 \o A5
<1>1. ReadList(d, r) = L /\ ReadSteps(d, r) = S
  BY DEF ReadList, ReadSteps, SendSteps, ReceiveSteps
<1>. HIDE DEF f, x1, x2, x3, c1, c2, c3, p, s, x, k, n
<1>2. /\ A1 \in Seq(S) /\ Len(A1) = 6 /\ A2 \in Seq(S) /\ Len(A2) = 6
      /\ A3 \in Seq(S) /\ Len(A3) = 6 /\ A4 \in Seq(S) /\ Len(A4) = 4
      /\ A5 \in Seq(S) /\ Len(A5) = 1
  OBVIOUS
<1>3. /\ A1[1] = f /\ A1[2] = x1 /\ A1[3] = c1 /\ A1[4] = p /\ A1[5] = s /\ A1[6] = k
      /\ A2[1] = f /\ A2[2] = x2 /\ A2[3] = c2 /\ A2[4] = p /\ A2[5] = s /\ A2[6] = k
      /\ A3[1] = f /\ A3[2] = x3 /\ A3[3] = c1 /\ A3[4] = p /\ A3[5] = s /\ A3[6] = k
      /\ A4[1] = f /\ A4[2] = c3 /\ A4[3] = p /\ A4[4] = x /\ A5[1] = n
  OBVIOUS
<1>. DEFINE B2 == A1 \o A2
            B3 == B2 \o A3
            B4 == B3 \o A4
<1>. HIDE DEF S, A1, A2, A3, A4, A5
<1>4. /\ B2 \in Seq(S) /\ Len(B2) = 12
      /\ \A i \in 1 .. 6 : B2[i] = A1[i]
      /\ \A i \in 1 .. 6 : B2[6 + i] = A2[i]
  <2>. HIDE DEF B2
  <2>1. /\ B2 \in Seq(S) /\ Len(B2) = Len(A1) + Len(A2)
        /\ \A i \in 1 .. Len(A1) : B2[i] = A1[i]
        /\ \A i \in 1 .. Len(A2) : B2[Len(A1) + i] = A2[i]
    <3>1. A1 \in Seq(S) /\ A2 \in Seq(S)
      BY <1>2
    <3>2. /\ A1 \o A2 \in Seq(S) /\ Len(A1 \o A2) = Len(A1) + Len(A2)
          /\ \A i \in 1 .. Len(A1) : (A1 \o A2)[i] = A1[i]
          /\ \A i \in 1 .. Len(A2) : (A1 \o A2)[Len(A1) + i] = A2[i]
      BY <3>1, Joined
    <3>. QED
      BY <3>2 DEF B2
  <2>. QED
    BY <1>2, <2>1
<1>. HIDE DEF B2
<1>5. /\ B3 \in Seq(S) /\ Len(B3) = 18
      /\ \A i \in 1 .. 12 : B3[i] = B2[i]
      /\ \A i \in 1 .. 6 : B3[12 + i] = A3[i]
  <2>. HIDE DEF B3
  <2>1. /\ B3 \in Seq(S) /\ Len(B3) = Len(B2) + Len(A3)
        /\ \A i \in 1 .. Len(B2) : B3[i] = B2[i]
        /\ \A i \in 1 .. Len(A3) : B3[Len(B2) + i] = A3[i]
    <3>1. B2 \in Seq(S) /\ A3 \in Seq(S)
      BY <1>2, <1>4
    <3>2. /\ B2 \o A3 \in Seq(S) /\ Len(B2 \o A3) = Len(B2) + Len(A3)
          /\ \A i \in 1 .. Len(B2) : (B2 \o A3)[i] = B2[i]
          /\ \A i \in 1 .. Len(A3) : (B2 \o A3)[Len(B2) + i] = A3[i]
      BY <3>1, Joined
    <3>. QED
      BY <3>2 DEF B3
  <2>. QED
    BY <1>2, <1>4, <2>1
<1>. HIDE DEF B3
<1>6. /\ B4 \in Seq(S) /\ Len(B4) = 22
      /\ \A i \in 1 .. 18 : B4[i] = B3[i]
      /\ \A i \in 1 .. 4 : B4[18 + i] = A4[i]
  <2>. HIDE DEF B4
  <2>1. /\ B4 \in Seq(S) /\ Len(B4) = Len(B3) + Len(A4)
        /\ \A i \in 1 .. Len(B3) : B4[i] = B3[i]
        /\ \A i \in 1 .. Len(A4) : B4[Len(B3) + i] = A4[i]
    <3>1. B3 \in Seq(S) /\ A4 \in Seq(S)
      BY <1>2, <1>5
    <3>2. /\ B3 \o A4 \in Seq(S) /\ Len(B3 \o A4) = Len(B3) + Len(A4)
          /\ \A i \in 1 .. Len(B3) : (B3 \o A4)[i] = B3[i]
          /\ \A i \in 1 .. Len(A4) : (B3 \o A4)[Len(B3) + i] = A4[i]
      BY <3>1, Joined
    <3>. QED
      BY <3>2 DEF B4
  <2>. QED
    BY <1>2, <1>5, <2>1
<1>7. L = B4 \o A5
  BY DEF B2, B3
<1>. HIDE DEF B4, L
<1>8. /\ L \in Seq(S) /\ Len(L) = 23
      /\ \A i \in 1 .. 22 : L[i] = B4[i]
      /\ \A i \in 1 .. 1 : L[22 + i] = A5[i]
  <2>1. /\ L \in Seq(S) /\ Len(L) = Len(B4) + Len(A5)
        /\ \A i \in 1 .. Len(B4) : L[i] = B4[i]
        /\ \A i \in 1 .. Len(A5) : L[Len(B4) + i] = A5[i]
    <3>1. B4 \in Seq(S) /\ A5 \in Seq(S)
      BY <1>2, <1>6
    <3>2. /\ B4 \o A5 \in Seq(S) /\ Len(B4 \o A5) = Len(B4) + Len(A5)
          /\ \A i \in 1 .. Len(B4) : (B4 \o A5)[i] = B4[i]
          /\ \A i \in 1 .. Len(A5) : (B4 \o A5)[Len(B4) + i] = A5[i]
      BY <3>1, Joined
    <3>. QED
      BY <3>2, <1>7
  <2>. QED
    BY <1>2, <1>6, <2>1
<1>9. /\ L[1] = f /\ L[2] = x1 /\ L[3] = c1 /\ L[4] = p /\ L[5] = s /\ L[6] = k
  <2>1. \A i \in 1 .. 6 : L[i] = B4[i] /\ B4[i] = B3[i] /\ B3[i] = B2[i] /\ B2[i] = A1[i]
    <3>1. \A i \in 1 .. 6 : i \in 1 .. 22 /\ i \in 1 .. 18 /\ i \in 1 .. 12
      OBVIOUS
    <3>2. \A i \in 1 .. 6 : L[i] = B4[i]
      BY <1>8, <3>1
    <3>3. \A i \in 1 .. 6 : B4[i] = B3[i]
      BY <1>6, <3>1
    <3>4. \A i \in 1 .. 6 : B3[i] = B2[i]
      BY <1>5, <3>1
    <3>. QED
      BY <1>4, <3>2, <3>3, <3>4
  <2>. QED
    BY <1>3, <2>1
<1>10. /\ L[7] = f /\ L[8] = x2 /\ L[9] = c2 /\ L[10] = p /\ L[11] = s /\ L[12] = k
  <2>1. \A i \in 7 .. 12 : L[i] = B4[i] /\ B4[i] = B3[i] /\ B3[i] = B2[i]
    <3>1. \A i \in 7 .. 12 : i \in 1 .. 22 /\ i \in 1 .. 18 /\ i \in 1 .. 12
      OBVIOUS
    <3>2. \A i \in 7 .. 12 : L[i] = B4[i]
      BY <1>8, <3>1
    <3>3. \A i \in 7 .. 12 : B4[i] = B3[i]
      BY <1>6, <3>1
    <3>4. \A i \in 7 .. 12 : B3[i] = B2[i]
      BY <1>5, <3>1
    <3>. QED
      BY <3>2, <3>3, <3>4
  <2>2. /\ B2[7] = A2[1] /\ B2[8] = A2[2] /\ B2[9] = A2[3] /\ B2[10] = A2[4]
        /\ B2[11] = A2[5] /\ B2[12] = A2[6]
    <3>1. 6 + 1 = 7 /\ 6 + 2 = 8 /\ 6 + 3 = 9 /\ 6 + 4 = 10 /\ 6 + 5 = 11 /\ 6 + 6 = 12
      OBVIOUS
    <3>. QED
      BY <1>4, <3>1
  <2>. QED
    BY <1>3, <2>1, <2>2
<1>11. /\ L[13] = f /\ L[14] = x3 /\ L[15] = c1 /\ L[16] = p /\ L[17] = s /\ L[18] = k
  <2>1. \A i \in 13 .. 18 : L[i] = B4[i] /\ B4[i] = B3[i]
    <3>1. \A i \in 13 .. 18 : i \in 1 .. 22 /\ i \in 1 .. 18
      OBVIOUS
    <3>. QED
      BY <1>6, <1>8, <3>1
  <2>2. /\ B3[13] = A3[1] /\ B3[14] = A3[2] /\ B3[15] = A3[3] /\ B3[16] = A3[4]
        /\ B3[17] = A3[5] /\ B3[18] = A3[6]
    <3>1. 12 + 1 = 13 /\ 12 + 2 = 14 /\ 12 + 3 = 15 /\ 12 + 4 = 16 /\ 12 + 5 = 17 /\ 12 + 6 = 18
      OBVIOUS
    <3>. QED
      BY <1>5, <3>1
  <2>. QED
    BY <1>3, <2>1, <2>2
<1>12. L[19] = f /\ L[20] = c3 /\ L[21] = p /\ L[22] = x /\ L[23] = n
  <2>1. \A i \in 19 .. 22 : L[i] = B4[i]
    BY <1>8
  <2>2. /\ B4[19] = A4[1] /\ B4[20] = A4[2] /\ B4[21] = A4[3] /\ B4[22] = A4[4]
        /\ L[23] = A5[1]
    <3>1. 18 + 1 = 19 /\ 18 + 2 = 20 /\ 18 + 3 = 21 /\ 18 + 4 = 22 /\ 22 + 1 = 23
      OBVIOUS
    <3>. QED
      BY <1>6, <1>8, <3>1
  <2>. QED
    BY <1>3, <2>1, <2>2
<1>13. Transfers(d, r, L)
  BY <1>9, <1>10, <1>11, <1>12 DEF Transfers, f, x1, x2, x3, c1, c2, c3, p, s, x, k, n
<1>. QED
  BY <1>1, <1>8, <1>13

\* A call begins with the first of them.
LEMMA TwoBegins ==
    ASSUME NEW d, NEW r
    PROVE  Two!TransferSteps(Two!Addressing(d, FALSE), TRUE, 0, FALSE)
             \o Two!TransferSteps(r, TRUE, 2, FALSE)
             \o Two!TransferSteps(Two!Addressing(d, TRUE), TRUE, 0, FALSE)
             \o Two!TransferSteps(Two!Idle, FALSE, 1, TRUE)
             \o << Two!NoneKept(7) >> = From(ReadList(d, r), 1)
<1>1. ReadList(d, r) = From(ReadList(d, r), 1)
  BY TwoList, FromStart
<1>. QED
  BY <1>1, TwoSends, TwoReceives DEF ReadList, ToWrite, ToRead

\* Where the operation is in its list.
LEMMA TwoAt ==
    \A d, r : \A k \in Places : todo = From(ReadList(d, r), k) =>
        /\ todo # << >> /\ Head(todo) = ReadList(d, r)[k]
        /\ Tail(todo) = From(ReadList(d, r), k + 1)
        /\ k = 23 => Tail(todo) = << >>
        /\ k + 1 \in Places => Tail(todo) # << >>
<1>. TAKE d, r
<1>. TAKE k \in Places
<1>. HAVE todo = From(ReadList(d, r), k)
<1>. DEFINE L == ReadList(d, r)
            S == ReadSteps(d, r)
<1>1. L \in Seq(S) /\ Len(L) = 23
  BY TwoList
<1>. HIDE DEF L, S
<1>2. todo # << >> /\ Head(todo) = L[k] /\ Tail(todo) = From(L, k + 1)
  BY <1>1, FromStep DEF L, Places
<1>3. From(L, 24) = << >>
  <2>1. From(L, Len(L) + 1) = << >>
    BY <1>1, FromEnd
  <2>2. Len(L) + 1 = 24
    BY <1>1
  <2>. QED
    BY <2>1, <2>2
<1>4. k + 1 \in Places => From(L, k + 1) # << >>
  BY <1>1, FromStep DEF Places
<1>5. k = 23 => From(L, k + 1) = << >>
  BY <1>3
<1>. QED
  BY <1>2, <1>4, <1>5 DEF L

\* Every step of the program but a repetition of an exchange takes the operation further.
TwoGoesOn == Two!ExchangeSucceeds \/ Two!ExchangeFails \/ Two!LocalStep

\* An operation that may still return true has not seen an exchange fail.
LEMMA TwoFine ==
    ASSUME TwoGoesOn, ok => success, ok'
    PROVE  /\ ok /\ success /\ success' /\ todo # << >> /\ call' = call
           /\ Head(todo).act \notin Two!Local =>
                 Head(todo).fail = "ignore" \/ Two!ExchangeSucceeds
           /\ Head(todo).act \in Two!Local => Two!LocalStep
<1>1. CASE Two!ExchangeSucceeds
  <2>1. success' = success /\ ok' = ok /\ call' = call
    BY <1>1 DEF Two!ExchangeSucceeds
  <2>2. todo # << >> /\ Head(todo).act \notin Two!Local
    BY <1>1 DEF Two!ExchangeSucceeds, Two!Exchange, Two!Access, Two!Local
  <2>3. ok /\ success /\ success'
    BY <2>1, Zenon
  <2>. QED
    BY <1>1, <2>1, <2>2, <2>3
<1>2. CASE Two!ExchangeFails
  <2>1. /\ success' = (success /\ Head(todo).fail = "ignore")
        /\ ok' = (ok /\ Head(todo).fail = "ignore") /\ call' = call
    BY <1>2 DEF Two!ExchangeFails, Two!Access
  <2>2. todo # << >> /\ Head(todo).act \notin Two!Local
    BY <1>2 DEF Two!ExchangeFails, Two!Exchange, Two!Access, Two!Local
  <2>3. ok /\ success /\ success' /\ Head(todo).fail = "ignore"
    BY <2>1, Zenon
  <2>. QED
    BY <2>1, <2>2, <2>3
<1>3. CASE Two!LocalStep
  <2>1. /\ success' = (success \/ Head(todo).act = "fresh")
        /\ ok' = (ok /\ ~Two!LeavesEarly) /\ call' = call
        /\ todo # << >> /\ Head(todo).act \in Two!Local
    BY <1>3 DEF Two!LocalStep, Two!Access
  <2>2. ok /\ success /\ success'
    BY <2>1, Zenon
  <2>. QED
    BY <1>3, <2>1, <2>2
<1>. QED
  BY <1>1, <1>2, <1>3 DEF TwoGoesOn

\* What a step leaves alone in readByte().
TwoSame == todo' = Tail(todo) /\ call' = call /\ kept' = kept /\ trouble' = trouble

\* A register that is written has the value, ...
LEMMA TwoWrite ==
    ASSUME TwoGoesOn, ok => success, ok', NEW r, NEW v, Head(todo) = Two!Write(r, v)
    PROVE  TwoSame /\ buffer' = buffer /\ core' = Two!AfterWrite(core, r, v)
<1>. USE DEF TwoSame, Two!Access
<1>1. /\ Head(todo).act = "write" /\ Head(todo).fail = "note" /\ Head(todo).reg = r
      /\ Head(todo).data = v
  BY DEF Two!Write
<1>2. Two!ExchangeSucceeds
  BY <1>1, TwoFine DEF Two!Local
<1>3. Two!Accessed = Two!AfterWrite(core, r, v)
  BY <1>1 DEF Two!Accessed, Two!Reads, Two!Written
<1>. QED
  BY <1>1, <1>2, <1>3 DEF Two!ExchangeSucceeds, Two!Reads

\* ... one that is read is in the buffer, ...
LEMMA TwoRead ==
    ASSUME TwoGoesOn, ok => success, ok', NEW r, Head(todo) = Two!Read(r)
    PROVE  TwoSame /\ core' = core /\ buffer' = Two!Value(core, r)
<1>. USE DEF TwoSame, Two!Access
<1>1. Head(todo).act = "read" /\ Head(todo).fail = "note" /\ Head(todo).reg = r
  BY DEF Two!Read
<1>2. Two!ExchangeSucceeds
  BY <1>1, TwoFine DEF Two!Local
<1>3. Two!Accessed = core
  BY <1>1 DEF Two!Accessed, Two!Reads, Two!AfterRead
<1>. QED
  BY <1>1, <1>2, <1>3 DEF Two!ExchangeSucceeds, Two!Reads

\* ... a loop ends when the core has carried out its command, ...
LEMMA TwoPoll ==
    ASSUME TwoGoesOn, ok => success, ok',
           Head(todo) = [act |-> "poll", reg |-> "SR", bit |-> 1, level |-> FALSE, fail |-> "note"]
    PROVE  /\ core' = core /\ call' = call /\ kept' = kept /\ trouble' = trouble
           /\ todo' = todo \/ (todo' = Tail(todo) /\ ~core.busy)
<1>. USE DEF Two!Access
<1>1. /\ Head(todo).act = "poll" /\ Head(todo).fail = "note" /\ Head(todo).reg = "SR"
      /\ Head(todo).bit = 1 /\ Head(todo).level = FALSE
  OBVIOUS
<1>2. Two!ExchangeSucceeds
  BY <1>1, TwoFine DEF Two!Local
<1>3. Two!Accessed = core
  BY <1>1 DEF Two!Accessed, Two!Reads, Two!AfterRead
<1>5. success
  BY TwoFine
<1>6. 1 \in Two!Value(core, "SR") <=> core.busy
  BY DEF Two!Value
<1>7. /\ core' = core /\ call' = call /\ kept' = kept /\ trouble' = trouble
      /\ buffer' = Two!Value(core, "SR")
      /\ todo' = IF (1 \in buffer') # FALSE /\ success THEN todo ELSE Tail(todo)
  BY <1>1, <1>2, <1>3 DEF Two!ExchangeSucceeds, Two!Reads
<1>8. CASE 1 \in Two!Value(core, "SR")
  BY <1>5, <1>7, <1>8
<1>9. CASE 1 \notin Two!Value(core, "SR")
  BY <1>6, <1>7, <1>9
<1>. QED
  BY <1>8, <1>9

\* ... and steps without an exchange.
LEMMA TwoLocal ==
    ASSUME TwoGoesOn, ok => success, ok'
    PROVE  /\ Head(todo) = Two!Fresh({}) => TwoSame /\ core' = core
           /\ Head(todo) = Two!Keep =>
                 /\ todo' = Tail(todo) /\ call' = call /\ core' = core /\ buffer' = buffer
                 /\ kept' = Append(kept, buffer) /\ trouble' = trouble
           /\ Head(todo) = Two!NoneKept(7) => TwoSame /\ core' = core /\ buffer' = buffer /\ Acked
           /\ Head(todo) # Two!ReturnFalse
<1>. USE DEF TwoSame, Two!Access
<1>1. ASSUME Head(todo) = Two!Fresh({}) PROVE TwoSame /\ core' = core
  <2>1. Head(todo).act = "fresh"
    BY <1>1 DEF Two!Fresh
  <2>2. Two!LocalStep /\ ~Two!LeavesEarly
    BY <2>1, TwoFine DEF Two!Local, Two!LeavesEarly
  <2>. QED
    BY <2>1, <2>2 DEF Two!LocalStep
<1>2. ASSUME Head(todo) = Two!Keep
      PROVE  /\ todo' = Tail(todo) /\ call' = call /\ core' = core /\ buffer' = buffer
             /\ kept' = Append(kept, buffer) /\ trouble' = trouble
  <2>1. Head(todo).act = "keep"
    BY <1>2 DEF Two!Keep
  <2>2. Two!LocalStep /\ ~Two!LeavesEarly
    BY <2>1, TwoFine DEF Two!Local, Two!LeavesEarly
  <2>. QED
    BY <2>1, <2>2 DEF Two!LocalStep
<1>3. ASSUME Head(todo) = Two!NoneKept(7)
      PROVE  TwoSame /\ core' = core /\ buffer' = buffer /\ Acked
  <2>1. Head(todo).act = "none" /\ Head(todo).bit = 7
    BY <1>3 DEF Two!NoneKept
  <2>2. Two!LocalStep
    BY <2>1, TwoFine DEF Two!Local
  <2>3. ok' = (ok /\ ~Two!LeavesEarly)
    BY <2>2 DEF Two!LocalStep
  <2>4. ~Two!LeavesEarly
    BY <2>3, Zenon
  <2>5. Acked
    BY <2>1, <2>4 DEF Two!LeavesEarly, Acked
  <2>. QED
    BY <2>1, <2>2, <2>4, <2>5 DEF Two!LocalStep
<1>4. ASSUME Head(todo) = Two!ReturnFalse PROVE FALSE
  <2>1. Head(todo).act = "require" /\ Head(todo).bits = {}
    BY <1>4 DEF Two!ReturnFalse, Two!Require
  <2>2. Two!LocalStep /\ Two!LeavesEarly
    BY <2>1, TwoFine DEF Two!Local, Two!LeavesEarly
  <2>3. ok' = (ok /\ ~Two!LeavesEarly)
    BY <2>2 DEF Two!LocalStep
  <2>. QED
    BY <2>2, <2>3, Zenon
<1>. QED
  BY <1>1, <1>2, <1>3, <1>4

\* What a transfer changes of the core.
LEMMA TwoByte == ASSUME NEW c, IsTwo(c) PROVE IsTwo(Two!Byte(c))
<1>. USE DEF IsTwo, TwoFields
<1>1. /\ \A a : IsTwo([c EXCEPT !.RX = a])
      /\ \A a, b : IsTwo([c EXCEPT !.nack = a, !.slave = b])
      /\ \A a, b, d : IsTwo([c EXCEPT !.nack = a, !.slave = b, !.pointer = d])
      /\ \A a, b : IsTwo([c EXCEPT !.nack = a, !.mem = b])
      /\ \A a : IsTwo([c EXCEPT !.nack = a])
  <2>1. \A a : IsTwo([c EXCEPT !.RX = a])
    OBVIOUS
  <2>2. \A a, b : IsTwo([c EXCEPT !.nack = a, !.slave = b])
    OBVIOUS
  <2>3. \A a, b, d : IsTwo([c EXCEPT !.nack = a, !.slave = b, !.pointer = d])
    OBVIOUS
  <2>4. \A a, b : IsTwo([c EXCEPT !.nack = a, !.mem = b])
    OBVIOUS
  <2>5. \A a : IsTwo([c EXCEPT !.nack = a])
    OBVIOUS
  <2>. QED
    BY <2>1, <2>2, <2>3, <2>4, <2>5
<1>2. \A a, b : [c EXCEPT !.nack = FALSE, !.mem[a] = b]
                  = [c EXCEPT !.nack = FALSE, !.mem = [c.mem EXCEPT ![a] = b]]
  OBVIOUS
<1>. HIDE DEF IsTwo, TwoFields
<1>. QED
  BY <1>1, <1>2 DEF Two!Byte

\* No access changes what the core is made of.
LEMMA TwoTyped == ASSUME IsTwo(core), Two!Host \/ Two!Finish PROVE IsTwo(core')
<1>. USE DEF IsTwo, TwoFields
<1>1. ASSUME NEW c, IsTwo(c), NEW r, NEW v PROVE IsTwo(Two!AfterWrite(c, r, v))
  BY <1>1 DEF Two!AfterWrite
<1>2. IsTwo(Two!Accessed)
  BY <1>1 DEF Two!Accessed, Two!AfterRead
<1>. HIDE DEF IsTwo
<1>3. CASE Two!Host
  BY <1>2, <1>3 DEF Two!Host, Two!ExchangeSucceeds, Two!ExchangeRepeated, Two!ExchangeFails,
                    Two!LocalStep
<1>4. CASE Two!Finish
  <2>. USE DEF IsTwo
  <2>1. ASSUME NEW c, IsTwo(c) PROVE IsTwo(Two!Byte(c))
    BY <2>1, TwoByte
  <2>2. ASSUME NEW c, IsTwo(c) PROVE IsTwo(Two!Stopped(c))
    BY <2>2 DEF Two!Stopped
  <2>3. ASSUME NEW c, IsTwo(c) PROVE IsTwo([c EXCEPT !.busy = FALSE])
    BY <2>3
  <2>. HIDE DEF IsTwo
  <2>. QED
    BY <1>4, <2>1, <2>2, <2>3 DEF Two!Finish, Two!CoreStep
<1>. QED
  BY <1>3, <1>4

\* The step that readByte() makes next.
LEMMA TwoHead ==
    ASSUME NEW k \in Places, At(k)
    PROVE  /\ todo # << >>
           /\ k \in {1, 7, 13, 19} => Head(todo) = Two!Fresh({})
           /\ k = 2 => Head(todo) = Two!Write("TX", ToWrite(call.device))
           /\ k = 8 => Head(todo) = Two!Write("TX", call.register)
           /\ k = 14 => Head(todo) = Two!Write("TX", ToRead(call.device))
           /\ k \in {3, 15} => Head(todo) = Two!Write("CR", {4, 7})
           /\ k = 9 => Head(todo) = Two!Write("CR", {4, 6})
           /\ k = 20 => Head(todo) = Two!Write("CR", {3, 5, 6})
           /\ k \in {4, 10, 16, 21} =>
                 Head(todo) = [act |-> "poll", reg |-> "SR", bit |-> 1, level |-> FALSE,
                               fail |-> "note"]
           /\ k \in {5, 11, 17} => Head(todo) = Two!Read("SR")
           /\ k \in {6, 12, 18} => Head(todo) = Two!Keep
           /\ k = 22 => Head(todo) = Two!Read("RX")
           /\ k = 23 => Head(todo) = Two!NoneKept(7)
           /\ Tail(todo) = << >> <=> k = 23
<1>. DEFINE d == call.device
            r == call.register
            L == ReadList(d, r)
<1>1. todo = From(ReadList(d, r), k)
  BY DEF At
<1>2. /\ todo # << >> /\ Head(todo) = L[k]
      /\ k = 23 => Tail(todo) = << >>
      /\ k + 1 \in Places => Tail(todo) # << >>
  <2>. HIDE DEF d, r
  <2>. QED
    BY <1>1, TwoAt
<1>3. Transfers(d, r, L)
  <2>. HIDE DEF d, r
  <2>. QED
    BY TwoList
<1>4. k # 23 => k + 1 \in Places
  BY DEF Places
<1>. HIDE DEF L
<1>. QED
  BY <1>2, <1>3, <1>4 DEF Transfers

\* The next step of readByte().
LEMMA TwoStep ==
    ASSUME NEW k \in 1 .. 22, At(k), TwoSame, Acked => ReadStage(k + 1)',
           k + 1 \in {6, 12, 18} => buffer' \in Byte8
    PROVE  At(k + 1)'
<1>. DEFINE d == call.device
            r == call.register
<1>1. todo = From(ReadList(d, r), k) /\ k \in Places
  BY DEF At, Places
<1>2. todo' = From(ReadList(d, r), k + 1)
  <2>. HIDE DEF d, r
  <2>1. Tail(todo) = From(ReadList(d, r), k + 1)
    BY <1>1, TwoAt
  <2>. QED
    BY <2>1 DEF TwoSame
<1>3. todo' = From(ReadList(call'.device, call'.register), k + 1)
  BY <1>2 DEF TwoSame
<1>4. Acked' <=> Acked
  BY DEF Acked, TwoSame
<1>5. todo' = From(ReadList(call.device, call.register), k + 1)'
  BY <1>3 DEF From, ReadList, SendSteps, ReceiveSteps, ToWrite, ToRead, Two!Addressing
<1>. QED
  BY <1>4, <1>5 DEF At

\* What a write changes of the core.
LEMMA TwoWritten ==
    ASSUME IsTwo(core), NEW v
    PROVE  /\ LET c == Two!AfterWrite(core, "TX", v)
              IN  /\ c.TX = v /\ c.CR = core.CR /\ c.busy = core.busy /\ c.slave = core.slave
                  /\ c.pointer = core.pointer
           /\ LET c == Two!AfterWrite(core, "CR", v)
              IN  /\ c.CR = v /\ c.TX = core.TX /\ c.busy = TRUE /\ c.slave = core.slave
                  /\ c.pointer = core.pointer
BY DEF Two!AfterWrite, IsTwo, TwoFields

\* It enters a function: the bus stays as it is.
LEMMA TwoEnters ==
    ASSUME TwoGoesOn, ok => success, ok', NEW k \in {1, 7, 13, 19}, At(k)
    PROVE  TwoSame /\ At(k + 1)'
<1>0. k \in Places
  BY DEF Places
<1>1. Head(todo) = Two!Fresh({}) /\ k \in 1 .. 22
  BY <1>0, TwoHead
<1>2. TwoSame /\ core' = core
  BY <1>1, TwoLocal
<1>3. ReadStage(k) => ReadStage(k + 1)'
  BY <1>2 DEF ReadStage, TwoSame, Addressed, Pointed, Turned, Repeated
<1>. QED
  BY <1>1, <1>2, <1>3, TwoStep DEF At

\* It writes TX.
LEMMA TwoWritesByte ==
    ASSUME IsTwo(core), TwoGoesOn, ok => success, ok', NEW k \in {2, 8, 14}, At(k)
    PROVE  TwoSame /\ At(k + 1)'
<1>. DEFINE v == IF k = 2 THEN ToWrite(call.device)
                 ELSE IF k = 8 THEN call.register ELSE ToRead(call.device)
<1>0. k \in Places
  BY DEF Places
<1>1. Head(todo) = Two!Write("TX", v) /\ k \in 1 .. 22
  BY <1>0, TwoHead
<1>. HIDE DEF v
<1>2. TwoSame /\ core' = Two!AfterWrite(core, "TX", v)
  BY <1>1, TwoWrite
<1>3. /\ core'.TX = v /\ core'.CR = core.CR /\ core'.busy = core.busy /\ core'.slave = core.slave
      /\ core'.pointer = core.pointer
  BY <1>2, TwoWritten
<1>4. ReadStage(k) => ReadStage(k + 1)'
  <2>1. call' = call
    BY <1>2 DEF TwoSame
  <2>. QED
    BY <1>3, <2>1 DEF ReadStage, Addressed, Pointed, Turned, Repeated, v, ToWrite, ToRead, Two!Addressing
<1>. QED
  BY <1>1, <1>2, <1>4, TwoStep DEF At

\* It writes a command: the core is busy from then on.
LEMMA TwoCommands ==
    ASSUME IsTwo(core), TwoGoesOn, ok => success, ok', NEW k \in {3, 9, 15, 20}, At(k)
    PROVE  TwoSame /\ At(k + 1)'
<1>. DEFINE v == IF k \in {3, 15} THEN {4, 7} ELSE IF k = 9 THEN {4, 6} ELSE {3, 5, 6}
<1>0. k \in Places
  BY DEF Places
<1>1. Head(todo) = Two!Write("CR", v) /\ k \in 1 .. 22
  BY <1>0, TwoHead
<1>. HIDE DEF v
<1>2. TwoSame /\ core' = Two!AfterWrite(core, "CR", v)
  BY <1>1, TwoWrite
<1>3. /\ core'.CR = v /\ core'.TX = core.TX /\ core'.busy = TRUE /\ core'.slave = core.slave
      /\ core'.pointer = core.pointer
  BY <1>2, TwoWritten
<1>4. ReadStage(k) => ReadStage(k + 1)'
  <2>1. call' = call /\ trouble' = trouble
    BY <1>2 DEF TwoSame
  <2>2. CASE k = 3
    BY <1>3, <2>1, <2>2 DEF ReadStage, v, ToWrite, Two!Addressing
  <2>3. CASE k = 9
    BY <1>3, <2>1, <2>3 DEF ReadStage, v
  <2>4. CASE k = 15
    BY <1>3, <2>1, <2>4 DEF ReadStage, v, ToRead, Two!Addressing
  <2>5. CASE k = 20
    BY <1>3, <2>1, <2>5 DEF ReadStage, Repeated, v
  <2>. QED
    BY <2>2, <2>3, <2>4, <2>5
<1>. QED
  BY <1>1, <1>2, <1>4, TwoStep DEF At

\* It waits until the core has carried it out.
LEMMA TwoWaits ==
    ASSUME TwoGoesOn, ok => success, ok', NEW k \in {4, 10, 16, 21}, At(k)
    PROVE  /\ call' = call /\ kept' = kept /\ todo' # << >>
           /\ At(k)' \/ At(k + 1)'
<1>0. k \in Places
  BY DEF Places
<1>1. /\ Head(todo) = [act |-> "poll", reg |-> "SR", bit |-> 1, level |-> FALSE, fail |-> "note"]
      /\ k \in 1 .. 22 /\ todo # << >> /\ Tail(todo) # << >>
  <2>1. /\ todo # << >> /\ (Tail(todo) = << >> <=> k = 23)
        /\ k \in {4, 10, 16, 21} =>
              Head(todo) = [act |-> "poll", reg |-> "SR", bit |-> 1, level |-> FALSE,
                            fail |-> "note"]
    BY <1>0, TwoHead
  <2>2. k \in 1 .. 22 /\ k # 23
    OBVIOUS
  <2>. QED
    BY <2>1, <2>2
<1>2. core' = core /\ call' = call /\ kept' = kept /\ trouble' = trouble
  BY <1>1, TwoPoll
<1>3. CASE todo' = todo
  <2>1. From(ReadList(call.device, call.register), k)'
          = From(ReadList(call.device, call.register), k)
    BY <1>2 DEF From, ReadList, SendSteps, ReceiveSteps, ToWrite, ToRead, Two!Addressing
  <2>2. (Acked' <=> Acked) /\ (ReadStage(k) => ReadStage(k)')
    BY <1>2 DEF Acked, ReadStage, Addressed, Pointed, Turned, HasByte, Missed, Repeated,
                ToWrite, ToRead, Two!Addressing
  <2>3. At(k)'
    BY <1>3, <2>1, <2>2 DEF At
  <2>. QED
    BY <1>1, <1>2, <1>3, <2>3
<1>4. CASE todo' = Tail(todo) /\ ~core.busy
  <2>1. ReadStage(k) => ReadStage(k + 1)'
    BY <1>2, <1>4 DEF ReadStage, Addressed, Pointed, Turned, HasByte, Missed, Repeated
  <2>2. TwoSame
    BY <1>2, <1>4 DEF TwoSame
  <2>. QED
    <3>1. k + 1 \notin {6, 12, 18} /\ (Acked => ReadStage(k + 1)')
      BY <2>1 DEF At
    <3>2. At(k + 1)'
      BY <1>1, <2>2, <3>1, TwoStep
    <3>. QED
      BY <1>1, <1>2, <1>4, <3>2
<1>. QED
  BY <1>1, <1>3, <1>4, TwoPoll

\* It reads the acknowledge bit ...
LEMMA TwoStatus ==
    ASSUME TwoGoesOn, ok => success, ok', NEW k \in {5, 11, 17}, At(k)
    PROVE  TwoSame /\ At(k + 1)'
<1>0. k \in Places /\ k \in 1 .. 22
  BY DEF Places
<1>1. Head(todo) = Two!Read("SR")
  BY <1>0, TwoHead
<1>2. TwoSame /\ core' = core /\ buffer' = Two!Value(core, "SR")
  BY <1>1, TwoRead
<1>3. /\ Two!Value(core, "SR") \in Byte8
      /\ core.nack => 7 \in Two!Value(core, "SR")
  BY DEF Two!Value, Byte8
<1>4. ReadStage(k) => ReadStage(k + 1)'
  BY <1>2, <1>3 DEF ReadStage, TwoSame, Addressed, Pointed, Turned, Repeated
<1>5. Acked => ReadStage(k + 1)'
  BY <1>4 DEF At
<1>. QED
  BY <1>0, <1>2, <1>3, <1>5, TwoStep

\* ... and puts it aside.
LEMMA TwoKeeps ==
    ASSUME kept \in Seq(Byte8), TwoGoesOn, ok => success, ok', NEW k \in {6, 12, 18}, At(k)
    PROVE  call' = call /\ kept' \in Seq(Byte8) /\ todo' # << >> /\ At(k + 1)'
<1>0. k \in Places /\ k \in 1 .. 22 /\ k + 1 \in Places /\ k + 1 \notin {6, 12, 18}
  BY DEF Places
<1>1. Head(todo) = Two!Keep /\ Tail(todo) # << >>
  BY <1>0, TwoHead
<1>2. /\ todo' = Tail(todo) /\ call' = call /\ core' = core /\ buffer' = buffer
      /\ kept' = Append(kept, buffer) /\ trouble' = trouble
  BY <1>1, TwoLocal
<1>3. buffer \in Byte8
  BY DEF At
<1>4. /\ kept' \in Seq(Byte8) /\ Len(kept') = Len(kept) + 1 /\ kept'[Len(kept) + 1] = buffer
      /\ \A i \in 1 .. Len(kept) : kept'[i] = kept[i]
  BY <1>2, <1>3, AppendProperties
<1>5. Acked' => Acked /\ 7 \notin buffer
  <2>. DEFINE l == Len(kept)
  <2>1. l \in Nat /\ DOMAIN kept = 1 .. l /\ DOMAIN kept' = 1 .. l + 1
    BY <1>4, LenProperties
  <2>2. kept'[l + 1] = buffer /\ \A i \in 1 .. l : kept'[i] = kept[i]
    BY <1>4
  <2>. HIDE DEF l
  <2>3. l + 1 \in 1 .. l + 1 /\ \A i \in 1 .. l : i \in 1 .. l + 1
    BY <2>1
  <2>. QED
    BY <2>1, <2>2, <2>3 DEF Acked
<1>6. ReadStage(k) /\ 7 \notin buffer => ReadStage(k + 1)'
  BY <1>2 DEF ReadStage, Addressed, Pointed, Turned, Repeated
<1>7. todo' = From(ReadList(call.device, call.register), k + 1)'
  <2>. DEFINE d == call.device
              r == call.register
  <2>1. todo = From(ReadList(d, r), k)
    BY DEF At
  <2>2. todo' = From(ReadList(d, r), k + 1)
    <3>. HIDE DEF d, r
    <3>. QED
      BY <1>0, <1>2, <2>1, TwoAt
  <2>. QED
    BY <1>2, <2>2 DEF From, ReadList, SendSteps, ReceiveSteps, ToWrite, ToRead, Two!Addressing
<1>8. Acked' => ReadStage(k + 1)'
  BY <1>5, <1>6 DEF At
<1>9. At(k + 1)'
  BY <1>0, <1>7, <1>8 DEF At
<1>. QED
  BY <1>1, <1>2, <1>4, <1>9

\* It reads the byte, ...
LEMMA TwoTakes ==
    ASSUME TwoGoesOn, ok => success, ok', At(22)
    PROVE  TwoSame /\ At(23)'
<1>0. 22 \in Places /\ 22 \in 1 .. 22 /\ 22 + 1 = 23
  BY DEF Places
<1>1. Head(todo) = Two!Read("RX")
  BY <1>0, TwoHead
<1>2. TwoSame /\ core' = core /\ buffer' = core.RX
  BY <1>1, TwoRead DEF Two!Value
<1>3. ReadStage(22) => ReadStage(23)'
  BY <1>2 DEF ReadStage, TwoSame, HasByte, Missed, Repeated
<1>4. Acked => ReadStage(23)'
  BY <1>3 DEF At
<1>5. Acked => ReadStage(22 + 1)'
  BY <1>4, <1>0
<1>6. At(22 + 1)'
  BY <1>0, <1>2, <1>5, TwoStep
<1>. QED
  BY <1>0, <1>2, <1>6

\* What readByte() can return.
Returnable == \/ HasByte /\ buffer = core.mem[call.register]
              \/ Missed /\ Repeated /\ buffer = Two!Idle

\* ... and returns it if every byte it has sent was acknowledged.
LEMMA TwoReturns ==
    ASSUME TwoGoesOn, ok => success, ok', At(23)
    PROVE  /\ todo' = << >> /\ call' = call /\ core' = core /\ buffer' = buffer
           /\ trouble' = trouble /\ Returnable
<1>0. 23 \in Places
  BY DEF Places
<1>1. Head(todo) = Two!NoneKept(7) /\ Tail(todo) = << >>
  BY <1>0, TwoHead
<1>2. TwoSame /\ core' = core /\ buffer' = buffer /\ Acked
  BY <1>1, TwoLocal
<1>3. ReadStage(23)
  BY <1>2 DEF At
<1>. QED
  BY <1>1, <1>2, <1>3 DEF TwoSame, ReadStage, Returnable

\* An exchange that is repeated: the register is written and will be written again.
LEMMA TwoRepeats ==
    ASSUME IsTwo(core), ReadingByte, Two!ExchangeRepeated
    PROVE  ReadingByte'
<1>. PICK k \in Places : At(k)
  BY DEF ReadingByte
<1>1. kept \in Seq(Byte8) /\ call.device \in SevenBits /\ call.register \in Registers
  BY DEF ReadingByte
<1>2. /\ core' = Two!Accessed /\ todo' = todo /\ buffer' = buffer /\ call' = call /\ kept' = kept
      /\ Repeated' /\ Head(todo).act \in {"read", "poll", "write", "back"}
  BY DEF Two!ExchangeRepeated, Two!Exchange, Two!Access, Repeated
<1>3. ToWrite(call.device)' = ToWrite(call.device) /\ ToRead(call.device)' = ToRead(call.device)
  BY <1>2 DEF ToWrite, ToRead, Two!Addressing
<1>. DEFINE w == IF k = 2 THEN ToWrite(call.device)
                 ELSE IF k = 8 THEN call.register ELSE ToRead(call.device)
            v == IF k \in {3, 15} THEN {4, 7} ELSE IF k = 9 THEN {4, 6} ELSE {3, 5, 6}
<1>4. /\ k \in {2, 8, 14} => Head(todo) = Two!Write("TX", w)
      /\ k \in {3, 9, 15, 20} => Head(todo) = Two!Write("CR", v)
      /\ k \in {1, 6, 7, 12, 13, 18, 19, 23} =>
            Head(todo) \in {Two!Fresh({}), Two!Keep, Two!NoneKept(7)}
      /\ k \in {4, 5, 10, 11, 16, 17, 21, 22} => Head(todo).act \in {"read", "poll"}
  BY TwoHead DEF Two!Read
<1>. HIDE DEF w, v
<1>5. ReadStage(k) => ReadStage(k)'
  <2>1. CASE k \in {2, 8, 14}
    <3>1. Two!Accessed = Two!AfterWrite(core, "TX", w)
      BY <1>4, <2>1 DEF Two!Accessed, Two!Reads, Two!Written, Two!Access, Two!Write
    <3>2. /\ core'.busy = core.busy /\ core'.slave = core.slave /\ core'.pointer = core.pointer
      BY <1>2, <3>1, TwoWritten
    <3>. QED
      BY <1>2, <2>1, <3>2 DEF ReadStage, Addressed, Pointed
  <2>2. CASE k \in {3, 9, 15, 20}
    <3>1. Two!Accessed = Two!AfterWrite(core, "CR", v)
      BY <1>4, <2>2 DEF Two!Accessed, Two!Reads, Two!Written, Two!Access, Two!Write
    <3>2. /\ core'.CR = v /\ core'.TX = core.TX /\ core'.slave = core.slave
          /\ core'.pointer = core.pointer
      BY <1>2, <3>1, TwoWritten
    <3>. QED
      BY <1>2, <1>3, <2>2, <3>2 DEF ReadStage, v
  <2>3. CASE k \in {1, 6, 7, 12, 13, 18, 19, 23}
    BY <1>2, <1>4, <2>3 DEF Two!Fresh, Two!Keep, Two!NoneKept
  <2>4. CASE k \in {4, 5, 10, 11, 16, 17, 21, 22}
    <3>1. core' = core
      BY <1>2, <1>4, <2>4 DEF Two!Accessed, Two!Reads, Two!Access, Two!AfterRead
    <3>. QED
      BY <1>2, <1>3, <3>1 DEF ReadStage, Addressed, Pointed, Turned, HasByte, Missed
  <2>. QED
    BY <2>1, <2>2, <2>3, <2>4 DEF Places
<1>6. From(ReadList(call.device, call.register), k)' = From(ReadList(call.device, call.register), k)
  BY <1>2 DEF From, ReadList, SendSteps, ReceiveSteps, ToWrite, ToRead, Two!Addressing
<1>7. At(k)'
  BY <1>2, <1>5, <1>6 DEF At, Acked
<1>. QED
  BY <1>1, <1>2, <1>7 DEF ReadingByte

\* A step of readByte().
LEMMA TwoReading ==
    ASSUME IsTwo(core), ReadingByte, TwoGoesOn, ok => success, ok'
    PROVE  /\ call' = call
           /\ \/ ReadingByte'
              \/ /\ todo' = << >> /\ core' = core /\ buffer' = buffer
                 /\ trouble' = trouble /\ Returnable
<1>. PICK k \in Places : At(k)
  BY DEF ReadingByte
<1>0. kept \in Seq(Byte8) /\ call.device \in SevenBits /\ call.register \in Registers
  BY DEF ReadingByte
<1>1. ASSUME call' = call, kept' \in Seq(Byte8), NEW j \in Places, At(j)' PROVE ReadingByte'
  BY <1>0, <1>1 DEF ReadingByte
<1>2. CASE k \in {1, 2, 3, 5, 7, 8, 9, 11, 13, 14, 15, 17, 19, 20, 22}
  <2>1. k + 1 \in Places
    BY <1>2 DEF Places
  <2>2. TwoSame /\ At(k + 1)'
    <3>1. CASE k \in {1, 7, 13, 19}
      BY <3>1, TwoEnters
    <3>2. CASE k \in {2, 8, 14}
      BY <3>2, TwoWritesByte
    <3>3. CASE k \in {3, 9, 15, 20}
      BY <3>3, TwoCommands
    <3>4. CASE k \in {5, 11, 17}
      BY <3>4, TwoStatus
    <3>5. CASE k = 22
      BY <3>5, TwoTakes
    <3>. QED
      BY <1>2, <3>1, <3>2, <3>3, <3>4, <3>5
  <2>. QED
    BY <1>0, <1>1, <2>1, <2>2 DEF TwoSame
<1>3. CASE k \in {4, 10, 16, 21}
  <2>1. call' = call /\ kept' = kept /\ (At(k)' \/ At(k + 1)')
    BY <1>3, TwoWaits
  <2>2. k + 1 \in Places
    BY <1>3 DEF Places
  <2>. QED
    BY <1>0, <1>1, <2>1, <2>2
<1>4. CASE k \in {6, 12, 18}
  <2>1. call' = call /\ kept' \in Seq(Byte8) /\ At(k + 1)'
    BY <1>0, <1>4, TwoKeeps
  <2>2. k + 1 \in Places
    BY <1>4 DEF Places
  <2>. QED
    BY <1>1, <2>1, <2>2
<1>5. CASE k = 23
  BY <1>5, TwoReturns
<1>. QED
  BY <1>2, <1>3, <1>4, <1>5 DEF Places

\* What the core has done with a command when it is no longer busy.
LEMMA TwoFinished ==
    ASSUME IsTwo(core), Two!Finish
    PROVE  /\ core.busy /\ ~core'.busy /\ core'.TX = core.TX /\ core'.CR = core.CR
           /\ call' = call /\ todo' = todo /\ kept' = kept /\ buffer' = buffer
           /\ trouble' = trouble
           /\ core.CR = {4, 7} =>
                 LET hit == core.TX \ {0} = Two!Addressing(Slave, FALSE)
                 IN  /\ core'.pointer = core.pointer
                     /\ core'.nack = ~hit
                     /\ hit => core'.slave = IF 0 \in core.TX THEN "read" ELSE "address"
           /\ core.CR = {4, 6} /\ core.slave = "address" /\ core.TX \in Registers =>
                 core'.pointer = core.TX
           /\ core.CR = {4, 6} /\ core.slave = "none" => core'.nack
           /\ core.CR = {4, 6} => core'.slave = "none"
           /\ core.CR = {3, 5, 6} =>
                 /\ core'.mem = core.mem /\ ~core'.held /\ core'.slave = "none"
                 /\ core'.RX = IF core.slave = "read" THEN core.mem[core.pointer] ELSE Two!Idle
<1>. DEFINE b == Two!Byte(core)
            s == Two!Stopped(b)
<1>1. /\ core.busy /\ core' = [s EXCEPT !.busy = FALSE]
      /\ call' = call /\ todo' = todo /\ kept' = kept /\ buffer' = buffer
      /\ trouble' = trouble
  BY DEF Two!Finish, Two!CoreStep
<1>2. IsTwo(b) /\ b.TX = core.TX /\ b.CR = core.CR
  <2>1. IsTwo(b)
    BY TwoByte
  <2>2. b.TX = core.TX /\ b.CR = core.CR
    BY DEF Two!Byte, IsTwo, TwoFields
  <2>. QED
    BY <2>1, <2>2
<1>3. /\ core.CR = {4, 7} =>
            LET hit == core.TX \ {0} = Two!Addressing(Slave, FALSE)
            IN  /\ b.pointer = core.pointer
                /\ b.nack = ~hit
                /\ hit => b.slave = IF 0 \in core.TX THEN "read" ELSE "address"
  <2>. SUFFICES ASSUME core.CR = {4, 7}
                PROVE  LET hit == core.TX \ {0} = Two!Addressing(Slave, FALSE)
                       IN  /\ b.pointer = core.pointer
                           /\ b.nack = ~hit
                           /\ hit => b.slave = IF 0 \in core.TX THEN "read" ELSE "address"
    OBVIOUS
  <2>. DEFINE hit == core.TX \ {0} = Two!Addressing(Slave, FALSE)
              n == ~hit
              w == IF ~hit THEN "none" ELSE IF 0 \in core.TX THEN "read" ELSE "address"
  <2>1. b = [core EXCEPT !.nack = n, !.slave = w]
    BY DEF Two!Byte
  <2>. HIDE DEF n, w, b, hit
  <2>2. b.pointer = core.pointer /\ b.nack = n /\ b.slave = w
    BY <2>1 DEF IsTwo, TwoFields
  <2>3. hit => w = IF 0 \in core.TX THEN "read" ELSE "address"
    BY DEF w
  <2>. QED
    BY <2>2, <2>3 DEF n, hit
<1>4. core.CR = {4, 6} /\ core.slave = "address" /\ core.TX \in Registers => b.pointer = core.TX
  BY DEF Two!Byte, IsTwo, TwoFields
<1>5. core.CR = {3, 5, 6} =>
            /\ b.RX = IF core.slave = "read" THEN core.mem[core.pointer] ELSE Two!Idle
            /\ b.mem = core.mem
  BY DEF Two!Byte, IsTwo, TwoFields
<1>9. core.CR = {4, 6} /\ core.slave = "none" => b.nack
  <2>. SUFFICES ASSUME core.CR = {4, 6}, core.slave = "none" PROVE b.nack
    OBVIOUS
  <2>1. 5 \notin core.CR /\ 7 \notin core.CR /\ core.slave # "address" /\ core.slave # "content"
    OBVIOUS
  <2>2. b = [core EXCEPT !.nack = TRUE]
    BY <2>1 DEF Two!Byte
  <2>. HIDE DEF b
  <2>. QED
    BY <2>2 DEF IsTwo, TwoFields
<1>. HIDE DEF b
<1>6. /\ IsTwo(s) /\ s.TX = b.TX /\ s.CR = b.CR /\ s.pointer = b.pointer /\ s.nack = b.nack
      /\ s.RX = b.RX /\ s.mem = b.mem
      /\ 6 \notin b.CR => s.slave = b.slave
      /\ 6 \in b.CR => s.held = FALSE /\ s.slave = "none"
  BY <1>2 DEF Two!Stopped, IsTwo, TwoFields
<1>. HIDE DEF s
<1>7. /\ core'.TX = s.TX /\ core'.CR = s.CR /\ core'.pointer = s.pointer /\ core'.nack = s.nack
      /\ core'.RX = s.RX /\ core'.mem = s.mem /\ core'.slave = s.slave /\ core'.held = s.held
      /\ core'.busy = FALSE
  BY <1>1, <1>6 DEF IsTwo, TwoFields
<1>8. 6 \notin {4, 7} /\ 6 \in {3, 5, 6} /\ 6 \in {4, 6}
  OBVIOUS
<1>. QED
  BY <1>1, <1>2, <1>3, <1>4, <1>5, <1>6, <1>7, <1>8, <1>9

\* It has taken the operation a step further.
LEMMA TwoCore ==
    ASSUME IsTwo(core), CoresAssumption, ReadingByte, Two!Finish
    PROVE  ReadingByte'
<1>. PICK k \in Places : At(k)
  BY DEF ReadingByte
<1>1. /\ kept \in Seq(Byte8) /\ call.device \in SevenBits /\ call.register \in Registers
      /\ Slave \in SevenBits
  BY DEF ReadingByte, CoresAssumption, SevenBits
<1>2. /\ core.busy /\ ~core'.busy /\ core'.TX = core.TX /\ core'.CR = core.CR
      /\ call' = call /\ todo' = todo /\ kept' = kept /\ buffer' = buffer
      /\ Repeated' = Repeated
  BY TwoFinished DEF Repeated
<1>. DEFINE hit == core.TX \ {0} = Two!Addressing(Slave, FALSE)
<1>3. core.CR = {4, 7} =>
        /\ core'.pointer = core.pointer
        /\ core'.nack = ~hit
        /\ hit => core'.slave = IF 0 \in core.TX THEN "read" ELSE "address"
  BY TwoFinished
<1>4. /\ core.TX = ToWrite(call.device) /\ hit => call.device = Slave
      /\ core.TX = ToWrite(call.device) => 0 \notin core.TX
      /\ core.TX = ToRead(call.device) /\ call.device = Slave => hit /\ 0 \in core.TX
  <2>. DEFINE d == call.device
  <2>1. d \in SevenBits
    BY <1>1
  <2>. HIDE DEF d
  <2>2. /\ ToWrite(d) \ {0} = Two!Addressing(Slave, FALSE) => d = Slave
        /\ ToRead(d) \ {0} = ToWrite(d) /\ 0 \notin ToWrite(d) /\ 0 \in ToRead(d)
    <3>. DEFINE e == Slave
    <3>1. e \in SevenBits
      BY <1>1
    <3>. HIDE DEF e
    <3>2. /\ ToWrite(d) \ {0} = Two!Addressing(e, FALSE) => d = e
          /\ ToWrite(d) \ {0} = ToWrite(d) /\ ToRead(d) \ {0} = ToWrite(d)
          /\ 0 \notin ToWrite(d) /\ 0 \in ToRead(d)
      BY <2>1, <3>1, Addresses
    <3>. QED
      BY <3>2 DEF e
  <2>3. ToWrite(d) = Two!Addressing(d, FALSE)
    BY DEF ToWrite
  <2>4. core.TX = ToWrite(d) /\ hit => d = Slave
    BY <2>2
  <2>5. core.TX = ToWrite(d) => 0 \notin core.TX
    BY <2>2
  <2>6. core.TX = ToRead(d) /\ d = Slave => hit /\ 0 \in core.TX
    BY <2>2, <2>3
  <2>. QED
    BY <2>4, <2>5, <2>6 DEF d
<1>5. ReadStage(k) => ReadStage(k)'
  <2>. SUFFICES ASSUME ReadStage(k) PROVE ReadStage(k)'
    OBVIOUS
  <2>1. ToWrite(call.device)' = ToWrite(call.device) /\ ToRead(call.device)' = ToRead(call.device)
    BY <1>2 DEF ToWrite, ToRead, Two!Addressing
  <2>2. CASE k \in {1, 2, 3}
    BY <1>2, <2>1, <2>2 DEF ReadStage
  <2>3. CASE k = 4
    <3>1. core.TX = ToWrite(call.device) /\ core.CR = {4, 7}
      BY <2>3 DEF ReadStage
    <3>2. core'.nack \/ Addressed'
      BY <1>2, <1>3, <1>4, <3>1 DEF Addressed
    <3>. QED
      BY <1>2, <2>1, <2>3, <3>1, <3>2 DEF ReadStage
  <2>4. CASE k = 10
    <3>1. /\ core.TX = call.register /\ core.CR = {4, 6} /\ call.device = Slave
          /\ core.slave \in {"address", "none"}
      BY <1>2, <2>4 DEF ReadStage, Pointed
    <3>2. CASE core.slave = "address"
      <4>1. core'.pointer = core.TX
        BY <1>1, <3>1, <3>2, TwoFinished
      <4>. QED
        BY <1>2, <2>4, <3>1, <4>1 DEF ReadStage, Pointed
    <3>3. CASE core.slave = "none"
      <4>1. core'.nack
        BY <3>1, <3>3, TwoFinished
      <4>. QED
        BY <1>2, <2>4, <3>1, <4>1 DEF ReadStage
    <3>. QED
      BY <3>1, <3>2, <3>3
  <2>5. CASE k = 16
    <3>1. /\ core.TX = ToRead(call.device) /\ core.CR = {4, 7} /\ call.device = Slave
          /\ core.pointer = call.register
      BY <2>5 DEF ReadStage
    <3>2. core'.slave = "read" /\ core'.pointer = core.pointer
      BY <1>3, <1>4, <3>1
    <3>. QED
      BY <1>2, <2>1, <2>5, <3>1, <3>2 DEF ReadStage, Pointed, Turned
  <2>6. CASE k = 21
    <3>1. /\ core.CR = {3, 5, 6} /\ call.device = Slave
          /\ \/ core.slave = "read" /\ core.pointer = call.register
             \/ core.slave = "none" /\ Repeated
      BY <1>2, <2>6 DEF ReadStage, HasByte, Missed
    <3>2. /\ core'.mem = core.mem /\ ~core'.held
          /\ core'.RX = IF core.slave = "read" THEN core.mem[core.pointer] ELSE Two!Idle
      BY <3>1, TwoFinished
    <3>3. CASE core.slave = "read" /\ core.pointer = call.register
      <4>1. HasByte'
        BY <1>2, <3>1, <3>2, <3>3 DEF HasByte
      <4>. QED
        BY <1>2, <2>6, <3>1, <4>1 DEF ReadStage
    <3>4. CASE core.slave = "none" /\ Repeated
      <4>1. core'.RX = Two!Idle
        BY <3>2, <3>4
      <4>2. Missed' /\ Repeated'
        BY <1>2, <3>1, <3>2, <3>4, <4>1 DEF Missed
      <4>. QED
        BY <1>2, <2>6, <3>1, <4>2 DEF ReadStage
    <3>. QED
      BY <3>1, <3>3, <3>4
  <2>9. CASE k = 9
    <3>1. core.CR = {4, 6} /\ core'.slave = "none"
      BY <1>2, <2>9, TwoFinished DEF ReadStage
    <3>. QED
      BY <1>2, <2>9, <3>1 DEF ReadStage
  <2>10. CASE k = 15
    <3>1. core'.pointer = core.pointer
      BY <1>2, <1>3, <2>10 DEF ReadStage
    <3>. QED
      BY <1>2, <2>1, <2>10, <3>1 DEF ReadStage
  <2>11. CASE k = 20
    <3>1. /\ core.CR = {3, 5, 6} /\ core'.slave = "none" /\ call.device = Slave /\ Repeated
      BY <1>2, <2>11, TwoFinished DEF ReadStage
    <3>. QED
      BY <1>2, <2>11, <3>1 DEF ReadStage
  <2>7. CASE k \in {6, 12}
    BY <1>2, <2>7 DEF ReadStage, Addressed, Pointed
  <2>8. CASE k \in {5, 7, 8, 11, 13, 14, 17, 18, 19, 22, 23}
    <3>1. ~core.busy
      BY <2>8 DEF ReadStage, Addressed, Pointed, Turned, HasByte, Missed
    <3>. QED
      BY <1>2, <3>1
  <2>. QED
    BY <2>2, <2>3, <2>4, <2>5, <2>6, <2>7, <2>8, <2>9, <2>10, <2>11 DEF Places
<1>6. From(ReadList(call.device, call.register), k)' = From(ReadList(call.device, call.register), k)
  BY <1>2 DEF From, ReadList, SendSteps, ReceiveSteps, ToWrite, ToRead, Two!Addressing
<1>7. At(k)'
  BY <1>2, <1>5, <1>6 DEF At, Acked
<1>. QED
  BY <1>1, <1>2, <1>7 DEF ReadingByte

\* A call.
LEMMA TwoCall ==
    ASSUME Two!Call
    PROVE  /\ core' = core /\ success' = TRUE /\ ok' = TRUE /\ todo = << >>
           /\ call'.op = "readByte" => todo' = << Two!ReturnFalse >> \/ ReadingByte'
<1>. USE DEF Two!Start, Two!StartWith, Two!Refuse
<1>1. CASE \E speed \in DOMAIN Two!CLOCK_SPEED : Two!Initialize(speed)
  BY <1>1 DEF Two!Initialize
<1>2. CASE Two!InitializeRefused
  BY <1>2 DEF Two!InitializeRefused
<1>3. ASSUME NEW device \in Devices, NEW r \in Registers, NEW data \in Data,
             Two!WriteByte(device, r, data)
      PROVE  /\ core' = core /\ success' = TRUE /\ ok' = TRUE /\ todo = << >>
             /\ call'.op # "readByte"
  <2>1. call' = [op |-> "writeByte", device |-> device, register |-> r, data |-> data]
    BY <1>3 DEF Two!WriteByte
  <2>2. core' = core /\ success' = TRUE /\ ok' = TRUE /\ todo = << >>
    BY <1>3 DEF Two!WriteByte
  <2>. QED
    BY <2>1, <2>2
<1>4. ASSUME NEW data, NEW write, NEW start, NEW nack, Two!Transfer(data, write, start, nack)
      PROVE  /\ core' = core /\ success' = TRUE /\ ok' = TRUE /\ todo = << >>
             /\ call'.op # "readByte"
  BY <1>4 DEF Two!Transfer
<1>5. ASSUME NEW device \in Devices, NEW r \in Registers, Two!ReadByte(device, r)
      PROVE  /\ core' = core /\ success' = TRUE /\ ok' = TRUE /\ todo = << >>
             /\ call'.op = "readByte" => todo' = << Two!ReturnFalse >> \/ ReadingByte'
  <2>1. core' = core /\ success' = TRUE /\ ok' = TRUE /\ todo = << >>
    BY <1>5 DEF Two!ReadByte
  <2>2. CASE ~Two!InRange(device)
    BY <1>5, <2>1, <2>2 DEF Two!ReadByte
  <2>3. CASE Two!InRange(device)
    <3>1. /\ call' = [op |-> "readByte", device |-> device, register |-> r]
          /\ todo' = From(ReadList(device, r), 1) /\ kept' = << >>
      BY <1>5, <2>3, TwoBegins DEF Two!ReadByte
    <3>2. call'.device = device /\ call'.register = r /\ device \in SevenBits
      BY <2>3, <3>1 DEF Two!InRange, SevenBits
    <3>3. todo' = From(ReadList(call.device, call.register), 1)'
      BY <3>1, <3>2 DEF From, ReadList, SendSteps, ReceiveSteps, ToWrite, ToRead, Two!Addressing
    <3>4. At(1)'
      BY <3>3 DEF At, ReadStage
    <3>5. kept' \in Seq(Byte8) /\ 1 \in Places
      BY <3>1 DEF Places
    <3>. QED
      BY <2>1, <3>2, <3>4, <3>5 DEF ReadingByte
  <2>. QED
    BY <2>2, <2>3
<1>. QED
  BY <1>1, <1>2, <1>3, <1>4, <1>5 DEF Two!Call

\* A list that is being worked on is not empty.
LEMMA TwoOngoing == \A d, r : \A k \in Places : From(ReadList(d, r), k) # << >>
<1>. TAKE d, r
<1>. TAKE k \in Places
<1>. DEFINE L == ReadList(d, r)
            S == ReadSteps(d, r)
<1>1. L \in Seq(S) /\ Len(L) = 23
  BY TwoList
<1>. HIDE DEF L, S
<1>2. From(L, k) # << >>
  BY <1>1, FromStep DEF Places
<1>. QED
  BY <1>2 DEF L

\* A step of the program.
LEMMA TwoHost == ASSUME TwoInv, Two!Host PROVE TwoInv'
<1>1. IsTwo(core) /\ (ok => success)
  BY DEF TwoInv
<1>2. IsTwo(core)'
  BY <1>1, TwoTyped DEF IsTwo
<1>3. CASE TwoGoesOn
  <2>1. ASSUME ok' PROVE success' /\ ok /\ call' = call /\ todo # << >>
    BY <1>1, <1>3, <2>1, TwoFine
  <2>2. ASSUME ok', call'.op = "readByte" PROVE todo' = << >> \/ ReadingByte'
    <3>1. todo = << Two!ReturnFalse >> \/ ReadingByte
      BY <2>1, <2>2 DEF TwoInv
    <3>2. Head(todo) # Two!ReturnFalse
      BY <1>1, <1>3, <2>2, TwoLocal
    <3>3. ReadingByte
      BY <3>1, <3>2
    <3>. QED
      BY <1>1, <1>3, <2>2, <3>3, TwoReading
  <2>. QED
    BY <1>2, <2>1, <2>2 DEF TwoInv
<1>4. CASE Two!ExchangeRepeated
  <2>1. /\ todo' = todo /\ todo # << >> /\ call' = call /\ ok' = ok /\ success' = success
    BY <1>4 DEF Two!ExchangeRepeated, Two!Exchange
  <2>2. ReadingByte => ReadingByte'
    BY <1>1, <1>4, TwoRepeats
  <2>3. (ok' => ok) /\ (success => success')
    BY <2>1, Zenon
  <2>. QED
    BY <1>2, <2>1, <2>2, <2>3 DEF TwoInv, Two!ReturnFalse, Two!Require
<1>. QED
  BY <1>3, <1>4 DEF Two!Host, TwoGoesOn

\* Every step.
LEMMA TwoInductive == ASSUME TwoInv, CoresAssumption, [Two!Next]_(Two!vars) PROVE TwoInv'
<1>1. CASE UNCHANGED Two!vars
  <2>1. /\ core' = core /\ todo' = todo /\ call' = call /\ buffer' = buffer /\ kept' = kept
        /\ success' = success /\ ok' = ok /\ trouble' = trouble
    BY <1>1 DEF Two!vars
  <2>2. ASSUME NEW k \in Places, At(k) PROVE At(k)'
    <3>1. From(ReadList(call.device, call.register), k)'
            = From(ReadList(call.device, call.register), k)
      BY <2>1 DEF From, ReadList, SendSteps, ReceiveSteps, ToWrite, ToRead, Two!Addressing
    <3>2. ReadStage(k) => ReadStage(k)'
      BY <2>1 DEF ReadStage, Addressed, Pointed, Turned, HasByte, Missed, Repeated, ToWrite,
                  ToRead, Two!Addressing
    <3>. QED
      BY <2>1, <2>2, <3>1, <3>2 DEF At, Acked
  <2>3. ReadingByte => ReadingByte'
    BY <2>1, <2>2 DEF ReadingByte
  <2>4. (ok' => ok) /\ (success => success')
    BY <2>1, Zenon
  <2>5. IsTwo(core)'
    BY <2>1 DEF TwoInv, IsTwo
  <2>. QED
    BY <2>1, <2>3, <2>4, <2>5 DEF TwoInv, Two!ReturnFalse, Two!Require
<1>2. CASE Two!Host
  BY <1>2, TwoHost
<1>3. CASE Two!Call
  <2>1. /\ core' = core /\ success' = TRUE
        /\ call'.op = "readByte" => todo' = << Two!ReturnFalse >> \/ ReadingByte'
    BY <1>3, TwoCall
  <2>2. IsTwo(core)'
    BY <2>1 DEF TwoInv, IsTwo
  <2>. QED
    BY <2>1, <2>2 DEF TwoInv
<1>4. CASE Two!Finish
  <2>1. IsTwo(core)'
    BY <1>4, TwoTyped DEF TwoInv, IsTwo
  <2>2. call' = call /\ todo' = todo /\ ok' = ok /\ success' = success
    BY <1>4 DEF Two!Finish, Two!CoreStep
  <2>3. ReadingByte => ReadingByte'
    BY <1>4, TwoCore DEF TwoInv
  <2>4. (ok' => ok) /\ (success => success')
    BY <2>2, Zenon
  <2>. QED
    BY <2>1, <2>2, <2>3, <2>4 DEF TwoInv
<1>. QED
  BY <1>1, <1>2, <1>3, <1>4 DEF Two!Next

\* The core as it comes up.
LEMMA TwoInit == Two!Init => TwoInv
<1>. SUFFICES ASSUME Two!Init PROVE TwoInv
  OBVIOUS
<1>1. IsTwo(core)
  <2>. DEFINE p == CHOOSE r \in Registers : TRUE
              m == [r \in Registers |-> r]
  <2>1. core = [CTRL |-> {}, PREREG_LOW |-> {}, PREREG_HIGH |-> {}, TX |-> Two!Idle,
                RX |-> Two!Idle, CR |-> {}, busy |-> FALSE, nack |-> FALSE,
                held |-> FALSE, slave |-> "none", pointer |-> p, mem |-> m]
    BY DEF Two!Init, Two!Begin, Two!Reset
  <2>. HIDE DEF p, m
  <2>. QED
    BY <2>1 DEF IsTwo, TwoFields
<1>2. success = TRUE /\ todo = << >>
  BY DEF Two!Init, Two!Begin
<1>. QED
  BY <1>1, <1>2 DEF TwoInv

\* readByte() returns the content of the register, or what is read from an idle bus.
LEMMA TwoHonest == ASSUME TwoInv, Two!Next PROVE Two!ReadByteHonest
<1>. SUFFICES ASSUME todo # << >>, todo' = << >>, ok', call.op = "readByte"
              PROVE  Returnable /\ trouble' = trouble
  BY DEF Two!ReadByteHonest, Two!ReturnsTrue, HasByte, Missed, Repeated, Returnable
<1>1. ~Two!Call /\ ~Two!Finish
  BY TwoCall DEF Two!Finish, Two!CoreStep
<1>2. TwoGoesOn
  BY <1>1 DEF Two!Next, Two!Host, Two!ExchangeRepeated, TwoGoesOn
<1>3. IsTwo(core) /\ (ok => success)
  BY DEF TwoInv
<1>4. ok /\ Head(todo) # Two!ReturnFalse
  BY <1>2, <1>3, TwoFine, TwoLocal
<1>5. ReadingByte
  BY <1>4 DEF TwoInv
<1>6. ~ReadingByte'
  <2>. SUFFICES ASSUME NEW k \in Places, At(k)' PROVE FALSE
    BY DEF ReadingByte
  <2>1. todo' = From(ReadList(call.device, call.register), k)'
    BY DEF At
  <2>2. From(ReadList(call.device, call.register), k)'
          = From(ReadList(call'.device, call'.register), k)
    BY DEF From, ReadList, SendSteps, ReceiveSteps, ToWrite, ToRead, Two!Addressing
  <2>. QED
    BY <2>1, <2>2, TwoOngoing
<1>. QED
  BY <1>2, <1>3, <1>5, <1>6, TwoReading

-----------------------------------------------------------------------------
(* All cores.                                                              *)

IInv ==
    /\ kind = "gpio8" => GpioInv
    /\ kind = "uart" => SerInv
    /\ kind = "spi" => BusInv
    /\ kind = "i2c" => TwoInv
    /\ kind = "can" => NetInv
    /\ kind = "pwm" => DutyInv

\* No operation has been called yet.
LEMMA InitIInv == Init => IInv
<1>. SUFFICES ASSUME Init PROVE IInv
  OBVIOUS
<1>1. kind = "gpio8" => Gpio!Init
  BY DEF Init
<1>2. kind = "uart" => Ser!Init
  BY DEF Init
<1>3. kind = "can" => Net!Init
  BY DEF Init
<1>4. kind = "pwm" => Duty!Init
  BY DEF Init
<1>5. kind = "spi" => Bus!Init
  BY DEF Init
<1>6. kind = "i2c" => Two!Init
  BY DEF Init
<1>. QED
  BY <1>1, <1>2, <1>3, <1>4, <1>5, <1>6, GpioInit, SerInit, NetInit, DutyInit, BusInit, TwoInit
     DEF IInv

\* The program stays with its core, whose own lemma tells of the step.
LEMMA NextIInv == IInv /\ [Next]_vars => IInv'
<1>. SUFFICES ASSUME IInv, [Next]_vars PROVE IInv'
  OBVIOUS
<1>1. kind' = kind
  BY DEF Next, vars
<1>2. ASSUME kind = "gpio8" PROVE GpioInv'
  <2>1. [Gpio!Next]_(Gpio!vars)
    BY <1>2 DEF Next, vars, Gpio!vars
  <2>. QED
    BY <1>2, <2>1, GpioInductive DEF IInv
<1>3. ASSUME kind = "uart" PROVE SerInv'
  <2>1. [Ser!Next]_(Ser!vars)
    BY <1>3 DEF Next, vars, Ser!vars
  <2>. QED
    BY <1>3, <2>1, SerInductive DEF IInv
<1>4. ASSUME kind = "pwm" PROVE DutyInv'
  <2>1. [Duty!Next]_(Duty!vars)
    BY <1>4 DEF Next, vars, Duty!vars
  <2>. QED
    BY <1>4, <2>1, DutyInductive DEF IInv
<1>5. ASSUME kind = "can" PROVE NetInv'
  <2>1. [Net!Next]_(Net!vars)
    BY <1>5 DEF Next, vars, Net!vars
  <2>. QED
    BY <1>5, <2>1, NetInductive DEF IInv
<1>6. ASSUME kind = "spi" PROVE BusInv'
  <2>1. [Bus!Next]_(Bus!vars)
    BY <1>6 DEF Next, vars, Bus!vars
  <2>. QED
    BY <1>6, <2>1, CoresAssumption, BusInductive DEF IInv
<1>7. ASSUME kind = "i2c" PROVE TwoInv'
  <2>1. [Two!Next]_(Two!vars)
    BY <1>7 DEF Next, vars, Two!vars
  <2>. QED
    BY <1>7, <2>1, CoresAssumption, TwoInductive DEF IInv
<1>. QED
  BY <1>1, <1>2, <1>3, <1>4, <1>5, <1>6, <1>7 DEF IInv

\* Whatever the exchanges do, the accesses an operation still has to make, what it has read
\* and the registers of its core stay in the relation that its invariant states.
THEOREM CoresInductive == Spec => []IInv
<1>1. Init => IInv
  BY InitIInv
<1>2. IInv /\ [Next]_vars => IInv'
  BY NextIInv
<1>. QED
  BY <1>1, <1>2, PTL DEF Spec

\* Uart::init() returns true only with every setting made, unless a read of LCR whose result it
\* does not look at has failed (uart.cc:103-217).
THEOREM SettingsCorrect == Spec => []SettingsHonouredIfRead
<1>1. IInv => SettingsHonouredIfRead
  BY SerHonest DEF IInv, SettingsHonouredIfRead
<1>. QED
  BY <1>1, CoresInductive, PTL

\* The output of a Pwm16 never runs at a mixture of two duty cycles, and getDutyCycle() does not
\* return one (pwm16.cc:68-119).
THEOREM DutyCorrect == Spec => []DutyCycleWhole
<1>1. IInv => DutyCycleWhole
  BY DutyHonest DEF IInv, DutyCycleWhole
<1>. QED
  BY <1>1, CoresInductive, PTL

\* An operation of a Gpio8 that returns true has changed the bit of its pin in its register and
\* nothing else, whatever happened to its exchanges and whatever the pins did meanwhile, unless it
\* is setPin() and OUT cannot be read.  It leaves every interrupt but those it clears; and
\* clearInterrupt() may also take away any that was raised since it was called (gpio8.cc).
THEOREM PinCorrect == Spec => OnlyItsPin
<1>1. IInv /\ IInv' /\ [Next]_vars => [kind = "gpio8" => Gpio!OnlyItsPin]_vars
  <2>. SUFFICES ASSUME IInv, IInv', Next, kind = "gpio8" PROVE Gpio!OnlyItsPin
    OBVIOUS
  <2>1. kind' = "gpio8" /\ Gpio!Next
    BY DEF Next
  <2>2. GpioInv /\ GpioInv'
    BY <2>1 DEF IInv
  <2>. QED
    BY <2>1, <2>2, GpioHonest
<1>. QED
  BY <1>1, CoresInductive, PTL DEF Spec, OnlyItsPin

\* Bytes and interrupt masks of other operations never fall into the divisor latch of a Uart,
\* unless init() or setBaudrate() has failed (uart.cc:103-266).
THEOREM DivisorCorrect == Spec => DivisorKept
<1>1. IInv /\ [Next]_vars => [kind = "uart" => Ser!DivisorKept]_vars
  BY SerDivisor DEF IInv, Next
<1>. QED
  BY <1>1, CoresInductive, PTL DEF Spec, DivisorKept

\* setAcceptanceCode() and setAcceptanceMask() return true in basic mode only with the filter set
\* and the controller back on the bus (can.cc:685-775).
THEOREM FilterCorrect == Spec => []FilterSet
<1>1. IInv => FilterSet
  BY NetFilter DEF IInv, FilterSet
<1>. QED
  BY <1>1, CoresInductive, PTL

\* transmit() returns true in basic mode, out of reset mode, only if the controller has taken its
\* frame, whole (can.cc:457-545).
THEOREM FrameCorrect == Spec => OwnFrameTaken
<1>1. IInv /\ IInv' /\ [Next]_vars => [kind = "can" => Net!OwnFrameTaken]_vars
  <2>. SUFFICES ASSUME IInv, IInv', Next, kind = "can" PROVE Net!OwnFrameTaken
    OBVIOUS
  <2>1. kind' = "can" /\ Net!Next
    BY DEF Next
  <2>2. NetInv /\ NetInv'
    BY <2>1 DEF IInv
  <2>. QED
    BY <2>1, <2>2, NetTaken
<1>. QED
  BY <1>1, CoresInductive, PTL DEF Spec, OwnFrameTaken

\* In basic mode a frame leaves the receive buffer only after getReceivedFrame() has read it,
\* whatever comes in meanwhile (can.cc:547-655).
THEOREM ReleaseCorrect == Spec => ReleasesWhatWasRead
<1>1. IInv /\ [Next]_vars => [kind = "can" => Net!ReleasesWhatWasRead]_vars
  <2>. SUFFICES ASSUME IInv, Next, kind = "can" PROVE Net!ReleasesWhatWasRead
    OBVIOUS
  <2>1. NetInv /\ Net!Next
    BY DEF IInv, Next
  <2>. QED
    BY <2>1, NetRelease
<1>. QED
  BY <1>1, CoresInductive, PTL DEF Spec, ReleasesWhatWasRead

\* Spi::transceive() and receive() read the receive FIFO only when every byte sent has come in,
\* unless one was still on its way when they were called, or the bytes sent before have filled
\* the ring and are a multiple of four; for a program that calls init() before it transmits, and
\* while no operation has failed, no exchange was repeated and no byte was written to the full
\* transmit FIFO (spi.cc:227-332).
THEOREM WaitsCorrect == ASSUME ~Again PROVE Spec => WaitsForByte
<1>1. IInv /\ [Next]_vars => [kind = "spi" => Bus!WaitsForByte]_vars
  <2>. SUFFICES ASSUME IInv, Next, kind = "spi" PROVE Bus!WaitsForByte
    OBVIOUS
  <2>1. BusInv /\ Bus!Next
    BY DEF IInv, Next
  <2>. QED
    BY <2>1, BusWaits
<1>. QED
  BY <1>1, CoresInductive, PTL DEF Spec, WaitsForByte

\* They return the byte that came in for the one they sent, although bytes that were only sent
\* left others in the ring or are still on their way at the call; for such a program, unless the
\* FIFO has been read before every byte had come in, as WaitsForByte tells (spi.cc:227-332).
THEOREM OwnByteCorrect == ASSUME ~Again PROVE Spec => OwnByte
<1>1. IInv /\ IInv' /\ [Next]_vars => [kind = "spi" => Bus!OwnByte]_vars
  <2>. SUFFICES ASSUME IInv, IInv', Next, kind = "spi" PROVE Bus!OwnByte
    OBVIOUS
  <2>1. kind' = "spi" /\ Bus!Next
    BY DEF Next
  <2>2. BusInv /\ BusInv'
    BY <2>1 DEF IInv
  <2>. QED
    BY <2>1, <2>2, BusOwn
<1>. QED
  BY <1>1, CoresInductive, PTL DEF Spec, OwnByte

\* Spi::transmit() of a buffer returns true only when the whole of it went to the core in packets
\* of four, the last one filled up with the bytes behind the buffer, and none of them was lost
\* though bytes were on their way at the call, while no operation has failed and no exchange was
\* repeated; its eight-bit counters never end for a length above 252 (spi.cc:334-370).
THEOREM BufferCorrect == Spec => BufferSent
<1>1. IInv /\ [Next]_vars => [kind = "spi" => Bus!BufferSent]_vars
  <2>. SUFFICES ASSUME IInv, Next, kind = "spi" PROVE Bus!BufferSent
    OBVIOUS
  <2>1. BusInv /\ Bus!Next
    BY DEF IInv, Next
  <2>. QED
    BY <2>1, BusSent
<1>. QED
  BY <1>1, CoresInductive, PTL DEF Spec, BufferSent

\* I2c::readByte() returns true only for a device that is there and with the bus free again,
\* whatever happened to its exchanges; the byte is the content of the register asked for, or, if
\* an exchange was repeated, possibly what is read from a bus on which nobody sends: the command
\* that reads the byte may be carried out a second time after the core has carried it out
\* (i2c.cc:216-260).
THEOREM ByteCorrect == Spec => ReadByteHonest
<1>1. IInv /\ [Next]_vars => [kind = "i2c" => Two!ReadByteHonest]_vars
  <2>. SUFFICES ASSUME IInv, Next, kind = "i2c" PROVE Two!ReadByteHonest
    OBVIOUS
  <2>1. TwoInv /\ Two!Next
    BY DEF IInv, Next
  <2>. QED
    BY <2>1, TwoHonest
<1>. QED
  BY <1>1, CoresInductive, PTL DEF Spec, ReadByteHonest
=============================================================================
