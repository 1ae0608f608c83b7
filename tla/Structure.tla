----------------------------- MODULE Structure -----------------------------
(***************************************************************************)
(* The description of an FPGA: the easyCores an EasyFpga holds under       *)
(* indices of its IdManager, the graph that its connect() members build    *)
(* from pins that point backwards, and the signals Generator::generateHdl()*)
(* derives from that graph.                                                *)
(*                                                                         *)
(* defineStructure() is written by the user, who may call addEasyCore(),   *)
(* removeEasyCore() and the four connect() members in any order.           *)
(***************************************************************************)
EXTENDS Integers, Sequences, FiniteSets, SequencesExt

CONSTANTS
    Gpios,        \* GPIO pins of the board, by PinConst
    Cores,        \* easyCores the user has
    CorePins,     \* their pins, by numbers that tell two cores of a kind apart
    CoreOf,       \* the core of a core pin
    Direction,    \* the direction of a core pin
    Ids           \* bound: the IdManager holds 1 .. Ids; 255 in the code

Pins    == Gpios \cup CorePins
Types   == {"UNDEFINED", "IN", "OUT", "INOUT"}
NoPin   == -1
NoIndex == -1

ASSUME StructureAssumption ==
    /\ Pins \subseteq Nat
    /\ IsFiniteSet(Pins)
    /\ Gpios \cap CorePins = {}
    /\ CoreOf \in [CorePins -> Cores]
    /\ Direction \in [CorePins -> Types \ {"UNDEFINED"}]
    /\ Ids \in Nat

VARIABLES
    free,    \* EasyFpga::_freeCoreIndices: the stack of ids, its top first
    map,     \* EasyFpga::_easyCoreMap: the core under an index, or "none"
    index,   \* EasyCore::_index
    type,    \* Pin::_type of all pins
    back,    \* Pin::_backwardConnection
    ended    \* how the program ended: "no", "exit", "assert" or "hang"

vars == <<free, map, index, type, back, ended>>

NoCore == "none"

-----------------------------------------------------------------------------
(* EasyFpga::addEasyCore() and removeEasyCore() on IdManager's stack.      *)

Runs == ended = "no"

Ends(how) ==
    /\ Runs
    /\ ended' = how
    /\ UNCHANGED <<free, map, index, type, back>>

\* (mutant: the id stays on the stack)
Popped_Stays == free
Popped == Tail(free)

\* getFreeId() asserts that there is an id left.
AddEasyCore(core) ==
    \/ /\ Runs
       /\ index[core] = NoIndex
       /\ free # << >>
       /\ free' = Popped
       /\ map' = [map EXCEPT ![Head(free)] = core]
       /\ index' = [index EXCEPT ![core] = Head(free)]
       /\ UNCHANGED <<type, back, ended>>
    \/ index[core] = NoIndex /\ free = << >> /\ Ends("assert")

\* A core is removed by its index alone, and setCommunicator(NULL) asserts; a
\* core that was not added is only complained about.
RemoveEasyCore(core) ==
    /\ Runs
    /\ index[core] # NoIndex
    /\ map' = [map EXCEPT ![index[core]] = NoCore]
    /\ free' = <<index[core]>> \o free
    /\ index' = [index EXCEPT ![core] = NoIndex]
    /\ ended' = "assert"
    /\ UNCHANGED <<type, back>>

-----------------------------------------------------------------------------
(* Pin::connectTo().                                                       *)

\* The loop passes pins that do not drive anything themselves.
Passes(t, p) == t[p] \in {"UNDEFINED", "IN"}

\* Where the backward connections lead from p: a pin that the loop does not
\* pass, a pin without one, or a pin of a circle.
End(t, p) ==
    LET Onward(q, i) == IF Passes(t, q) /\ back[q] # NoPin THEN back[q] ELSE q
    IN  FoldLeft(Onward, p, [i \in 1 .. Cardinality(Pins) |-> i])

\* (mutant: the other pin gets the connection)
Connect_Swapped(p, q) == back' = [back EXCEPT ![q] = p]
Connect(p, q) == back' = [back EXCEPT ![p] = q]

\* p.connectTo(q) where pins have types t.
ConnectTo(p, q, t) ==
    /\ Runs
    /\ type' = t
    /\ UNCHANGED <<free, map, index>>
    /\ \/ /\ p = q \/ back[p] = q \/ back[q] = p
          /\ UNCHANGED <<back, ended>>
       \/ /\ p # q /\ back[q] # p
          /\ back[p] = NoPin
          /\ Connect(p, q)
          /\ UNCHANGED ended
       \/ /\ p # q /\ back[q] # p
          /\ back[p] \notin {NoPin, q}
          /\ LET last == End(t, back[p])
             IN  \/ /\ t[q] = "IN" \/ ~ Passes(t, last)
                    /\ ended' = "exit"
                    /\ UNCHANGED back
                 \/ /\ t[q] # "IN" /\ Passes(t, last)
                    /\ back[last] = NoPin
                    /\ Connect(last, q)
                    /\ UNCHANGED ended
                 \/ /\ t[q] # "IN" /\ Passes(t, last)
                    /\ back[last] # NoPin
                    /\ ended' = "hang"
                    /\ UNCHANGED back

-----------------------------------------------------------------------------
(* EasyFpga::connect().                                                    *)

Added(p) == \E i \in DOMAIN map : map[i] = CoreOf[p]

\* connect(sourceGpioPin, sinkGpioPin)
ConnectGpios(source, sink) == ConnectTo(source, sink, type)

\* connect() of a GPIO pin and a core pin: a GPIO pin without a direction gets
\* one from the role it has in the call, or is in both directions like the pin.
ConnectGpioAndCore(gpio, pin, role) ==
    \/ ~ Added(pin) /\ Ends("exit")
    \/ /\ Added(pin)
       /\ type[gpio] = "UNDEFINED"
       /\ ConnectTo(gpio, pin, [type EXCEPT ![gpio] =
                                  IF type[pin] = "INOUT" THEN "INOUT" ELSE role])
    \/ /\ Added(pin)
       /\ type[gpio] # "UNDEFINED"
       /\ IF type[pin] = "IN" THEN ConnectTo(pin, gpio, type)
          ELSE ConnectTo(gpio, pin, type)

ConnectToGpio(source, sink)   == ConnectGpioAndCore(sink, source, "OUT")
ConnectFromGpio(source, sink) == ConnectGpioAndCore(source, sink, "IN")

\* (mutant: any two pins of cores will do)
Allowed_Any(source, sink) == TRUE
Allowed(source, sink) == type[source] = "OUT" /\ type[sink] = "IN"

\* connect(sourceCore, sourceCorePin, sinkCore, sinkCorePin)
ConnectCores(source, sink) ==
    \/ /\ Added(source) /\ Added(sink) /\ Allowed(source, sink)
       /\ ConnectTo(sink, source, type)
    \/ ~ (Added(source) /\ Added(sink) /\ Allowed(source, sink)) /\ Ends("exit")

-----------------------------------------------------------------------------
Init ==
    /\ free = [i \in 1 .. Ids |-> i]
    /\ map = [i \in 1 .. Ids |-> NoCore]
    /\ index = [c \in Cores |-> NoIndex]
    /\ type = [p \in Pins |-> IF p \in CorePins THEN Direction[p] ELSE "UNDEFINED"]
    /\ back = [p \in Pins |-> NoPin]
    /\ ended = "no"

Next ==
    \/ \E core \in Cores : AddEasyCore(core)
    \/ \E core \in Cores : RemoveEasyCore(core)
    \/ \E p, q \in Gpios : ConnectGpios(p, q)
    \/ \E p \in CorePins, q \in Gpios : ConnectToGpio(p, q)
    \/ \E p \in Gpios, q \in CorePins : ConnectFromGpio(p, q)
    \/ \E p, q \in CorePins : ConnectCores(p, q)

Spec == Init /\ [][Next]_vars

-----------------------------------------------------------------------------
(* Generator::generateHdl(): one signal for pins that are connected.       *)

\* The pins in the order in which their backward connections are looked at.
CoreIndices == SelectSeq([i \in 1 .. Ids |-> i], LAMBDA i : map[i] # NoCore)
PinsOf(i, t) == SetToSeq({ p \in CorePins : CoreOf[p] = map[i] /\ type[p] = t })
Looked ==
    SetToSortSeq(Gpios, <)
    \o FlattenSeq([k \in DOMAIN CoreIndices |->
         PinsOf(CoreIndices[k], "IN") \o PinsOf(CoreIndices[k], "INOUT")])

\* The number after the last one given.
\* (mutant: all signals get one number)
Fresh_Stays(signals) == 1
Fresh(signals) == 1 + Cardinality({ signals[p] : p \in Pins } \ {0})

\* customSignals: 0 where a pin has none.  Two signals are never made one.
Signal ==
    LET Look(signals, p) ==
          LET q == back[p]
          IN  IF q = NoPin THEN signals
              ELSE IF signals[p] = 0 /\ signals[q] = 0
                   THEN [signals EXCEPT ![p] = Fresh(signals), ![q] = Fresh(signals)]
              ELSE IF signals[p] = 0 THEN [signals EXCEPT ![p] = signals[q]]
              ELSE IF signals[q] = 0 THEN [signals EXCEPT ![q] = signals[p]]
              ELSE signals
    IN  FoldLeft(Look, [p \in Pins |-> 0], Looked)

-----------------------------------------------------------------------------
\* No connection leads into or out of this set of pins.
Apart(pins) == \A p \in Pins : back[p] # NoPin => (p \in pins <=> back[p] \in pins)

\* The pins that are electrically one: the smallest sets that are apart.
Nets == { net \in (SUBSET Pins) \ {{}} :
            Apart(net) /\ \A part \in (SUBSET net) \ {{}, net} : ~Apart(part) }

\* Every index is either free, once, or names the one core that has it
\* (EasyFpga::addEasyCore(), IdManager).
IndicesPartitioned ==
    \A i \in 1 .. Ids :
        Cardinality({ k \in DOMAIN free : free[k] = i })
            + Cardinality({ c \in Cores : index[c] = i /\ map[i] = c }) = 1

Outputs == { p \in CorePins : type[p] # "IN" }

\* Two pins of cores that drive their net, OUT or INOUT, are never connected ("We
\* would connect 2 output pins together", Pin::connectTo()).
OutputsApart ==
    \A net \in Nets : \A p, q \in net \cap Outputs : p = q

\* What drives a net: an OUT or INOUT pin of a core, or a GPIO pin used as an input.
Sources(net) ==
    net \cap (Outputs \cup { g \in Gpios : type[g] = "IN" })

\* What doc/fpgadescriptions.dox asks of a description: one source to a sink, and
\* outputs that are not connected from sinks; GPIO pins among themselves apart.
Legal ==
    /\ Runs
    /\ \A g \in Gpios : /\ back[g] \notin Gpios
                        /\ type[g] = "OUT" => back[g] \in Outputs
    /\ \A net \in Nets : Cardinality(Sources(net)) <= 1

\* Of a legal description the generated signals connect the pins that connect()
\* connected, and no others (Generator::generateHdl()).
SignalsAreNets ==
    Legal =>
      LET nets   == Nets
          signal == Signal
      IN  \A p, q \in Pins :
            p # q => ((\E net \in nets : {p, q} \subseteq net)
                        <=> signal[p] # 0 /\ signal[p] = signal[q])

\* connect() joins the nets of its two pins, or changes no net.
Netlist == INSTANCE Netlist WITH nets <- Nets
ImplementsNetlist == Netlist!Spec
=============================================================================
