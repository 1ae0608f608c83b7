-------------------------- MODULE StructureProofs --------------------------
(***************************************************************************)
(* The description of an FPGA, for any board, cores, pins and number of    *)
(* indices: indices are never given twice or lost, connect() never joins   *)
(* two outputs, and it makes one net of two or leaves the nets alone.      *)
(*                                                                         *)
(* A pin points at no more than one other, and connect() lets a pin point  *)
(* that did not point before, never an output (OutputsAreEnds).  So from   *)
(* every pin of a net the backward connections lead to the same end, and   *)
(* a net has no more than one output.                                      *)
(***************************************************************************)
EXTENDS Structure, FiniteSetTheorems, SequenceTheorems, TLAPS

\* Every variable keeps its type, and the pins of cores keep their direction.
TypeOK ==
    /\ free \in Seq(1 .. Ids)
    /\ map \in [1 .. Ids -> Cores \cup {NoCore}]
    /\ index \in [Cores -> (1 .. Ids) \cup {NoIndex}]
    /\ type \in [Pins -> Types]
    /\ \A p \in CorePins : type[p] = Direction[p]
    /\ back \in [Pins -> Pins \cup {NoPin}]
    /\ ended \in {"no", "exit", "assert", "hang"}

\* An index is on the stack once, or a core has it and the map knows the core.
FreeOnce == \A j, k \in DOMAIN free : free[j] = free[k] => j = k
UsedKnown ==
    \A c \in Cores : index[c] # NoIndex =>
        map[index[c]] = c /\ \A k \in DOMAIN free : free[k] # index[c]
NoneLost ==
    \A i \in 1 .. Ids : (\E k \in DOMAIN free : free[k] = i) \/ (\E c \in Cores : index[c] = i)

IndexInv == FreeOnce /\ UsedKnown /\ NoneLost

\* The backward connections end at outputs.
OutputsAreEnds == \A p \in Outputs : back[p] = NoPin

IInv == TypeOK /\ IndexInv /\ OutputsAreEnds

-----------------------------------------------------------------------------
(* What every call of connect() comes down to.                             *)

\* One pin that has no connection gets one, to another pin.
Points(p, q) == back[p] = NoPin /\ q \in Pins /\ back' = [back EXCEPT ![p] = q]

\* connect() leaves the cores and their indices alone, gives a direction only to
\* pins of the board, and lets a pin point that is not an output, or none.
Connects ==
    /\ UNCHANGED <<free, map, index>>
    /\ ended' \in {"no", "exit", "assert", "hang"}
    /\ type' \in [Pins -> Types]
    /\ \A p \in CorePins : type'[p] = type[p]
    /\ \/ UNCHANGED back
       \/ \E p \in Pins \ Outputs, q \in Pins : Points(p, q)

LEMMA PinTypes ==
    /\ Gpios \subseteq Pins /\ CorePins \subseteq Pins
    /\ \A p \in Pins : p # NoPin
    /\ \A g \in Gpios : g \notin CorePins
    /\ \A p \in CorePins : Direction[p] \in {"IN", "OUT", "INOUT"}
<1>1. \A p \in Pins : p # NoPin
  BY StructureAssumption DEF NoPin
<1>. QED
  BY <1>1, StructureAssumption DEF Pins, Types

\* Pin::connectTo() of a pin that is not an output.
LEMMA ConnectToConnects ==
    ASSUME TypeOK, NEW p \in Pins \ Outputs, NEW q \in Pins, NEW t \in [Pins -> Types],
           \A c \in CorePins : t[c] = type[c], ConnectTo(p, q, t)
    PROVE  Connects
<1>1. type' = t /\ UNCHANGED <<free, map, index>>
  BY DEF ConnectTo
<1>2. ended' \in {"no", "exit", "assert", "hang"}
  BY DEF ConnectTo, TypeOK
<1>3. CASE UNCHANGED back
  BY <1>1, <1>2, <1>3 DEF Connects
<1>4. CASE back[p] = NoPin /\ Connect(p, q)
  BY <1>1, <1>2, <1>4 DEF Connects, Points, Connect
<1>5. CASE \E last : Passes(t, last) /\ back[last] = NoPin /\ Connect(last, q)
  <2>1. PICK last : Passes(t, last) /\ back[last] = NoPin /\ Connect(last, q)
    BY <1>5
  <2>2. CASE last \in Pins
    <3>1. last \notin Outputs
      BY <2>1, PinTypes DEF Passes, Outputs, TypeOK
    <3>. QED
      BY <1>1, <1>2, <2>1, <2>2, <3>1 DEF Connects, Points, Connect
  <2>3. CASE last \notin Pins
    <3>1. UNCHANGED back
      BY <2>1, <2>3 DEF Connect, TypeOK
    <3>. QED
      BY <1>3, <3>1
  <2>. QED
    BY <2>2, <2>3
<1>. QED
  BY <1>3, <1>4, <1>5 DEF ConnectTo

LEMMA EndsConnects == ASSUME TypeOK, NEW how \in {"exit", "assert"}, Ends(how) PROVE Connects
  BY DEF Ends, Connects, TypeOK

LEMMA ConnectGpioAndCoreConnects ==
    ASSUME TypeOK, NEW gpio \in Gpios, NEW pin \in CorePins, NEW role \in {"IN", "OUT"},
           ConnectGpioAndCore(gpio, pin, role)
    PROVE  Connects
<1>. gpio \in Pins \ Outputs /\ pin \in Pins
  BY PinTypes DEF Outputs
<1>1. CASE Ends("exit")
  BY <1>1, EndsConnects
<1>2. CASE /\ type[gpio] = "UNDEFINED"
           /\ ConnectTo(gpio, pin, [type EXCEPT ![gpio] =
                                      IF type[pin] = "INOUT" THEN "INOUT" ELSE role])
  <2>. DEFINE t == [type EXCEPT ![gpio] = IF type[pin] = "INOUT" THEN "INOUT" ELSE role]
  <2>1. t \in [Pins -> Types] /\ \A c \in CorePins : t[c] = type[c]
    BY PinTypes DEF TypeOK, Types
  <2>. HIDE DEF t
  <2>2. ConnectTo(gpio, pin, t)
    BY <1>2 DEF t
  <2>. QED
    BY <2>1, <2>2, ConnectToConnects
<1>3. CASE type[pin] = "IN" /\ ConnectTo(pin, gpio, type)
  <2>1. pin \notin Outputs
    BY <1>3 DEF Outputs
  <2>. QED
    BY <1>3, <2>1, ConnectToConnects DEF TypeOK
<1>4. CASE ConnectTo(gpio, pin, type)
  BY <1>4, ConnectToConnects DEF TypeOK
<1>. QED
  BY <1>1, <1>2, <1>3, <1>4 DEF ConnectGpioAndCore

\* Every step adds a core, removes one, or is one of the calls of connect().
LEMMA Steps ==
    ASSUME TypeOK, Next
    PROVE  \/ \E core \in Cores : AddEasyCore(core) \/ RemoveEasyCore(core)
           \/ Connects
<1>1. CASE \E p, q \in Gpios : ConnectGpios(p, q)
  <2>1. PICK p \in Gpios, q \in Gpios : ConnectTo(p, q, type)
    BY <1>1 DEF ConnectGpios
  <2>2. p \in Pins \ Outputs /\ q \in Pins
    BY PinTypes DEF Outputs
  <2>. QED
    BY <2>1, <2>2, ConnectToConnects DEF TypeOK
<1>2. CASE \E p \in CorePins, q \in Gpios : ConnectToGpio(p, q)
  BY <1>2, ConnectGpioAndCoreConnects DEF ConnectToGpio
<1>3. CASE \E p \in Gpios, q \in CorePins : ConnectFromGpio(p, q)
  BY <1>3, ConnectGpioAndCoreConnects DEF ConnectFromGpio
<1>4. CASE \E p, q \in CorePins : ConnectCores(p, q)
  <2>1. PICK p \in CorePins, q \in CorePins : ConnectCores(p, q)
    BY <1>4
  <2>2. CASE Ends("exit")
    BY <2>2, EndsConnects
  <2>3. CASE Allowed(p, q) /\ ConnectTo(q, p, type)
    <3>1. q \in Pins \ Outputs /\ p \in Pins
      BY <2>3, PinTypes DEF Allowed, Outputs
    <3>. QED
      BY <2>3, <3>1, ConnectToConnects DEF TypeOK
  <2>. QED
    BY <2>1, <2>2, <2>3 DEF ConnectCores
<1>. QED
  BY <1>1, <1>2, <1>3, <1>4 DEF Next

-----------------------------------------------------------------------------
(* The invariant.                                                          *)

LEMMA InitHolds == Init => IInv
<1>. SUFFICES ASSUME Init PROVE IInv
  OBVIOUS
<1>1. TypeOK
  BY StructureAssumption, PinTypes DEF Init, TypeOK, Pins, Types
<1>2. IndexInv
  BY StructureAssumption DEF Init, IndexInv, FreeOnce, UsedKnown, NoneLost
<1>3. OutputsAreEnds
  BY PinTypes DEF Init, OutputsAreEnds, Outputs
<1>. QED
  BY <1>1, <1>2, <1>3 DEF IInv

\* IdManager's stack: the top is taken away, or an index is put on it.
LEMMA Popping ==
    ASSUME NEW s \in Seq(1 .. Ids), s # << >>
    PROVE  /\ Tail(s) \in Seq(1 .. Ids)
           /\ Len(Tail(s)) = Len(s) - 1
           /\ \A k \in 1 .. Len(s) - 1 : Tail(s)[k] = s[k + 1]
           /\ Head(s) = s[1] /\ Head(s) \in 1 .. Ids /\ 1 \in 1 .. Len(s)
<1>1. Len(s) \in Nat /\ Len(s) # 0 /\ Head(s) = s[1]
  BY EmptySeq
<1>2. /\ Head(s) \in 1 .. Ids
      /\ Tail(s) \in Seq(1 .. Ids)
      /\ Len(Tail(s)) = Len(s) - 1
      /\ \A k \in 1 .. Len(Tail(s)) : Tail(s)[k] = s[k + 1]
  BY HeadTailProperties
<1>. QED
  BY <1>1, <1>2

LEMMA Pushing ==
    ASSUME NEW s \in Seq(1 .. Ids), NEW i \in 1 .. Ids
    PROVE  /\ <<i>> \o s \in Seq(1 .. Ids)
           /\ Len(<<i>> \o s) = Len(s) + 1
           /\ (<<i>> \o s)[1] = i
           /\ \A k \in 1 .. Len(s) : (<<i>> \o s)[k + 1] = s[k]
           /\ \A k \in 2 .. Len(s) + 1 : (<<i>> \o s)[k] = s[k - 1]
  OBVIOUS

LEMMA AddStep ==
    ASSUME IInv, NEW core \in Cores, AddEasyCore(core)
    PROVE  IInv'
<1>. USE DEF IInv
<1>1. CASE Ends("assert")
  BY <1>1 DEF Ends, TypeOK, IndexInv, FreeOnce, UsedKnown, NoneLost, OutputsAreEnds, Outputs
<1>2. CASE /\ index[core] = NoIndex /\ free # << >>
           /\ free' = Tail(free)
           /\ map' = [map EXCEPT ![Head(free)] = core]
           /\ index' = [index EXCEPT ![core] = Head(free)]
           /\ UNCHANGED <<type, back, ended>>
  <2>. DEFINE top == Head(free)
  <2>1. /\ Tail(free) \in Seq(1 .. Ids)
        /\ Len(Tail(free)) = Len(free) - 1
        /\ \A k \in 1 .. Len(free) - 1 : Tail(free)[k] = free[k + 1]
        /\ top = free[1] /\ top \in 1 .. Ids /\ 1 \in 1 .. Len(free)
    BY <1>2, Popping DEF TypeOK
  <2>2. /\ DOMAIN free = 1 .. Len(free) /\ Len(free) \in Nat
        /\ DOMAIN free' = 1 .. Len(free) - 1
        /\ \A k \in 1 .. Len(free) - 1 : free'[k] = free[k + 1]
        /\ \A k \in 1 .. Len(free) : k = 1 \/ \E j \in 1 .. Len(free) - 1 : k = j + 1
    <3>1. DOMAIN free = 1 .. Len(free) /\ Len(free) \in Nat
      BY DEF TypeOK
    <3>2. DOMAIN free' = 1 .. Len(free) - 1
      BY <1>2, <2>1
    <3>3. ASSUME NEW k \in 1 .. Len(free), k # 1 PROVE \E j \in 1 .. Len(free) - 1 : k = j + 1
      <4>1. k - 1 \in 1 .. Len(free) - 1 /\ k = (k - 1) + 1
        BY <3>1, <3>3
      <4>. QED
        BY <4>1
    <3>. QED
      BY <1>2, <2>1, <3>1, <3>2, <3>3
  <2>. HIDE DEF top
  <2>3. map' = [map EXCEPT ![top] = core] /\ index' = [index EXCEPT ![core] = top]
    BY <1>2 DEF top
  <2>4. TypeOK'
    BY <1>2, <2>1, <2>3 DEF TypeOK
  <2>5. FreeOnce'
    BY <2>2 DEF IndexInv, FreeOnce
  <2>6. \A k \in DOMAIN free' : free'[k] # top
    BY <2>1, <2>2 DEF IndexInv, FreeOnce
  <2>7. UsedKnown'
    <3>. SUFFICES ASSUME NEW c \in Cores, index'[c] # NoIndex
                  PROVE  map'[index'[c]] = c /\ \A k \in DOMAIN free' : free'[k] # index'[c]
      BY DEF UsedKnown
    <3>1. CASE c = core
      BY <2>1, <2>3, <2>6, <3>1 DEF TypeOK
    <3>2. CASE c # core
      <4>1. index'[c] = index[c] /\ index[c] # NoIndex
        BY <2>3, <3>2 DEF TypeOK
      <4>2. index[c] # top /\ index[c] \in 1 .. Ids
        BY <2>1, <2>2, <4>1 DEF TypeOK, IndexInv, UsedKnown
      <4>3. map'[index[c]] = c
        BY <2>3, <4>1, <4>2 DEF TypeOK, IndexInv, UsedKnown
      <4>. QED
        BY <2>2, <4>1, <4>3 DEF IndexInv, UsedKnown
    <3>. QED
      BY <3>1, <3>2
  <2>8. NoneLost'
    <3>. SUFFICES ASSUME NEW i \in 1 .. Ids
                  PROVE  (\E k \in DOMAIN free' : free'[k] = i) \/ \E c \in Cores : index'[c] = i
      BY DEF NoneLost
    <3>1. CASE i = top
      BY <2>3, <3>1 DEF TypeOK
    <3>2. CASE i # top /\ \E k \in DOMAIN free : free[k] = i
      <4>1. PICK k \in 1 .. Len(free) : free[k] = i
        BY <2>2, <3>2
      <4>2. PICK j \in 1 .. Len(free) - 1 : k = j + 1
        BY <2>1, <2>2, <3>2, <4>1
      <4>. QED
        BY <2>2, <4>1, <4>2
    <3>3. CASE \E c \in Cores : index[c] = i
      <4>1. PICK c \in Cores : index[c] = i
        BY <3>3
      <4>2. c # core
        BY <1>2, <4>1 DEF NoIndex
      <4>. QED
        BY <2>3, <4>1, <4>2 DEF TypeOK
    <3>. QED
      BY <3>1, <3>2, <3>3 DEF IndexInv, NoneLost
  <2>9. OutputsAreEnds'
    BY <1>2 DEF OutputsAreEnds, Outputs
  <2>. QED
    BY <2>4, <2>5, <2>7, <2>8, <2>9 DEF IndexInv
<1>. QED
  BY <1>1, <1>2 DEF AddEasyCore, Popped

LEMMA RemoveStep ==
    ASSUME IInv, NEW core \in Cores, RemoveEasyCore(core)
    PROVE  IInv'
<1>. DEFINE i == index[core]
<1>. USE DEF IInv
<1>1. /\ i \in 1 .. Ids
      /\ map[i] = core /\ \A k \in DOMAIN free : free[k] # i
      /\ map' = [map EXCEPT ![i] = NoCore]
      /\ free' = <<i>> \o free
      /\ index' = [index EXCEPT ![core] = NoIndex]
      /\ UNCHANGED <<type, back>> /\ ended' = "assert"
  BY DEF RemoveEasyCore, TypeOK, IndexInv, UsedKnown
<1>2. /\ free' \in Seq(1 .. Ids)
      /\ free'[1] = i
      /\ \A k \in 1 .. Len(free) : free'[k + 1] = free[k]
      /\ \A k \in 2 .. Len(free) + 1 : free'[k] = free[k - 1] /\ k - 1 \in 1 .. Len(free)
      /\ DOMAIN free = 1 .. Len(free) /\ Len(free) \in Nat
      /\ DOMAIN free' = 1 .. Len(free) + 1
  BY <1>1, Pushing DEF TypeOK
<1>. HIDE DEF i
<1>3. TypeOK'
  BY <1>1, <1>2 DEF TypeOK
<1>4. FreeOnce'
  <2>. SUFFICES ASSUME NEW j \in DOMAIN free', NEW k \in DOMAIN free', free'[j] = free'[k]
                PROVE  j = k
    BY DEF FreeOnce
  <2>1. ASSUME NEW n \in DOMAIN free', n # 1
        PROVE  n \in 2 .. Len(free) + 1 /\ n - 1 \in 1 .. Len(free)
               /\ free'[n] = free[n - 1] /\ free'[n] # i
    BY <1>1, <1>2, <2>1
  <2>2. CASE j = 1 \/ k = 1
    BY <1>2, <2>1, <2>2
  <2>3. CASE j # 1 /\ k # 1
    <3>1. j - 1 = k - 1
      BY <1>2, <2>1, <2>3 DEF IndexInv, FreeOnce
    <3>. QED
      BY <1>2, <2>1, <2>3, <3>1
  <2>. QED
    BY <2>2, <2>3
<1>5. UsedKnown'
  <2>. SUFFICES ASSUME NEW c \in Cores, index'[c] # NoIndex
                PROVE  map'[index'[c]] = c /\ \A k \in DOMAIN free' : free'[k] # index'[c]
    BY DEF UsedKnown
  <2>1. c # core /\ index'[c] = index[c] /\ index[c] \in 1 .. Ids
    BY <1>1 DEF TypeOK, NoIndex
  <2>2. map[index[c]] = c /\ \A k \in DOMAIN free : free[k] # index[c]
    BY <2>1 DEF IndexInv, UsedKnown
  <2>3. index[c] # i
    BY <1>1, <2>1, <2>2
  <2>4. map'[index[c]] = c
    BY <1>1, <2>1, <2>2, <2>3 DEF TypeOK
  <2>5. ASSUME NEW k \in DOMAIN free' PROVE free'[k] # index[c]
    BY <1>2, <2>2, <2>3
  <2>. QED
    BY <2>1, <2>4, <2>5
<1>6. NoneLost'
  <2>. SUFFICES ASSUME NEW n \in 1 .. Ids
                PROVE  (\E k \in DOMAIN free' : free'[k] = n) \/ \E c \in Cores : index'[c] = n
    BY DEF NoneLost
  <2>1. CASE n = i
    BY <1>2, <2>1
  <2>2. CASE \E k \in DOMAIN free : free[k] = n
    <3>1. PICK k \in 1 .. Len(free) : free[k] = n
      BY <1>2, <2>2
    <3>2. k + 1 \in DOMAIN free' /\ free'[k + 1] = n
      BY <1>2, <3>1
    <3>. QED
      BY <3>2
  <2>3. CASE n # i /\ \E c \in Cores : index[c] = n
    <3>1. PICK c \in Cores : index[c] = n
      BY <2>3
    <3>2. index'[c] = n
      BY <1>1, <2>3, <3>1 DEF TypeOK, i
    <3>. QED
      BY <3>2
  <2>. QED
    BY <2>1, <2>2, <2>3 DEF IndexInv, NoneLost
<1>7. OutputsAreEnds'
  BY <1>1 DEF OutputsAreEnds, Outputs
<1>. QED
  BY <1>3, <1>4, <1>5, <1>6, <1>7 DEF IndexInv

LEMMA ConnectStep == IInv /\ Connects => IInv'
<1>. SUFFICES ASSUME IInv, Connects PROVE IInv'
  OBVIOUS
<1>. USE DEF IInv
<1>1. back' \in [Pins -> Pins \cup {NoPin}]
  BY DEF Connects, Points, TypeOK
<1>2. TypeOK'
  BY <1>1 DEF Connects, TypeOK
<1>3. IndexInv'
  BY DEF Connects, IndexInv, FreeOnce, UsedKnown, NoneLost
<1>4. Outputs' = Outputs
  BY DEF Connects, Outputs
<1>5. OutputsAreEnds'
  <2>. SUFFICES ASSUME NEW p \in Outputs PROVE back'[p] = NoPin
    BY <1>4 DEF OutputsAreEnds
  <2>1. p \in Pins /\ back[p] = NoPin
    BY PinTypes DEF OutputsAreEnds, Outputs
  <2>2. ASSUME NEW a \in Pins \ Outputs, NEW q \in Pins, Points(a, q) PROVE back'[p] = NoPin
    BY <2>1, <2>2 DEF Points, TypeOK
  <2>. QED
    BY <2>1, <2>2 DEF Connects
<1>. QED
  BY <1>2, <1>3, <1>5

LEMMA StepHolds == IInv /\ [Next]_vars => IInv'
<1>. SUFFICES ASSUME IInv, [Next]_vars PROVE IInv'
  OBVIOUS
<1>1. CASE Next
  BY <1>1, Steps, AddStep, RemoveStep, ConnectStep DEF IInv
<1>2. CASE UNCHANGED vars
  BY <1>2 DEF vars, IInv, TypeOK, IndexInv, FreeOnce, UsedKnown, NoneLost, OutputsAreEnds, Outputs
<1>. QED
  BY <1>1, <1>2

\* The invariant holds after any calls of addEasyCore(), removeEasyCore() and connect().
THEOREM Invariance == Spec => []IInv
  BY InitHolds, StepHolds, PTL DEF Spec

-----------------------------------------------------------------------------
(* The indices of EasyFpga.                                                *)

LEMMA OneIndex ==
    ASSUME IInv, NEW i \in 1 .. Ids
    PROVE  Cardinality({ k \in DOMAIN free : free[k] = i })
             + Cardinality({ c \in Cores : index[c] = i /\ map[i] = c }) = 1
<1>. DEFINE onStack == { k \in DOMAIN free : free[k] = i }
            having  == { c \in Cores : index[c] = i /\ map[i] = c }
<1>. USE DEF IInv, IndexInv
<1>0. i # NoIndex
  BY DEF NoIndex
<1>1. CASE \E k \in DOMAIN free : free[k] = i
  <2>1. PICK k \in DOMAIN free : free[k] = i
    BY <1>1
  <2>2. onStack = {k}
    BY <2>1 DEF FreeOnce
  <2>3. having = {}
    BY <1>0, <2>1 DEF UsedKnown
  <2>4. Cardinality(onStack) = 1 /\ Cardinality(having) = 0
    BY <2>2, <2>3, FS_Singleton, FS_EmptySet
  <2>. QED
    BY <2>4
<1>2. CASE ~ \E k \in DOMAIN free : free[k] = i
  <2>1. PICK c \in Cores : index[c] = i
    BY <1>2 DEF NoneLost
  <2>2. having = {c}
    BY <1>0, <2>1 DEF UsedKnown
  <2>3. onStack = {}
    BY <1>2
  <2>4. Cardinality(onStack) = 0 /\ Cardinality(having) = 1
    BY <2>2, <2>3, FS_Singleton, FS_EmptySet
  <2>. QED
    BY <2>4
<1>. QED
  BY <1>1, <1>2

\* However cores are added and removed, no index is free twice, lost, or held by two
\* cores or by one the map does not know (EasyFpga::addEasyCore(), IdManager).
THEOREM IndicesCorrect == Spec => []IndicesPartitioned
<1>1. IInv => IndicesPartitioned
  BY OneIndex DEF IndicesPartitioned
<1>. QED
  BY <1>1, Invariance, PTL

-----------------------------------------------------------------------------
(* Outputs.                                                                *)

\* The pins from which the backward connections lead to p, whatever else they lead to.
Before(p) ==
    { x \in Pins : \A s \in SUBSET Pins :
        x \in s /\ (\A y \in s : back[y] # NoPin => back[y] \in s) => p \in s }

\* No connection leads out of or into the pins that lead to an output.
LEMMA BeforeIsApart == ASSUME TypeOK, NEW p \in Pins, back[p] = NoPin PROVE Apart(Before(p))
<1>. SUFFICES ASSUME NEW x \in Pins, back[x] # NoPin
              PROVE  x \in Before(p) <=> back[x] \in Before(p)
  BY DEF Apart
<1>1. back[x] \in Pins /\ x # p
  BY DEF TypeOK
<1>2. ASSUME back[x] \in Before(p) PROVE x \in Before(p)
  BY <1>2 DEF Before
<1>3. ASSUME x \in Before(p) PROVE back[x] \in Before(p)
  <2>. SUFFICES ASSUME NEW s \in SUBSET Pins, back[x] \in s,
                       \A y \in s : back[y] # NoPin => back[y] \in s
                PROVE  p \in s
    BY <1>1 DEF Before
  <2>. DEFINE more == s \cup {x}
  <2>1. /\ more \in SUBSET Pins /\ x \in more
        /\ \A y \in more : back[y] # NoPin => back[y] \in more
    OBVIOUS
  <2>2. p \in more
    BY <1>3, <2>1 DEF Before
  <2>. QED
    BY <1>1, <2>2
<1>. QED
  BY <1>2, <1>3

\* p is the only pin of its net that no connection leads away from.
LEMMA OneOutput ==
    ASSUME IInv, NEW net \in Nets, NEW p \in net \cap Outputs, NEW q \in net \cap Outputs
    PROVE  p = q
<1>. SUFFICES ASSUME p # q PROVE FALSE
  OBVIOUS
<1>1. TypeOK /\ p \in Pins /\ q \in Pins /\ back[p] = NoPin /\ back[q] = NoPin
  BY PinTypes DEF IInv, OutputsAreEnds, Outputs
<1>2. p \in Before(p)
  BY <1>1 DEF Before
<1>3. q \notin Before(p)
  <2>1. {q} \in SUBSET Pins /\ \A y \in {q} : back[y] # NoPin => back[y] \in {q}
    BY <1>1
  <2>. QED
    BY <2>1 DEF Before
<1>. DEFINE part == net \cap Before(p)
<1>4. Apart(part)
  <2>1. Apart(net) /\ Apart(Before(p))
    BY <1>1, BeforeIsApart DEF Nets
  <2>. QED
    BY <2>1 DEF Apart
<1>5. p \in part /\ q \notin part /\ q \in net /\ part \in SUBSET net
  BY <1>2, <1>3
<1>. HIDE DEF part
<1>6. part \in (SUBSET net) \ {{}, net}
  BY <1>5
<1>. QED
  BY <1>4, <1>6 DEF Nets

\* Two pins of cores that drive their net, OUT or INOUT, are never connected, whatever
\* the order of the calls (Pin::connectTo(), EasyFpga::connect()).
THEOREM OutputsCorrect == Spec => []OutputsApart
<1>1. IInv => OutputsApart
  BY OneOutput DEF OutputsApart
<1>. QED
  BY <1>1, Invariance, PTL

-----------------------------------------------------------------------------
(* The nets, of any backward connections b.                                *)

ApartIn(b, pins) == \A p \in Pins : b[p] # NoPin => (p \in pins <=> b[p] \in pins)

NetsOf(b) == { net \in (SUBSET Pins) \ {{}} :
                 ApartIn(b, net) /\ \A part \in (SUBSET net) \ {{}, net} : ~ApartIn(b, part) }

\* The pins that no set that is apart separates from p.
NetOf(b, p) == { x \in Pins : \A s \in SUBSET Pins : ApartIn(b, s) /\ p \in s => x \in s }

Connections == [Pins -> Pins \cup {NoPin}]

LEMMA NetOfIsApart ==
    ASSUME NEW b \in Connections, NEW p \in Pins
    PROVE  ApartIn(b, NetOf(b, p)) /\ p \in NetOf(b, p) /\ NetOf(b, p) \subseteq Pins
<1>1. p \in NetOf(b, p) /\ NetOf(b, p) \subseteq Pins
  BY DEF NetOf
<1>2. ASSUME NEW x \in Pins, b[x] # NoPin PROVE x \in NetOf(b, p) <=> b[x] \in NetOf(b, p)
  <2>1. b[x] \in Pins
    BY <1>2 DEF Connections
  <2>2. \A s \in SUBSET Pins : ApartIn(b, s) => (x \in s <=> b[x] \in s)
    BY <1>2 DEF ApartIn
  <2>. QED
    BY <1>2, <2>1, <2>2 DEF NetOf
<1>. QED
  BY <1>1, <1>2 DEF ApartIn

LEMMA RestIsApart ==
    ASSUME NEW b \in Connections, NEW s \in SUBSET Pins, ApartIn(b, s)
    PROVE  ApartIn(b, Pins \ s)
  BY DEF ApartIn, Connections

\* No smaller set of pins is apart.
LEMMA NetOfIsLeast ==
    ASSUME NEW b \in Connections, NEW p \in Pins,
           NEW part \in SUBSET NetOf(b, p), part # {}, ApartIn(b, part)
    PROVE  part = NetOf(b, p)
<1>1. NetOf(b, p) \subseteq Pins /\ part \in SUBSET Pins
  BY DEF NetOf
<1>2. CASE p \in part
  BY <1>1, <1>2 DEF NetOf
<1>3. CASE p \notin part
  <2>1. ApartIn(b, Pins \ part) /\ p \in Pins \ part
    BY <1>1, <1>3, RestIsApart
  <2>2. NetOf(b, p) \subseteq Pins \ part
    BY <2>1 DEF NetOf
  <2>. QED
    BY <2>2
<1>. QED
  BY <1>2, <1>3

\* The nets are the nets of the pins.
LEMMA NetsAreNetOf ==
    ASSUME NEW b \in Connections
    PROVE  NetsOf(b) = { NetOf(b, p) : p \in Pins }
<1>1. ASSUME NEW p \in Pins PROVE NetOf(b, p) \in NetsOf(b)
  <2>1. /\ ApartIn(b, NetOf(b, p)) /\ NetOf(b, p) \in (SUBSET Pins) \ {{}}
        /\ \A part \in (SUBSET NetOf(b, p)) \ {{}, NetOf(b, p)} : ~ApartIn(b, part)
    <3>1. ApartIn(b, NetOf(b, p)) /\ NetOf(b, p) \in (SUBSET Pins) \ {{}}
      BY NetOfIsApart
    <3>2. ASSUME NEW part \in SUBSET NetOf(b, p), part # {}, part # NetOf(b, p)
          PROVE  ~ApartIn(b, part)
      BY <3>2, NetOfIsLeast
    <3>. QED
      BY <3>1, <3>2
  <2>. QED
    BY <2>1 DEF NetsOf
<1>2. ASSUME NEW net \in NetsOf(b) PROVE \E p \in Pins : net = NetOf(b, p)
  <2>1. PICK p \in net : p \in Pins
    BY DEF NetsOf
  <2>2. ApartIn(b, net) /\ net \in SUBSET Pins
    BY DEF NetsOf
  <2>3. NetOf(b, p) \subseteq net
    BY <2>1, <2>2 DEF NetOf
  <2>4. NetOf(b, p) # {} /\ ApartIn(b, NetOf(b, p))
    BY <2>1, NetOfIsApart
  <2>5. \A part \in (SUBSET net) \ {{}, net} : ~ApartIn(b, part)
    BY DEF NetsOf
  <2>6. NetOf(b, p) = net
    BY <2>3, <2>4, <2>5
  <2>. QED
    BY <2>1, <2>6
<1>. QED
  BY <1>1, <1>2

\* A pin is in one net.
LEMMA NetOfIsUnique ==
    ASSUME NEW b \in Connections, NEW p \in Pins, NEW x \in NetOf(b, p)
    PROVE  x \in Pins /\ NetOf(b, x) = NetOf(b, p)
<1>1. x \in Pins
  BY DEF NetOf
<1>2. ApartIn(b, NetOf(b, p)) /\ NetOf(b, p) \in SUBSET Pins
  BY NetOfIsApart
<1>3. NetOf(b, x) \subseteq NetOf(b, p)
  BY <1>2 DEF NetOf
<1>4. NetOf(b, x) # {} /\ ApartIn(b, NetOf(b, x))
  BY <1>1, NetOfIsApart
<1>. QED
  BY <1>1, <1>3, <1>4, NetOfIsLeast

\* Before any call every pin is a net.
LEMMA SinglePins ==
    ASSUME NEW b \in Connections, \A p \in Pins : b[p] = NoPin
    PROVE  NetsOf(b) = { {p} : p \in Pins }
<1>1. ASSUME NEW p \in Pins PROVE NetOf(b, p) = {p}
  <2>1. ApartIn(b, {p}) /\ {p} \in SUBSET Pins
    BY DEF ApartIn
  <2>. QED
    BY <2>1 DEF NetOf
<1>. QED
  BY <1>1, NetsAreNetOf

\* A connection more makes one net of the nets of its ends.
LEMMA Joined ==
    ASSUME NEW b \in Connections, NEW a \in Pins, NEW q \in Pins, b[a] = NoPin,
           NEW c, c = [b EXCEPT ![a] = q]
    PROVE  /\ c \in Connections
           /\ NetsOf(c) = (NetsOf(b) \ {NetOf(b, a), NetOf(b, q)})
                            \cup {NetOf(b, a) \cup NetOf(b, q)}
<1>. DEFINE joined == NetOf(b, a) \cup NetOf(b, q)
<1>1. c \in Connections
  BY DEF Connections
<1>2. a # NoPin /\ q # NoPin
  BY PinTypes
<1>3. ASSUME NEW s PROVE ApartIn(c, s) <=> ApartIn(b, s) /\ (a \in s <=> q \in s)
  <2>1. c[a] = q /\ \A p \in Pins \ {a} : c[p] = b[p]
    BY DEF Connections
  <2>. QED
    BY <1>2, <2>1 DEF ApartIn
<1>4. ApartIn(c, joined) /\ joined \in SUBSET Pins
  <2>1. ApartIn(b, NetOf(b, a)) /\ ApartIn(b, NetOf(b, q)) /\ a \in joined /\ q \in joined
        /\ joined \in SUBSET Pins
    BY NetOfIsApart
  <2>2. ApartIn(b, joined)
    BY <2>1 DEF ApartIn
  <2>. QED
    BY <1>3, <2>1, <2>2
<1>5. ASSUME NEW p \in Pins, p \in joined PROVE NetOf(c, p) = joined
  <2>1. NetOf(c, p) \subseteq joined
    BY <1>4, <1>5 DEF NetOf
  <2>2. ASSUME NEW s \in SUBSET Pins, ApartIn(c, s), p \in s PROVE joined \subseteq s
    <3>1. ApartIn(b, s) /\ (a \in s <=> q \in s)
      BY <1>3, <2>2
    <3>2. a \in NetOf(b, p) \/ q \in NetOf(b, p)
      BY <1>5, NetOfIsUnique, NetOfIsApart
    <3>3. a \in s \/ q \in s
      BY <2>2, <3>1, <3>2 DEF NetOf
    <3>. QED
      BY <3>1, <3>3 DEF NetOf
  <2>3. joined \subseteq NetOf(c, p)
    BY <1>4, <2>2 DEF NetOf
  <2>. QED
    BY <2>1, <2>3
<1>6. ASSUME NEW p \in Pins, p \notin joined PROVE NetOf(c, p) = NetOf(b, p)
  <2>1. a \notin NetOf(b, p) /\ q \notin NetOf(b, p)
    BY <1>6, NetOfIsUnique, NetOfIsApart
  <2>2. ApartIn(c, NetOf(b, p)) /\ p \in NetOf(b, p) /\ NetOf(b, p) \in SUBSET Pins
    BY <1>3, <2>1, NetOfIsApart
  <2>3. NetOf(c, p) \subseteq NetOf(b, p)
    BY <2>2 DEF NetOf
  <2>4. NetOf(b, p) \subseteq NetOf(c, p)
    BY <1>3 DEF NetOf
  <2>. QED
    BY <2>3, <2>4
<1>7. ASSUME NEW p \in Pins
      PROVE  p \in joined <=> NetOf(b, p) \in {NetOf(b, a), NetOf(b, q)}
  BY NetOfIsUnique, NetOfIsApart
<1>8. a \in Pins /\ a \in joined
  BY NetOfIsApart
<1>9. { NetOf(c, p) : p \in Pins }
        = ({ NetOf(b, p) : p \in Pins } \ {NetOf(b, a), NetOf(b, q)}) \cup {joined}
  <2>. HIDE DEF joined
  <2>1. ASSUME NEW p \in Pins
        PROVE  NetOf(c, p) \in ({ NetOf(b, x) : x \in Pins } \ {NetOf(b, a), NetOf(b, q)})
                                \cup {joined}
    BY <1>5, <1>6, <1>7
  <2>2. ASSUME NEW p \in Pins, NetOf(b, p) \notin {NetOf(b, a), NetOf(b, q)}
        PROVE  NetOf(b, p) \in { NetOf(c, x) : x \in Pins }
    BY <1>6, <1>7, <2>2
  <2>3. joined \in { NetOf(c, x) : x \in Pins }
    BY <1>5, <1>8
  <2>. QED
    BY <2>1, <2>2, <2>3
<1>. QED
  BY <1>1, <1>9, NetsAreNetOf

LEMMA NetsOfBack == Nets = NetsOf(back) /\ Nets' = NetsOf(back')
  BY DEF Nets, NetsOf, Apart, ApartIn

LEMMA NetlistStep == IInv /\ [Next]_vars => [Netlist!Next]_Nets
<1>. SUFFICES ASSUME IInv, [Next]_vars PROVE [Netlist!Next]_Nets
  OBVIOUS
<1>. back \in Connections
  BY DEF IInv, TypeOK, Connections
<1>1. CASE UNCHANGED back
  BY <1>1, NetsOfBack
<1>2. CASE \E p \in Pins \ Outputs, q \in Pins : Points(p, q)
  <2>1. PICK p \in Pins, q \in Pins : back[p] = NoPin /\ back' = [back EXCEPT ![p] = q]
    BY <1>2 DEF Points
  <2>. DEFINE m == NetOf(back, p)
              n == NetOf(back, q)
  <2>2. Nets' = (Nets \ {m, n}) \cup {m \cup n}
    <3>1. NetsOf([back EXCEPT ![p] = q]) = (NetsOf(back) \ {m, n}) \cup {m \cup n}
      BY <2>1, Joined
    <3>. QED
      BY <2>1, <3>1, NetsOfBack
  <2>3. m \in Nets /\ n \in Nets
    BY NetsAreNetOf, NetsOfBack
  <2>. HIDE DEF m, n
  <2>4. Netlist!Next
    BY <2>2, <2>3 DEF Netlist!Next
  <2>. QED
    BY <2>4
<1>3. [\E core \in Cores : AddEasyCore(core) \/ RemoveEasyCore(core)]_vars \/ Connects
  BY Steps DEF IInv
<1>. QED
  BY <1>1, <1>2, <1>3 DEF Connects, AddEasyCore, RemoveEasyCore, Ends, vars

\* The calls of connect() do what Netlist promises: a call makes one net of the nets of
\* two pins, or changes no net, whatever connections were found on the way
\* (Pin::connectTo()).
THEOREM NetlistImplemented == Spec => ImplementsNetlist
<1>1. Init => Netlist!Init
  <2>. SUFFICES ASSUME Init PROVE Netlist!Init
    OBVIOUS
  <2>1. back \in Connections /\ \A p \in Pins : back[p] = NoPin
    BY DEF Init, Connections
  <2>. QED
    BY <2>1, SinglePins, NetsOfBack DEF Netlist!Init
<1>2. IInv /\ [Next]_vars => [Netlist!Next]_Nets
  BY NetlistStep
<1>. QED
  BY <1>1, <1>2, Invariance, PTL DEF Spec, Netlist!Spec, ImplementsNetlist
=============================================================================
