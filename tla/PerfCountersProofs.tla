-------------------------- MODULE PerfCountersProofs --------------------------
(***************************************************************************)
(* Proofs about PerfCounters, for every number of events and every length  *)
(* of a run: the descriptors of the group, and what its counters hold.     *)
(***************************************************************************)
EXTENDS PerfCounters, CounterScalingProofs

(* The inductive invariants. *)

\* The list holds the descriptors that are open, in the order of their events.
Listed ==
    /\ descriptors \in Seq(Event)
    /\ \A i \in 1 .. Len(descriptors) : descriptors[i] = i
    /\ open = {descriptors[i] : i \in 1 .. Len(descriptors)}
    /\ ~strayCloses
    /\ pc \in {"open", "started", "stopped"} => Len(descriptors) = Events
    /\ pc = "gone" => descriptors = <<>>

\* Nothing is counted before start() or after stop(), and every event of a
\* complete group counts whenever the group runs.
Counted ==
    /\ window \in Nat /\ timeEnabled \in Nat /\ timeRunning \in Nat
    /\ count \in [Event -> Nat]
    /\ pc \in {"opening", "open"} =>
         ~enabled /\ timeEnabled = 0 /\ timeRunning = 0 /\ window = 0
    /\ pc \in {"started", "stopped"} =>
         window = timeEnabled /\ \A e \in Event : count[e] = timeRunning
    /\ pc \in {"stopped", "read", "gone"} => ~enabled
    /\ pc = "started" => enabled
    /\ timeRunning <= timeEnabled /\ timeEnabled <= ticks
    /\ values # NoValues =>
         /\ pc \in {"read", "gone"} /\ window = timeEnabled /\ timeRunning # 0
         /\ values = [e \in Event |-> ScaleCounter(timeRunning, timeEnabled, timeRunning)]
    /\ pc = "read" => window = timeEnabled

\* The places of the owner, and the flags.
Placed ==
    /\ pc \in {"opening", "thrown", "open", "started", "stopped", "read", "gone"}
    /\ targetAlive \in BOOLEAN /\ ticks \in 0 .. MaxTicks
    /\ enabled \in BOOLEAN /\ strayCloses \in BOOLEAN

CountersInv == Placed /\ Listed /\ Counted

\* When the group always had the hardware, read() returns the activity between
\* start and stop itself, whatever the word and the mantissa.
ExactWhenAlone ==
    values # NoValues /\ timeRunning = timeEnabled =>
        \A e \in Event : values[e] = window

-----------------------------------------------------------------------------
\* closeAll closes every open descriptor, each once, and empties the list.
LEMMA Closing ==
  ASSUME Listed, CloseAll
  PROVE  open' = {} /\ descriptors' = <<>> /\ ~strayCloses'
<1>1. DOMAIN descriptors = 1 .. Len(descriptors)
  BY DEF Listed
<1> QED
  BY <1>1 DEF Listed, CloseAll, Kept

\* The constructor, closeAll and the destructor keep the list.
LEMMA StepListed ==
  ASSUME Listed, [Next]_vars
  PROVE  Listed'
<1>1. CASE OpenEvent
  <2> DEFINE e == Len(descriptors) + 1
  <2>1. e \in Event /\ Len(descriptors) \in Nat
    BY <1>1, EventsAssumption DEF OpenEvent, Listed, Event
  <2>2. /\ descriptors' = Append(descriptors, e) /\ open' = open \cup {e}
        /\ UNCHANGED strayCloses /\ pc' = "opening"
    BY <1>1 DEF OpenEvent
  <2>3. /\ descriptors' \in Seq(Event) /\ Len(descriptors') = e
        /\ \A i \in 1 .. e : descriptors'[i] = i
    BY <2>1, <2>2 DEF Listed
  <2>4. open' = {descriptors'[i] : i \in 1 .. e}
    BY <2>1, <2>2, <2>3 DEF Listed
  <2> QED
    BY <2>2, <2>3, <2>4 DEF Listed
<1>2. CASE OpenFails \/ Destroy
  <2>1. CloseAll /\ pc' \in {"thrown", "gone"}
    BY <1>2 DEF OpenFails, Destroy
  <2>2. open' = {} /\ descriptors' = <<>> /\ ~strayCloses'
    BY <2>1, Closing
  <2> QED
    BY <2>1, <2>2 DEF Listed
<1>3. CASE Opened
  BY <1>3 DEF Opened, Listed, fdVars
<1>4. CASE Start \/ StartFails \/ Stop \/ StopFails \/ Read \/ ReadFails
  BY <1>4 DEF Start, StartFails, Stop, StopFails, Read, ReadFails, Listed, fdVars
<1>5. CASE TargetExits \/ (\E scheduled \in BOOLEAN : Tick(scheduled)) \/ UNCHANGED vars
  BY <1>5 DEF TargetExits, Tick, Listed, fdVars, vars
<1> QED
  BY <1>1, <1>2, <1>3, <1>4, <1>5 DEF Next

\* A complete group has every event open.
LEMMA GroupOpen ==
  ASSUME Listed, pc = "started"
  PROVE  open = Event
  BY EventsAssumption DEF Listed, Event

\* The kernel and the calls of the owner keep the counts.
LEMMA StepCounted ==
  ASSUME Placed, Listed, Counted, [Next]_vars
  PROVE  Counted'
<1> USE DEF Counted, kernelVars, targetVars
<1>0. ticks \in Nat
  BY DEF Placed
<1>1. CASE OpenEvent \/ OpenFails \/ Opened \/ Destroy
  <2>1. CASE OpenEvent
    <3>1. ~enabled'
      BY <2>1, Zenon DEF OpenEvent, StartsCounting
    <3> QED
      BY <2>1, <3>1 DEF OpenEvent
  <2>2. CASE OpenFails \/ Opened
    BY <2>2 DEF OpenFails, Opened
  <2>3. CASE Destroy
    BY <2>3 DEF Destroy
  <2> QED
    BY <1>1, <2>1, <2>2, <2>3
<1>2. CASE Start \/ StartFails
  BY <1>2 DEF Start, StartFails
<1>3. CASE Stop \/ StopFails
  BY <1>3 DEF Stop, StopFails
<1>4. CASE Read
  <2>1. values' = [e \in Event |-> ScaleCounter(timeRunning, timeEnabled, timeRunning)]
    BY <1>4 DEF Read
  <2> QED
    BY <1>4, <2>1 DEF Read, Readable
<1>5. CASE ReadFails
  BY <1>5 DEF ReadFails
<1>6. ASSUME NEW scheduled \in BOOLEAN, Tick(scheduled) PROVE Counted'
  <2>1. CASE pc = "started"
    <3>1. window' = window + 1 /\ timeEnabled' = timeEnabled + 1
          /\ timeRunning' = timeRunning + (IF scheduled THEN 1 ELSE 0)
          /\ count' = [e \in Event |-> count[e] + (IF scheduled /\ e \in open THEN 1 ELSE 0)]
      BY <1>6, <2>1 DEF Tick
    <3>2. count' = [e \in Event |-> count[e] + (IF scheduled THEN 1 ELSE 0)]
      BY <2>1, <3>1, GroupOpen
    <3> QED
      BY <1>0, <1>6, <2>1, <3>1, <3>2 DEF Tick
  <2>2. CASE pc # "started"
    BY <1>0, <1>6, <2>2 DEF Tick
  <2> QED
    BY <2>1, <2>2
<1>7. CASE TargetExits \/ UNCHANGED vars
  BY <1>7 DEF TargetExits, vars
<1> QED
  BY <1>1, <1>2, <1>3, <1>4, <1>5, <1>6, <1>7 DEF Next

\* Every step ends in a place, and the target's clock stays within its bound.
LEMMA StepPlaced ==
  ASSUME Placed, [Next]_vars
  PROVE  Placed'
<1> USE DEF Placed, kernelVars, targetVars, fdVars
<1>1. CASE OpenEvent
  <2>1. enabled' \in BOOLEAN
    <3>1. enabled' = StartsCounting(Len(descriptors) + 1)
      BY <1>1, Zenon DEF OpenEvent
    <3>2. StartsCounting(Len(descriptors) + 1) \in BOOLEAN
      BY DEF StartsCounting
    <3> QED
      BY <3>1, <3>2, Zenon
  <2> QED
    BY <1>1, <2>1 DEF OpenEvent
<1>2. CASE OpenFails \/ Destroy
  <2>1. strayCloses' \in BOOLEAN
    <3>1. CloseAll
      BY <1>2 DEF OpenFails, Destroy
    <3> QED
      BY <3>1, Zenon DEF CloseAll
  <2> QED
    BY <1>2, <2>1 DEF OpenFails, Destroy
<1>3. CASE Opened \/ Start \/ StartFails \/ Stop \/ StopFails \/ Read \/ ReadFails
  BY <1>3 DEF Opened, Start, StartFails, Stop, StopFails, Read, ReadFails
<1>4. ASSUME NEW scheduled \in BOOLEAN, Tick(scheduled) PROVE Placed'
  <2>1. ticks' \in 0 .. MaxTicks
    BY <1>4, TicksAssumption DEF Tick
  <2> QED
    BY <1>4, <2>1 DEF Tick
<1>5. CASE TargetExits \/ UNCHANGED vars
  BY <1>5 DEF TargetExits, vars
<1> QED
  BY <1>1, <1>2, <1>3, <1>4, <1>5 DEF Next

-----------------------------------------------------------------------------
\* A constructor begins with nothing open and nothing counted.
LEMMA CountersInitially == Init => CountersInv
<1> SUFFICES ASSUME Init PROVE CountersInv
  OBVIOUS
<1>1. Placed
  <2>1. ticks \in 0 .. MaxTicks
    BY TicksAssumption DEF Init
  <2> QED
    BY <2>1 DEF Init, Placed
<1>2. Listed
  <2>1. descriptors \in Seq(Event) /\ Len(descriptors) = 0
    BY DEF Init
  <2> QED
    BY <2>1 DEF Init, Listed
<1>3. Counted
  BY DEF Init, Counted
<1> QED
  BY <1>1, <1>2, <1>3 DEF CountersInv

\* The inductive invariant holds wherever a call fails.
THEOREM CountersInvariant == Spec => []CountersInv
<1>1. CountersInv /\ [Next]_vars => CountersInv'
  BY StepPlaced, StepListed, StepCounted DEF CountersInv
<1> QED
  BY <1>1, CountersInitially, PTL DEF Spec

\* No descriptor leaks and none is closed twice.
THEOREM ClosedOnce == Spec => []DescriptorsClosedOnce
<1>1. CountersInv => DescriptorsClosedOnce
  BY DEF CountersInv, Listed, DescriptorsClosedOnce
<1> QED
  BY <1>1, CountersInvariant, PTL

\* Without multiplexing no arithmetic stands between the window and the value.
THEOREM UnscaledIsExact == Spec => []ExactWhenAlone
<1>1. CountersInv => ExactWhenAlone
  <2> SUFFICES ASSUME CountersInv, values # NoValues, timeRunning = timeEnabled,
                      NEW e \in Event
               PROVE  values[e] = window
    BY DEF ExactWhenAlone
  <2>1. values[e] = ScaleCounter(timeRunning, timeEnabled, timeRunning)
        /\ window = timeEnabled /\ timeEnabled \in Nat
    BY DEF CountersInv, Counted
  <2> QED
    BY <2>1 DEF ScaleCounter
<1> QED
  BY <1>1, CountersInvariant, PTL

\* A time of the group is a word.
LEMMA TimesAreWords ==
  ASSUME CountersInv
  PROVE  /\ timeEnabled \in Word /\ timeRunning \in Word
         /\ timeEnabled \in Nat /\ timeRunning \in Nat /\ 16 * timeEnabled < 2 ^ Width
<1>1. /\ MaxTicks \in Nat /\ 16 * MaxTicks < 2 ^ Width /\ 2 ^ Width \in Nat
      /\ MaxWord = 2 ^ Width - 1
  BY TicksAssumption, Words
<1>2. timeEnabled \in Nat /\ timeRunning \in Nat /\ timeRunning <= timeEnabled
      /\ timeEnabled <= MaxTicks
  BY <1>1 DEF CountersInv, Placed, Counted
<1> QED
  BY <1>1, <1>2, Words

\* read() gives what was counted between start and stop, however the kernel
\* shared the hardware, for every width of a word and every mantissa: the
\* rounding of a product that the mantissa cannot hold never shows.
THEOREM WindowIsMeasured == Spec => []WindowMeasured
<1>1. CountersInv => WindowMeasured
  <2> SUFFICES ASSUME CountersInv, values # NoValues, NEW e \in Event
               PROVE  values[e] = window
    BY DEF WindowMeasured
  <2>1. /\ values[e] = ScaleCounter(timeRunning, timeEnabled, timeRunning)
        /\ window = timeEnabled /\ timeRunning # 0 /\ timeRunning <= timeEnabled
    BY DEF CountersInv, Counted
  <2>2. timeRunning \in Nat \ {0} /\ timeEnabled \in Nat /\ 16 * timeEnabled < 2 ^ Width
    BY <2>1, TimesAreWords
  <2>3. ScaleCounter(timeRunning, timeEnabled, timeRunning) = timeEnabled
    BY <2>1, <2>2, SteadyIsExact
  <2> QED
    BY <2>1, <2>3
<1> QED
  BY <1>1, CountersInvariant, PTL

\* Every value that read() returns is a word, and the group never runs longer
\* than it is enabled.
THEOREM CountersTypeCorrect == Spec => []CountersTypeOK
<1>1. CountersInv => CountersTypeOK
  <2> SUFFICES ASSUME CountersInv PROVE CountersTypeOK
    OBVIOUS
  <2>1. open \subseteq Event /\ descriptors \in Seq(Event)
    BY DEF CountersInv, Listed
  <2>2. timeRunning \in 0 .. timeEnabled /\ timeEnabled \in Nat /\ window \in Nat
        /\ count \in [Event -> Nat]
    BY DEF CountersInv, Counted
  <2>3. values \in {NoValues} \cup [Event -> Word]
    <3>1. ASSUME values # NoValues PROVE values \in [Event -> Word]
      <4>1. /\ values = [e \in Event |-> ScaleCounter(timeRunning, timeEnabled, timeRunning)]
            /\ timeRunning # 0
        BY <3>1 DEF CountersInv, Counted
      <4>2. timeRunning \in Word \ {0} /\ timeEnabled \in Word
        BY <4>1, TimesAreWords
      <4>3. ScaleCounter(timeRunning, timeEnabled, timeRunning) \in Word
        BY <4>2, ScaledAccurately
      <4> QED
        BY <4>1, <4>3
    <3> QED
      BY <3>1
  <2> QED
    BY <2>1, <2>2, <2>3 DEF CountersInv, Placed, CountersTypeOK
<1> QED
  BY <1>1, CountersInvariant, PTL
=============================================================================
