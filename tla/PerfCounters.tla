---------------------------- MODULE PerfCounters ----------------------------
(***************************************************************************)
(* PerfCounterCollector (src/perf/perf_counter.cpp): a group of hardware   *)
(* events that is opened event by event, enabled for a window, disabled    *)
(* and read once.  The kernel schedules a group as a whole, so each event  *)
(* counts during the same part of the window.  The measured program is     *)
(* steady: it causes one event of each kind per tick, which makes the      *)
(* extrapolation of a multiplexed group exact and any other count visible. *)
(***************************************************************************)
EXTENDS CounterScaling, Sequences, FiniteSets

CONSTANTS
    Events,     \* size of eventConfigs: six in the program
    MaxTicks    \* bound of the measured program

ASSUME EventsAssumption == Events \in Nat \ {0}
\* A window shorter than 2 ^ 60 ns, which is 36 years.
ASSUME TicksAssumption == MaxTicks \in Nat /\ 16 * MaxTicks < 2 ^ Width

VARIABLES
    pc,              \* place of the collector's owner
    descriptors,     \* Impl::descriptors; a descriptor is the index of its event
    open,            \* kernel: the events that are open
    strayCloses,     \* history: a descriptor was closed that was not open
    targetAlive, ticks,
    enabled, count, timeEnabled, timeRunning,   \* kernel: the group
    window,          \* history: ticks of the target between start and stop
    values           \* what read() returned

kernelVars == <<enabled, count, timeEnabled, timeRunning>>
targetVars == <<targetAlive, ticks, window>>
fdVars == <<descriptors, open, strayCloses>>
vars == <<pc, fdVars, kernelVars, targetVars, values>>

Event_zeroBased == 0 .. Events - 1
Event == 1 .. Events
Leader == 1
NoValues == <<>>

CountersTypeOK ==
    /\ pc \in {"opening", "thrown", "open", "started", "stopped", "read", "gone"}
    /\ descriptors \in Seq(Event) /\ open \subseteq Event /\ strayCloses \in BOOLEAN
    /\ targetAlive \in BOOLEAN /\ ticks \in Nat
    /\ enabled \in BOOLEAN /\ count \in [Event -> Nat]
    /\ timeEnabled \in Nat /\ timeRunning \in 0 .. timeEnabled
    /\ window \in Nat
    /\ values \in {NoValues} \cup [Event -> Word]

Init ==
    /\ pc = "opening"
    /\ descriptors = <<>> /\ open = {} /\ strayCloses = FALSE
    /\ targetAlive = TRUE /\ ticks = 0
    /\ enabled = FALSE /\ count = [e \in Event |-> 0]
    /\ timeEnabled = 0 /\ timeRunning = 0
    /\ window = 0 /\ values = NoValues

-----------------------------------------------------------------------------
(* The constructor and the destructor. *)

Kept_inTheList == descriptors
Kept == <<>>

\* closeAll: every listed descriptor is closed and the list is emptied.
CloseAll ==
    LET listed == {descriptors[i] : i \in DOMAIN descriptors} IN
    /\ open' = open \ listed
    /\ strayCloses' = (strayCloses \/ ~(listed \subseteq open))
    /\ descriptors' = Kept

\* Only the leader is created disabled; the others follow it.
StartsCounting_everyEvent(e) == TRUE
StartsCounting(e) == e # Leader /\ enabled

OpenEvent ==
    /\ pc = "opening" /\ Len(descriptors) < Events
    /\ LET e == Len(descriptors) + 1 IN
         /\ descriptors' = Append(descriptors, e)
         /\ open' = open \cup {e}
         /\ enabled' = StartsCounting(e)
    /\ UNCHANGED <<pc, strayCloses, count, timeEnabled, timeRunning, targetVars, values>>

\* The events so far are closed before the exception.
OpenFails ==
    /\ pc = "opening" /\ Len(descriptors) < Events
    /\ CloseAll
    /\ pc' = "thrown"
    /\ enabled' = FALSE
    /\ UNCHANGED <<count, timeEnabled, timeRunning, targetVars, values>>

Opened ==
    /\ pc = "opening" /\ Len(descriptors) = Events
    /\ pc' = "open"
    /\ UNCHANGED <<fdVars, kernelVars, targetVars, values>>

\* ~Impl: after a constructor that threw, or when the owner drops the collector.
Destroy ==
    /\ pc \notin {"opening", "gone"}
    /\ CloseAll
    /\ pc' = "gone"
    /\ enabled' = FALSE
    /\ UNCHANGED <<count, timeEnabled, timeRunning, targetVars, values>>

-----------------------------------------------------------------------------
(* start, stop and read.  A failed ioctl throws and the owner drops it. *)

\* RESET clears the counts, never the times; then ENABLE.
Start ==
    /\ pc = "open"
    /\ count' = [e \in Event |-> 0]
    /\ enabled' = TRUE
    /\ pc' = "started"
    /\ UNCHANGED <<fdVars, timeEnabled, timeRunning, targetVars, values>>

StartFails ==
    /\ pc = "open"
    /\ count' \in {count, [e \in Event |-> 0]}
    /\ pc' = "thrown"
    /\ UNCHANGED <<fdVars, enabled, timeEnabled, timeRunning, targetVars, values>>

\* DISABLE; ESRCH says that the target is gone, which is no failure.
Stop ==
    /\ pc = "started"
    /\ enabled' = FALSE
    /\ pc' = "stopped"
    /\ UNCHANGED <<fdVars, count, timeEnabled, timeRunning, targetVars, values>>

StopFails ==
    /\ pc = "started"
    /\ pc' = "thrown"
    /\ UNCHANGED <<fdVars, kernelVars, targetVars, values>>

\* A group that was never scheduled has no value.
Readable == timeRunning # 0

Read ==
    /\ pc = "stopped" /\ Readable
    /\ values' = [e \in Event |-> ScaleCounter(count[e], timeEnabled, timeRunning)]
    /\ pc' = "read"
    /\ UNCHANGED <<fdVars, kernelVars, targetVars>>

\* The read fails, is short, or finds a group that never ran.
ReadFails ==
    /\ pc = "stopped"
    /\ pc' = "thrown"
    /\ UNCHANGED <<fdVars, kernelVars, targetVars, values>>

-----------------------------------------------------------------------------
(* The target and the kernel's multiplexing of the counters. *)

\* The group runs, or another group has the hardware.
Tick(scheduled) ==
    /\ targetAlive /\ ticks < MaxTicks
    /\ ticks' = ticks + 1
    /\ window' = window + (IF pc = "started" THEN 1 ELSE 0)
    /\ IF enabled
       THEN /\ timeEnabled' = timeEnabled + 1
            /\ timeRunning' = timeRunning + (IF scheduled THEN 1 ELSE 0)
            /\ count' = [e \in Event |->
                           count[e] + (IF scheduled /\ e \in open THEN 1 ELSE 0)]
       ELSE UNCHANGED <<timeEnabled, timeRunning, count>>
    /\ UNCHANGED <<pc, fdVars, enabled, targetAlive, values>>

TargetExits ==
    /\ targetAlive
    /\ targetAlive' = FALSE
    /\ UNCHANGED <<pc, fdVars, kernelVars, ticks, window, values>>

Next ==
    \/ OpenEvent \/ OpenFails \/ Opened \/ Destroy
    \/ Start \/ StartFails \/ Stop \/ StopFails \/ Read \/ ReadFails
    \/ \E scheduled \in BOOLEAN : Tick(scheduled)
    \/ TargetExits

Spec == Init /\ [][Next]_vars

-----------------------------------------------------------------------------
(* Properties. *)

\* However far the constructor comes, each event that was opened is closed
\* exactly once, by closeAll in the constructor or in the destructor.
DescriptorsClosedOnce ==
    /\ ~strayCloses
    /\ pc = "gone" => open = {}

\* What read() returns for each event is the program's activity between start
\* and stop: nothing from before the barrier, nothing after the stop, and the
\* part in which the group was not scheduled is made up for.
WindowMeasured == values # NoValues => \A e \in Event : values[e] = window
=============================================================================
