--------------------------- MODULE SymbolizerProofs ---------------------------
(***************************************************************************)
(* Proofs about Symbolizer, for every set of addresses, files and names,   *)
(* every number of samples, and every target.                              *)
(***************************************************************************)
EXTENDS Symbolizer, TLAPS

(* The inductive invariant. *)

\* A scan is of the program that runs until it is cut short, and of that one
\* still when it has become the captured mappings.  The copy of the runner that
\* a target is at first is never read.
Hosted ==
    /\ ~ownExecutable => execs > 0
    /\ execs > 0 => MappedBy(execs, layout)
    /\ unread # {} => execs > 0 /\ MappedBy(execs, scan)
    /\ \E program \in 0 .. execs : MappedBy(program, scan)
    /\ CapturedFromOneProgram

\* Functions are counted when the samples are final.
Settled ==
    /\ pc \in {"symbolize", "done", "unavailable"} => sampling = "stopped"
    /\ pc \in {"supervise", "capture"} => functions = NoFunctions

\* A sample whose module was named has one function; the others have none yet.
Counting ==
    pc = "symbolize" =>
        \A i \in Sampled :
            IF Resolved(i) /\ ModuleOf(i) \notin unnamed
            THEN \E k \in Key :
                   i \in functions[k] /\ \A j \in Key : i \in functions[j] => j = k
            ELSE \A k \in Key : i \notin functions[k]

SymbolizerInv ==
    /\ SymbolizerTypeOK
    /\ Hosted /\ Settled /\ Counting
    /\ AttributionIsGenuine /\ SamplesConserved

-----------------------------------------------------------------------------
\* A resolved sample: its mapping, the module and the key it is counted under.
LEMMA Resolution ==
  ASSUME SymbolizerTypeOK, NEW i \in Sampled, Resolved(i)
  PROVE  LET m == mappings[samples[i]] IN
         /\ samples[i] \in Address /\ m \in Mapping
         /\ m.executable /\ m.path \in Readable /\ m.path \in Path
         /\ ModuleOf(i) = m.path
         /\ \A failed : /\ KeyOf(i, failed) \in Key
                        /\ KeyOf(i, failed)[1] = FileName[m.path]
                        /\ KeyOf(i, failed)[2] \in {Unknown, Symbol[m.path][m.location]}
<1> DEFINE m == mappings[samples[i]]
<1>1. samples[i] \in Address
  BY DEF SymbolizerTypeOK, Sampled
<1>2. m \in Mapping /\ m.executable /\ m.path \in Readable
      /\ Reference(samples[i]) = <<m.path, m.location>>
  BY <1>1 DEF Resolved, Reference
<1>3. m.path \in Path /\ m.location \in Location
  BY <1>2, MappingAssumption
<1>4. ModuleOf(i) = m.path /\ Reference(samples[i])[2] = m.location
  BY <1>2 DEF ModuleOf
<1>5. FileName[m.path] \in Name /\ Symbol[m.path][m.location] \in Name /\ Unknown \in Name
  BY <1>3, NameAssumption
<1>6. ASSUME NEW failed
      PROVE  /\ KeyOf(i, failed) \in Key
             /\ KeyOf(i, failed)[1] = FileName[m.path]
             /\ KeyOf(i, failed)[2] \in {Unknown, Symbol[m.path][m.location]}
  BY <1>4, <1>5 DEF KeyOf, Key
<1> QED
  BY <1>1, <1>2, <1>3, <1>4, <1>6

\* The empty functions are a value of the map.
LEMMA NoneCounted ==
  /\ NoFunctions \in [Key -> SUBSET {}] /\ \A k \in Key : NoFunctions[k] = {}
  BY DEF NoFunctions

\* New text becomes part of the history, and nothing leaves it.
LEMMA HostingGrows ==
  ASSUME NEW new \in Layout, NEW program \in Nat, hosts \in [Address -> SUBSET (Nat \X Mapping)]
  PROVE  /\ Hosting(program, new) \in [Address -> SUBSET (Nat \X Mapping)]
         /\ \A a \in Address : /\ hosts[a] \subseteq Hosting(program, new)[a]
                               /\ new[a] \in Mapping => <<program, new[a]>> \in Hosting(program, new)[a]
  BY DEF Hosting

\* What a program mapped it mapped, whatever the history grows to.
LEMMA StillMapped ==
  ASSUME \A a \in Address : hosts[a] \subseteq hosts'[a],
         NEW program, NEW map, MappedBy(program, map)
  PROVE  \A a \in Address : map[a] \in Mapping => <<program, map[a]>> \in hosts'[a]
  BY DEF MappedBy

\* What is captured is the last scan, or what was captured before.
LEMMA CapturedIsOne ==
  ASSUME Hosted
  PROVE  \E program \in 0 .. execs : MappedBy(program, Captured)
<1>1. CASE scan = Nothing
  BY <1>1 DEF Hosted, CapturedFromOneProgram, Captured
<1>2. CASE scan # Nothing
  BY <1>2 DEF Hosted, Captured
<1> QED
  BY <1>1, <1>2

-----------------------------------------------------------------------------
\* Every variable keeps its type.
LEMMA SymbolizerTypes ==
  ASSUME SymbolizerTypeOK, [Next]_vars
  PROVE  SymbolizerTypeOK'
<1> USE DEF SymbolizerTypeOK, targetVars, samplerVars, captureVars, resultVars, Sampled
<1>1. CASE Exec
  <2>1. layout' \in Layout /\ ownExecutable' \in BOOLEAN
    BY <1>1, MappingAssumption DEF Exec, Mappable, Layout
  <2>2. hosts' \in [Address -> SUBSET (Nat \X Mapping)]
    BY <1>1, <2>1, HostingGrows DEF Exec
  <2> QED
    BY <1>1, <2>1, <2>2 DEF Exec
<1>2. ASSUME NEW a \in Address, Remap(a) PROVE SymbolizerTypeOK'
  <2>1. layout' \in Layout
    BY <1>2, MappingAssumption DEF Remap, Mappable, Layout
  <2>2. hosts' \in [Address -> SUBSET (Nat \X Mapping)]
    BY <1>2, <2>1, HostingGrows DEF Remap
  <2>3. remaps' \in Nat /\ UNCHANGED <<alive, execs, ownExecutable, pc, samplerVars,
                                        captureVars, resultVars>>
    BY <1>2 DEF Remap
  <2> QED
    BY <2>1, <2>2, <2>3
<1>3. CASE TargetExits
  BY <1>3 DEF TargetExits, Nothing, Layout
<1>4. CASE StartSampling \/ StopSampling
  BY <1>4 DEF StartSampling, StopSampling
<1>5. ASSUME NEW a \in Address, TakeSample(a) PROVE SymbolizerTypeOK'
  <2>1. samples' \in Seq(Address) /\ Len(samples') = Len(samples) + 1 /\ Len(samples) \in Nat
    BY <1>5 DEF TakeSample
  <2>2. functions' \in [Key -> SUBSET (1 .. Len(samples'))]
    BY <1>5, <2>1 DEF TakeSample
  <2> QED
    BY <1>5, <2>1, <2>2 DEF TakeSample
<1>6. CASE BeginCapture
  BY <1>6 DEF BeginCapture, Nothing, Layout
<1>7. ASSUME NEW a \in Address, ReadMaps(a) PROVE SymbolizerTypeOK'
  BY <1>7 DEF ReadMaps, Layout
<1>8. CASE EndCapture
  BY <1>8 DEF EndCapture, Captured
<1>9. CASE BeginSymbolize
  BY <1>9 DEF BeginSymbolize
<1>10. ASSUME NEW p \in Path, NameModule(p) PROVE SymbolizerTypeOK'
  BY <1>10 DEF NameModule
<1>11. CASE Addr2lineThrows
  BY <1>11, NoneCounted DEF Addr2lineThrows
<1>12. CASE CountUnresolved
  BY <1>12 DEF CountUnresolved, Unresolved
<1>13. CASE UNCHANGED vars
  BY <1>13 DEF vars
<1> QED
  BY <1>1, <1>2, <1>3, <1>4, <1>5, <1>6, <1>7, <1>8, <1>9, <1>10, <1>11, <1>12, <1>13
     DEF Next

\* The history only grows.
LEMMA HostsGrow ==
  ASSUME SymbolizerTypeOK, SymbolizerTypeOK', [Next]_vars
  PROVE  \A a \in Address : hosts[a] \subseteq hosts'[a]
<1>1. ASSUME UNCHANGED hosts PROVE \A a \in Address : hosts[a] \subseteq hosts'[a]
  BY <1>1
<1>2. ASSUME hosts' = Hosting(execs', layout')
      PROVE  \A a \in Address : hosts[a] \subseteq hosts'[a]
  BY <1>2, HostingGrows DEF SymbolizerTypeOK
<1>3. UNCHANGED hosts \/ hosts' = Hosting(execs', layout')
  BY DEF Next, Exec, Remap, TargetExits, StartSampling, TakeSample, StopSampling,
         BeginCapture, ReadMaps, EndCapture, BeginSymbolize, NameModule,
         Addr2lineThrows, CountUnresolved, vars, targetVars
<1> QED
  BY <1>1, <1>2, <1>3

\* A step that leaves the scan and what was captured as they were.
LEMMA HostedKept ==
  ASSUME SymbolizerTypeOK, SymbolizerTypeOK', Hosted, [Next]_vars,
         UNCHANGED <<scan, mappings>>, execs <= execs'
  PROVE  /\ \E program \in 0 .. execs' : MappedBy(program, scan)'
         /\ CapturedFromOneProgram'
<1>1. \A a \in Address : hosts[a] \subseteq hosts'[a]
  BY HostsGrow
<1>2. 0 .. execs \subseteq 0 .. execs'
  BY DEF SymbolizerTypeOK
<1>3. PICK program \in 0 .. execs : MappedBy(program, scan)
  BY DEF Hosted
<1>4. MappedBy(program, scan)'
  BY <1>1, <1>3, StillMapped DEF MappedBy
<1>5. PICK other \in 0 .. execs : MappedBy(other, mappings)
  BY DEF Hosted, CapturedFromOneProgram
<1>6. MappedBy(other, mappings)'
  BY <1>1, <1>5, StillMapped DEF MappedBy
<1> QED
  BY <1>2, <1>3, <1>4, <1>5, <1>6 DEF CapturedFromOneProgram

\* Only a foreign executable is captured, and an exec ends its scan.
LEMMA StepHosted ==
  ASSUME SymbolizerTypeOK, SymbolizerTypeOK', Hosted, [Next]_vars
  PROVE  Hosted'
<1> USE DEF targetVars, samplerVars, captureVars, resultVars
<1>1. CASE Exec
  <2>1. UNCHANGED <<scan, mappings>> /\ execs' = execs + 1 /\ unread' = {}
        /\ hosts' = Hosting(execs', layout')
    BY <1>1 DEF Exec
  <2>2. execs' \in Nat /\ execs' > 0 /\ execs <= execs'
    BY <2>1 DEF SymbolizerTypeOK
  <2>3. MappedBy(execs, layout)'
    BY <2>1, <2>2, HostingGrows DEF SymbolizerTypeOK, MappedBy
  <2> QED
    BY <2>1, <2>2, <2>3, HostedKept DEF Hosted
<1>2. ASSUME NEW a \in Address, Remap(a) PROVE Hosted'
  <2>1. UNCHANGED <<scan, mappings, execs, ownExecutable, unread>>
        /\ hosts' = Hosting(execs', layout')
    BY <1>2 DEF Remap
  <2>2. execs \in Nat /\ execs <= execs'
    BY <2>1 DEF SymbolizerTypeOK
  <2>3. MappedBy(execs, layout)'
    BY <2>1, <2>2, HostingGrows DEF SymbolizerTypeOK, MappedBy
  <2>4. MappedBy(execs, scan) => MappedBy(execs, scan)'
    BY <2>1, HostsGrow, StillMapped DEF MappedBy
  <2> QED
    BY <2>1, <2>2, <2>3, <2>4, HostedKept DEF Hosted
<1>3. CASE TargetExits
  <2>1. UNCHANGED <<scan, mappings, execs, ownExecutable, hosts>>
        /\ unread' = {} /\ layout' = Nothing
    BY <1>3 DEF TargetExits
  <2>2. MappedBy(execs, layout)'
    BY <2>1, MappingAssumption DEF MappedBy, Nothing
  <2> QED
    BY <2>1, <2>2, HostedKept DEF Hosted, SymbolizerTypeOK
<1>4. ASSUME UNCHANGED <<targetVars, captureVars>> PROVE Hosted'
  BY <1>4 DEF Hosted, MappedBy, CapturedFromOneProgram
<1>5. CASE BeginCapture
  <2>1. UNCHANGED <<mappings, execs, ownExecutable, hosts, layout>> /\ scan' = Nothing
    BY <1>5 DEF BeginCapture
  <2>2. \A program : MappedBy(program, scan)'
    BY <2>1, MappingAssumption DEF MappedBy, Nothing
  <2>3. unread' # {} => execs > 0
    BY <1>5 DEF BeginCapture, ForeignExecutable, Hosted
  <2>4. MappedBy(execs, layout) => MappedBy(execs, layout)'
    BY <2>1 DEF MappedBy
  <2>5. CapturedFromOneProgram'
    BY <2>1 DEF Hosted, CapturedFromOneProgram, MappedBy
  <2>6. 0 \in 0 .. execs
    BY DEF SymbolizerTypeOK
  <2> QED
    BY <2>1, <2>2, <2>3, <2>4, <2>5, <2>6 DEF Hosted
<1>6. ASSUME NEW a \in Address, ReadMaps(a) PROVE Hosted'
  <2>1. UNCHANGED <<mappings, execs, ownExecutable, hosts, layout>>
        /\ scan' = [scan EXCEPT ![a] = layout[a]] /\ a \in unread
    BY <1>6 DEF ReadMaps
  <2>2. execs > 0 /\ MappedBy(execs, scan) /\ MappedBy(execs, layout)
    BY <2>1 DEF Hosted
  <2>3. \A b \in Address : scan'[b] \in {scan[b], layout[b]}
    BY <2>1 DEF SymbolizerTypeOK, Layout
  <2>4. MappedBy(execs, scan)' /\ MappedBy(execs, layout)'
    BY <2>1, <2>2, <2>3 DEF MappedBy
  <2>5. CapturedFromOneProgram'
    BY <2>1 DEF Hosted, CapturedFromOneProgram, MappedBy
  <2>6. execs \in 0 .. execs
    BY DEF SymbolizerTypeOK
  <2> QED
    BY <2>1, <2>2, <2>4, <2>5, <2>6 DEF Hosted
<1>7. CASE EndCapture
  <2>1. UNCHANGED <<scan, unread, execs, ownExecutable, hosts, layout>> /\ mappings' = Captured
    BY <1>7 DEF EndCapture
  <2>2. CapturedFromOneProgram'
    BY <2>1, CapturedIsOne DEF CapturedFromOneProgram, MappedBy
  <2> QED
    BY <2>1, <2>2 DEF Hosted, MappedBy
<1>8. CASE StartSampling \/ StopSampling
  BY <1>4, <1>8 DEF StartSampling, StopSampling
<1>9. ASSUME NEW a \in Address, TakeSample(a) PROVE Hosted'
  BY <1>4, <1>9 DEF TakeSample
<1>10. CASE BeginSymbolize \/ Addr2lineThrows \/ CountUnresolved
  BY <1>4, <1>10 DEF BeginSymbolize, Addr2lineThrows, CountUnresolved
<1>11. ASSUME NEW p \in Path, NameModule(p) PROVE Hosted'
  BY <1>4, <1>11 DEF NameModule
<1>12. CASE UNCHANGED vars
  BY <1>4, <1>12 DEF vars
<1> QED
  BY <1>1, <1>2, <1>3, <1>5, <1>6, <1>7, <1>8, <1>9, <1>10, <1>11, <1>12 DEF Next

\* Counting begins when the sampler is stopped.
LEMMA StepSettled ==
  ASSUME Settled, [Next]_vars
  PROVE  Settled'
  BY DEF Settled, Next, Exec, Remap, TargetExits, StartSampling, TakeSample,
         StopSampling, BeginCapture, ReadMaps, EndCapture, BeginSymbolize, NameModule,
         Addr2lineThrows, CountUnresolved, vars, targetVars, samplerVars, captureVars,
         resultVars

\* From the first function on, samples and mappings do not change, and only
\* the steps of symbolizeSamples count.
LEMMA Frozen ==
  ASSUME Settled, [Next]_vars
  PROVE  /\ pc \in {"symbolize", "done", "unavailable"} => UNCHANGED <<samples, mappings>>
         /\ \/ UNCHANGED <<pc, unnamed, functions>>
            \/ UNCHANGED functions /\ pc \in {"supervise", "capture"}
               /\ pc' \in {"supervise", "capture"}
            \/ BeginSymbolize \/ Addr2lineThrows \/ CountUnresolved
            \/ \E p \in Path : NameModule(p)
  BY DEF Settled, Next, Exec, Remap, TargetExits, StartSampling, TakeSample,
         StopSampling, BeginCapture, ReadMaps, EndCapture, BeginSymbolize, NameModule,
         Addr2lineThrows, CountUnresolved, vars, targetVars, samplerVars, captureVars,
         resultVars

\* What is attributed was hosted, and stays in the history.
LEMMA StepAttribution ==
  ASSUME SymbolizerTypeOK, SymbolizerTypeOK', Hosted, Settled, AttributionIsGenuine,
         [Next]_vars
  PROVE  AttributionIsGenuine'
<1> DEFINE Genuine(k, H) ==
      \E hosted \in H : LET m == hosted[2] IN
        /\ m.executable /\ m.path \in Readable /\ FileName[m.path] = k[1]
        /\ k[2] \in {Unknown, Symbol[m.path][m.location]}
<1>1. \A a \in Address : hosts[a] \subseteq hosts'[a]
  BY HostsGrow
<1> SUFFICES ASSUME NEW k \in Key, k[1] # Unknown, NEW i \in functions'[k]
             PROVE  Genuine(k, hosts'[samples'[i]])
  BY DEF AttributionIsGenuine
<1>2. \A a \in Address : Genuine(k, hosts[a]) => Genuine(k, hosts'[a])
  BY <1>1
<1>3. CASE i \in functions[k]
  <2>1. i \in Sampled /\ samples[i] \in Address /\ Genuine(k, hosts[samples[i]])
    BY <1>3 DEF AttributionIsGenuine, SymbolizerTypeOK, Sampled
  <2>2. UNCHANGED samples
    <3>1. functions # NoFunctions
      BY <1>3, NoneCounted
    <3>2. pc \in {"symbolize", "done", "unavailable"}
      BY <3>1 DEF Settled, SymbolizerTypeOK
    <3> QED
      BY <3>2, Frozen
  <2> QED
    BY <1>2, <2>1, <2>2
<1>4. CASE i \notin functions[k]
  <2>1. PICK p \in Path : NameModule(p)
    <3>1. functions' # functions
      BY <1>4
    <3>2. ~BeginSymbolize
      BY <3>1 DEF BeginSymbolize
    <3>3. ~Addr2lineThrows
      BY NoneCounted DEF Addr2lineThrows
    <3>4. ~CountUnresolved
      BY <1>4 DEF CountUnresolved, SymbolizerTypeOK
    <3> QED
      BY <3>1, <3>2, <3>3, <3>4, Frozen
  <2>2. PICK failed : i \in Sampled /\ Resolved(i) /\ KeyOf(i, failed) = k
    BY <1>4, <2>1 DEF NameModule
  <2>3. LET m == mappings[samples[i]] IN
        /\ samples[i] \in Address /\ m \in Mapping
        /\ m.executable /\ m.path \in Readable /\ FileName[m.path] = k[1]
        /\ k[2] \in {Unknown, Symbol[m.path][m.location]}
    BY <2>2, Resolution
  <2>4. samples[i] \in Address /\ Genuine(k, hosts[samples[i]])
    <3> DEFINE m == mappings[samples[i]]
    <3>1. PICK program \in 0 .. execs : MappedBy(program, mappings)
      BY DEF Hosted, CapturedFromOneProgram
    <3>2. <<program, m>> \in hosts[samples[i]] /\ <<program, m>>[2] = m
      BY <2>3, <3>1 DEF MappedBy
    <3> QED
      BY <2>3, <3>2
  <2>5. UNCHANGED samples
    BY <2>1 DEF NameModule, samplerVars
  <2> QED
    BY <1>2, <2>4, <2>5
<1> QED
  BY <1>3, <1>4

\* Naming a module counts each of its samples under one key, and no other.
LEMMA NamingCounts ==
  ASSUME SymbolizerTypeOK, Counting, NEW p \in Path, NameModule(p)
  PROVE  Counting'
<1>1. PICK failed :
        functions' = [k \in Key |-> functions[k] \cup
             {i \in Sampled : Resolved(i) /\ ModuleOf(i) = p /\ KeyOf(i, failed) = k}]
  BY DEF NameModule
<1>2. unnamed' = unnamed \ {p} /\ p \in unnamed /\ pc = "symbolize"
  BY DEF NameModule
<1>3. UNCHANGED <<samples, mappings, pc>>
  BY DEF NameModule, samplerVars, captureVars
<1>4. /\ Sampled' = Sampled
      /\ \A i \in Sampled : (Resolved(i) <=> Resolved(i)') /\ ModuleOf(i)' = ModuleOf(i)
  BY <1>3 DEF Sampled, Resolved, ModuleOf, Reference
<1> SUFFICES ASSUME NEW i \in Sampled
             PROVE  IF Resolved(i) /\ ModuleOf(i) \notin unnamed'
                    THEN \E k \in Key :
                           i \in functions'[k] /\ \A j \in Key : i \in functions'[j] => j = k
                    ELSE \A k \in Key : i \notin functions'[k]
  BY <1>4 DEF Counting
<1>5. \A k \in Key : i \in functions'[k] <=>
        i \in functions[k] \/ (Resolved(i) /\ ModuleOf(i) = p /\ KeyOf(i, failed) = k)
  BY <1>1
<1>6. CASE Resolved(i) /\ ModuleOf(i) = p
  <2>1. \A k \in Key : i \notin functions[k]
    BY <1>2, <1>6 DEF Counting
  <2>2. KeyOf(i, failed) \in Key
    BY <1>6, Resolution
  <2> QED
    BY <1>2, <1>5, <1>6, <2>1, <2>2
<1>7. CASE ~(Resolved(i) /\ ModuleOf(i) = p)
  <2>1. \A k \in Key : i \in functions'[k] <=> i \in functions[k]
    BY <1>5, <1>7
  <2>2. Resolved(i) => (ModuleOf(i) \in unnamed' <=> ModuleOf(i) \in unnamed)
    BY <1>2, <1>7
  <2> QED
    BY <1>2, <2>1, <2>2 DEF Counting
<1> QED
  BY <1>6, <1>7

\* The counts are complete when no module is left.
LEMMA StepCounting ==
  ASSUME SymbolizerTypeOK, Settled, Counting, SamplesConserved, [Next]_vars
  PROVE  Counting' /\ SamplesConserved'
<1>1. CASE UNCHANGED <<pc, unnamed, functions>>
  <2>1. CASE pc \in {"symbolize", "done", "unavailable"}
    <3>1. UNCHANGED <<samples, mappings>>
      BY <2>1, Frozen
    <3> QED
      BY <1>1, <3>1
         DEF Counting, SamplesConserved, Sampled, Resolved, ModuleOf, Reference
  <2>2. CASE pc \notin {"symbolize", "done", "unavailable"}
    BY <1>1, <2>2 DEF Counting, SamplesConserved
  <2> QED
    BY <2>1, <2>2
<1>2. CASE pc' \in {"supervise", "capture"}
  BY <1>2 DEF Counting, SamplesConserved
<1>3. CASE BeginSymbolize
  <2>1. pc' = "symbolize" /\ UNCHANGED <<samples, mappings, functions>>
        /\ unnamed' = {p \in Path : \E i \in Sampled : Resolved(i) /\ ModuleOf(i) = p}
    BY <1>3 DEF BeginSymbolize, samplerVars, captureVars
  <2>2. functions = NoFunctions
    BY <1>3 DEF BeginSymbolize, Settled
  <2>3. \A i \in Sampled : Resolved(i) => ModuleOf(i) \in unnamed'
    BY <2>1, Resolution
  <2>4. \A k \in Key : functions'[k] = {}
    BY <2>1, <2>2, NoneCounted
  <2>5. /\ Sampled' = Sampled
        /\ \A i \in Sampled : (Resolved(i) <=> Resolved(i)') /\ ModuleOf(i)' = ModuleOf(i)
    BY <2>1 DEF Sampled, Resolved, ModuleOf, Reference
  <2> QED
    BY <2>1, <2>3, <2>4, <2>5 DEF Counting, SamplesConserved
<1>4. CASE Addr2lineThrows
  BY <1>4 DEF Addr2lineThrows, Counting, SamplesConserved
<1>5. CASE CountUnresolved
  <2> DEFINE none == <<Unknown, Unknown>>
  <2>1. pc' = "done" /\ pc = "symbolize" /\ unnamed = {} /\ UNCHANGED samples
        /\ functions' = [functions EXCEPT ![none] = functions[none] \cup Unresolved]
    BY <1>5 DEF CountUnresolved, samplerVars
  <2>2. none \in Key
    BY NameAssumption DEF Key
  <2>3. /\ \A k \in Key \ {none} : functions'[k] = functions[k]
        /\ functions'[none] = functions[none] \cup Unresolved
    BY <2>1, <2>2 DEF SymbolizerTypeOK
  <2>4. ASSUME NEW i \in Sampled
        PROVE  \E k \in Key :
                 i \in functions'[k] /\ \A j \in Key : i \in functions'[j] => j = k
    <3>1. CASE Resolved(i)
      <4>1. i \notin Unresolved
        BY <3>1 DEF Unresolved
      <4>2. \A k \in Key : i \in functions'[k] <=> i \in functions[k]
        BY <2>3, <4>1
      <4> QED
        BY <2>1, <3>1, <4>2 DEF Counting
    <3>2. CASE ~Resolved(i)
      <4>1. i \in Unresolved /\ \A k \in Key : i \notin functions[k]
        BY <2>1, <3>2 DEF Unresolved, Counting
      <4> QED
        BY <2>2, <2>3, <4>1
    <3> QED
      BY <3>1, <3>2
  <2> QED
    BY <2>1, <2>4 DEF Counting, SamplesConserved, Sampled
<1>6. ASSUME NEW p \in Path, NameModule(p) PROVE Counting' /\ SamplesConserved'
  <2>1. pc' = "symbolize"
    BY <1>6 DEF NameModule
  <2> QED
    BY <1>6, <2>1, NamingCounts DEF SamplesConserved
<1> QED
  BY <1>1, <1>2, <1>3, <1>4, <1>5, <1>6, Frozen

-----------------------------------------------------------------------------
\* Nothing was captured, sampled or counted when the target is forked.
LEMMA SymbolizerInitially == Init => SymbolizerInv
<1> SUFFICES ASSUME Init PROVE SymbolizerInv
  OBVIOUS
<1>1. samples = <<>> /\ Len(samples) = 0 /\ Sampled = {}
  BY DEF Init, Sampled
<1>2. functions \in [Key -> SUBSET (1 .. Len(samples))]
  BY DEF Init, NoFunctions
<1>3. layout \in Layout /\ Nothing \in Layout
  BY MappingAssumption DEF Init, Layout, Nothing
<1>4. SymbolizerTypeOK
  BY <1>1, <1>2, <1>3 DEF Init, SymbolizerTypeOK
<1>5. Hosted
  BY MappingAssumption DEF Init, Hosted, Nothing, CapturedFromOneProgram, MappedBy
<1>6. Settled /\ Counting
  BY DEF Init, Settled, Counting
<1>7. AttributionIsGenuine /\ SamplesConserved
  BY NoneCounted DEF Init, AttributionIsGenuine, SamplesConserved
<1> QED
  BY <1>4, <1>5, <1>6, <1>7 DEF SymbolizerInv

\* The invariant is kept by target, sampler, capture and symbolizer.
LEMMA SymbolizerInvariance == SymbolizerInv /\ [Next]_vars => SymbolizerInv'
  BY SymbolizerTypes, StepHosted, StepSettled, StepAttribution, StepCounting
     DEF SymbolizerInv

\* The inductive invariant holds whatever the target does meanwhile.
THEOREM SymbolizerInvariant == Spec => []SymbolizerInv
  BY SymbolizerInitially, SymbolizerInvariance, PTL DEF Spec

\* Every variable keeps its type.
THEOREM SymbolizerTypeCorrect == Spec => []SymbolizerTypeOK
  BY SymbolizerInvariant, PTL DEF SymbolizerInv

\* No sample is lost or counted twice on the way to the functions.
THEOREM NoSampleLost == Spec => []SamplesConserved
  BY SymbolizerInvariant, PTL DEF SymbolizerInv

\* What is blamed on a file was sampled where that file was mapped.
THEOREM GenuineAttribution == Spec => []AttributionIsGenuine
  BY SymbolizerInvariant, PTL DEF SymbolizerInv

\* The mappings that resolve the samples are of one program that was measured.
THEOREM OneProgramCaptured == Spec => []CapturedFromOneProgram
  BY SymbolizerInvariant, PTL DEF SymbolizerInv, Hosted
=============================================================================
