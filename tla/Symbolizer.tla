----------------------------- MODULE Symbolizer -----------------------------
(***************************************************************************)
(* From sampled addresses to functions: the memory mappings that the loop  *)
(* of ProcessRunner::run captures while the target lives, and              *)
(* symbolizeSamples (src/symbols/symbolizer.cpp), which resolves the       *)
(* addresses when the target is gone.                                      *)
(*                                                                         *)
(* The target starts as a copy of the runner, executes one or more other   *)
(* programs (a shell first, for compare) and loads and unloads libraries,  *)
(* so what is mapped at an address changes between the sample, the capture *)
(* and the exit.  A function's count is kept as the set of samples counted *)
(* under it: its size is the number the program reports.                   *)
(***************************************************************************)
EXTENDS Integers, Sequences

CONSTANTS
    Address,        \* instruction pointers
    Mapping,        \* what may be mapped at one: a file, or memory without one
    NoMapping,      \* nothing is mapped
    RunnerMapping,  \* the text of perflens itself
    Path, Location, \* mapped paths, ELF virtual addresses
    Readable,       \* those that start with '/' and are 64-bit ELF files
    Name, Unknown,  \* file and function names, and "[unknown]"
    FileName,       \* std::filesystem::path::filename
    Symbol,         \* what addr2line knows of a path and a location
    MaxExecs, MaxRemaps, MaxSamples   \* bounds of the target, not of the code

ASSUME MappingAssumption ==
    /\ Mapping \subseteq [path: Path, location: Location, executable: BOOLEAN]
    /\ NoMapping \notin Mapping /\ RunnerMapping \in Mapping
    /\ Readable \subseteq Path
ASSUME NameAssumption ==
    /\ Unknown \in Name
    /\ FileName \in [Path -> Name \ {Unknown}]
    /\ Symbol \in [Path -> [Location -> Name]]

VARIABLES
    alive, execs, ownExecutable, layout, remaps,   \* the target
    hosts,       \* history: what the n-th program that was executed mapped at an address
    pc, sampling, samples,                         \* the runner and its sampler
    scan, unread,  \* readProcMaps: what was read, and what is still to be read
    mappings,      \* the last mappings that were captured
    unnamed,       \* the modules that addr2line was not asked about yet
    functions      \* per key (module, function): the samples counted under it

targetVars == <<alive, execs, ownExecutable, layout, remaps, hosts>>
samplerVars == <<sampling, samples>>
captureVars == <<scan, unread, mappings>>
resultVars == <<unnamed, functions>>
vars == <<targetVars, pc, samplerVars, captureVars, resultVars>>

Layout == [Address -> Mapping \cup {NoMapping}]
Key == Name \X Name
Nothing == [a \in Address |-> NoMapping]
NoFunctions == [k \in Key |-> {}]

\* The samples, by their index.
Sampled == 1 .. Len(samples)

SymbolizerTypeOK ==
    /\ alive \in BOOLEAN /\ ownExecutable \in BOOLEAN
    /\ execs \in Nat /\ remaps \in Nat
    /\ layout \in Layout /\ mappings \in Layout /\ scan \in Layout
    /\ unread \subseteq Address
    /\ hosts \in [Address -> SUBSET (Nat \X Mapping)]
    /\ pc \in {"supervise", "capture", "symbolize", "done", "unavailable"}
    /\ sampling \in {"no", "on", "stopped"}
    /\ samples \in Seq(Address)
    /\ unnamed \subseteq Path
    /\ functions \in [Key -> SUBSET (1 .. Len(samples))]

Init ==
    /\ alive = TRUE /\ execs = 0 /\ ownExecutable = TRUE /\ remaps = 0
    /\ layout \in [Address -> {RunnerMapping, NoMapping}]
    /\ hosts = [a \in Address |-> {}]
    /\ pc = "supervise" /\ sampling = "no" /\ samples = <<>>
    /\ scan = Nothing /\ unread = {} /\ mappings = Nothing
    /\ unnamed = {} /\ functions = NoFunctions

-----------------------------------------------------------------------------
(* The target. *)

Hosting(program, new) ==
    [a \in Address |-> hosts[a] \cup ({program} \X ({new[a]} \cap Mapping))]

\* Text of perflens is mapped only by a target that executes perflens.
Mappable(own) == IF own THEN Mapping ELSE Mapping \ {RunnerMapping}

\* A new program replaces every mapping; a maps file opened before is at its end.
Exec ==
    /\ alive /\ execs < MaxExecs
    /\ execs' = execs + 1
    /\ \E own \in BOOLEAN :
         /\ ownExecutable' = own
         /\ layout' \in [Address -> Mappable(own) \cup {NoMapping}]
    /\ hosts' = Hosting(execs', layout')
    /\ unread' = {}
    /\ UNCHANGED <<alive, remaps, pc, samplerVars, scan, mappings, resultVars>>

\* dlopen, dlclose, mprotect, generated code.
Remap(a) ==
    /\ alive /\ execs > 0 /\ remaps < MaxRemaps
    /\ remaps' = remaps + 1
    /\ \E m \in Mappable(ownExecutable) \cup {NoMapping} :
         layout' = [layout EXCEPT ![a] = m]
    /\ hosts' = Hosting(execs, layout')
    /\ UNCHANGED <<alive, execs, ownExecutable, pc, samplerVars, captureVars, resultVars>>

\* A zombie has no mappings.
TargetExits ==
    /\ alive
    /\ alive' = FALSE /\ layout' = Nothing /\ unread' = {}
    /\ UNCHANGED <<execs, ownExecutable, remaps, hosts, pc, samplerVars, scan,
                   mappings, resultVars>>

-----------------------------------------------------------------------------
(* The sampler, as its interface: started at the barrier or when a service   *)
(* is ready, stopped when the workload or the loop is over.                  *)

StartSampling ==
    /\ pc = "supervise" /\ sampling = "no"
    /\ sampling' = "on"
    /\ UNCHANGED <<targetVars, pc, samples, captureVars, resultVars>>

TakeSample(a) ==
    /\ sampling = "on" /\ alive /\ Len(samples) < MaxSamples
    /\ layout[a] \in Mapping /\ layout[a].executable
    /\ samples' = Append(samples, a)
    /\ UNCHANGED <<targetVars, pc, sampling, captureVars, resultVars>>

StopSampling ==
    /\ pc = "supervise" /\ sampling = "on"
    /\ sampling' = "stopped"
    /\ UNCHANGED <<targetVars, pc, samples, captureVars, resultVars>>

-----------------------------------------------------------------------------
(* The capture of mappings in the supervision loop. *)

\* currentExecutable(child) differs from that of perflens: a zombie has none.
ForeignExecutable_notTested == TRUE
ForeignExecutable == ~(alive /\ ownExecutable)

\* collectorsStarted stays set after the stop, so a service that shuts down
\* is still captured.  The maps file may not be readable.
BeginCapture ==
    /\ pc = "supervise" /\ sampling # "no" /\ ForeignExecutable
    /\ pc' = "capture"
    /\ scan' = Nothing
    /\ unread' \in {{}, IF alive THEN Address ELSE {}}
    /\ UNCHANGED <<targetVars, samplerVars, mappings, resultVars>>

\* The file is read in several calls, between which the target goes on.
ReadMaps(a) ==
    /\ pc = "capture" /\ a \in unread
    /\ scan' = [scan EXCEPT ![a] = layout[a]]
    /\ unread' = unread \ {a}
    /\ UNCHANGED <<targetVars, pc, samplerVars, mappings, resultVars>>

\* Empty maps never replace captured ones; a scan that was cut short does.
Captured_addsTo == [a \in Address |-> IF scan[a] = NoMapping THEN mappings[a] ELSE scan[a]]
Captured == IF scan = Nothing THEN mappings ELSE scan

EndCapture ==
    /\ pc = "capture" /\ unread = {}
    /\ mappings' = Captured
    /\ pc' = "supervise"
    /\ UNCHANGED <<targetVars, samplerVars, scan, unread, resultVars>>

-----------------------------------------------------------------------------
(* symbolizeSamples, after the target was reaped and the sampler stopped. *)

NoReference == <<>>

\* resolveAddress and elfAddress: an executable mapping of a readable ELF file.
Reference(a) ==
    IF /\ mappings[a] \in Mapping
       /\ mappings[a].executable /\ mappings[a].path \in Readable
    THEN <<mappings[a].path, mappings[a].location>>
    ELSE NoReference

Resolved(i) == Reference(samples[i]) # NoReference
ModuleOf(i) == Reference(samples[i])[1]
References == {Reference(samples[i]) : i \in Sampled}

BeginSymbolize ==
    /\ pc = "supervise" /\ ~alive /\ sampling = "stopped"
    /\ pc' = "symbolize"
    /\ unnamed' = {p \in Path : \E i \in Sampled : Resolved(i) /\ ModuleOf(i) = p}
    /\ UNCHANGED <<targetVars, samplerVars, captureVars, functions>>

\* The key of sample i when addr2line has no name for the references in failed:
\* modules with the same file name share their functions.
KeyOf_noUnknown(i, failed) ==
    <<FileName[ModuleOf(i)],
      IF Reference(samples[i]) \in failed THEN "??" ELSE Symbol[ModuleOf(i)][Reference(samples[i])[2]]>>
KeyOf(i, failed) ==
    <<FileName[ModuleOf(i)],
      IF Reference(samples[i]) \in failed THEN Unknown ELSE Symbol[ModuleOf(i)][Reference(samples[i])[2]]>>

\* runAddr2line: it names all the addresses of a module, some of them, or,
\* when it cannot be executed, fails or is killed, none.
NameModule(p) ==
    /\ pc = "symbolize" /\ p \in unnamed
    /\ \E failed \in SUBSET References :
         functions' = [k \in Key |-> functions[k] \cup
             {i \in Sampled : Resolved(i) /\ ModuleOf(i) = p /\ KeyOf(i, failed) = k}]
    /\ unnamed' = unnamed \ {p}
    /\ UNCHANGED <<targetVars, pc, samplerVars, captureVars>>

\* pipe2, fork, read or waitpid fails: the whole profile is given up.
Addr2lineThrows ==
    /\ pc = "symbolize" /\ unnamed # {}
    /\ pc' = "unavailable"
    /\ unnamed' = {} /\ functions' = NoFunctions
    /\ UNCHANGED <<targetVars, samplerVars, captureVars>>

Unresolved_asOne == {0}
Unresolved == {i \in Sampled : ~Resolved(i)}

CountUnresolved ==
    /\ pc = "symbolize" /\ unnamed = {}
    /\ functions' = [functions EXCEPT ![<<Unknown, Unknown>>] = @ \cup Unresolved]
    /\ pc' = "done"
    /\ UNCHANGED <<targetVars, samplerVars, captureVars, unnamed>>

-----------------------------------------------------------------------------
Next ==
    \/ Exec \/ TargetExits \/ StartSampling \/ StopSampling
    \/ \E a \in Address : Remap(a) \/ TakeSample(a) \/ ReadMaps(a)
    \/ BeginCapture \/ EndCapture
    \/ BeginSymbolize \/ Addr2lineThrows \/ CountUnresolved
    \/ \E p \in Path : NameModule(p)

Spec == Init /\ [][Next]_vars

-----------------------------------------------------------------------------
(* Properties. *)

\* Every sample of an available profile is counted under exactly one function,
\* whatever addr2line could not name and whichever modules share a file name;
\* a profile that was given up counts none.
SamplesConserved ==
    /\ pc = "done" =>
         \A i \in Sampled : \E k \in Key :
             i \in functions[k] /\ \A j \in Key : i \in functions[j] => j = k
    /\ pc = "unavailable" => functions = NoFunctions

\* A sample that is given a module was taken at an address where a program
\* that was measured had executable text of that file mapped; the runner's own
\* text, which the target executes until its first exec, is never reported.
\* Only "[unknown]" replaces the name of the function that was mapped there.
AttributionIsGenuine ==
    \A k \in Key : k[1] # Unknown =>
        \A i \in functions[k] : \E hosted \in hosts[samples[i]] :
            LET m == hosted[2] IN
            /\ m.executable /\ m.path \in Readable /\ FileName[m.path] = k[1]
            /\ k[2] \in {Unknown, Symbol[m.path][m.location]}

\* What the n-th program mapped, at one time or another.
MappedBy(program, map) ==
    \A a \in Address : map[a] \in Mapping => <<program, map[a]>> \in hosts[a]

\* The captured mappings are of one program: never the text of one together
\* with that of the program it executed between two reads of the maps file or
\* between two captures, and never of the runner.
CapturedFromOneProgram == \E program \in 0 .. execs : MappedBy(program, mappings)
=============================================================================
