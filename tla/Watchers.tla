------------------------------ MODULE Watchers ------------------------------
(* The two watchers of a developer's machine: the one inside the server that has the pages    *)
(* reload, and `gost dev', which keeps the server built.  They share nothing but the files.     *)
EXTENDS Naturals, FiniteSets

-----------------------------------------------------------------------------
(* HotReloadWatcher: one goroutine polls the component files, compiles what changed and     *)
(* signals the browsers that hold the event stream open, while files are saved and pages      *)
(* come and go.  A file is its version; a walk reads one file after another, and so does        *)
(* the compiler.                                                                                 *)
CONSTANTS HFiles,      \* the component files
          HBrowsers,   \* the pages that are open
          HEdits,      \* bound: how often files are saved
          HFaults      \* bound: how many compilations fail (reading or writing a file)
ASSUME HotReloadAssumption == HEdits \in Nat /\ HFaults \in Nat

VARIABLES hFile,     \* the version of each file
          hSnap,     \* lastSnapshot
          hWatch,    \* the watcher: [pc, left: files to read, read: the versions read]
          hOut,      \* the versions the compiler's output was made of
          hBuilds,   \* how often it was written
          hPage,     \* each page: [pc, slot: its channel, built, joined: hBuilds then]
          hCount,    \* [edits, faults] so far
          hMissed    \* files whose last change no compilation is due for

hvars == <<hFile, hSnap, hWatch, hOut, hBuilds, hPage, hCount, hMissed>>

NoVersions == [f \in HFiles |-> 0]
Watching(pc) == [pc |-> pc, left |-> HFiles, read |-> NoVersions]
Page(pc, slot, built, joined) == [pc |-> pc, slot |-> slot, built |-> built, joined |-> joined]
HInit == /\ hFile = NoVersions /\ hSnap = NoVersions /\ hOut = NoVersions /\ hBuilds = 0
         /\ hWatch = Watching("start")
         /\ hPage = [b \in HBrowsers |-> Page("closed", FALSE, 0, 0)]
         /\ hCount = [edits |-> 0, faults |-> 0] /\ hMissed = {}

(* Somebody saves a file, whatever the watcher is doing.                                        *)
SaveComponent(f) ==
  /\ hCount.edits < HEdits
  /\ hFile' = [hFile EXCEPT ![f] = @ + 1] /\ hCount' = [hCount EXCEPT !.edits = @ + 1]
  /\ hMissed' = IF hWatch.pc = "start" /\ f \in hWatch.left THEN hMissed \cup {f} ELSE hMissed \ {f}
  /\ UNCHANGED <<hSnap, hWatch, hOut, hBuilds, hPage>>

(* Start's snapshot, a walk of hasChanged, and Run each read a file at a time.                    *)
ReadFile(f) ==
  /\ hWatch.pc \in {"start", "walk", "compile"} /\ f \in hWatch.left
  /\ hWatch' = [hWatch EXCEPT !.left = @ \ {f}, !.read[f] = hFile[f]]
  /\ UNCHANGED <<hFile, hSnap, hOut, hBuilds, hPage, hCount, hMissed>>
ReadAll == hWatch.left = {}

(* snapshot *)
Started == /\ hWatch.pc = "start" /\ ReadAll
           /\ hSnap' = hWatch.read /\ hWatch' = Watching("idle")
           /\ UNCHANGED <<hFile, hOut, hBuilds, hPage, hCount, hMissed>>
Tick == /\ hWatch.pc = "idle" /\ hWatch' = Watching("walk")
        /\ UNCHANGED <<hFile, hSnap, hOut, hBuilds, hPage, hCount, hMissed>>
(* hasChanged: the versions the walk has seen become the snapshot, before the compilation.         *)
Compared == /\ hWatch.pc = "walk" /\ ReadAll
            /\ hSnap' = hWatch.read
            /\ hWatch' = Watching(IF hWatch.read = hSnap THEN "idle" ELSE "compile")
            /\ UNCHANGED <<hFile, hOut, hBuilds, hPage, hCount, hMissed>>

(* AssetCompiler.Run writes its output, or fails and is not tried again.                              *)
\* Mutant of Written: the snapshot is taken again after the compilation.
WrittenThenSnapshot == /\ hWatch.pc = "compile" /\ ReadAll
                       /\ hOut' = hWatch.read /\ hBuilds' = hBuilds + 1 /\ hWatch' = Watching("broadcast")
                       /\ hSnap' = hFile /\ hMissed' = {}
                       /\ UNCHANGED <<hFile, hPage, hCount>>
Written == /\ hWatch.pc = "compile" /\ ReadAll
           /\ hOut' = hWatch.read /\ hBuilds' = hBuilds + 1 /\ hWatch' = Watching("broadcast")
           /\ hMissed' = {} /\ UNCHANGED <<hFile, hSnap, hPage, hCount>>
CompileFails == /\ hWatch.pc = "compile" /\ hCount.faults < HFaults
                /\ hCount' = [hCount EXCEPT !.faults = @ + 1] /\ hWatch' = Watching("idle")
                /\ hMissed' = {f \in HFiles : hSnap[f] = hFile[f]}
                /\ UNCHANGED <<hFile, hSnap, hOut, hBuilds, hPage>>

(* broadcast: under the read lock, to every subscribed channel; a full slot is left full.               *)
Subscribed(b) == hPage[b].pc \in {"waits", "writes"}
Broadcast == /\ hWatch.pc = "broadcast" /\ hWatch' = Watching("idle")
             /\ hPage' = [b \in HBrowsers |-> [hPage[b] EXCEPT !.slot = @ \/ Subscribed(b)]]
             /\ UNCHANGED <<hFile, hSnap, hOut, hBuilds, hCount, hMissed>>
(* The context is done; the select may still take a tick that is due.                                   *)
Stop == /\ hWatch.pc = "idle" /\ hWatch' = Watching("ended")
        /\ UNCHANGED <<hFile, hSnap, hOut, hBuilds, hPage, hCount, hMissed>>

(* A page: it loads, ServeSSE subscribes it, its stream waits for a signal and writes the event,         *)
(* after which the page closes and loads again.                                                          *)
Becomes(b, pc) == /\ hPage' = [hPage EXCEPT ![b] = Page(pc, @.slot, @.built, @.joined)]
                  /\ UNCHANGED <<hFile, hSnap, hWatch, hOut, hBuilds, hCount, hMissed>>
LoadPage(b) == /\ hPage[b].pc = "closed"
               /\ hPage' = [hPage EXCEPT ![b] = Page("loaded", @.slot, hBuilds, @.joined)]
               /\ UNCHANGED <<hFile, hSnap, hWatch, hOut, hBuilds, hCount, hMissed>>
Subscribe(b) == /\ hPage[b].pc = "loaded"
                /\ hPage' = [hPage EXCEPT ![b] = Page("waits", FALSE, @.built, hBuilds)]
                /\ UNCHANGED <<hFile, hSnap, hWatch, hOut, hBuilds, hCount, hMissed>>
SignalPage(b) == /\ hPage[b].pc = "waits" /\ hPage[b].slot
                 /\ hPage' = [hPage EXCEPT ![b] = Page("writes", FALSE, @.built, @.joined)]
                 /\ UNCHANGED <<hFile, hSnap, hWatch, hOut, hBuilds, hCount, hMissed>>
ReloadPage(b) == hPage[b].pc = "writes" /\ Becomes(b, "closed")
Leave(b) == hPage[b].pc \in {"loaded", "waits"} /\ Becomes(b, "closed")

HNext == \/ \E f \in HFiles : SaveComponent(f) \/ ReadFile(f)
         \/ Started \/ Tick \/ Compared \/ Written \/ CompileFails \/ Broadcast \/ Stop
         \/ \E b \in HBrowsers : LoadPage(b) \/ Subscribe(b) \/ SignalPage(b) \/ ReloadPage(b) \/ Leave(b)

HSpec == HInit /\ [][HNext]_hvars

-----------------------------------------------------------------------------
HTypeOK == /\ {hFile, hSnap, hOut} \subseteq [HFiles -> 0 .. HEdits] /\ hMissed \subseteq HFiles
           /\ hWatch.pc \in {"start", "idle", "walk", "compile", "broadcast", "ended"}
           /\ \A b \in HBrowsers : hPage[b].pc \in {"closed", "loaded", "waits", "writes"}
           /\ \A b \in HBrowsers : hPage[b].built <= hBuilds /\ hPage[b].joined <= hBuilds

(* A saved file is in the output, or the snapshot still differs from it, so that the next walk      *)
(* sees the change: no save gets lost between a walk and the compilation that follows it.  Two       *)
(* kinds do, hMissed: a save before Start has taken its first snapshot, and what a compilation          *)
(* that failed was for, until something is saved again.  A page that is older than the output has        *)
(* a signal under way, unless it was loaded before the compilation and subscribed after it.               *)
ReloadsFollowSaves ==
  /\ hWatch.pc \notin {"start", "compile"} =>
       \A f \in HFiles : hSnap[f] = hFile[f] => hOut[f] = hFile[f] \/ f \in hMissed
  /\ \A b \in HBrowsers :
       Subscribed(b) => \/ hPage[b].built = hBuilds \/ hPage[b].joined = hBuilds
                        \/ hPage[b].slot \/ hPage[b].pc = "writes" \/ hWatch.pc = "broadcast"

-----------------------------------------------------------------------------
(* `gost dev': compile the templates, build and start the server, then poll for changes.    *)
(* The templates and the Go source are one file each, saved at any moment; the compiler's      *)
(* output is a Go file of its own, which the second scan of a tick sees.                         *)
CONSTANTS DEdits,   \* bound: how often a file is saved
          DFaults   \* bound: how many compilations and starts fail
ASSUME DevServerAssumption == DEdits \in Nat /\ DFaults \in Nat

VARIABLES dSource,   \* [template, go: the version of each; broken: whether the Go source builds not]
          dOutput,   \* the compiler's output: [template: the version it was made of, stamp]
          dSnap,     \* templateSnap and goSnap: [template, go, stamp]
          dPc,       \* where Execute is
          dRead,     \* what the scan that is compared next has seen
          dServer,   \* the subprocess: [template, go] it was built of, or Nobody
          dMissed,   \* saves that came after their file was read first and before it was primed
          dCount     \* [edits, faults] so far

dvars == <<dSource, dOutput, dSnap, dPc, dRead, dServer, dMissed, dCount>>

Nobody == [template |-> 0, go |-> 0]
DInit == /\ dSource = [template |-> 1, go |-> 1, broken |-> FALSE]
         /\ dOutput = [template |-> 0, stamp |-> 0]
         /\ dSnap = [template |-> 0, go |-> 0, stamp |-> 0] /\ dRead = dSnap
         /\ dPc = "compileFirst" /\ dServer = Nobody /\ dMissed = {}
         /\ dCount = [edits |-> 0, faults |-> 0]

Before == {"compileFirst", "stopFirst", "buildFirst", "primeTemplates", "primeGo"}
(* Between the first time a file is read and its snapshot.                                         *)
Unprimed == [template |-> {"stopFirst", "buildFirst", "primeTemplates"},
             go |-> {"primeTemplates", "primeGo"}]
SaveFile(kind, broken) ==
  /\ dCount.edits < DEdits /\ dPc # "ended" /\ (kind = "template" => broken = dSource.broken)
  /\ dSource' = [dSource EXCEPT ![kind] = @ + 1, !.broken = broken]
  /\ dCount' = [dCount EXCEPT !.edits = @ + 1]
  /\ dMissed' = IF dPc \in Unprimed[kind] THEN dMissed \cup {kind} ELSE dMissed \ {kind}
  /\ UNCHANGED <<dOutput, dSnap, dPc, dRead, dServer>>

Step(from, to) == dPc = from /\ dPc' = to
(* AssetCompiler.Run, first and on a changed template; an error is logged and that is all.        *)
Compiles(from, to) ==
  /\ Step(from, to)
  /\ dOutput' = [template |-> dSource.template, stamp |-> dOutput.stamp + 1]
  /\ dMissed' = dMissed \ {"template"} /\ UNCHANGED <<dSource, dSnap, dRead, dServer, dCount>>
CompileErrs(from, to) ==
  /\ Step(from, to) /\ dCount.faults < DFaults /\ dCount' = [dCount EXCEPT !.faults = @ + 1]
  /\ dMissed' = dMissed \cup {"template"}
  /\ UNCHANGED <<dSource, dOutput, dSnap, dRead, dServer>>

(* startServer kills the old server before it builds the new one; a build that fails leaves none.   *)
Kill(from, to) == /\ Step(from, to) /\ dServer' = Nobody
                  /\ UNCHANGED <<dSource, dOutput, dSnap, dRead, dMissed, dCount>>
Build(from, to) ==
  /\ Step(from, to)
  /\ dServer' = IF dSource.broken THEN Nobody
                ELSE [template |-> dOutput.template, go |-> dSource.go]
  /\ dMissed' = dMissed \ {"go"} /\ UNCHANGED <<dSource, dOutput, dSnap, dRead, dCount>>
(* The binary is built, but the subprocess does not start: logged, and not tried again.               *)
StartErrs(from, to) ==
  /\ Step(from, to) /\ ~dSource.broken
  /\ dCount.faults < DFaults /\ dCount' = [dCount EXCEPT !.faults = @ + 1]
  /\ dServer' = Nobody /\ dMissed' = dMissed \cup {"go"}
  /\ UNCHANGED <<dSource, dOutput, dSnap, dRead>>

(* The snapshots are primed after the first compilation and the first build.                         *)
PrimeTemplates == /\ Step("primeTemplates", "primeGo")
                  /\ dSnap' = [dSnap EXCEPT !.template = dSource.template]
                  /\ UNCHANGED <<dSource, dOutput, dRead, dServer, dMissed, dCount>>
PrimeGo == /\ Step("primeGo", "idle")
           /\ dSnap' = [dSnap EXCEPT !.go = dSource.go, !.stamp = dOutput.stamp]
           /\ UNCHANGED <<dSource, dOutput, dRead, dServer, dMissed, dCount>>

(* A tick: scan and compare the templates, then the Go files, the output among them.                  *)
SnapTemplates == /\ Step("idle", "compareTemplates")
                 /\ dRead' = [dRead EXCEPT !.template = dSource.template]
                 /\ UNCHANGED <<dSource, dOutput, dSnap, dServer, dMissed, dCount>>
CompareTemplates ==
  /\ Step("compareTemplates", IF dRead.template = dSnap.template THEN "snapGo" ELSE "compile")
  /\ dSnap' = [dSnap EXCEPT !.template = dRead.template]
  /\ UNCHANGED <<dSource, dOutput, dRead, dServer, dMissed, dCount>>
SnapGo == /\ Step("snapGo", "compareGo")
          /\ dRead' = [dRead EXCEPT !.go = dSource.go, !.stamp = dOutput.stamp]
          /\ UNCHANGED <<dSource, dOutput, dSnap, dServer, dMissed, dCount>>
CompareGo ==
  /\ Step("compareGo", IF dRead = dSnap THEN "idle" ELSE "kill")
  /\ dSnap' = dRead
  /\ UNCHANGED <<dSource, dOutput, dRead, dServer, dMissed, dCount>>
(* A signal between two ticks: Execute returns and its deferred function stops the server.              *)
Interrupt == Kill("idle", "ended")

DNext == \/ \E kind \in {"template", "go"}, broken \in BOOLEAN : SaveFile(kind, broken)
         \/ Compiles("compileFirst", "stopFirst") \/ CompileErrs("compileFirst", "stopFirst")
         \/ Kill("stopFirst", "buildFirst") \/ Build("buildFirst", "primeTemplates")
         \/ StartErrs("buildFirst", "primeTemplates") \/ StartErrs("build", "idle")
         \/ PrimeTemplates \/ PrimeGo
         \/ SnapTemplates \/ CompareTemplates
         \/ Compiles("compile", "snapGo") \/ CompileErrs("compile", "snapGo")
         \/ SnapGo \/ CompareGo \/ Kill("kill", "build") \/ Build("build", "idle")
         \/ Interrupt

DSpec == DInit /\ [][DNext]_dvars

-----------------------------------------------------------------------------
DTypeOK == /\ dSource.template + dSource.go = 2 + dCount.edits
           /\ dOutput.template <= dSource.template /\ dOutput.stamp <= 1 + DEdits
           /\ dMissed \subseteq {"template", "go"}
           /\ dPc \in Before \cup {"idle", "compareTemplates", "compile", "snapGo", "compareGo",
                                    "kill", "build", "ended"}

(* Between two ticks with nothing saved since the last scans, the server is the one built of the       *)
(* sources as they are, or there is none because they do not build.  dMissed is what breaks this:        *)
(* a save during the first compilation and build, which may take seconds, is in the primed snapshot        *)
(* but not in the server; a template whose compilation failed, or a server that did not start, is not         *)
(* tried again.                                                                                                *)
ServesWhatWasSaved ==
  dPc = "idle" /\ dSnap.template = dSource.template /\ dSnap.go = dSource.go =>
    /\ dSnap.stamp = dOutput.stamp
    /\ "template" \notin dMissed => dOutput.template = dSource.template
    /\ "go" \notin dMissed => IF dSource.broken THEN dServer = Nobody
                              ELSE dServer = [template |-> dOutput.template, go |-> dSource.go]
=============================================================================
