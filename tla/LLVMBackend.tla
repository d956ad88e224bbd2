---------------------------- MODULE LLVMBackend ----------------------------
(***************************************************************************)
(* The compiler-plugin cache of LLVMBackend (src/tce/src/applibs/          *)
(* LLVMBackend/LLVMBackend.cc).  compile() asks createPlugin() for the     *)
(* target machine's plugin: the plugin file name is derived from the       *)
(* machine (pluginFilename), a cached file of that name is loaded if it    *)
(* exists and is readable, and otherwise the plugin is generated in a      *)
(* fresh temporary directory and compiled by the C++ compiler straight to  *)
(* its final name, then loaded from the cache directory.                   *)
(*                                                                         *)
(* Several tcecc processes (Procs) share the cache directory, each with    *)
(* its own LLVMBackend and temporary directories.  The compiler writes its *)
(* output in place: between its start and its end the file exists but is  *)
(* incomplete.  A failed compiler run leaves no output; a process killed   *)
(* while the compiler writes (Crashes) leaves the incomplete file.  The    *)
(* eight generator commands run in the private temporary directory; their *)
(* failures all end the call the same way and are one step here.          *)
(***************************************************************************)
EXTENDS Integers, FiniteSets

CONSTANTS
  Procs,        \* tcecc processes sharing the plugin cache
  Machines,     \* target machines (their ADF)
  AdfLength,    \* [Machines -> Nat]: length of the serialized ADF
  AdfHash,      \* [Machines -> Nat]: boost::hash of the serialized ADF
  UseCache,     \* the useCache flag given to LLVMBackend
  Crashes,      \* a process may be killed at any step
  MaxCompiles,  \* bound on compile() calls per process
  NONE

\* Plugin file states: absent, being written, or a complete plugin built
\* for a machine.
FileStates == {"absent", "partial"} \cup Machines

\* Fault variant: the file name is derived from the ADF length alone.
PluginFilenameLengthOnly(m) == << AdfLength[m] >>

\* pluginFilename(): hex of the ADF length and of its hash.
PluginFilename(m) == << AdfLength[m], AdfHash[m] >>

Names == { PluginFilename(m) : m \in Machines }

VARIABLES
  pc,        \* [Procs -> step of the current compile() call]
  mach,      \* [Procs -> machine of the current call]
  tmpDir,    \* [Procs -> BOOLEAN]: the call's temporary directory exists
  priv,      \* [Procs -> FileStates]: plugin file built inside tmpDir
  cache,     \* [Names -> FileStates]: files in cachePath_
  got,       \* [Procs -> machine the returned plugin was built for, or NONE]
  calls      \* [Procs -> Nat]: compile() calls made

vars == << pc, mach, tmpDir, priv, cache, got, calls >>

Ended == {"returned", "thrown", "aborted", "crashed"}

Init ==
  /\ pc = [p \in Procs |-> "idle"]
  /\ mach = [p \in Procs |-> NONE]
  /\ tmpDir = [p \in Procs |-> FALSE]
  /\ priv = [p \in Procs |-> "absent"]
  /\ cache = [n \in Names |-> "absent"]
  /\ got = [p \in Procs |-> NONE]
  /\ calls = [p \in Procs |-> 0]

\* The file createPlugin() calls pluginFileName: in the cache, or in the
\* temporary directory when the cache is not used.
Target(p) == IF UseCache THEN cache[PluginFilename(mach[p])] ELSE priv[p]

SetTarget(p, s) ==
  IF UseCache
    THEN /\ cache' = [cache EXCEPT ![PluginFilename(mach[p])] = s]
         /\ UNCHANGED priv
    ELSE /\ priv' = [priv EXCEPT ![p] = s]
         /\ UNCHANGED cache

\* compile(bytecode, target): the bytecode is read, then createPlugin()
\* computes the file name and creates a temporary directory.
Start(p, m) ==
  /\ pc[p] = "idle"
  /\ calls[p] < MaxCompiles
  /\ calls' = [calls EXCEPT ![p] = @ + 1]
  /\ mach' = [mach EXCEPT ![p] = m]
  /\ got' = [got EXCEPT ![p] = NONE]
  /\ priv' = [priv EXCEPT ![p] = "absent"]
  /\ \/ /\ tmpDir' = [tmpDir EXCEPT ![p] = TRUE]
        /\ pc' = [pc EXCEPT ![p] = "check"]
     \/ /\ pc' = [pc EXCEPT ![p] = "thrown"]   \* unreadable bytecode
        /\ UNCHANGED tmpDir
  /\ UNCHANGED cache

\* Fault variant: a file that exists is loaded whatever its contents.
LoadFromCacheAnyFile(p) ==
  LET f == cache[PluginFilename(mach[p])]
  IN IF f # "absent"
       THEN /\ got' = [got EXCEPT ![p] = f]
            /\ pc' = [pc EXCEPT ![p] = "returned"]
       ELSE /\ pc' = [pc EXCEPT ![p] = "aborted"]
            /\ UNCHANGED got

\* registerModule/importSymbol from cachePath_, then creator(); a load
\* failure is assert(false).
LoadFromCache(p) ==
  LET f == cache[PluginFilename(mach[p])]
  IN IF f \in Machines
       THEN /\ got' = [got EXCEPT ![p] = f]
            /\ pc' = [pc EXCEPT ![p] = "returned"]
       ELSE /\ pc' = [pc EXCEPT ![p] = "aborted"]
            /\ UNCHANGED got

\* Fault variant: the cached file is loaded without the existence test.
CheckCacheNoExistsTest(p) ==
  /\ pc[p] = "check"
  /\ LoadFromCache(p)
  /\ UNCHANGED << mach, tmpDir, priv, cache, calls >>

\* fileExists && fileIsReadable: load the cached plugin and return at once
\* (the temporary directory is left behind); otherwise generate.
CheckCache(p) ==
  /\ pc[p] = "check"
  /\ IF Target(p) # "absent"
       THEN LoadFromCache(p)
       ELSE /\ pc' = [pc EXCEPT ![p] = "generate"]
            /\ UNCHANGED got
  /\ UNCHANGED << mach, tmpDir, priv, cache, calls >>

\* Write mach.adf, run tceplugingen and the seven tblgen commands in
\* tmpDir; any failure throws CompileError, leaving tmpDir.
Generate(p) ==
  /\ pc[p] = "generate"
  /\ \E ok \in BOOLEAN : pc' = [pc EXCEPT ![p] = IF ok THEN "cxx" ELSE "thrown"]
  /\ UNCHANGED << mach, tmpDir, priv, cache, got, calls >>

\* The C++ compiler starts writing pluginFileName.
CxxStart(p) ==
  /\ pc[p] = "cxx"
  /\ SetTarget(p, "partial")
  /\ pc' = [pc EXCEPT ![p] = "writing"]
  /\ UNCHANGED << mach, tmpDir, got, calls >>

\* The compiler ends: the plugin is complete, or the run failed (no output)
\* and CompileError is thrown.
CxxEnd(p) ==
  /\ pc[p] = "writing"
  /\ \/ SetTarget(p, mach[p]) /\ pc' = [pc EXCEPT ![p] = "load"]
     \/ SetTarget(p, "absent") /\ pc' = [pc EXCEPT ![p] = "thrown"]
  /\ UNCHANGED << mach, tmpDir, got, calls >>

\* Load the plugin from cachePath_, remove tmpDir, return creator().
LoadBuilt(p) ==
  /\ pc[p] = "load"
  /\ LoadFromCache(p)
  /\ tmpDir' = [tmpDir EXCEPT ![p] = (pc'[p] # "returned")]
  /\ UNCHANGED << mach, priv, cache, calls >>

\* The process is killed; its temporary directory and whatever the
\* compiler had written stay.
Crash(p) ==
  /\ Crashes
  /\ pc[p] \notin Ended \cup {"idle"}
  /\ pc' = [pc EXCEPT ![p] = "crashed"]
  /\ UNCHANGED << mach, tmpDir, priv, cache, got, calls >>

\* The caller goes on to its next compile() (a new process after an
\* abort or a crash).
Finish(p) ==
  /\ pc[p] \in Ended
  /\ pc' = [pc EXCEPT ![p] = "idle"]
  /\ tmpDir' = [tmpDir EXCEPT ![p] = FALSE]
  /\ UNCHANGED << mach, priv, cache, got, calls >>

Next ==
  \E p \in Procs :
    \/ \E m \in Machines : Start(p, m)
    \/ CheckCache(p)
    \/ Generate(p)
    \/ CxxStart(p)
    \/ CxxEnd(p)
    \/ LoadBuilt(p)
    \/ Crash(p)
    \/ Finish(p)

Spec == Init /\ [][Next]_vars

-----------------------------------------------------------------------------
TypeOK ==
  /\ pc \in [Procs -> {"idle", "check", "generate", "cxx", "writing", "load"} \cup Ended]
  /\ mach \in [Procs -> Machines \cup {NONE}]
  /\ tmpDir \in [Procs -> BOOLEAN]
  /\ priv \in [Procs -> FileStates]
  /\ cache \in [Names -> FileStates]
  /\ got \in [Procs -> Machines \cup {NONE}]
  /\ calls \in [Procs -> 0 .. MaxCompiles]

(***************************************************************************)
(* createPlugin() returns the plugin generated for the machine it was     *)
(* given: a process that returned from compile() holds a plugin built from *)
(* its own machine's ADF, whether it came from the cache or was just built.*)
(***************************************************************************)
PluginMatchesMachine == \A p \in Procs : pc[p] = "returned" => got[p] = mach[p]

(***************************************************************************)
(* Loading a plugin never fails: neither the cache hit nor the load after  *)
(* building ends in the assert(false) of a failed registerModule or        *)
(* importSymbol.                                                           *)
(***************************************************************************)
NoLoadAbort == \A p \in Procs : pc[p] # "aborted"

=============================================================================
