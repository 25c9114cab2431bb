------------------------------- MODULE Launch -------------------------------
(***************************************************************************)
(* x16mcp.server._launchClient up to the process: x16dbg.config looks for  *)
(* the emulator, the ROM, a program and the filesystem root, and           *)
(* Transport writes the command line and starts the process.  Each look at *)
(* the disk is a step, and the disk may change between two of them (a      *)
(* build that replaces the emulator).  A path stands for the file it       *)
(* resolves to; the functions' argument "explicit" is left out, which no   *)
(* caller in the repository passes.                                        *)
(***************************************************************************)
EXTENDS Integers, Sequences, SequencesExt

CONSTANTS
    Present,        \* bound: the paths where there may be something
    KindsAt,        \* bound: what may be at each of them
    ResourcePrgs,   \* bound: the names resources/*.prg may match, sorted
    Environments,   \* bound: the values of the environment variables
    Requests,       \* bound: the arguments of create_session and boot_program
    MaxChanges,     \* bound: changes of the disk during the launch
    None            \* no path, no value: unset, empty or not found

Kind == {"nothing", "file", "program", "directory"}   \* a "program" is executable

ASSUME LaunchAssumption ==
    /\ KindsAt \in [Present -> SUBSET Kind]
    /\ ResourcePrgs \in Seq(Present)
    /\ MaxChanges \in Nat

\* What is found is an absolute path (resolve()): never None, and never an option.
ASSUME PathAssumption ==
    /\ None \notin Present
    /\ Present \cap {"-rom", "-fsroot", "-prg", "-run", "-debugstdio", "-warp"} = {}

VARIABLES
    disk,      \* what is at each path
    environ,   \* os.environ
    request,   \* the arguments of the tool
    step,      \* what is looked for ("executable" between the two looks at a candidate
               \* for the emulator), "spawn", or "over"
    rest,      \* the candidates not looked at yet
    found,     \* what the discover functions have returned
    result,    \* the error raised, or "started"
    args,      \* the emulator's command line
    been,      \* history: what has been at each path since the launch began
    changes    \* changes of the disk since then

vars == <<disk, environ, request, step, rest, found, result, args, been, changes>>

At(path) == IF path \in Present THEN disk[path] ELSE "nothing"

-----------------------------------------------------------------------------
(* x16dbg.config *)

EmulatorSearch ==
    <<"resources/x16emu", "build/x16emu", "../build/x16emu", "x16emu", "../x16emu">>

RomSearch ==
    <<"resources/rom.bin", "~/.local/share/x16emu/rom.bin", "rom.bin", "../rom.bin">>

IfSet(name) == IF environ[name] = None THEN <<>> ELSE <<environ[name]>>

\* Mutant of Candidates: the search path is tried first.
CandidatesSearchFirst(what) ==
    CASE what = "emulator" -> EmulatorSearch \o IfSet("X16EMU_PATH")
      [] what = "rom"      -> RomSearch \o IfSet("X16ROM_PATH")
      [] what = "prg"      -> IfSet("X16PRG_PATH")
      [] OTHER             -> <<>>

Candidates(what) ==
    CASE what = "emulator" -> IfSet("X16EMU_PATH") \o EmulatorSearch
      [] what = "rom"      -> IfSet("X16ROM_PATH") \o RomSearch
      [] what = "prg"      -> IfSet("X16PRG_PATH")
      [] OTHER             -> <<>>

\* is_file(), and os.access(.., X_OK), which a directory may pass as well.
IsFileKind == {"file", "program"}
ExecutableKind == {"program", "directory"}

\* What passes every look at a candidate.
Good(what) == IF what = "emulator" THEN IsFileKind \cap ExecutableKind ELSE IsFileKind

\* What the search in progress is for.
Looking == IF step = "executable" THEN "emulator" ELSE step

GoTo(next) == step' = next /\ rest' = Candidates(next)

Raise(error) ==
    /\ result' = error
    /\ step' = "over" /\ rest' = <<>>
    /\ UNCHANGED <<found, args>>

\* With a program in the request, discoverPrg is not called.
After(what) ==
    CASE what = "emulator" -> "rom"
      [] what = "rom"      -> IF request.prg = None THEN "prg" ELSE "fsroot"
      [] OTHER             -> "fsroot"

\* _firstExisting returns the candidate, or goes on to the next one.
Choose == found' = [found EXCEPT ![Looking] = Head(rest)] /\ GoTo(After(Looking))

Skip == rest' = Tail(rest) /\ step' = Looking /\ UNCHANGED found

\* Its first look at a candidate, which is the only one unless it is an emulator.
LookAtCandidate ==
    /\ step \in {"emulator", "rom", "prg"} /\ rest # <<>>
    /\ \/ At(Head(rest)) \notin IsFileKind /\ Skip
       \/ At(Head(rest)) \in IsFileKind /\ step # "emulator" /\ Choose
       \/ /\ At(Head(rest)) \in IsFileKind /\ step = "emulator"
          /\ step' = "executable" /\ UNCHANGED <<rest, found>>
    /\ UNCHANGED <<disk, environ, request, result, args, been, changes>>

\* Its second look, by when the candidate may be something else.
LookIfExecutable ==
    /\ step = "executable"
    /\ IF At(Head(rest)) \in ExecutableKind THEN Choose ELSE Skip
    /\ UNCHANGED <<disk, environ, request, result, args, been, changes>>

NotFound ==
    /\ step \in {"emulator", "rom"} /\ rest = <<>>
    /\ Raise("FileNotFoundError")
    /\ UNCHANGED <<disk, environ, request, been, changes>>

\* sorted(_RESOURCES.glob("*.prg"))[0], whatever it is.
Glob ==
    /\ step = "prg" /\ rest = <<>>
    /\ LET first == SelectInSeq(ResourcePrgs, LAMBDA path : At(path) # "nothing")
       IN  found' = [found EXCEPT !.prg = IF first = 0 THEN None ELSE ResourcePrgs[first]]
    /\ GoTo("fsroot")
    /\ UNCHANGED <<disk, environ, request, result, args, been, changes>>

\* Mutant of DiscoverFsroot: a root that is no directory is ignored.
DiscoverFsrootLeniently ==
    /\ step = "fsroot"
    /\ found' = [found EXCEPT !.fsroot =
                     IF environ["X16FS_ROOT"] # None /\ At(environ["X16FS_ROOT"]) = "directory"
                     THEN environ["X16FS_ROOT"] ELSE None]
    /\ GoTo("spawn")
    /\ UNCHANGED <<disk, environ, request, result, args, been, changes>>

\* A root that was asked for and is no directory is an error, not ignored.
DiscoverFsroot ==
    /\ step = "fsroot"
    /\ LET root == environ["X16FS_ROOT"]
       IN  IF root # None /\ At(root) # "directory"
           THEN Raise("NotADirectoryError")
           ELSE /\ found' = [found EXCEPT !.fsroot = root]
                /\ GoTo("spawn")
                /\ UNCHANGED <<result, args>>
    /\ UNCHANGED <<disk, environ, request, been, changes>>

-----------------------------------------------------------------------------
(* Transport.__init__ *)

Program == IF request.prg # None THEN request.prg ELSE found.prg

Option(name, value) == IF value = None THEN <<>> ELSE <<<<name, value>>>>

\* Mutant of BuildArgs: -run without a program.
BuildArgsRunAlways ==
    <<<<found.emulator>>, <<"-rom", found.rom>>>>
    \o Option("-fsroot", found.fsroot)
    \o (IF Program = None THEN <<>>
        ELSE <<IF request.load_addr = None THEN <<"-prg", Program>>
                                           ELSE <<"-prg", Program, request.load_addr>>>>)
    \o (IF request.run THEN <<<<"-run">>>> ELSE <<>>)
    \o <<IF request.startup_bp = None THEN <<"-debugstdio">>
                                      ELSE <<"-debugstdio", request.startup_bp>>>>
    \o <<<<"-warp">>>>

\* _buildArgs: the options in order, each with its operands.  The load address and
\* -run go with a program only; the server always asks for -warp.
BuildArgs ==
    <<<<found.emulator>>, <<"-rom", found.rom>>>>
    \o Option("-fsroot", found.fsroot)
    \o (IF Program = None THEN <<>>
        ELSE <<IF request.load_addr = None THEN <<"-prg", Program>>
                                           ELSE <<"-prg", Program, request.load_addr>>>>
             \o IF request.run THEN <<<<"-run">>>> ELSE <<>>)
    \o <<IF request.startup_bp = None THEN <<"-debugstdio">>
                                      ELSE <<"-debugstdio", request.startup_bp>>>>
    \o <<<<"-warp">>>>

\* Mutant of Spawn: the command line is kept though Popen failed.
SpawnUnchecked ==
    /\ step = "spawn"
    /\ result' = "OSError" /\ args' = BuildArgs
    /\ step' = "over"
    /\ UNCHANGED <<disk, environ, request, rest, found, been, changes>>

\* Popen fails if the emulator it was given can no longer be executed.
Spawn ==
    /\ step = "spawn"
    /\ IF At(found.emulator) = "program"
       THEN /\ result' = "started" /\ args' = BuildArgs
            /\ step' = "over" /\ UNCHANGED <<rest, found>>
       ELSE Raise("OSError")
    /\ UNCHANGED <<disk, environ, request, been, changes>>

-----------------------------------------------------------------------------
\* Another process creates, replaces or removes something (external).
ChangeDisk ==
    /\ step # "over" /\ changes < MaxChanges
    /\ \E path \in Present, kind \in Kind :
           /\ kind \in KindsAt[path] \ {disk[path]}
           /\ disk' = [disk EXCEPT ![path] = kind]
           /\ been' = [been EXCEPT ![path] = @ \cup {kind}]
    /\ changes' = changes + 1
    /\ UNCHANGED <<environ, request, step, rest, found, result, args>>

Init ==
    /\ disk \in {d \in [Present -> Kind] : \A p \in Present : d[p] \in KindsAt[p]}
    /\ environ \in Environments
    /\ request \in Requests
    /\ step = "emulator" /\ rest = Candidates("emulator")
    /\ found = [emulator |-> None, rom |-> None, prg |-> None, fsroot |-> None]
    /\ result = "none" /\ args = <<>>
    /\ been = [p \in Present |-> {disk[p]}] /\ changes = 0

LaunchClient ==
    LookAtCandidate \/ LookIfExecutable \/ NotFound \/ Glob \/ DiscoverFsroot \/ Spawn

Next == LaunchClient \/ ChangeDisk

Spec == Init /\ [][Next]_vars

-----------------------------------------------------------------------------
(* Properties. *)

\* Only a launch that started has a command line, and every path looked for before a
\* step has been found by then.
TypeOK ==
    /\ disk \in [Present -> Kind] /\ been \in [Present -> SUBSET Kind]
    /\ environ \in Environments /\ request \in Requests
    /\ step \in {"emulator", "executable", "rom", "prg", "fsroot", "spawn", "over"}
    /\ result \in {"none", "started", "FileNotFoundError", "NotADirectoryError", "OSError"}
    /\ (result = "none") = (step # "over")
    /\ (args # <<>>) = (result = "started")
    /\ Looking # "emulator" /\ result # "FileNotFoundError" => found.emulator # None
    /\ step \in {"fsroot", "spawn"} => found.rom # None
    /\ changes \in 0..MaxChanges

AllAlong(what, path) == path \in Present /\ been[path] \subseteq Good(what)

\* It has passed each look at some time, not both at the same.
AtTimes(what, path) ==
    /\ path \in Present
    /\ been[path] \cap IsFileKind # {}
    /\ what = "emulator" => been[path] \cap ExecutableKind # {}

Order(what) ==
    IF what = "emulator" THEN <<environ["X16EMU_PATH"]>> \o EmulatorSearch
                         ELSE <<environ["X16ROM_PATH"]>> \o RomSearch

Missing == IF found.emulator = None THEN "emulator" ELSE "rom"

\* What was there all along, and good, is found before all that comes after it, and is
\* never missed, whatever else on the disk changes during the search; what is found
\* has been a file at some moment of it, and executable at some moment.
FirstChoice ==
    /\ \A what \in {"emulator", "rom"} :
           found[what] # None =>
               \E i \in DOMAIN Order(what) :
                   /\ Order(what)[i] = found[what] /\ AtTimes(what, found[what])
                   /\ \A j \in 1..(i - 1) : ~AllAlong(what, Order(what)[j])
    /\ result = "FileNotFoundError" =>
           \A i \in DOMAIN Order(Missing) : ~AllAlong(Missing, Order(Missing)[i])

\* Started exactly as documented: with a filesystem root if and only if one is
\* configured, and never over one that was no directory at any time (config.py: "an
\* error, not a silent fallback").
FsrootServed ==
    result = "started" =>
        LET roots == {args[i][2] : i \in {j \in DOMAIN args : args[j][1] = "-fsroot"}}
        IN  /\ roots = {environ["X16FS_ROOT"]} \ {None}
            /\ \A root \in roots : root \in Present /\ "directory" \in been[root]

IsFile(path) == path \in Present /\ disk[path] \in {"file", "program"}

Default ==
    LET there == {i \in DOMAIN ResourcePrgs : disk[ResourcePrgs[i]] # "nothing"}
    IN  IF IsFile(environ["X16PRG_PATH"]) THEN environ["X16PRG_PATH"]
        ELSE IF there = {} THEN None
        ELSE ResourcePrgs[CHOOSE i \in there : \A j \in there : i <= j]

There(what) ==
    \E i \in DOMAIN Order(what) : At(Order(what)[i]) \in Good(what)

\* On a disk that did not change, the launch starts if and only if its inputs are
\* there, and what it loads and runs is what was asked for: the program of the call
\* whether or not it exists, or else the configured one, or else the first in
\* resources/, and nothing is run or relocated where there is no program.
StartsAsAsked ==
    result # "none" /\ changes = 0 =>
        LET wanted == IF request.prg # None THEN request.prg ELSE Default
            loaded == {args[i] : i \in {j \in DOMAIN args : args[j][1] = "-prg"}}
            runs   == \E i \in DOMAIN args : args[i][1] = "-run"
            rooted == environ["X16FS_ROOT"] = None \/ At(environ["X16FS_ROOT"]) = "directory"
        IN  /\ result = "started" <=> There("emulator") /\ There("rom") /\ rooted
            /\ result = "started" =>
                   /\ wanted = None <=> loaded = {}
                   /\ \A option \in loaded : option[2] = wanted
                   /\ runs <=> request.run /\ wanted # None
=============================================================================
