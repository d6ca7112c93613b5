----------------------------- MODULE Conversion -----------------------------
(***************************************************************************)
(* A run of cv2pdb from its command line to its exit code (main.cpp), with *)
(* the life of the PDB (openPDB, globalMod and cleanup in cv2pdb.cpp) and  *)
(* of the image it rewrites (writeImage, writeDWARFImage, PEImage::save).  *)
(*                                                                         *)
(* Any call may fail, and the process may be stopped at any point.  A call *)
(* whose result the code does not look at fails unnoticed: unlink, and in  *)
(* cleanup every Close and the Commit itself.  The mspdb DLL is external:  *)
(* a PDB is on disk once Commit has succeeded.                             *)
(***************************************************************************)
EXTENDS Naturals, Sequences

CONSTANT Inputs     \* the command lines and files to be considered

(* exe and dbg are what loadExe makes of the first argument and of the     *)
(* separate debug file: cv, dwarf or none is a PE image with that debug    *)
(* information, dbgfile a .DBG file with CodeView, bad one that cannot be  *)
(* loaded.  loadExe looks for DWARF only when it has found no CodeView.    *)
Input ==
  [exe : {"cv", "dwarf", "none", "dbgfile", "bad"},
   dbg : {"cv", "dwarf", "none", "dbgfile", "bad", "missing"},
   link : BOOLEAN,      \* -l was given, or there is a .gnu_debuglink
   inPlace : BOOLEAN,   \* no new-exe-file was given
   ipi : BOOLEAN]       \* mspdb::vsVersion >= 14

ASSUME InputsAssumption == Inputs \subseteq Input

VARIABLES
  input,      \* never changes
  pc,         \* "load", "unlink", "open", "convert", "replace", "create",
              \*   "write", "cleanup", "exited" or "killed"
  step,       \* how far openPDB, the conversion or cleanup have come
  exitCode,
  handles,    \* what is open in the PDB
  content,    \* the steps whose result was put into the PDB
  pdbFile,    \* "old", "none", "created" or "committed"
  committed,  \* the steps whose result the commit brought to disk
  ignored,    \* the failures nobody looked at: "unlink", "commit", or the
              \*   name of what could not be closed
  files       \* the input file and the output file

vars == <<input, pc, step, exitCode, handles, content, pdbFile, committed,
          ignored, files>>

HasCV(kind)  == kind \in {"cv", "dbgfile"}
HasInfo(kind) == HasCV(kind) \/ kind = "dwarf"

(* The image the converter is made for, and the one it reads from.         *)
Img == IF HasInfo(input.exe) \/ input.link THEN "exe" ELSE "dbg"
DbgLoaded == ~HasInfo(input.exe)
ImgDbg == IF DbgLoaded /\ input.dbg = "dwarf" THEN "dbg" ELSE Img
Dwarf == input.exe = "dwarf" \/ (DbgLoaded /\ input.dbg = "dwarf")

OpenSteps ==
  <<"pdb", "dbi", "tpi">> \o (IF input.ipi THEN <<"ipi">> ELSE <<>>)

DwarfSteps == <<"relocate", "modules", "symbols", "lines", "publics">>
CvSteps == <<"segments", "global symbols", "global types", "modules",
             "types", "symbols", "lines", "publics">>
Steps == IF Dwarf THEN DwarfSteps ELSE CvSteps

(* The order in which cleanup closes what is open, and commits.            *)
(* Mutant: the PDB is committed before the streams are closed.             *)
MutCleanupSteps == <<"mod", "commit", "ipi", "tpi", "dbi", "pdb">>
CleanupSteps == <<"mod", "ipi", "tpi", "dbi", "commit", "pdb">>

WritesImage == Dwarf \/ input.exe # "dbgfile"

Target == IF input.inPlace THEN "exe" ELSE "out"

(* What DWARF writes is img; what CodeView writes is always the exe.       *)
NewImage == IF Dwarf THEN Img ELSE "exe"

Init ==
  /\ input \in Inputs
  /\ pc = "load" /\ step = 1 /\ exitCode = 0
  /\ handles = {} /\ content = <<>>
  /\ pdbFile = "old" /\ committed = <<>> /\ ignored = {}
  /\ files = [exe |-> "input", out |-> "absent"]

-----------------------------------------------------------------------------
(* fatal exits without running the destructor of CV2PDB.                   *)
(* Mutant: it returns from main, and the destructor runs.                  *)
MutFatal ==
  IF handles = {}
    THEN pc' = "exited" /\ exitCode' = 1 /\ UNCHANGED step
    ELSE pc' = "cleanup" /\ exitCode' = 1 /\ step' = 1
Fatal == pc' = "exited" /\ exitCode' = 1 /\ UNCHANGED step

(* Mutant: the next part begins at the step where the last one ended.      *)
MutGoto(where) == pc' = where /\ UNCHANGED <<step, exitCode>>
Goto(where) == pc' = where /\ step' = 1 /\ UNCHANGED exitCode
Advance     == step' = step + 1 /\ UNCHANGED <<pc, exitCode>>

(* Is there debug information for the conversion to start with?            *)
(* Mutant: a separate file is taken as it is.                              *)
MutFound == input.exe # "bad" /\ (DbgLoaded => input.dbg \notin {"missing", "bad"})
Found ==
  /\ input.exe # "bad"
  /\ DbgLoaded => input.dbg \notin {"missing", "bad", "none"}

Load ==
  /\ pc = "load"
  /\ IF Found THEN Goto("unlink") ELSE Fatal
  /\ UNCHANGED <<input, handles, content, pdbFile, committed, ignored, files>>

(* The result of unlink is not looked at: the old PDB may still be there.  *)
Unlink ==
  /\ pc = "unlink" /\ Goto("open")
  /\ \/ pdbFile' = "none" /\ UNCHANGED ignored
     \/ ignored' = ignored \cup {"unlink"} /\ UNCHANGED pdbFile
  /\ UNCHANGED <<input, handles, content, committed, files>>

OpenPDB ==
  /\ pc = "open"
  /\ \/ /\ handles' = handles \cup {OpenSteps[step]}
        /\ pdbFile' = "created"
        /\ IF step < Len(OpenSteps) THEN Advance ELSE Goto("convert")
     \/ Fatal /\ UNCHANGED <<handles, pdbFile>>
  /\ UNCHANGED <<input, content, committed, ignored, files>>

(* Does a step call globalMod, which opens the module on first use?  The   *)
(* CodeView steps before "symbols" do so only if there is something to add.*)
MayOpenModule  == Steps[step] \in {"modules", "types", "symbols", "lines", "publics"}
MustOpenModule == Steps[step] = IF Dwarf THEN "modules" ELSE "symbols"

Convert ==
  /\ pc = "convert"
  /\ \E opened \in SUBSET (IF MayOpenModule THEN {"mod"} ELSE {}) :
       handles' = handles \cup opened
  /\ \/ /\ MustOpenModule => "mod" \in handles'
        /\ content' = Append(content, Steps[step])
        /\ IF step < Len(Steps) THEN Advance
           ELSE IF WritesImage THEN Goto("replace") ELSE Goto("cleanup")
     \/ Fatal /\ UNCHANGED content
  /\ UNCHANGED <<input, pdbFile, committed, ignored, files>>

ReplaceDebugSection ==
  /\ pc = "replace" /\ (Goto("create") \/ Fatal)
  /\ UNCHANGED <<input, handles, content, pdbFile, committed, ignored, files>>

(* PEImage::save: the file is truncated when it is opened.                 *)
CreateImage ==
  /\ pc = "create"
  /\ \/ Goto("write") /\ files' = [files EXCEPT ![Target] = "torn"]
     \/ Fatal /\ UNCHANGED files
  /\ UNCHANGED <<input, handles, content, pdbFile, committed, ignored>>

(* Mutant: a short write is not noticed.                                   *)
MutWritten(where) == files' = files
Written(where) == files' = [files EXCEPT ![where] = NewImage]

WriteImage ==
  /\ pc = "write"
  /\ \/ Goto("cleanup") /\ Written(Target)
     \/ Fatal /\ UNCHANGED files
  /\ UNCHANGED <<input, handles, content, pdbFile, committed, ignored>>

Streams == {"dbi", "tpi", "ipi", "mod"}

(* What could not be closed is gone all the same, and what it held may be  *)
(* missing from the PDB that is committed.                                 *)
Close(what) ==
  /\ handles' = handles \ {what}
  /\ \/ UNCHANGED ignored
     \/ what \in handles /\ ignored' = ignored \cup {what}
  /\ UNCHANGED <<pdbFile, committed>>

(* Commit's result is not looked at either: the run goes on to report      *)
(* success without a PDB.                                                  *)
Commit ==
  /\ UNCHANGED handles
  /\ \/ /\ pdbFile' = "committed" /\ UNCHANGED ignored
        /\ \/ committed' = content
           \/ ignored \cap Streams # {} /\ committed' = <<>>
     \/ ignored' = ignored \cup {"commit"} /\ UNCHANGED <<pdbFile, committed>>

Cleanup ==
  /\ pc = "cleanup"
  /\ IF CleanupSteps[step] = "commit" THEN Commit ELSE Close(CleanupSteps[step])
  /\ IF step < Len(CleanupSteps) THEN Advance ELSE Goto("exited")
  /\ UNCHANGED <<input, content, files>>

Stopped == pc \in {"exited", "killed"}

(* The user, the system, or a null module that is used without a test.     *)
Kill ==
  /\ ~Stopped /\ pc' = "killed"
  /\ UNCHANGED <<input, step, exitCode, handles, content, pdbFile, committed,
                 ignored, files>>

Next == \/ Load \/ Unlink \/ OpenPDB \/ Convert \/ ReplaceDebugSection
        \/ CreateImage \/ WriteImage \/ Cleanup \/ Kill

Spec == Init /\ [][Next]_vars

-----------------------------------------------------------------------------
(* Properties *)

Handles == {"pdb", "dbi", "tpi", "ipi", "mod"}
StepNames == {"relocate", "segments", "global symbols", "global types",
              "modules", "types", "symbols", "lines", "publics"}
FileStates == {"input", "absent", "torn", "exe", "dbg"}

PartLength == CASE pc = "open"    -> Len(OpenSteps)
                [] pc = "convert" -> Len(Steps)
                [] pc = "cleanup" -> Len(CleanupSteps)
                [] OTHER          -> Len(CvSteps)

(* Every variable has its type, and step is a step of the part of the run  *)
(* that pc names.                                                          *)
TypeOK ==
  /\ input \in Input
  /\ pc \in {"load", "unlink", "open", "convert", "replace", "create",
             "write", "cleanup", "exited", "killed"}
  /\ step \in 1 .. PartLength /\ exitCode \in {0, 1}
  /\ handles \subseteq Handles
  /\ content \in Seq(StepNames) /\ committed \in Seq(StepNames)
  /\ pdbFile \in {"old", "none", "created", "committed"}
  /\ ignored \subseteq Handles \cup {"unlink", "commit"}
  /\ files \in [{"exe", "out"} -> FileStates]

(* A PDB on disk is never the remains of a failed conversion: if all its   *)
(* streams could be closed, what was committed holds the result of every   *)
(* step, in order; and the image that names it was written before (main    *)
(* returns only then), whether they could be closed or not.                *)
NoPartialCommit ==
  pdbFile = "committed" =>
    /\ ignored \cap Streams = {} => committed = Steps
    /\ WritesImage => files[Target] = NewImage

(* A run that reports success has come through every step and written the  *)
(* image whole, and its PDB is there with the result of every step: the    *)
(* one exception is a failure in cleanup() whose result it never asks for. *)
(* Then the image names a PDB that is missing (Commit failed) or may lack  *)
(* what a stream held (its Close failed); nothing else goes unnoticed.     *)
SuccessHidesOnlyIgnored ==
  (pc = "exited" /\ exitCode = 0) =>
    /\ content = Steps /\ handles = {}
    /\ WritesImage => files[Target] = NewImage
    /\ pdbFile = "committed" \/ (pdbFile = "created" /\ "commit" \in ignored)
    /\ (pdbFile = "committed" /\ committed # Steps) => ignored \cap Streams # {}

(* Nothing of the user's is given up early: the input file is touched only  *)
(* by a run that was told to convert in place and has come through every   *)
(* step of the conversion, and the old PDB is unlinked only for an input    *)
(* that has debug information.                                             *)
NothingGivenUpEarly ==
  /\ files["exe"] # "input" => input.inPlace /\ content = Steps
  /\ pdbFile # "old" => HasInfo(input.exe) \/ HasInfo(input.dbg)

(* The commit finds every stream of the PDB closed.                        *)
CommitAfterClose ==
  [][pdbFile' = "committed" /\ pdbFile # "committed" => handles = {"pdb"}]_vars

(* The run implements what Publication promises of the two files.          *)
Abstract == INSTANCE Publication WITH
  wanted <- WritesImage,
  pdb    <- CASE pdbFile = "old" -> "old"
              [] pdbFile \in {"none", "created"} -> "none"
              [] pdbFile = "committed" -> "new",
  image  <- CASE files[Target] \in {"input", "absent"} -> "before"
              [] files[Target] = "torn" -> "torn"
              [] files[Target] \in {"exe", "dbg"} -> "after"
ImplementsPublication == Abstract!Spec
=============================================================================
