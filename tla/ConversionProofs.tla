-------------------------- MODULE ConversionProofs --------------------------
(***************************************************************************)
(* Theorems about Conversion, for every set of inputs.                     *)
(***************************************************************************)
EXTENDS Conversion, SequenceTheorems, TLAPS

(* How far the conversion has come at each point of the program.           *)
ContentSoFar ==
  /\ pc = "convert" => /\ step \in 1 .. Len(Steps)
                       /\ content = SubSeq(Steps, 1, step - 1)
  /\ pc \in {"replace", "create", "write", "cleanup"} => content = Steps
  /\ pc \in {"load", "unlink", "open"} => content = <<>>

PdbSoFar ==
  /\ pc \in {"load", "unlink"} => pdbFile = "old"
  /\ pc = "open" => /\ pdbFile \in {"old", "none", "created"}
                    /\ step \in 1 .. Len(OpenSteps)
                    /\ step > 1 => pdbFile = "created"
  /\ pc \in {"convert", "replace", "create", "write"} => pdbFile = "created"
  /\ pc = "cleanup" =>
       /\ step \in 1 .. Len(CleanupSteps)
       /\ step <= 5 => pdbFile = "created"
       /\ step > 5 => \/ pdbFile = "committed"
                      \/ pdbFile = "created" /\ "commit" \in ignored

ImageSoFar ==
  /\ pc \in {"load", "unlink", "open", "convert", "replace", "create"} =>
       files[Target] \in {"input", "absent"}
  /\ pc \in {"replace", "create", "write"} => WritesImage
  /\ pc = "write" => files[Target] = "torn"
  /\ pc = "cleanup" =>
       IF WritesImage THEN files[Target] = NewImage
       ELSE files[Target] \in {"input", "absent"}

Typed ==
  /\ input \in Input
  /\ DOMAIN files = {"exe", "out"}
  /\ pdbFile \in {"old", "none", "created", "committed"}

IInv == Typed /\ ContentSoFar /\ PdbSoFar /\ ImageSoFar /\ NoPartialCommit

(* The steps are one of two sequences of names.                            *)
LEMMA StepsFacts ==
  /\ Steps \in Seq(StepNames) /\ Len(Steps) \in {5, 8}
  /\ Len(OpenSteps) \in {3, 4}
  /\ Len(CleanupSteps) = 6
  /\ \A i \in 1 .. 6 : CleanupSteps[i] = "commit" <=> i = 5
<1>1. DwarfSteps \in Seq(StepNames)
  BY DEF DwarfSteps, StepNames
<1>2. CvSteps \in Seq(StepNames)
  BY DEF CvSteps, StepNames
<1>3. Len(OpenSteps) \in {3, 4}
  BY DEF OpenSteps
<1>4. Len(CleanupSteps) = 6
  BY DEF CleanupSteps
<1>5. \A i \in 1 .. 6 : CleanupSteps[i] = "commit" <=> i = 5
  BY DEF CleanupSteps
<1>6. Len(DwarfSteps) = 5 /\ Len(CvSteps) = 8
  BY DEF DwarfSteps, CvSteps
<1> QED
  BY <1>1, <1>2, <1>3, <1>4, <1>5, <1>6 DEF Steps

(* There is a first step to each of them.                                  *)
LEMMA FirstSteps == 1 \in 1 .. Len(OpenSteps) /\ 1 \in 1 .. Len(Steps)
<1>1. Len(OpenSteps) \in {3, 4} /\ Len(Steps) \in {5, 8}
  BY StepsFacts
<1>2. \A n \in {3, 4, 5, 8} : 1 \in 1 .. n
  OBVIOUS
<1> QED
  BY <1>1, <1>2

(* One step more of a sequence of steps.                                   *)
LEMMA OneMore ==
  ASSUME NEW i \in 1 .. Len(Steps)
  PROVE  /\ Append(SubSeq(Steps, 1, i - 1), Steps[i]) = SubSeq(Steps, 1, i)
         /\ SubSeq(Steps, 1, 0) = <<>>
         /\ SubSeq(Steps, 1, Len(Steps)) = Steps
<1> DEFINE S == Steps
           Before == SubSeq(S, 1, i - 1)
<1>1. S \in Seq(StepNames) /\ Len(S) \in Nat
  BY StepsFacts
<1> HIDE DEF S
<1>2. Before \in Seq(StepNames) /\ Len(Before) = i - 1
  BY <1>1, SubSeqProperties DEF S
<1>3. SubSeq(S, 1, i) \in Seq(StepNames) /\ Len(SubSeq(S, 1, i)) = i
  BY <1>1, SubSeqProperties DEF S
<1>4. S[i] \in StepNames
  BY <1>1, ElementOfSeq DEF S
<1>5. Append(Before, S[i]) \in Seq(StepNames)
      /\ Len(Append(Before, S[i])) = i
  BY <1>2, <1>4, AppendProperties
<1>6. \A j \in 1 .. i : Append(Before, S[i])[j] = SubSeq(S, 1, i)[j]
  BY <1>1, <1>2, <1>4, AppendProperties, SubSeqProperties DEF S
<1>7. Append(Before, S[i]) = SubSeq(S, 1, i)
  BY <1>3, <1>5, <1>6, SeqEqual
<1>8. SubSeq(S, 1, 0) = <<>>
  BY <1>1, SubSeqProperties
<1>9. SubSeq(S, 1, Len(S)) = S
  BY <1>1, SubSeqProperties, SeqEqual
<1> QED
  BY <1>7, <1>8, <1>9 DEF S

LEMMA TargetFacts ==
  /\ Target \in {"exe", "out"} /\ NewImage \in {"exe", "dbg"}
BY DEF Target, NewImage, Img

(* What an action reads of the command line does not change.               *)
LEMMA InputUnchanged ==
  ASSUME input' = input
  PROVE  /\ Steps' = Steps /\ Target' = Target /\ NewImage' = NewImage
         /\ WritesImage' = WritesImage /\ OpenSteps' = OpenSteps
         /\ CleanupSteps' = CleanupSteps
BY DEF Steps, Target, NewImage, WritesImage, OpenSteps, CleanupSteps, Dwarf,
       Img, DbgLoaded, HasInfo, HasCV, DwarfSteps, CvSteps

LEMMA InitIInv == Init => IInv
<1> SUFFICES ASSUME Init PROVE IInv
  OBVIOUS
<1>1. files[Target] \in {"input", "absent"}
  BY TargetFacts DEF Init
<1> QED
  BY <1>1, InputsAssumption
  DEF Init, IInv, Typed, ContentSoFar, PdbSoFar, ImageSoFar, NoPartialCommit

(* A run that stops leaves everything as it is.                            *)
LEMMA StopStep ==
  ASSUME IInv, pc' \in {"exited", "killed"},
         UNCHANGED <<input, pdbFile, committed, ignored, files>>
  PROVE  IInv'
BY InputUnchanged
DEF IInv, Typed, ContentSoFar, PdbSoFar, ImageSoFar, NoPartialCommit

LEMMA IInvStep == IInv /\ [Next]_vars => IInv'
<1> SUFFICES ASSUME IInv, [Next]_vars PROVE IInv'
  OBVIOUS
<1> USE StepsFacts, TargetFacts DEF IInv
<1>1. CASE UNCHANGED vars
  BY <1>1, InputUnchanged
  DEF vars, Typed, ContentSoFar, PdbSoFar, ImageSoFar, NoPartialCommit
<1>2. ASSUME Fatal, UNCHANGED <<input, pdbFile, committed, ignored, files>> PROVE IInv'
  BY <1>2, StopStep DEF Fatal
<1>3. CASE Load
  BY <1>2, <1>3, InputUnchanged
  DEF Load, Goto, Typed, ContentSoFar, PdbSoFar, ImageSoFar, NoPartialCommit
<1>4. CASE Unlink
  <2>1. /\ pc = "unlink" /\ pc' = "open" /\ step' = 1
        /\ UNCHANGED <<input, content, committed, files>>
        /\ pdbFile' \in {"old", "none"}
    BY <1>4 DEF Unlink, Goto, PdbSoFar
  <2>2. Typed' /\ ContentSoFar' /\ ImageSoFar' /\ NoPartialCommit'
    BY <2>1, InputUnchanged DEF Typed, ContentSoFar, ImageSoFar, NoPartialCommit
  <2>3. PdbSoFar'
    <3>1. OpenSteps' = OpenSteps
      BY <2>1, InputUnchanged
    <3>2. 1 \in 1 .. Len(OpenSteps)
      BY FirstSteps
    <3> QED
      BY <2>1, <3>1, <3>2 DEF PdbSoFar
  <2> QED
    BY <2>2, <2>3
<1>5. CASE OpenPDB
  <2>1. CASE Fatal /\ UNCHANGED <<handles, pdbFile>>
    BY <1>2, <1>5, <2>1 DEF OpenPDB
  <2>2. CASE step < Len(OpenSteps) /\ Advance /\ pdbFile' = "created"
    <3>1. pc = "open" /\ pc' = "open" /\ UNCHANGED <<input, content, files>>
      BY <1>5, <2>2 DEF OpenPDB, Advance
    <3>2. step \in Nat /\ step' = step + 1 /\ OpenSteps' = OpenSteps
      BY <2>2, <3>1, InputUnchanged DEF Advance, PdbSoFar
    <3>3. step' \in 1 .. Len(OpenSteps')
      BY <2>2, <3>2
    <3> QED
      BY <2>2, <3>1, <3>3, InputUnchanged
      DEF Typed, ContentSoFar, PdbSoFar, ImageSoFar, NoPartialCommit
  <2>3. CASE Goto("convert") /\ pdbFile' = "created"
    <3>1. /\ pc = "open" /\ pc' = "convert" /\ step' = 1
          /\ UNCHANGED <<input, content, files>>
      BY <1>5, <2>3 DEF OpenPDB, Goto
    <3>2. ContentSoFar'
      <4>1. Steps' = Steps /\ content' = <<>>
        BY <1>5, <3>1, InputUnchanged DEF ContentSoFar
      <4>2. 1 \in 1 .. Len(Steps)
        BY FirstSteps
      <4>3. SubSeq(Steps, 1, 1 - 1) = <<>>
        BY <4>2, OneMore
      <4> QED
        BY <3>1, <4>1, <4>2, <4>3 DEF ContentSoFar
    <3>3. Typed' /\ PdbSoFar' /\ ImageSoFar' /\ NoPartialCommit'
      BY <2>3, <3>1, InputUnchanged DEF Typed, PdbSoFar, ImageSoFar, NoPartialCommit
    <3> QED
      BY <3>2, <3>3
  <2> QED
    BY <1>5, <2>1, <2>2, <2>3 DEF OpenPDB
<1>6. CASE Convert
  <2> DEFINE Added == content' = Append(content, Steps[step])
  <2>1. CASE Fatal /\ UNCHANGED content
    BY <1>2, <1>6, <2>1 DEF Convert
  <2>2. CASE Added
    <3>1. step \in 1 .. Len(Steps) /\ content' = SubSeq(Steps, 1, step)
      BY <1>6, <2>2, OneMore DEF Convert, ContentSoFar
    <3>2. CASE step < Len(Steps) /\ Advance
      BY <1>6, <3>1, <3>2, InputUnchanged
      DEF Convert, Advance, Typed, ContentSoFar, PdbSoFar, ImageSoFar,
          NoPartialCommit
    <3>3. ASSUME ~(step < Len(Steps)) PROVE content' = Steps
      BY <3>1, <3>3, OneMore
    <3>4. CASE ~(step < Len(Steps)) /\ Goto("replace") /\ WritesImage
      BY <1>6, <3>3, <3>4, InputUnchanged
      DEF Convert, Goto, Typed, ContentSoFar, PdbSoFar, ImageSoFar,
          NoPartialCommit
    <3>5. CASE ~(step < Len(Steps)) /\ Goto("cleanup") /\ ~WritesImage
      BY <1>6, <3>3, <3>5, InputUnchanged
      DEF Convert, Goto, Typed, ContentSoFar, PdbSoFar, ImageSoFar,
          NoPartialCommit
    <3> QED
      BY <1>6, <2>2, <3>2, <3>4, <3>5, SMT DEF Convert, Fatal
  <2> QED
    BY <1>6, <2>1, <2>2 DEF Convert
<1>7. CASE ReplaceDebugSection
  BY <1>2, <1>7, InputUnchanged
  DEF ReplaceDebugSection, Goto, Typed, ContentSoFar, PdbSoFar, ImageSoFar,
      NoPartialCommit
<1>8. CASE CreateImage
  <2>1. CASE Fatal /\ UNCHANGED files
    BY <1>2, <1>8, <2>1 DEF CreateImage
  <2>2. CASE Goto("write") /\ files' = [files EXCEPT ![Target] = "torn"]
    <3>1. DOMAIN files' = {"exe", "out"} /\ files'[Target] = "torn"
      BY <2>2 DEF Typed
    <3> QED
      BY <1>8, <2>2, <3>1, InputUnchanged
      DEF CreateImage, Goto, Typed, ContentSoFar, PdbSoFar, ImageSoFar,
          NoPartialCommit
  <2> QED
    BY <1>8, <2>1, <2>2 DEF CreateImage
<1>9. CASE WriteImage
  <2>1. CASE Fatal /\ UNCHANGED files
    BY <1>2, <1>9, <2>1 DEF WriteImage
  <2>2. CASE Goto("cleanup") /\ Written(Target)
    <3>1. DOMAIN files' = {"exe", "out"} /\ files'[Target] = NewImage
      BY <2>2 DEF Typed, Written
    <3> QED
      BY <1>9, <2>2, <3>1, InputUnchanged
      DEF WriteImage, Goto, Typed, ContentSoFar, PdbSoFar, ImageSoFar,
          NoPartialCommit
  <2> QED
    BY <1>9, <2>1, <2>2 DEF WriteImage
<1>10. CASE Cleanup
  <2>1. /\ pc = "cleanup" /\ step \in 1 .. 6
        /\ UNCHANGED <<input, content, files>>
    BY <1>10 DEF Cleanup, PdbSoFar
  <2>2. /\ step < 5 => pdbFile' = "created"
        /\ step >= 5 => \/ pdbFile' = "committed"
                        \/ pdbFile' = "created" /\ "commit" \in ignored'
        /\ pdbFile' = "committed" /\ ignored' \cap Streams = {} => committed' = Steps
    <3>1. CASE step = 5
      BY <1>10, <2>1, <3>1 DEF Cleanup, Commit, PdbSoFar, ContentSoFar
    <3>2. CASE step # 5
      <4>1. Close(CleanupSteps[step])
        BY <1>10, <2>1, <3>2 DEF Cleanup
      <4> QED
        BY <2>1, <3>2, <4>1 DEF Close, PdbSoFar, NoPartialCommit
    <3> QED
      BY <3>1, <3>2
  <2>3. CASE step < 6 /\ Advance
    BY <2>1, <2>2, <2>3, InputUnchanged
    DEF Advance, Typed, ContentSoFar, PdbSoFar, ImageSoFar, NoPartialCommit
  <2>4. CASE step = 6 /\ Goto("exited")
    BY <2>1, <2>2, <2>4, InputUnchanged
    DEF Goto, Typed, ContentSoFar, PdbSoFar, ImageSoFar, NoPartialCommit
  <2> QED
    BY <1>10, <2>1, <2>3, <2>4 DEF Cleanup
<1>11. CASE Kill
  BY <1>11, StopStep DEF Kill
<1> QED
  BY <1>1, <1>3, <1>4, <1>5, <1>6, <1>7, <1>8, <1>9, <1>10, <1>11 DEF Next

-----------------------------------------------------------------------------
(* What is open, what the run was told, and what it has touched, at each   *)
(* point of the program; it builds on IInv.                                *)

HandlesSoFar ==
  /\ handles \subseteq Handles
  /\ pc = "open" => (step > 1 => "pdb" \in handles)
  /\ pc \in {"convert", "replace", "create", "write", "cleanup"} => "pdb" \in handles
  /\ pc = "cleanup" => handles \cap {CleanupSteps[i] : i \in 1 .. step - 1} = {}

TouchedSoFar ==
  /\ pc \in {"load", "unlink", "open", "convert", "replace", "create"} =>
       files["exe"] = "input"
  /\ pc \notin {"load", "exited", "killed"} => HasInfo(input.exe) \/ HasInfo(input.dbg)

ExitSoFar ==
  /\ pc \notin {"exited", "killed"} => exitCode = 0
  /\ SuccessHidesOnlyIgnored

HInv == HandlesSoFar /\ TouchedSoFar /\ ExitSoFar /\ NothingGivenUpEarly

(* The part of the run that is over when handles are closed one by one.    *)
LEMMA CleanupNames ==
  /\ CleanupSteps[1] = "mod" /\ CleanupSteps[2] = "ipi" /\ CleanupSteps[3] = "tpi"
  /\ CleanupSteps[4] = "dbi" /\ CleanupSteps[5] = "commit" /\ CleanupSteps[6] = "pdb"
BY DEF CleanupSteps

LEMMA OpenNames ==
  /\ OpenSteps[1] = "pdb"
  /\ \A i \in 1 .. Len(OpenSteps) : OpenSteps[i] \in Handles
BY DEF OpenSteps, Handles

(* At the commit, and at the end of the run, by what was closed before.    *)
LEMMA ClosedSoFar ==
  ASSUME HandlesSoFar, pc = "cleanup"
  PROVE  /\ step = 5 => handles = {"pdb"}
         /\ step = 6 => handles = {"pdb"}
<1>1. ASSUME step \in {5, 6} PROVE handles = {"pdb"}
  <2>1. {1, 2, 3, 4} \subseteq 1 .. step - 1
    BY <1>1
  <2>2. "mod" \notin handles /\ "ipi" \notin handles
        /\ "tpi" \notin handles /\ "dbi" \notin handles
    BY <2>1, CleanupNames DEF HandlesSoFar
  <2> QED
    BY <2>2 DEF HandlesSoFar, Handles
<1> QED
  BY <1>1

LEMMA InitHInv == Init => HInv
BY DEF Init, HInv, HandlesSoFar, TouchedSoFar, ExitSoFar, SuccessHidesOnlyIgnored,
       NothingGivenUpEarly, Handles

LEMMA StopHInv ==
  ASSUME IInv, HInv, pc \notin {"exited", "killed"},
         \/ pc' = "killed" /\ exitCode' = exitCode
         \/ pc' = "exited" /\ exitCode' = 1,
         UNCHANGED <<input, pdbFile, files>>, handles' \subseteq Handles,
         content' = content
  PROVE  HInv'
BY InputUnchanged
DEF HInv, HandlesSoFar, TouchedSoFar, ExitSoFar, SuccessHidesOnlyIgnored, NothingGivenUpEarly,
    HasInfo, HasCV, Handles

LEMMA HInvStep == IInv /\ HInv /\ [Next]_vars => HInv'
<1> SUFFICES ASSUME IInv, HInv, [Next]_vars PROVE HInv'
  OBVIOUS
<1> USE StepsFacts, TargetFacts, InputUnchanged
<1>1. CASE UNCHANGED vars
  BY <1>1 DEF vars, HInv, HandlesSoFar, TouchedSoFar, ExitSoFar, SuccessHidesOnlyIgnored,
              NothingGivenUpEarly, HasInfo, HasCV, Handles
<1>2. CASE Load
  <2>1. CASE Found /\ Goto("unlink")
    <3>1. HasInfo(input.exe) \/ HasInfo(input.dbg)
      BY <2>1 DEF Found, DbgLoaded, IInv, Typed, Input, HasInfo, HasCV
    <3> QED
      BY <1>2, <2>1, <3>1
      DEF Load, Goto, HInv, HandlesSoFar, TouchedSoFar, ExitSoFar, SuccessHidesOnlyIgnored,
          NothingGivenUpEarly, HasInfo, HasCV
  <2>2. CASE Fatal
    BY <1>2, <2>2, StopHInv DEF Load, Fatal, HInv, HandlesSoFar
  <2> QED
    BY <1>2, <2>1, <2>2 DEF Load
<1>3. CASE Unlink
  BY <1>3 DEF Unlink, Goto, HInv, HandlesSoFar, TouchedSoFar, ExitSoFar, SuccessHidesOnlyIgnored,
              NothingGivenUpEarly, HasInfo, HasCV
<1>4. CASE OpenPDB
  <2>1. CASE Fatal /\ UNCHANGED <<handles, pdbFile>>
    BY <1>4, <2>1, StopHInv DEF OpenPDB, Fatal, HInv, HandlesSoFar
  <2>2. CASE /\ handles' = handles \cup {OpenSteps[step]} /\ pdbFile' = "created"
             /\ pc' \in {"open", "convert"} /\ exitCode' = exitCode
    <3>1. step \in 1 .. Len(OpenSteps) /\ OpenSteps[step] \in Handles
      BY <1>4, OpenNames DEF OpenPDB, IInv, PdbSoFar
    <3>2. "pdb" \in handles'
      BY <1>4, <2>2, <3>1, OpenNames DEF OpenPDB, HInv, HandlesSoFar
    <3> QED
      BY <1>4, <2>2, <3>1, <3>2
      DEF OpenPDB, HInv, HandlesSoFar, TouchedSoFar, ExitSoFar, SuccessHidesOnlyIgnored,
          NothingGivenUpEarly, HasInfo, HasCV
  <2> QED
    BY <1>4, <2>1, <2>2 DEF OpenPDB, Advance, Goto
<1>5. CASE Convert
  <2>1. handles \subseteq handles' /\ handles' \subseteq Handles
    BY <1>5 DEF Convert, HInv, HandlesSoFar, Handles
  <2>2. CASE Fatal /\ UNCHANGED content
    BY <1>5, <2>1, <2>2, StopHInv DEF Convert, Fatal
  <2>3. CASE /\ pc' \in {"convert", "replace"} \/ (pc' = "cleanup" /\ step' = 1)
             /\ exitCode' = exitCode
    <3>1. pc' = "cleanup" => {CleanupSteps[i] : i \in 1 .. step' - 1} = {}
      BY <2>3
    <3> QED
      BY <1>5, <2>1, <2>3, <3>1
      DEF Convert, HInv, HandlesSoFar, TouchedSoFar, ExitSoFar, SuccessHidesOnlyIgnored,
          NothingGivenUpEarly, HasInfo, HasCV
  <2> QED
    BY <1>5, <2>2, <2>3 DEF Convert, Advance, Goto
<1>6. CASE ReplaceDebugSection
  <2>1. CASE Fatal
    BY <1>6, <2>1, StopHInv DEF ReplaceDebugSection, Fatal, HInv, HandlesSoFar
  <2>2. CASE Goto("create")
    BY <1>6, <2>2
    DEF ReplaceDebugSection, Goto, HInv, HandlesSoFar, TouchedSoFar, ExitSoFar,
        SuccessHidesOnlyIgnored, NothingGivenUpEarly, HasInfo, HasCV
  <2> QED
    BY <1>6, <2>1, <2>2 DEF ReplaceDebugSection
<1>7. CASE CreateImage
  <2>1. CASE Fatal /\ UNCHANGED files
    BY <1>7, <2>1, StopHInv DEF CreateImage, Fatal, HInv, HandlesSoFar
  <2>2. CASE Goto("write") /\ files' = [files EXCEPT ![Target] = "torn"]
    <3>1. content = Steps /\ (files'["exe"] # "input" => input.inPlace)
      BY <1>7, <2>2 DEF CreateImage, IInv, Typed, ContentSoFar, HInv, TouchedSoFar, Target
    <3> QED
      BY <1>7, <2>2, <3>1
      DEF CreateImage, Goto, HInv, HandlesSoFar, TouchedSoFar, ExitSoFar,
          SuccessHidesOnlyIgnored, NothingGivenUpEarly, HasInfo, HasCV
  <2> QED
    BY <1>7, <2>1, <2>2 DEF CreateImage
<1>8. CASE WriteImage
  <2>1. CASE Fatal /\ UNCHANGED files
    BY <1>8, <2>1, StopHInv DEF WriteImage, Fatal, HInv, HandlesSoFar
  <2>2. CASE Goto("cleanup") /\ Written(Target)
    <3>1. content = Steps /\ (files'["exe"] # "input" => input.inPlace)
      BY <1>8, <2>2
      DEF WriteImage, Written, IInv, Typed, ContentSoFar, HInv, NothingGivenUpEarly, Target
    <3>2. {CleanupSteps[i] : i \in 1 .. step' - 1} = {}
      BY <2>2 DEF Goto
    <3> QED
      BY <1>8, <2>2, <3>1, <3>2
      DEF WriteImage, Goto, HInv, HandlesSoFar, TouchedSoFar, ExitSoFar,
          SuccessHidesOnlyIgnored, NothingGivenUpEarly, HasInfo, HasCV
  <2> QED
    BY <1>8, <2>1, <2>2 DEF WriteImage
<1>9. CASE Cleanup
  <2>1. /\ pc = "cleanup" /\ step \in 1 .. 6 /\ UNCHANGED <<input, content, files>>
        /\ CleanupSteps' = CleanupSteps
    BY <1>9 DEF Cleanup, IInv, PdbSoFar
  <2>2. handles' = handles \ {CleanupSteps[step]}
    <3>1. CASE step = 5
      BY <1>9, <2>1, <3>1, ClosedSoFar, CleanupNames DEF Cleanup, Commit, HInv
    <3>2. CASE step # 5
      BY <1>9, <2>1, <3>2 DEF Cleanup, Close
    <3> QED
      BY <3>1, <3>2
  <2>3. CASE step < 6 /\ Advance
    <3>1. 1 .. step' - 1 = (1 .. step - 1) \cup {step}
      BY <2>1, <2>3 DEF Advance
    <3>2. handles' \cap {CleanupSteps[i] : i \in 1 .. step' - 1} = {}
      BY <2>1, <2>2, <3>1 DEF HInv, HandlesSoFar
    <3>3. "pdb" \in handles' /\ handles' \subseteq Handles
      BY <2>1, <2>2, <2>3, CleanupNames DEF HInv, HandlesSoFar
    <3> QED
      BY <2>1, <2>3, <3>2, <3>3
      DEF Advance, HInv, HandlesSoFar, TouchedSoFar, ExitSoFar, SuccessHidesOnlyIgnored,
          NothingGivenUpEarly, HasInfo, HasCV
  <2>4. CASE step = 6 /\ Goto("exited")
    <3>1. handles' = {}
      BY <2>1, <2>2, <2>4, ClosedSoFar, CleanupNames DEF HInv
    <3>2. pdbFile = "committed" \/ (pdbFile = "created" /\ "commit" \in ignored)
      BY <2>1, <2>4 DEF IInv, PdbSoFar
    <3>3. /\ pdbFile' = pdbFile /\ committed' = committed
          /\ ignored \subseteq ignored'
      BY <1>9, <2>1, <2>4, CleanupNames DEF Cleanup, Close
    <3>4. /\ content' = Steps /\ (WritesImage => files'[Target] = NewImage)
          /\ pdbFile = "committed" /\ ignored \cap Streams = {} => committed = Steps
      BY <2>1 DEF IInv, ContentSoFar, ImageSoFar, NoPartialCommit
    <3>5. SuccessHidesOnlyIgnored'
      BY <2>1, <3>1, <3>2, <3>3, <3>4 DEF SuccessHidesOnlyIgnored
    <3> QED
      BY <1>9, <2>1, <2>4, <3>1, <3>2, <3>3, <3>5
      DEF Goto, HInv, HandlesSoFar, TouchedSoFar, ExitSoFar, NothingGivenUpEarly, HasInfo, HasCV
  <2> QED
    BY <1>9, <2>1, <2>3, <2>4 DEF Cleanup
<1>10. CASE Kill
  BY <1>10, StopHInv DEF Kill, Stopped, HInv, HandlesSoFar
<1> QED
  BY <1>1, <1>2, <1>3, <1>4, <1>5, <1>6, <1>7, <1>8, <1>9, <1>10 DEF Next

(* Whatever fails or stops the run, a committed PDB holds the result of    *)
(* every step of the conversion, if its streams could be closed, and its   *)
(* image was written before.                                               *)
THEOREM CommitIsComplete == Spec => []NoPartialCommit
<1>1. IInv => NoPartialCommit
  BY DEF IInv
<1> QED
  BY <1>1, InitIInv, IInvStep, PTL DEF Spec

(* A run that reports success has come through every step, closed what it  *)
(* opened and written the image whole; the PDB is there too, and whole,    *)
(* unless Commit or the Close of a stream failed, whose results cleanup()  *)
(* does not look at: those failures, and no other, success may hide.       *)
THEOREM SuccessIsComplete == Spec => []SuccessHidesOnlyIgnored
<1>1. HInv => SuccessHidesOnlyIgnored
  BY DEF HInv, ExitSoFar
<1> QED
  BY <1>1, InitIInv, InitHInv, IInvStep, HInvStep, PTL DEF Spec

(* The input file and the old PDB are given up only where the run was told *)
(* to, and not before it has what it needs.                                *)
THEOREM KeepsTheUsers == Spec => []NothingGivenUpEarly
<1>1. HInv => NothingGivenUpEarly
  BY DEF HInv
<1> QED
  BY <1>1, InitIInv, InitHInv, IInvStep, HInvStep, PTL DEF Spec

(* cleanup commits when all streams are closed.                            *)
THEOREM CommitsClosed == Spec => CommitAfterClose
<1> DEFINE Commits == pdbFile' = "committed" /\ pdbFile # "committed"
<1>1. IInv /\ HInv /\ [Next]_vars => [Commits => handles = {"pdb"}]_vars
  <2> SUFFICES ASSUME IInv, HInv, Next, Commits PROVE handles = {"pdb"}
    BY DEF vars
  <2>1. Cleanup /\ step = 5
    BY StepsFacts
    DEF Next, Load, Unlink, OpenPDB, Convert, ReplaceDebugSection, CreateImage, WriteImage,
        Cleanup, Close, CleanupSteps, Kill, IInv, PdbSoFar
  <2> QED
    BY <2>1, ClosedSoFar DEF Cleanup, HInv
<1> QED
  BY <1>1, InitIInv, InitHInv, IInvStep, HInvStep, PTL DEF Spec, CommitAfterClose

-----------------------------------------------------------------------------
LEMMA PartLengths ==
  /\ Len(OpenSteps) \in 1 .. 8 /\ Len(Steps) \in 1 .. 8 /\ Len(CleanupSteps) \in 1 .. 8
  /\ PartLength \in 1 .. 8
<1>1. Len(CvSteps) = 8
  BY DEF CvSteps
<1> QED
  BY <1>1, StepsFacts DEF PartLength

LEMMA NamesTyped ==
  /\ \A i \in 1 .. Len(Steps) : Steps[i] \in StepNames
  /\ \A i \in 1 .. Len(OpenSteps) : OpenSteps[i] \in Handles
<1>1. \A i \in 1 .. Len(Steps) : Steps[i] \in StepNames
  BY StepsFacts
<1>2. \A i \in 1 .. Len(OpenSteps) : OpenSteps[i] \in Handles
  BY DEF OpenSteps, Handles
<1> QED
  BY <1>1, <1>2

LEMMA InitTypeOK == Init => TypeOK
<1> SUFFICES ASSUME Init PROVE TypeOK
  OBVIOUS
<1>1. step \in 1 .. PartLength
  BY PartLengths DEF Init
<1>2. <<>> \in Seq(StepNames)
  OBVIOUS
<1> QED
  BY <1>1, <1>2, InputsAssumption DEF Init, TypeOK, FileStates

(* A part of the run begins at its first step, and its last is the last.   *)
LEMMA StepStays == TypeOK /\ [Next]_vars => step' \in 1 .. PartLength'
<1> SUFFICES ASSUME TypeOK, [Next]_vars PROVE step' \in 1 .. PartLength'
  OBVIOUS
<1> USE PartLengths, StepsFacts DEF TypeOK, PartLength
<1>1. input' = input
  BY DEF vars, Next, Load, Unlink, OpenPDB, Convert, ReplaceDebugSection, CreateImage,
         WriteImage, Cleanup, Kill
<1>2. /\ Len(Steps)' = Len(Steps) /\ Len(OpenSteps)' = Len(OpenSteps)
      /\ Len(CvSteps)' = 8 /\ Len(CvSteps) = 8 /\ Len(CleanupSteps)' = 6
  BY <1>1 DEF Steps, OpenSteps, CvSteps, CleanupSteps, Dwarf, DbgLoaded
<1>3. CASE UNCHANGED vars
  BY <1>2, <1>3 DEF vars
<1>4. CASE Next
  BY <1>2, <1>4, SMTT(30)
  DEF Next, Load, Unlink, OpenPDB, Convert, ReplaceDebugSection, CreateImage, WriteImage,
      Cleanup, Kill, Goto, Advance, Fatal
<1> QED
  BY <1>3, <1>4

LEMMA TypeStep == TypeOK /\ [Next]_vars => TypeOK'
<1> SUFFICES ASSUME TypeOK, [Next]_vars PROVE TypeOK'
  OBVIOUS
<1> DEFINE Scalars ==
      /\ input \in Input
      /\ pc \in {"load", "unlink", "open", "convert", "replace", "create",
                 "write", "cleanup", "exited", "killed"}
      /\ exitCode \in {0, 1}
      /\ pdbFile \in {"old", "none", "created", "committed"}
<1>1. Scalars'
  BY InputUnchanged
  DEF TypeOK, vars, Next, Load, Unlink, OpenPDB, Convert, ReplaceDebugSection, CreateImage,
      WriteImage, Cleanup, Close, Commit, Kill, Goto, Advance, Fatal
<1>2. step' \in 1 .. PartLength'
  BY StepStays
<1>3. handles' \subseteq Handles
  <2>1. CASE OpenPDB
    BY <2>1, NamesTyped DEF OpenPDB, TypeOK, PartLength
  <2>2. CASE Convert
    BY <2>2 DEF Convert, TypeOK, Handles
  <2> QED
    BY <2>1, <2>2
    DEF TypeOK, vars, Next, Load, Unlink, ReplaceDebugSection, CreateImage, WriteImage,
        Cleanup, Close, Commit, Kill
<1>4. content' \in Seq(StepNames) /\ committed' \in Seq(StepNames)
  <2>1. CASE Convert
    <3>1. Steps[step] \in StepNames
      BY <2>1, NamesTyped DEF Convert, TypeOK, PartLength
    <3> QED
      BY <2>1, <3>1 DEF Convert, TypeOK
  <2>2. CASE Cleanup
    <3>1. content' = content /\ committed' \in {committed, content, <<>>}
      BY <2>2 DEF Cleanup, Close, Commit
    <3>2. <<>> \in Seq(StepNames)
      OBVIOUS
    <3> QED
      BY <3>1, <3>2 DEF TypeOK
  <2> QED
    BY <2>1, <2>2
    DEF TypeOK, vars, Next, Load, Unlink, OpenPDB, ReplaceDebugSection, CreateImage,
        WriteImage, Kill
<1>5. files' \in [{"exe", "out"} -> FileStates]
  <2>1. Target \in {"exe", "out"} /\ NewImage \in FileStates
    BY DEF Target, NewImage, Img, FileStates
  <2> QED
    BY <2>1
    DEF TypeOK, FileStates, vars, Next, Load, Unlink, OpenPDB, Convert, ReplaceDebugSection,
        CreateImage, WriteImage, Written, Cleanup, Kill
<1>6. ignored' \subseteq Handles \cup {"unlink", "commit"}
  <2>1. CASE Unlink
    BY <2>1 DEF Unlink, TypeOK
  <2>2. CASE Cleanup
    BY <2>2 DEF Cleanup, Close, Commit, TypeOK
  <2> QED
    BY <2>1, <2>2
    DEF TypeOK, vars, Next, Load, OpenPDB, Convert, ReplaceDebugSection, CreateImage,
        WriteImage, Kill
<1> QED
  BY <1>1, <1>2, <1>3, <1>4, <1>5, <1>6 DEF TypeOK

(* Every variable keeps its type, and step stays within the part of the    *)
(* run that pc names: each part is entered at its first step and left at   *)
(* its last.                                                               *)
THEOREM TypeCorrect == Spec => []TypeOK
<1> QED
  BY InitTypeOK, TypeStep, PTL DEF Spec

(* A run of the converter is a run of Publication.                         *)
THEOREM Implements == Spec => ImplementsPublication
<1>1. Init => Abstract!Init
  <2> SUFFICES ASSUME Init PROVE Abstract!Init
    OBVIOUS
  <2>1. files[Target] \in {"input", "absent"} /\ pdbFile = "old"
    BY TargetFacts DEF Init
  <2>2. WritesImage \in BOOLEAN
    BY DEF WritesImage, Dwarf
  <2> QED
    BY <2>1, <2>2 DEF Abstract!Init
<1>2. IInv /\ [Next]_vars => [Abstract!Next]_(Abstract!vars)
  <2> SUFFICES ASSUME IInv, [Next]_vars
               PROVE  [Abstract!Next]_(Abstract!vars)
    OBVIOUS
  <2> USE StepsFacts, TargetFacts, InputUnchanged DEF IInv
  <2>1. CASE UNCHANGED <<input, pdbFile, files>>
    BY <2>1 DEF Abstract!vars
  <2>2. CASE Unlink
    BY <2>2 DEF Unlink, PdbSoFar, Abstract!Next, Abstract!Discard, Abstract!vars
  <2>3. CASE OpenPDB
    <3>1. pdbFile' \in {pdbFile, "created"} /\ pdbFile \in {"old", "none", "created"}
          /\ UNCHANGED <<input, files>>
      BY <2>3 DEF OpenPDB, PdbSoFar
    <3> QED
      BY <3>1 DEF Abstract!Next, Abstract!Discard, Abstract!vars
  <2>4. CASE CreateImage
    BY <2>4 DEF CreateImage, PdbSoFar, ImageSoFar, Typed, Abstract!Next, Abstract!Tear,
                Abstract!vars
  <2>5. CASE WriteImage
    BY <2>5 DEF WriteImage, Written, PdbSoFar, ImageSoFar, Typed, Abstract!Next,
                Abstract!Publish, Abstract!vars
  <2>6. CASE Cleanup
    <3>1. CASE Close(CleanupSteps[step])
      BY <2>6, <3>1 DEF Cleanup, Close, Abstract!vars
    <3>2. CASE Commit /\ CleanupSteps[step] = "commit"
      <4>1. /\ pdbFile = "created" /\ pdbFile' \in {"created", "committed"}
            /\ UNCHANGED <<input, files>>
        BY <2>6, <3>2 DEF Cleanup, Commit, PdbSoFar, CleanupSteps
      <4>2. IF WritesImage THEN files[Target] = NewImage
            ELSE files[Target] \in {"input", "absent"}
        BY <2>6 DEF Cleanup, ImageSoFar
      <4> QED
        BY <4>1, <4>2 DEF Abstract!Next, Abstract!Commit, Abstract!vars
    <3> QED
      BY <2>6, <3>1, <3>2 DEF Cleanup
  <2> QED
    BY <2>1, <2>2, <2>3, <2>4, <2>5, <2>6
    DEF Next, Load, Convert, ReplaceDebugSection, Kill, vars
<1> QED
  BY <1>1, <1>2, InitIInv, IInvStep, PTL
  DEF Spec, ImplementsPublication, Abstract!Spec
=============================================================================
