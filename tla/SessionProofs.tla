----------------------------- MODULE SessionProofs ----------------------------
(***************************************************************************)
(* Theorems about a run of the program, for every design, every set of     *)
(* files and whatever preprocessing comes to: errors are told, temporary   *)
(* files are removed, and only what was read in whole is simulated.        *)
(***************************************************************************)
EXTENDS Session, TLAPS, SequenceTheorems

\* A run in its variables, without those of setup.
USE DEF Report, Silent, Exit, Fatal, NextFile, SetData

\* What the program has reported is what it holds as its error; after its
\* end the exit status says so.  The option that is refused leaves no error,
\* but a status of its own.
ErrorTold ==
  /\ reported \in BOOLEAN
  /\ phase = "args" => ~reported
  /\ phase # "done" => (reported <=> error # "SE_NONE")
  /\ phase = "done" => rc = "crash" \/ (rc # "SE_NONE" <=> reported)

\* Nothing has been reported when the program starts.
LEMMA InitErrorTold == Init => ErrorTold
BY DEF Init, ErrorTold

\* Every report stores its error, and no step but Return makes a status of it.
LEMMA NextErrorTold == ErrorTold /\ [Next]_vars => ErrorTold'
<1> SUFFICES ASSUME ErrorTold, [Next]_vars PROVE ErrorTold'
  OBVIOUS
<1> USE DEF ErrorTold
<1>1. ASSUME NEW o \in {"c", "E", "q", "a", "v", "z", "h", "bad"}, Option(o) PROVE ErrorTold'
  BY <1>1 DEF Option
<1>2. CASE Engine
  BY <1>2 DEF Engine
<1>3. CASE Unread
  BY <1>3 DEF Unread
<1>4. CASE Test
  BY <1>4 DEF Test
<1>5. ASSUME NEW out, NEW failing, Preprocess(Head(files), out, failing) PROVE ErrorTold'
  BY <1>5 DEF Preprocess
<1>6. ASSUME Parse(Head(text).of) PROVE ErrorTold'
  BY <1>6 DEF Parse, Store, controlVars
<1>7. CASE ParseError
  BY <1>7 DEF ParseError, controlVars
<1>8. ASSUME NEW failing, EndOfFile(failing) PROVE ErrorTold'
  BY <1>8 DEF EndOfFile, Removal
<1>9. CASE Start
  BY <1>9 DEF Start
<1>10. CASE NoSimulation
  BY <1>10 DEF NoSimulation
<1>11. ASSUME NEW w, NEW e, SetUp(w, e) PROVE ErrorTold'
  <2>1. CASE UNCHANGED driverVars
    BY <2>1 DEF driverVars, controlVars
  <2>2. CASE e # "SE_NONE" /\ Fatal(e)
    BY <2>2, <1>11 DEF SetUp
  <2> QED BY <1>11, <2>1, <2>2 DEF SetUp
<1>12. CASE SetupDone
  BY <1>12 DEF SetupDone
<1>13. CASE Simulate
  <2>1. CASE Silent /\ phase' = "check"
    BY <1>13, <2>1 DEF Simulate
  <2>2. CASE Fatal("SE_FILEOPEN")
    BY <1>13, <2>2 DEF Simulate
  <2> QED BY <1>13, <2>1, <2>2 DEF Simulate
<1>14. CASE Return
  BY <1>14 DEF Return
<1>15. CASE UNCHANGED vars
  BY <1>15 DEF vars, driverVars, controlVars
<1> QED
  BY <1>1, <1>2, <1>3, <1>4, <1>5, <1>6, <1>7, <1>8, <1>9, <1>10, <1>11, <1>12, <1>13, <1>14,
     <1>15 DEF Next, Over

-----------------------------------------------------------------------------
\* What is on the disk after writing and removing files.
LEMMA DiskWithDomain ==
  ASSUME NEW f, NEW content, NEW S
  PROVE  DOMAIN DiskWith(f, content, S) = {f} \cup S
BY DEF DiskWith

\* Removing a file takes it alone.
LEMMA WithoutDomain ==
  ASSUME NEW S
  PROVE  DOMAIN Without(S) = DOMAIN disk \ S
BY DEF Without

\* A temporary file that was not there at first is that of the file being
\* parsed, or one that could not be opened again or removed.
TempKnown ==
  \A f \in DOMAIN disk :
    f.ext = "vt" => \/ f \in DOMAIN session.disk
                    \/ phase = "parse" /\ f = Temp(Head(files))
                    \/ Clinging /\ reported

\* The files there are at the start are the user's.
LEMMA InitTempKnown == Init => TempKnown
BY DEF Init, TempKnown

\* A step that is not about the files on the disk.
LEMMA DiskKept ==
  ASSUME TempKnown, UNCHANGED <<session, disk>>, reported => reported',
         phase = "parse" => phase' = "parse" /\ files' = files
  PROVE  TempKnown'
BY DEF TempKnown, Temp, Clinging

\* What removing a temporary file leaves: without a fault, all the others.
LEMMA RemovedDomain ==
  ASSUME NEW f, NEW content, NEW failing
  PROVE  /\ DOMAIN Removed(f, content, failing) \subseteq {Temp(f)} \cup DOMAIN disk
         /\ "remove" \notin failing => Temp(f) \notin DOMAIN Removed(f, content, failing)
<1>1. CASE "remove" \in failing
  <2>1. Removed(f, content, failing) = DiskWith(Temp(f), content, DOMAIN disk)
    BY <1>1 DEF Removed, With
  <2>2. DOMAIN DiskWith(Temp(f), content, DOMAIN disk) = {Temp(f)} \cup DOMAIN disk
    BY DiskWithDomain
  <2> QED BY <1>1, <2>1, <2>2
<1>2. CASE "remove" \notin failing
  BY <1>2, WithoutDomain DEF Removed
<1> QED BY <1>1, <1>2

\* A step after which the temporary file of f is on the disk at most when it
\* could not be cleared away, which was then reported.
LEMMA ClearedAway ==
  ASSUME TempKnown, NEW f, NEW failing \in SUBSET session.faults,
         session' = session, reported => reported',
         DOMAIN disk' \subseteq {Temp(f), Saved(f)} \cup DOMAIN disk,
         phase = "parse" => f = Head(files),
         Temp(f) \in DOMAIN disk' =>
           Temp(f) \in DOMAIN disk \/ (failing \cap {"reopen", "remove"} # {} /\ reported'),
         phase = "parse" /\ Temp(f) \in DOMAIN disk' =>
           failing \cap {"reopen", "remove"} # {} /\ reported'
  PROVE  TempKnown'
<1> SUFFICES ASSUME NEW g \in DOMAIN disk', g.ext = "vt",
                    g \notin DOMAIN session.disk, ~(Clinging /\ reported')
             PROVE  FALSE
  BY DEF TempKnown, Clinging
<1>1. g # Saved(f)
  BY DEF Saved
<1>2. failing \cap {"reopen", "remove"} # {} => Clinging
  BY DEF Clinging
<1>3. g \in DOMAIN disk
  BY <1>1, <1>2
<1>4. phase = "parse" /\ g = Temp(Head(files))
  BY <1>3 DEF TempKnown
<1> QED BY <1>2, <1>4

\* Only Preprocess makes a temporary file, and it leads to the parser, which
\* removes it when the file ends.
LEMMA NextTempKnown == TempKnown /\ [Next]_vars => TempKnown'
<1> SUFFICES ASSUME TempKnown, [Next]_vars PROVE TempKnown'
  OBVIOUS
<1>1. ASSUME NEW o \in {"c", "E", "q", "a", "v", "z", "h", "bad"}, Option(o) PROVE TempKnown'
  BY <1>1, DiskKept DEF Option
<1>2. CASE Engine
  BY <1>2, DiskKept DEF Engine
<1>3. CASE Unread
  BY <1>3, DiskKept DEF Unread
<1>4. CASE Test
  BY <1>4, DiskKept DEF Test
<1>5. ASSUME NEW out, NEW failing \in SUBSET session.faults, NEW f, Preprocess(f, out, failing)
      PROVE  TempKnown'
  <2>1. phase = "preprocess" /\ f = Head(files) /\ session' = session /\ (reported => reported')
    BY <1>5 DEF Preprocess
  <2>2. CASE out \in {"stopped", "unwritable"} \/ "reopen" \in failing
    <3>1. disk' = NoSource(f, out, failing) /\ reported'
      BY <1>5, <2>2 DEF Preprocess
    <3>2. /\ DOMAIN disk' \subseteq {Temp(f)} \cup DOMAIN disk
          /\ Temp(f) \in DOMAIN disk' =>
               Temp(f) \in DOMAIN disk \/ failing \cap {"reopen", "remove"} # {}
      <4>1. CASE out = "unwritable"
        BY <3>1, <4>1 DEF NoSource
      <4>2. CASE out = "stopped"
        <5>1. disk' = Removed(f, << >>, failing)
          BY <3>1, <4>2 DEF NoSource
        <5> QED BY <5>1, RemovedDomain
      <4>3. CASE out \notin {"stopped", "unwritable"}
        <5>1. /\ disk' = DiskWith(Temp(f), Preprocessed(f, out), DOMAIN disk)
              /\ "reopen" \in failing
          BY <2>2, <3>1, <4>3 DEF NoSource, With
        <5>2. DOMAIN disk' = {Temp(f)} \cup DOMAIN disk
          BY <5>1, DiskWithDomain
        <5> QED BY <5>1, <5>2
      <4> QED BY <4>1, <4>2, <4>3
    <3> QED BY <2>1, <3>1, <3>2, ClearedAway
  <2>3. CASE ~(out \in {"stopped", "unwritable"} \/ "reopen" \in failing) /\ "PREPROCESS_ONLY" \in bits
    <3>1. disk' = SavedAs(f, Preprocessed(f, out), failing) /\ ("rename" \in failing => reported')
      BY <1>5, <2>3 DEF Preprocess
    <3>2. /\ DOMAIN disk' \subseteq {Temp(f), Saved(f)} \cup DOMAIN disk
          /\ Temp(f) \in DOMAIN disk' => "remove" \in failing /\ "rename" \in failing
      <4>1. CASE "rename" \in failing
        <5>1. disk' = Removed(f, Preprocessed(f, out), failing)
          BY <3>1, <4>1 DEF SavedAs
        <5> QED BY <4>1, <5>1, RemovedDomain
      <4>2. CASE "rename" \notin failing
        <5>1. disk' = DiskWith(Saved(f), Preprocessed(f, out), DOMAIN disk \ {Temp(f)})
          BY <3>1, <4>2 DEF SavedAs
        <5>2. DOMAIN disk' = {Saved(f)} \cup (DOMAIN disk \ {Temp(f)})
          BY <5>1, DiskWithDomain
        <5>3. Saved(f) # Temp(f)
          BY DEF Saved, Temp
        <5> QED BY <5>2, <5>3
      <4> QED BY <4>1, <4>2
    <3> QED BY <2>1, <3>1, <3>2, ClearedAway
  <2>4. CASE ~(out \in {"stopped", "unwritable"} \/ "reopen" \in failing) /\ "PREPROCESS_ONLY" \notin bits
    <3>1. DOMAIN disk' = {Temp(f)} \cup DOMAIN disk
      BY <1>5, <2>4, DiskWithDomain DEF Preprocess, With
    <3>2. phase' = "parse" /\ files' = files /\ reported' = reported
      BY <1>5, <2>4 DEF Preprocess
    <3> QED BY <2>1, <3>1, <3>2 DEF TempKnown, Temp, Clinging
  <2> QED BY <2>2, <2>3, <2>4
<1>6. ASSUME NEW m, Parse(m) PROVE TempKnown'
  <2>1. DOMAIN disk' \subseteq {Object(Head(files))} \cup DOMAIN disk
    <3>1. disk' = disk \/ disk' = With(Object(Head(files)), <<Head(text)>>)
      BY <1>6 DEF Parse
    <3>2. CASE disk' = With(Object(Head(files)), <<Head(text)>>)
      <4>1. DOMAIN With(Object(Head(files)), <<Head(text)>>)
              = {Object(Head(files))} \cup DOMAIN disk
        BY DiskWithDomain DEF With
      <4> QED BY <3>2, <4>1
    <3> QED BY <3>1, <3>2
  <2>2. UNCHANGED <<session, phase, files>> /\ (reported => reported')
    BY <1>6 DEF Parse, Store, controlVars
  <2> QED BY <2>1, <2>2 DEF TempKnown, Object, Temp, Clinging
<1>7. CASE ParseError
  BY <1>7, DiskKept DEF ParseError, controlVars
<1>8. ASSUME NEW failing \in SUBSET session.faults, EndOfFile(failing) PROVE TempKnown'
  <2>1. disk' = Removed(Head(files), disk[Temp(Head(files))], failing)
    BY <1>8 DEF EndOfFile
  <2>2. /\ session' = session /\ (reported => reported')
        /\ "remove" \in failing => reported'
    BY <1>8 DEF EndOfFile, Removal
  <2>3. /\ DOMAIN disk' \subseteq {Temp(Head(files))} \cup DOMAIN disk
        /\ Temp(Head(files)) \in DOMAIN disk' => "remove" \in failing
    BY <2>1, RemovedDomain
  <2> QED BY <2>2, <2>3, ClearedAway
<1>9. CASE Start
  BY <1>9, DiskKept DEF Start
<1>10. CASE NoSimulation
  BY <1>10, DiskKept DEF NoSimulation
<1>11. ASSUME NEW w, NEW e, SetUp(w, e) PROVE TempKnown'
  <2>1. UNCHANGED <<session, disk>> /\ phase = "setup" /\ (reported => reported')
    BY <1>11 DEF SetUp, driverVars, controlVars
  <2> QED BY <2>1, DiskKept
<1>12. CASE SetupDone
  BY <1>12, DiskKept DEF SetupDone
<1>13. CASE Simulate
  BY <1>13, DiskKept DEF Simulate
<1>14. CASE Return
  BY <1>14, DiskKept DEF Return
<1>15. CASE UNCHANGED vars
  BY <1>15, DiskKept DEF vars, driverVars, controlVars
<1> QED
  BY <1>1, <1>2, <1>3, <1>4, <1>5, <1>6, <1>7, <1>8, <1>9, <1>10, <1>11, <1>12, <1>13, <1>14,
     <1>15 DEF Next, Over

\* However a run ends, its status is right, and a temporary file is left only
\* if it could not be opened again or removed, which the status then tells
\* (tmpfile_remove, tmpfile_save and sim_preprocess).
THEOREM RunEndsClean == Spec => []EndsClean
<1>1. TempKnown /\ ErrorTold => NoTempLeft
  BY DEF TempKnown, ErrorTold, NoTempLeft
<1>2. ErrorTold => ExitTells
  BY DEF ErrorTold, ExitTells
<1> QED
  BY <1>1, <1>2, InitErrorTold, NextErrorTold, InitTempKnown, NextTempKnown, PTL
  DEF Spec, EndsClean
-----------------------------------------------------------------------------
\* Nothing has gone wrong, and no mode keeps the program from simulating.
Sound == error = "SE_NONE" /\ bits \cap Modes = {}
Reading == phase \in {"files", "preprocess", "parse"}

\* While nothing has gone wrong, every module that was parsed was entered.
AllEntered ==
  /\ phase = "args" => modulelist = loaded
  /\ Reading /\ Sound => modulelist = loaded
  /\ phase \in {"setup", "simulate"} => error = "SE_NONE" /\ modulelist = loaded

\* Nothing has been parsed when the program starts.
LEMMA InitAllEntered == Init => AllEntered
BY DEF Init, AllEntered, Reading

\* The states of the engine leave its modes alone.
LEMMA ModesKept ==
  ASSUME NEW s \in {"PREPROCESS", "COMPILE"}
  PROVE  InState(s) \cap Modes = bits \cap Modes
BY DEF InState, Modes

\* A module is left out only after an error, or when modules are written to
\* files, and both keep the simulation from starting.
LEMMA NextAllEntered == AllEntered /\ [Next]_vars => AllEntered'
<1> SUFFICES ASSUME AllEntered, [Next]_vars PROVE AllEntered'
  OBVIOUS
<1> USE DEF AllEntered, Reading, Sound
<1>1. ASSUME NEW o \in {"c", "E", "q", "a", "v", "z", "h", "bad"}, Option(o) PROVE AllEntered'
  BY <1>1 DEF Option
<1>2. CASE Engine
  BY <1>2 DEF Engine
<1>3. CASE Unread
  BY <1>3 DEF Unread
<1>4. CASE Test
  <2>1. CASE bits' = InState("PREPROCESS") /\ phase' = "preprocess"
    <3>1. bits' \cap Modes = bits \cap Modes
      BY <2>1, ModesKept
    <3>2. error' = "SE_NONE" => error = "SE_NONE"
      BY <1>4 DEF Test
    <3> QED BY <1>4, <2>1, <3>1, <3>2 DEF Test
  <2>2. CASE phase' = "check"
    BY <2>2
  <2> QED BY <1>4, <2>1, <2>2 DEF Test
<1>5. ASSUME NEW f, NEW out, NEW failing, Preprocess(f, out, failing) PROVE AllEntered'
  <2>1. bits' \cap Modes = bits \cap Modes
    BY <1>5, ModesKept DEF Preprocess
  <2>2. error' = "SE_NONE" => error = "SE_NONE"
    BY <1>5 DEF Preprocess
  <2>3. phase = "preprocess" /\ phase' \in {"files", "parse"} /\ UNCHANGED <<loaded, modulelist>>
    BY <1>5 DEF Preprocess
  <2> QED BY <2>1, <2>2, <2>3
<1>6. ASSUME NEW m, Parse(m) PROVE AllEntered'
  <2>1. phase = "parse" /\ phase' = "parse" /\ bits' = bits
    BY <1>6 DEF Parse, controlVars
  <2>2. CASE error # "SE_NONE" \/ "COMPILE_ONLY" \in bits
    BY <1>6, <2>1, <2>2 DEF Parse, Modes
  <2>3. CASE error = "SE_NONE" /\ "COMPILE_ONLY" \notin bits
    BY <1>6, <2>1, <2>3 DEF Parse, Store
  <2> QED BY <2>2, <2>3
<1>7. CASE ParseError
  BY <1>7 DEF ParseError, controlVars
<1>8. ASSUME NEW failing, EndOfFile(failing) PROVE AllEntered'
  BY <1>8 DEF EndOfFile, Removal
<1>9. CASE Start
  BY <1>9 DEF Start, Prevented
<1>10. CASE NoSimulation
  BY <1>10 DEF NoSimulation
<1>11. ASSUME NEW w, NEW e, SetUp(w, e) PROVE AllEntered'
  <2>1. CASE UNCHANGED driverVars
    BY <2>1 DEF driverVars, controlVars
  <2>2. CASE phase' = "check"
    BY <2>2
  <2> QED BY <1>11, <2>1, <2>2 DEF SetUp
<1>12. CASE SetupDone
  BY <1>12 DEF SetupDone
<1>13. CASE Simulate
  BY <1>13 DEF Simulate
<1>14. CASE Return
  BY <1>14 DEF Return
<1>15. CASE UNCHANGED vars
  BY <1>15 DEF vars, driverVars, controlVars
<1> QED
  BY <1>1, <1>2, <1>3, <1>4, <1>5, <1>6, <1>7, <1>8, <1>9, <1>10, <1>11, <1>12, <1>13, <1>14,
     <1>15 DEF Next, Over
-----------------------------------------------------------------------------
\* The files of the command line that are still to be read.
Pending(f) == \E j \in DOMAIN files : files[j] = f
Existing(f) == f \in DOMAIN session.disk

FilesTyped == session \in Sessions /\ opts \in Seq(STRING) /\ files \in Seq(FileNames)

\* While nothing has gone wrong, a file named at the start is there or still to
\* be read, and no file has come to be but the temporary one.
Covered == \A k \in DOMAIN session.files : Existing(session.files[k]) \/ Pending(session.files[k])
DiskAsItWas ==
  \A f \in DOMAIN disk : Existing(f) \/ (phase = "parse" /\ f = Temp(Head(files)))
AllRead ==
  /\ FilesTyped
  /\ phase = "args" => disk = session.disk /\ Covered
  /\ phase \in {"preprocess", "parse"} => files # << >>
  /\ Reading /\ Sound =>
       DiskAsItWas /\ Covered /\ (phase # "files" => Existing(Head(files)))
  /\ phase \in {"setup", "simulate"} =>
       \A k \in DOMAIN session.files : Existing(session.files[k])

\* Every file is still to be read when the program starts.
LEMMA InitAllRead == Init => AllRead
BY SessionsAssumption DEF Init, AllRead, FilesTyped, Covered, Pending, Reading

\* Reading a file takes it from those still to be read, and no other.
LEMMA TailPending ==
  ASSUME FilesTyped, files # << >>, files' = Tail(files), NEW f, Pending(f), f # Head(files)
  PROVE  Pending(f)'
<1>1. PICK j \in DOMAIN files : files[j] = f
  BY DEF Pending
<1>2. files \in Seq(FileNames) /\ Len(files) \in Nat /\ DOMAIN files = 1 .. Len(files)
  BY LenProperties DEF FilesTyped
<1>3. j \in 2 .. Len(files)
  BY <1>1, <1>2
<1>4. Len(Tail(files)) = Len(files) - 1
      /\ \A i \in 1 .. Len(files) - 1 : Tail(files)[i] = files[i + 1]
  BY <1>2, HeadTailProperties
<1>5. j - 1 \in DOMAIN files' /\ files'[j - 1] = f
  BY <1>1, <1>2, <1>3, <1>4, HeadTailProperties
<1> QED BY <1>5 DEF Pending

\* What is left of the files are files.
LEMMA TailTyped ==
  ASSUME FilesTyped, files # << >>, UNCHANGED <<session, opts>>, files' = Tail(files)
  PROVE  FilesTyped'
BY HeadTailProperties DEF FilesTyped

\* Reading one that exists leaves every other one that is missing to be read.
LEMMA TailCovered ==
  ASSUME FilesTyped, files # << >>, files' = Tail(files), session' = session,
         Covered, Existing(Head(files))
  PROVE  Covered'
<1> SUFFICES ASSUME NEW k \in DOMAIN session.files, ~Existing(session.files[k])
             PROVE  Pending(session.files[k])'
  BY DEF Covered, Existing
<1>1. Pending(session.files[k]) /\ session.files[k] # Head(files)
  BY DEF Covered
<1> QED BY <1>1, TailPending

\* An option, also one that makes files of those behind it.
LEMMA OptionAllRead ==
  ASSUME AllRead, NEW o, Option(o)
  PROVE  AllRead'
<1> DEFINE more == [k \in DOMAIN Tail(opts) |-> NotAFile(opts[k + 1])]
<1>1. /\ phase = "args" /\ opts # << >> /\ disk = session.disk /\ Covered /\ FilesTyped
      /\ session' = session /\ disk' = disk /\ phase' \in {"args", "done"}
  BY DEF Option, AllRead
<1>2. Tail(opts) \in Seq(STRING) /\ opts' \in Seq(STRING)
  <2>1. Tail(opts) \in Seq(STRING)
    BY <1>1, HeadTailProperties DEF FilesTyped
  <2>2. opts' = << >> \/ opts' = Tail(opts)
    BY DEF Option
  <2>3. << >> \in Seq(STRING)
    BY EmptySeq
  <2> QED BY <2>1, <2>2, <2>3
<1>3. CASE o # "h"
  <2>1. files' = files
    BY <1>3 DEF Option
  <2> QED BY <1>1, <1>2, <2>1 DEF AllRead, FilesTyped, Covered, Pending, Existing, Reading
<1>4. CASE o = "h"
  <2>1. files' = more \o files
    BY <1>4 DEF Option
  <2>2. more \in Seq(FileNames)
    <3>1. DOMAIN Tail(opts) = 1 .. (Len(opts) - 1) /\ Len(opts) - 1 \in Nat
      BY <1>1, HeadTailProperties, LenProperties DEF FilesTyped
    <3>2. \A k \in 1 .. (Len(opts) - 1) : opts[k + 1] \in STRING
      <4>1. \A k \in 1 .. Len(opts) : opts[k] \in STRING
        BY <1>1, ElementOfSeq DEF FilesTyped
      <4> QED BY <3>1, <4>1
    <3>3. ASSUME NEW n \in STRING PROVE NotAFile(n) \in FileNames
      BY <3>3 DEF NotAFile, FileNames, Extensions
    <3>4. more \in [1 .. (Len(opts) - 1) -> FileNames]
      BY <3>1, <3>2, <3>3
    <3> QED BY <3>1, <3>4, SeqDef
  <2>3. files' \in Seq(FileNames)
    BY <1>1, <2>1, <2>2, ConcatProperties DEF FilesTyped
  <2>4. ASSUME NEW f, Pending(f) PROVE Pending(f)'
    <3>1. PICK j \in DOMAIN files : files[j] = f
      BY <2>4 DEF Pending
    <3>2. DOMAIN files = 1 .. Len(files) /\ Len(files) \in Nat /\ Len(more) \in Nat
      BY <1>1, <2>2, LenProperties DEF FilesTyped
    <3>3. Len(more \o files) = Len(more) + Len(files) /\ files'[Len(more) + j] = files[j]
      BY <1>1, <2>1, <2>2, <3>1, <3>2, ConcatProperties DEF FilesTyped
    <3>4. Len(more) + j \in DOMAIN files'
      <4>1. Len(files') = Len(more) + Len(files) /\ DOMAIN files' = 1 .. Len(files')
        BY <2>1, <2>3, <3>3, LenProperties
      <4>2. j \in 1 .. Len(files)
        BY <3>1, <3>2
      <4>3. Len(more) + j \in 1 .. (Len(more) + Len(files))
        <5> HIDE DEF more
        <5> QED BY <3>2, <4>2
      <4> QED BY <4>1, <4>3
    <3> QED BY <3>1, <3>3, <3>4 DEF Pending
  <2>5. Covered'
    BY <1>1, <2>4 DEF Covered, Existing
  <2> QED BY <1>1, <1>2, <2>3, <2>5 DEF AllRead, FilesTyped, Reading
<1> QED BY <1>3, <1>4

\* A step that leaves the files alone.
LEMMA FilesKept ==
  ASSUME AllRead, UNCHANGED <<session, opts, files, disk, phase>>,
         error' = "SE_NONE" => error = "SE_NONE",
         bits' \cap Modes = bits \cap Modes
  PROVE  AllRead'
BY DEF AllRead, FilesTyped, Covered, Pending, Existing, DiskAsItWas, Sound, Reading, Temp

\* A step to the end of the run.
LEMMA RunLeft ==
  ASSUME AllRead, UNCHANGED <<session, opts>>, files' = files \/ (files # << >> /\ files' = Tail(files)),
         phase' \in {"check", "done"}
  PROVE  AllRead'
<1>1. FilesTyped'
  BY TailTyped DEF AllRead, FilesTyped
<1> QED BY <1>1 DEF AllRead, Reading

\* A file that is preprocessed stays the first one until it is parsed.
LEMMA PreprocessAllRead ==
  ASSUME AllRead, NEW f, NEW out, NEW failing, Preprocess(f, out, failing)
  PROVE  AllRead'
<1>1. /\ phase = "preprocess" /\ files # << >> /\ f = Head(files) /\ FilesTyped
      /\ UNCHANGED <<session, opts>> /\ phase' \in {"files", "parse"}
      /\ Sound => DiskAsItWas /\ Covered /\ Existing(f)
  BY DEF Preprocess, AllRead, Reading
<1>2. CASE phase' = "files"
  <2>1. files' = Tail(files) /\ ~Sound'
    BY <1>1, <1>2, ModesKept DEF Preprocess, Sound, Modes
  <2>2. FilesTyped'
    BY <1>1, <2>1, TailTyped
  <2> QED BY <1>2, <2>1, <2>2 DEF AllRead
<1>3. CASE phase' = "parse"
  <2>1. /\ files' = files /\ error' = error /\ bits' = InState("COMPILE")
        /\ disk' = With(Temp(f), Preprocessed(f, out))
    BY <1>1, <1>3 DEF Preprocess
  <2>2. Sound' => Sound
    BY <2>1, ModesKept DEF Sound
  <2>3. DOMAIN disk' = {Temp(f)} \cup DOMAIN disk
    BY <2>1, DiskWithDomain DEF With
  <2>4. Sound => DiskAsItWas'
    BY <1>1, <1>3, <2>1, <2>3 DEF DiskAsItWas, Existing, Temp
  <2>5. Sound => Covered' /\ Existing(Head(files))'
    BY <1>1, <2>1 DEF Covered, Existing, Pending
  <2>6. FilesTyped'
    BY <1>1, <2>1 DEF FilesTyped
  <2> QED BY <1>1, <1>3, <2>1, <2>2, <2>4, <2>5, <2>6 DEF AllRead
<1> QED BY <1>1, <1>2, <1>3

\* The engine begins with the files of the user.
LEMMA EngineAllRead == AllRead /\ Engine => AllRead'
<1> SUFFICES ASSUME AllRead, Engine PROVE AllRead'
  OBVIOUS
<1>1. /\ phase = "args" /\ disk = session.disk /\ Covered /\ FilesTyped
      /\ UNCHANGED <<session, opts, files, disk>>
  BY DEF Engine, AllRead
<1>2. CASE phase' \in {"check", "done"}
  BY <1>1, <1>2, RunLeft
<1>3. CASE phase' = "files"
  <2>1. DiskAsItWas' /\ Covered' /\ FilesTyped'
    BY <1>1 DEF DiskAsItWas, Covered, Existing, Pending, FilesTyped
  <2> QED BY <1>3, <2>1 DEF AllRead
<1> QED BY <1>2, <1>3 DEF Engine

\* A file that could not be read leaves an error.
LEMMA UnreadAllRead == AllRead /\ Unread => AllRead'
<1> SUFFICES ASSUME AllRead, Unread PROVE AllRead'
  OBVIOUS
<1>1. UNCHANGED <<session, opts>> /\ files # << >> /\ (files' = files \/ files' = Tail(files))
  BY DEF Unread
<1>2. CASE phase' = "check"
  BY <1>1, <1>2, RunLeft
<1>3. CASE phase' = "files"
  <2>1. error' # "SE_NONE"
    BY DEF Unread
  <2>2. FilesTyped'
    BY <1>1, TailTyped DEF AllRead, FilesTyped
  <2> QED BY <1>3, <2>1, <2>2 DEF AllRead, Sound
<1> QED BY <1>2, <1>3 DEF Unread

\* A file that is taken for Verilog was there from the start.
LEMMA TestAllRead == AllRead /\ Test => AllRead'
<1> SUFFICES ASSUME AllRead, Test PROVE AllRead'
  OBVIOUS
<1>1. /\ phase = "files" /\ files # << >> /\ Head(files) \in DOMAIN disk
      /\ UNCHANGED <<session, opts, files, disk>>
  BY DEF Test
<1>2. CASE phase' = "check"
  BY <1>1, <1>2, RunLeft
<1>3. CASE phase' = "preprocess" /\ bits' = InState("PREPROCESS")
  <2>1. Sound' => Sound
    BY <1>3, ModesKept DEF Test, Sound
  <2>2. Sound => DiskAsItWas /\ Covered
    BY <1>1 DEF AllRead, Reading
  <2>3. DiskAsItWas => DiskAsItWas' /\ Existing(Head(files))'
    BY <1>1 DEF DiskAsItWas, Existing
  <2>4. Covered => Covered'
    BY <1>1 DEF Covered, Existing, Pending
  <2>5. FilesTyped'
    BY <1>1 DEF AllRead, FilesTyped
  <2> QED BY <1>1, <1>3, <2>1, <2>2, <2>3, <2>4, <2>5 DEF AllRead
<1> QED BY <1>2, <1>3 DEF Test

\* Without object files the disk stays as it is while a file is parsed.
LEMMA ParseAllRead ==
  ASSUME AllRead, NEW m, Parse(m)
  PROVE  AllRead'
<1>1. phase = "parse" /\ UNCHANGED <<session, phase, opts, files, bits>>
  BY DEF Parse, controlVars
<1>2. CASE error # "SE_NONE" \/ "COMPILE_ONLY" \in bits
  <2>1. ~Sound'
    BY <1>1, <1>2 DEF Parse, Sound, Modes
  <2>2. FilesTyped'
    BY <1>1 DEF AllRead, FilesTyped
  <2> QED BY <1>1, <2>1, <2>2 DEF AllRead
<1>3. CASE error = "SE_NONE" /\ "COMPILE_ONLY" \notin bits
  <2>1. disk' = disk
    BY <1>3 DEF Parse
  <2> QED BY <1>1, <1>3, <2>1, FilesKept
<1> QED BY <1>2, <1>3

\* A file that was parsed was there, and its temporary file is gone, or an
\* error was reported.
LEMMA EndOfFileAllRead ==
  ASSUME AllRead, NEW failing, EndOfFile(failing)
  PROVE  AllRead'
<1>1. /\ phase = "parse" /\ phase' = "files" /\ files # << >> /\ files' = Tail(files)
      /\ UNCHANGED <<session, opts, bits>> /\ FilesTyped
  BY DEF EndOfFile, AllRead
<1>2. error' = "SE_NONE" => DOMAIN disk' = DOMAIN disk \ {Temp(Head(files))}
  BY WithoutDomain DEF EndOfFile, Removal, Removed
<1>3. FilesTyped'
  BY <1>1, TailTyped
<1>4. ASSUME Sound, Sound' PROVE DiskAsItWas' /\ Covered'
  <2>1. DiskAsItWas /\ Covered /\ Existing(Head(files))
    BY <1>1, <1>4 DEF AllRead, Reading
  <2>2. DiskAsItWas'
    BY <1>1, <1>2, <1>4, <2>1 DEF DiskAsItWas, Existing, Sound
  <2> QED BY <1>1, <2>1, <2>2, TailCovered
<1>5. Sound' => Sound
  BY <1>1 DEF Sound, EndOfFile, Removal
<1> QED BY <1>1, <1>3, <1>4, <1>5 DEF AllRead

\* When no file is left, all were there.
LEMMA StartAllRead == AllRead /\ Start => AllRead'
<1> SUFFICES ASSUME AllRead, Start PROVE AllRead'
  OBVIOUS
<1>1. /\ phase = "files" /\ files = << >> /\ Sound
      /\ UNCHANGED <<session, opts, files, disk>> /\ phase' \in {"check", "setup"}
  BY DEF Start, Prevented, Sound
<1>2. CASE phase' = "check"
  BY <1>1, <1>2, RunLeft
<1>3. CASE phase' = "setup"
  <2>1. Covered /\ FilesTyped
    BY <1>1 DEF AllRead, Reading
  <2>2. \A f : ~Pending(f)
    BY <1>1 DEF Pending
  <2>3. \A k \in DOMAIN session.files : Existing(session.files[k])
    BY <2>1, <2>2 DEF Covered
  <2> QED BY <1>1, <1>3, <2>1, <2>3 DEF AllRead, FilesTyped, Existing, Reading
<1> QED BY <1>1, <1>2, <1>3

\* Every step keeps account of the files.
LEMMA NextAllRead == AllRead /\ [Next]_vars => AllRead'
<1> SUFFICES ASSUME AllRead, [Next]_vars PROVE AllRead'
  OBVIOUS
<1>1. ASSUME NEW o \in {"c", "E", "q", "a", "v", "z", "h", "bad"}, Option(o) PROVE AllRead'
  BY <1>1, OptionAllRead
<1>2. CASE Engine \/ Unread \/ Test
  BY <1>2, EngineAllRead, UnreadAllRead, TestAllRead
<1>3. ASSUME NEW out, NEW failing, Preprocess(Head(files), out, failing) PROVE AllRead'
  BY <1>3, PreprocessAllRead
<1>4. ASSUME Parse(Head(text).of) PROVE AllRead'
  BY <1>4, ParseAllRead
<1>5. CASE ParseError
  BY <1>5, FilesKept DEF ParseError, controlVars
<1>6. ASSUME NEW failing, EndOfFile(failing) PROVE AllRead'
  BY <1>6, EndOfFileAllRead
<1>7. CASE Start \/ NoSimulation
  BY <1>7, StartAllRead, RunLeft DEF NoSimulation
<1>8. ASSUME NEW w, NEW e, SetUp(w, e) PROVE AllRead'
  <2>1. CASE UNCHANGED driverVars
    BY <2>1, FilesKept DEF driverVars, controlVars
  <2>2. CASE Fatal(e)
    BY <1>8, <2>2, RunLeft DEF SetUp, driverVars, controlVars
  <2> QED BY <1>8, <2>1, <2>2 DEF SetUp
<1>9. CASE SetupDone
  <2>1. /\ phase = "setup" /\ phase' = "simulate"
        /\ UNCHANGED <<session, opts, files, disk>>
    BY <1>9 DEF SetupDone
  <2> QED BY <2>1 DEF AllRead, FilesTyped, Existing, Reading
<1>10. CASE Simulate
  BY <1>10, RunLeft DEF Simulate
<1>11. CASE Return
  BY <1>11, RunLeft DEF Return
<1>12. CASE UNCHANGED vars
  BY <1>12, FilesKept DEF vars, driverVars, controlVars
<1> QED
  BY <1>1, <1>2, <1>3, <1>4, <1>5, <1>6, <1>7, <1>8, <1>9, <1>10, <1>11, <1>12 DEF Next, Over

\* What is simulated is the whole of what was named and parsed, and nothing
\* was reported before (vbs_sim_start and store_module_to_symbol_table).
THEOREM SimulatesWhatWasRead == Spec => []SimulatedClean
<1>1. ErrorTold /\ AllEntered /\ AllRead => SimulatedClean
  BY DEF ErrorTold, AllEntered, AllRead, SimulatedClean, IsSetUp, Existing
<1> QED
  BY <1>1, InitErrorTold, NextErrorTold, InitAllEntered, NextAllEntered, InitAllRead, NextAllRead,
     PTL DEF Spec
=============================================================================
