-------------------------------- MODULE Driver --------------------------------
(***************************************************************************)
(* One run of the program, from its arguments to its exit status: options  *)
(* (main.cc), the files one after the other through the preprocessor and   *)
(* the parser (sim.cc, parser.c), setup (Elaboration), and the simulation, *)
(* of which only the outcome is kept; and how errors are reported          *)
(* (common/error.cc).                                                      *)
(*                                                                         *)
(* A file name is [base, ext].  The content of a file is a sequence of     *)
(* [is, of]: "module" and which, "syntax" for text the grammar refuses,    *)
(* "unsupported" for what it knows but does not do.  A session is what the *)
(* user starts with, [opts, files, disk, vpp, faults]: vpp is what         *)
(* preprocessing a file may come to, and faults are the calls on temporary *)
(* files that may fail, each time or now and then.                         *)
(***************************************************************************)
EXTENDS Elaboration

CONSTANTS Sessions, TaskOrder   \* system tasks in the order they are entered

\* Verilog, its preprocessed and temporary files, object files, all others.
Extensions == {"v", "vp", "vt", "vo", "other", "none"}
FileNames == [base : STRING, ext : Extensions]

\* fopen of a temporary file for reading, remove and rename.
Faults == {"reopen", "remove", "rename"}
ASSUME SessionsAssumption ==
  \A s \in Sessions :
    s.opts \in Seq(STRING) /\ s.files \in Seq(FileNames) /\ s.faults \subseteq Faults

VARIABLES
  session,
  phase, opts, files,
  dumpOption,          \* one of the options that set up the dump was given
  bits,                \* vbs_error::_state
  error, reported,     \* vbs_error::_value; whether anything was reported
  disk,                \* the files there are
  text,                \* what is left to parse of a file
  loaded, modulelist,  \* modules the parser found complete, and those entered
  rc                   \* the exit status, an error or SE_NONE, which is 0

controlVars == <<phase, opts, files, dumpOption, bits>>
driverVars == <<session, controlVars, error, reported, disk, text, loaded, modulelist, rc>>
vars == <<driverVars, setupVars>>

Modes == {"PREPROCESS_ONLY", "COMPILE_ONLY"}
InState(s) == (bits \cap Modes) \cup {s}
-----------------------------------------------------------------------------
(***************************************************************************)
(* Errors.                                                                 *)
(***************************************************************************)

\* An unsupported construct is kept.
SetData(value, new) == IF value \in {"SE_SUPPORT", "SE_TFSUPPORT"} THEN value ELSE new

\* Only while files are read does an error let the program go on.
Warns(state) == state \cap {"PREPROCESS", "COMPILE"} # {}

Report(e) == error' = SetData(error, e) /\ reported' = TRUE
Silent == UNCHANGED <<error, reported>>

\* The next file, if the run goes on.
NextFile ==
  /\ phase' = IF Warns(bits) THEN "files" ELSE "check"
  /\ files' = IF Warns(bits) THEN Tail(files) ELSE files
-----------------------------------------------------------------------------
(***************************************************************************)
(* Arguments.                                                              *)
(***************************************************************************)

Exit(status) == phase' = "done" /\ rc' = status

ModeOf(o) == IF o = "c" THEN "COMPILE_ONLY" ELSE "PREPROCESS_ONLY"
NotAFile(o) == [base |-> o, ext |-> "none"]
Option(o) ==
  /\ phase = "args" /\ opts # <<>> /\ o = Head(opts)
  /\ opts' = IF o = "h" THEN <<>> ELSE Tail(opts)
  /\ dumpOption' = IF o = "h" THEN FALSE ELSE dumpOption \/ o \in {"a", "v", "z"}
  /\ bits' = IF o \in {"c", "E"} THEN (bits \ Modes) \cup {ModeOf(o)} ELSE bits
  \* Help ends the options: those that follow are files.
  /\ files' = IF o = "h" THEN [k \in DOMAIN Tail(opts) |-> NotAFile(opts[k + 1])] \o files
              ELSE files
  /\ IF o = "bad" THEN Exit("-1") /\ reported' = TRUE ELSE UNCHANGED <<phase, rc, reported>>
  /\ UNCHANGED <<session, error, disk, text, loaded, modulelist, setupVars>>

\* vbs_sim_init: the system tasks and functions.
SystemNode(t) ==
  [Node(t, GlobalScope, SystemTasks[t].kind) EXCEPT !.type = SystemTasks[t].type, !.done = TRUE]

\* A function also has a place for its value.
SystemFunction(t) == WithStorage(SystemNode(t), SystemTasks[t].range)
SystemEntry(t) ==
  IF SystemTasks[t].kind = "function" THEN SystemFunction(t) ELSE SystemNode(t)
Entries ==
  LET upto[k \in 0 .. Len(TaskOrder)] ==
        IF k = 0 THEN <<>> ELSE Added(upto[k - 1], SystemEntry(TaskOrder[k]))
  IN  upto[Len(TaskOrder)]

\* The options for the dump are stored in the engine before there is one.
Engine ==
  /\ phase = "args" /\ opts = <<>>
  /\ IF session.opts = <<>> /\ files = <<>> THEN Exit("SE_NONE") /\ UNCHANGED table
     ELSE IF dumpOption THEN Exit("crash") /\ UNCHANGED table
     ELSE /\ table' = Entries
          /\ phase' = IF files = <<>> THEN "check" ELSE "files"
          /\ UNCHANGED rc
  /\ UNCHANGED <<session, opts, files, dumpOption, bits, error, reported, disk, text, loaded,
                 modulelist, scope, placeVars, linkVars, dumpVars, work>>
-----------------------------------------------------------------------------
(***************************************************************************)
(* Files.                                                                  *)
(***************************************************************************)

Temp(f) == [base |-> f.base, ext |-> "vt"]
Saved(f) == [base |-> f.base, ext |-> "vp"]
Object(f) == [base |-> f.base, ext |-> "vo"]
DiskWith(f, content, others) ==
  [g \in {f} \cup others |-> IF g = f THEN content ELSE disk[g]]
With(f, content) == DiskWith(f, content, DOMAIN disk)
Without(S) == [f \in DOMAIN disk \ S |-> disk[f]]

\* A file that cannot be read, and an object file, whose numbers were written
\* without separators.
Unread ==
  /\ phase = "files" /\ files # <<>>
  /\ \/ Head(files) \notin DOMAIN disk /\ Report("SE_FILEOPEN")
     \/ Head(files) \in DOMAIN disk /\ Head(files).ext = "vo" /\ Report("SE_VBSOBJ")
  /\ NextFile
  /\ UNCHANGED <<session, opts, dumpOption, bits, disk, text, loaded, modulelist, rc, setupVars>>

\* A source file.  After a warning one with an extension nobody knows is taken
\* for one.
Test ==
  /\ phase = "files" /\ files # <<>>
  /\ Head(files) \in DOMAIN disk /\ Head(files).ext # "vo"
  /\ IF Head(files).ext = "v"
     THEN Silent /\ bits' = InState("PREPROCESS") /\ phase' = "preprocess"
     ELSE /\ Report("SE_SUPPORT")
          /\ IF Warns(bits) THEN bits' = InState("PREPROCESS") /\ phase' = "preprocess"
             ELSE UNCHANGED bits /\ phase' = "check"
  /\ UNCHANGED <<session, opts, files, dumpOption, disk, text, loaded, modulelist, rc, setupVars>>

\* What the preprocessor made of a file.  That it failed goes unnoticed, and
\* a file that is its own temporary file is empty by then.
Preprocessed(f, out) == IF out = "failed" \/ f = Temp(f) THEN <<>> ELSE disk[f]

\* Mutant: a file that could not be removed goes unnoticed.
RemovalQuiet(failing) == Silent

\* tmpfile_remove: what it tells, and what it leaves of a temporary file.
Removal(failing) == IF "remove" \in failing THEN Report("SE_FILEDELETE") ELSE Silent
Removed(f, content, failing) ==
  IF "remove" \in failing THEN With(Temp(f), content) ELSE Without({Temp(f)})

\* tmpfile_save, which removes what it could not rename.
SavedAs(f, content, failing) ==
  IF "rename" \in failing THEN Removed(f, content, failing)
  ELSE DiskWith(Saved(f), content, DOMAIN disk \ {Temp(f)})

\* sim_preprocess has no file for the parser: the temporary one could not be
\* written; the preprocessor could not be run, and an empty file is removed;
\* or the file could not be opened again, and stays.
NoSource(f, out, failing) ==
  CASE out = "unwritable" -> disk
    [] out = "stopped" -> Removed(f, <<>>, failing)
    [] OTHER -> With(Temp(f), Preprocessed(f, out))

\* The calls of failing fail.  Of two errors the later one stays: that of
\* tmpfile_remove is followed by another here.
Preprocess(f, out, failing) ==
  /\ phase = "preprocess" /\ f = Head(files)
  /\ IF out \in {"stopped", "unwritable"} \/ "reopen" \in failing
     THEN /\ Report("SE_PROGRAM") /\ phase' = "files" /\ files' = Tail(files)
          /\ disk' = NoSource(f, out, failing)
          /\ UNCHANGED <<bits, text>>
     ELSE IF "PREPROCESS_ONLY" \in bits
     THEN /\ IF "rename" \in failing THEN Report("SE_FILECREATE") ELSE Silent
          /\ phase' = "files" /\ files' = Tail(files)
          /\ disk' = SavedAs(f, Preprocessed(f, out), failing)
          /\ UNCHANGED <<bits, text>>
     ELSE /\ Silent /\ phase' = "parse" /\ bits' = InState("COMPILE")
          /\ text' = Preprocessed(f, out)
          /\ disk' = With(Temp(f), Preprocessed(f, out))
          /\ UNCHANGED files
  /\ UNCHANGED <<session, opts, dumpOption, loaded, modulelist, rc, setupVars>>

\* sim_parsed_module: nothing is done with a module once there was an error.
ModuleNode(m) == [Node(Modules[m].name, GlobalScope, "module") EXCEPT !.of = m]

StoreError(m) == AddError(table, ModuleNode(m))

Store(m) ==
  IF StoreError(m) # "SE_NONE" THEN Report(StoreError(m)) /\ UNCHANGED <<table, modulelist>>
  ELSE /\ Silent /\ modulelist' = Append(modulelist, m)
       /\ table' = Added(table, ModuleNode(m))

Parse(m) ==
  /\ phase = "parse" /\ text # <<>> /\ Head(text).is = "module" /\ m = Head(text).of
  /\ text' = Tail(text)
  /\ loaded' = Append(loaded, m)
  /\ IF error # "SE_NONE" THEN Silent /\ UNCHANGED <<table, modulelist, disk>>
     ELSE IF "COMPILE_ONLY" \in bits
     THEN disk' = With(Object(Head(files)), <<Head(text)>>) /\ Silent /\ UNCHANGED <<table, modulelist>>
     ELSE Store(m) /\ UNCHANGED disk
  /\ UNCHANGED <<session, controlVars, rc, scope, placeVars, linkVars, dumpVars, work>>

\* yyerror: nothing more is read of a file that does not parse.
ParseError ==
  /\ phase = "parse" /\ text # <<>>
  /\ \/ Head(text).is = "syntax" /\ text' = <<>> /\ Report("SE_PSYMBOL")
     \/ Head(text).is = "unsupported" /\ text' = Tail(text) /\ Report("SE_SUPPORT")
  /\ UNCHANGED <<session, controlVars, disk, loaded, modulelist, rc, setupVars>>

EndOfFile(failing) ==
  /\ phase = "parse" /\ text = <<>>
  /\ Removal(failing)
  /\ disk' = Removed(Head(files), disk[Temp(Head(files))], failing)
  /\ phase' = "files" /\ files' = Tail(files)
  /\ UNCHANGED <<session, opts, dumpOption, bits, text, loaded, modulelist, rc, setupVars>>
-----------------------------------------------------------------------------
(***************************************************************************)
(* Setup and simulation.                                                   *)
(***************************************************************************)

\* An error of these phases ends the run.
Fatal(e) == Report(e) /\ phase' = "check"

TopBase(at) == [at |-> at, scopes |-> Global, routine |-> 0, endless |-> FALSE]
TopWork(top) ==
  <<[of |-> top, conns |-> <<>>, name |-> table[top].name] @@ TopBase("instance"),
    [top |-> table[top].name] @@ TopBase("second")>>

\* Mutant: errors in the files do not keep the simulation from starting.
PreventedByMode == bits \cap Modes # {}
Prevented == bits \cap Modes # {} \/ error # "SE_NONE"

Start ==
  /\ phase = "files" /\ files = <<>> /\ ~Prevented
  /\ bits' = {"SETUP"}
  /\ IF TopError # "SE_NONE" THEN Fatal(TopError) /\ UNCHANGED work
     ELSE Silent /\ phase' = "setup" /\ work' = TopWork(TopLevel)
  /\ UNCHANGED <<session, opts, files, dumpOption, disk, text, loaded, modulelist, rc, symbolVars,
                 placeVars, linkVars, dumpVars>>

NoSimulation ==
  /\ phase = "files" /\ files = <<>> /\ Prevented
  /\ phase' = "check"
  /\ UNCHANGED <<session, opts, files, dumpOption, bits, error, reported, disk, text, loaded,
                 modulelist, rc, setupVars>>

SetUp(w, e) ==
  /\ phase = "setup"
  /\ \/ e = "SE_NONE" /\ Perform(w) /\ UNCHANGED driverVars
     \/ /\ e # "SE_NONE" /\ Fatal(e)
        /\ UNCHANGED <<session, opts, files, dumpOption, bits, disk, text, loaded, modulelist, rc,
                       setupVars>>

SetupDone ==
  /\ phase = "setup" /\ work = <<>>
  /\ phase' = "simulate" /\ bits' = {"SIMULATE"}
  /\ UNCHANGED <<session, opts, files, dumpOption, error, reported, disk, text, loaded, modulelist,
                 rc, setupVars>>

\* The simulation ends when nothing is left to do, with $finish, or with an
\* error.
Simulate ==
  /\ phase = "simulate"
  /\ \/ Silent /\ phase' = "check"
     \/ Fatal("SE_FILEOPEN")
  /\ UNCHANGED <<session, opts, files, dumpOption, bits, disk, text, loaded, modulelist, rc,
                 setupVars>>

\* return_check, and the end of main.
Return ==
  /\ phase = "check"
  /\ Exit(error)
  /\ UNCHANGED <<session, opts, files, dumpOption, bits, error, reported, disk, text, loaded,
                 modulelist, setupVars>>

Over == phase = "done" /\ UNCHANGED vars
-----------------------------------------------------------------------------
Init ==
  /\ session \in Sessions
  /\ phase = "args" /\ opts = session.opts /\ files = session.files /\ dumpOption = FALSE
  /\ bits = {} /\ error = "SE_NONE" /\ reported = FALSE
  /\ disk = session.disk /\ text = <<>> /\ loaded = <<>> /\ modulelist = <<>> /\ rc = "none"
  /\ table = <<>> /\ scope = TopScope /\ paths = <<>> /\ names = <<>> /\ recurse = <<>>
  /\ overrides = << <<>> >> /\ work = <<>>
  /\ sense = {} /\ scheduled = <<>> /\ last = NoLookup
  /\ postponed = <<>>
  \* The constructor leaves these two as they are.
  /\ isNet \in BOOLEAN /\ startLevel \in {0, 1}
  /\ dumpList = <<>> /\ dumped = <<>> /\ header = <<>> /\ dumpFormat = FALSE

Next ==
  \/ \E o \in {"c", "E", "q", "a", "v", "z", "h", "bad"} : Option(o)
  \/ Engine \/ Unread \/ Test
  \/ \E out \in session.vpp, failing \in SUBSET session.faults :
       Preprocess(Head(files), out, failing)
  \/ text # <<>> /\ Parse(Head(text).of)
  \/ ParseError \/ (\E failing \in SUBSET session.faults : EndOfFile(failing))
  \/ Start \/ NoSimulation
  \/ work # <<>> /\ SetUp(Head(work), ErrorOf(Head(work)))
  \/ SetupDone \/ Simulate \/ Return \/ Over

Spec == Init /\ [][Next]_vars
=============================================================================
