# VBS in TLA+

VBS is a behavioural simulator for a subset of Verilog (IEEE Std 1364-1995).  It
parses a design, elaborates it into a tree of statements and a symbol table, and
then simulates: statements are taken from a *time wheel*, and changes of nets,
zero delays, nonblocking updates, `$monitor` and `$strobe` go through an *event
queue* that is worked off when the statements of a time unit are done.  The
program is sequential; what makes it hard is the interleaving it simulates:
processes that suspend and resume inside nested blocks, wake-ups from several
sources, and five queues with an order among them.

This directory specifies that behaviour, model-checks it on small instances and
proves part of it for all instances.  Paths below are relative to the
repository.

## The system

| Part | State | Operations | Hard part |
|---|---|---|---|
| time wheel, `src/src/common/time_whl.h` | sorted list of nodes (time, statements), latest time | `add_event`, `trigger`, `trigger_once` | insertion while the first node is handled, times refused |
| event queue, `common/event.h` | five lists, the flags of event containers | `add_event`, `move_events`, `handle_events`, `trigger` | events queued while a batch is handled, shared containers, starvation |
| simulation kernel, `sim.cc` | none of its own | time wheel handler, event queue handler, `trigger_postproc`, step, run | two handlers nested in one another, who resumes a suspended block |
| statement interpreter, `stmt/strigger.cc`, `common/st_trig.cc`, `misc/dectrig.cc` | flags in the statements: pushed, current statement, delayed, repeat count | `trigger_stmt`, `trigger_dec`, `trigger_st_node` | each statement resumes from flags shared by all its activations |
| nets and monitors, `common/st_util.cc`, `st_net.h`, `expr/emon.cc`, `misc/mtrigger.cc` | value, port index, monitor list, changed flag | assign, evaluate, `check_monitor` | ports in ports, edges, events active or not, selections in both directions |
| bit vectors and logic, `common/bvector.*`, `logic.h` | bits, sign, base | arithmetic, comparison, conversion | unknown bits, widths, signs, the limit of machine integers |
| expressions, `expr` | the tree and a result vector in each node | setup, evaluate, monitor | widths, what a vector held before |
| memory files, `common/st_util.cc` | none | `$readmemb`, `$readmemh` | addresses, direction, end of file |
| symbol and scope tables, `common/sym_tab.*`, `hash.cc`, `scp_tab.*` | buckets, scopes and their names | `add`, `find`, `get`, hierarchical lookup | collisions, scopes of instances, names through instances |
| elaboration, `sim.cc`, `moditm/*setup.cc`, `common/st_setup.cc`, `misc/msetup.cc`, `expr/esetup.cc`, `stmt/ssetup.cc` | the tables, parameters to be given, what is left for a second pass | setup of modules, instances, declarations, statements | order of setups, shared iterators, routines set up once |
| VCD dump, `common/dump*`, `stmt/ssetup.cc` | on/off, format, the nets dumped | `$dumpvars`, `$dumpfile`, `$dumpon`, `$dumpoff`, `$dumpall` | changes while it is off, scopes of the header |
| driver, `main.cc`, `sim.cc`, `parser.c`, `common/error.cc` | options, modes, error state, temporary files | options, files through preprocessor and parser, exit status | errors in one of several files, modes |
| scripting API, `swig/vbs_api.cc` | current and last scope | read, set up, step, run, set a net, scopes | calls between steps, after the end, after an error |
| grammar, printing and copying of the tree, VPI | the tree | | none beyond input and output |

Interaction: the driver gives each file to the preprocessor and the parser, which
hands over one module after the other; elaboration takes the module nobody
instantiates, makes one set of nodes in the symbol table for each instance, puts
initial constructs and plain always constructs on the time wheel at time 0 and
registers the events of event controls and continuous assignments with nets.
The kernel takes the first node of the wheel and triggers its statements one by
one.  A triggered statement runs until it suspends itself (a delay puts its
process on the wheel, `#0` on the inactive list, an event control makes its event
active) or returns `true` at the end of a block or because it is done.  An
assignment to a net queues the active events registered with it, with those of
the nets its ports are connected to.  When the list of the node is empty the
event queue is worked off by the same handler, one batch at a time; statements it
triggers may put processes back on the wheel.  When the list is still empty
afterwards the dump takes what has changed, the node is removed and time
advances to the next.  An error anywhere leaves by `longjmp` to `main`, unless
files are being read: then the next one is.

What makes the parts correct:

- wheel: it is an agenda (nothing lost, early, late, or overtaken within its
  time unit);
- event queue: it is the stratified queue of the standard; a container is queued
  once and its flag is right, so that no change goes unnoticed;
- kernel: a suspended process has exactly one wake-up; a delay lasts as long as
  it says; time waits for the event queue; nobody starves;
- interpreter: a process resumes where it was suspended and executes each
  statement as often as the program says;
- nets: an active event is queued exactly when its expression changes (or has
  its edge); a net ends the time unit as what drives it, through all ports; what
  was written is what is read;
- dump: it has the value of every net that was asked for at the end of each time
  unit;
- tables: a name means the innermost declaration in scope, whatever it shares
  its bucket with;
- elaboration: there is one instance for each path, with the nets, parameters,
  ports and processes its module says;
- driver: an error is told, nothing is simulated after one, no temporary file is
  left, or the exit status tells;
- vectors: arithmetic agrees with arithmetic on integers where all bits are
  known, and gives unknown bits where the standard asks for them.

## Modules

| Module | Content |
|---|---|
| `Agenda` | what the wheel promises |
| `TimeWheel` | the list of nodes; refines `Agenda` |
| `TimeWheelProofs` | its invariant and the refinement, proved |
| `StratifiedQueue` | what the event queue promises |
| `EventQueue` | lists, flags and the loop; refines `StratifiedQueue` |
| `EventQueueProofs` | its invariant and the refinement, proved |
| `SimKernel` | the handlers of `sim.cc` over an instance of `TimeWheel` and one of `EventQueue`; shown to use both as they must be used |
| `SimKernelProofs` | its invariant and its use of wheel and queue, proved |
| `KernelWakeupProofs` | time advances when the queue is empty, one wake-up per suspension, delays kept: proved |
| `StatementSemantics` | procedural statements, what setup makes of them, and what they mean |
| `ProcessExec` | the resumable interpreter of `strigger.cc`, beside that meaning |
| `LogicVector`, `VectorText` | four-valued logic, arithmetic and comparison of vectors; vectors as digits and back |
| `LogicVectorProofs` | what each operator on vectors makes of width, bits, sign and number: the lemmas about `LogicVector` |
| `Expression` | one node of an expression tree, evaluated again and again, beside the integers |
| `ExpressionProofs` | widths, branches, unknown bits, comparisons, repeatability, exact arithmetic and texts that read back, proved |
| `NetStore` | what nets hold, how they are read and written through ports and selections |
| `MemoryFile` | `$readmemb`, `$readmemh` |
| `Nets` | nets, their listeners, blocking and nonblocking assignments and the dump, over an instance of `EventQueue` |
| `NetsProofs` | its invariant; reading back what was written, edges, updates, files, drivers and the dump, proved |
| `SymbolTable`, `ScopeTable` | hashing, adding, finding; names of scopes, what `$dumpvars` selects and the header of the dump |
| `Declarations` | what a declaration makes of the tables |
| `Elaboration` | setup of everything else, and its second pass |
| `Driver` | options, files, errors, phases, exit status: a whole run, with `Elaboration` as its setup |
| `Session` | what a run promises |
| `SessionProofs` | the promises that concern files, errors and exit status, proved |
| `MC...` | constants of the instances checked |

`TimeWheel` and `EventQueue` are used by `SimKernel`, `EventQueue` by `Nets`;
`Session` extends the chain `SymbolTable`, `ScopeTable`, `Declarations`,
`Elaboration`, `Driver`.

### TimeWheel

`node` is `_node`, a sequence of records in place of a list of
`time_wheel_node`; `latest` is `_latest_time`; `handling` says that
`trigger_once` has called the handler and not yet removed the node.
`Scheduled(ns, t, s)` is `add_event` as a function of the list: `ScanEnd` is the
node at which the scan from the front stops, and the three cases are append to
the node, insert behind it, refuse.  `AddEvent` is called with time 0 before the
first step and with the current time or a later one by the handler; `Begin`,
`Fire`, `FireAgain` and `End` are `trigger_once` up to the handler, the
handler's removal of the first statement (without and with putting it back at
the current time) and the removal of the node.  `trigger` repeats
`trigger_once` and needs no action of its own.

The refinement maps the agenda of a time unit to the list of its node.
`WheelInv` is inductive: the nodes are strictly sorted (`Sorted`), the clock
agrees with the first node while it is handled and lies before all nodes
otherwise (`ClockInStep`: this is what makes the "Less than current time"
branch unreachable), and only the first node can be without a statement
(`NoIdleNode`).

### EventQueue

`queue` are the five lists, `queued` the flag `_queued` of each container,
`temp` the batch `trigger` has moved out, its first event the one being handled;
`stage` says where `trigger` is.  A batch is moved by `MoveEvents`, which clears
the flags; `Handle` is the end of the handler's call for the first event.
`AddEvent` has the callers' test of `is_queued` as its guard, since
`add_event` does not look.

`QueueInv` is inductive: each list holds events of its stratum, a container is
in the lists at most once, its flag says whether it is, and a batch has each
container once.  `ImplementsStrata`: a whole stratum becomes due at once, the
first with an event, and nothing else is due until all of it is done.  An event
in the batch that has not been handled yet may be queued again: that is what
the code does, and the abstract queue allows it.

### SimKernel

The statements are nondeterministic: a process may at every moment enter a
nested block, end one, suspend itself, assign, queue an update, enable
`$monitor`, or call `$finish`, so that a behaviour is a run of some design and
an invariant holds for all designs over these constructs.  `cur` is the statement
being triggered, `returned` what it returned; `depth` is the size of the stack
of blocks of a process and `entered` how many of these blocks were entered in
the present trigger: the end of a block returns `true` out of the whole trigger
exactly when it was not (then the statement around it is not on the call
stack).  `sleep` and `until` are history: what a process suspended itself for,
and until when.  `armed` stands for the events a change would queue: those whose
container is active or forced.

Abstractions: one event control and one `#0` per process; a change of a net is a
step that queues one event, and how a net finds its events is not modelled; an
assignment that changes several events' nets is several steps; loops and tasks
are not distinguished from the statements in them; `$monitor` and `$strobe`
have no delay of their own; `$finish` ends the behaviour; the dump at the end of
a time unit is left out.

### StatementSemantics and ProcessExec

A construct is a tree of statements, a statement is named by its path.
`Setup` adds the blocks that setup adds: the statement of a construct, and a
controlled one under an `if` or a loop.  The meaning, `Run`, keeps explicitly
what a process has still to do and executes it until time has to pass.  What a
statement computes is left out: the log says which were executed.  All
conditions look at one value, `sel`, which changes between time units; a `for`
loop is a `repeat` whose counter is a variable.

The program has no such continuation.  `Trigger` mirrors the call of
`trigger_stmt` on each kind of statement, with the flags as a record passed
through the calls: the stack of blocks `stk` and the current statements `at`,
the flags of controls (`held`), loops (`begun`, `left`), enables and tasks
(`entered`, `inside`) and assignments (`valued`).  `Resume` is one trigger of
the root and its `trigger_postproc`.  The meaning is run beside it: `Elapse` and
`Fire` let time pass for both.  `InProgramOrder` says that the interpreter is
never ahead of the meaning nor elsewhere, `DoneInItsTime` that both agree when
the process has suspended itself and go on at the same time, `NoFlagLeft` that a
construct that has ended is as it was before, so that tasks and rounds of loops
start afresh.

The run that passes takes all programs of a grammar (some 1100 initial and 180
always constructs) that satisfy `Good`, and `GoodAlways` for always constructs.
These conditions are the class in which the interpreter is right, as
far as these programs tell:

- what stands directly under an `if`, a `case`, a loop or is the body of a task
  either never suspends, or is an uncontrolled block, `if` or `case`;
- a root block with a delay in front has none inside, and neither has a loop
  with an event control in front;
- in an always construct, delays are only in the root block and in blocks directly
  in it (none of the latter after an event control in front), in no loop and no
  task, and there are no event controls inside.

Why each condition is there: `trigger_postproc` recognises a delayed loop or task
enable only directly in the innermost block (run `exec_loop_in_if`); a loop or an
enable that is resumed counts what it guards as done; the items of a case are not
wrapped in blocks, so that the case is evaluated again;
`handle_dec` of the root is called at each resumption; in an always construct
`trigger_postproc` advances the root block whatever block has ended, and
`handle_dec` ignores event controls.

### LogicVector, VectorText, Expression

A vector is its bits, from the lowest, and its sign.  `decimal_type` has
`DecimalBits` bits: a vector no longer than that takes the short algorithm
(machine arithmetic, `% 2^DecimalBits`), a longer one the bit by bit one.
`Expression` is one node: `ResultWidth` is what setup makes of its operands, the
vector in the node is used again at each evaluation (`result`), so that an
algorithm that leaves part of it alone shows.  `broken` stands for a copy whose
length is below zero (`bvector.cc:1128`), after which nothing is said.  The
properties compare with the integers, the comparisons with one another, and what
is shown with what reads back; each says in its comment where the code does not
mean to be exact, or is not.  `ComparisonsAgree` compares less and equal with the
integers at any widths and signs, but where the code does otherwise (`InOrder`,
`ToldApart`): two negative operands of different widths are not put in order,
since the bits the shorter one lacks count as zero; nor is a negative operand and
one whose sign was never set; and a negative operand equals the unsigned number of
the same bits, if that is not the narrower one.  A casez extends no sign, so it
follows from identity only where there is none to extend.  `Repeatable` says that a value depends on the
operands alone.  It leaves two cases out, in which the code does not keep it: the
sum of operands of different widths in a wider result (`UnevenSum`), and the
remainder of the most negative dividend (`MostNegativeDividend`, see below).

### NetStore, MemoryFile, Nets

A design is a record of nets, the events setup registers in their order, and what
each event container triggers; the statements of its other processes are
`moves`, executed at any moment before the event queue is handled (`Drive`).
`Assignment` is `st_net_assign`: `Climb` writes the net and those outside, and
`AllTold` then calls `check_monitor` from the outside in.  `Followed` and
`Noticed` are the two halves of `check_monitor`: refresh `_previous_bit`, queue
the event if its container is active.  `Activate`, `Trigger` and `Step` are the
event queue handler: a triggered container executes its body one statement
at a time; `EndTime` is the end of the time wheel's handler, with `dump_values`.
The event queue is an instance of `EventQueue`.  `Into` is `trigger_lvalue`: the
elements of a left hand side one after the other, each told at once.  The dump is
a value for each net; that `$dumpvars` is one of the simulator's tasks turns it on (`OnAtFirst`).

`DesignsAssumption` says what a design is: what setup has checked (`NetFits`,
`NameFits`, `ExprFits`, `LvalFits`: names are declared, a port leads to a net
further out, a memory has indexes but no parts, an element takes bits its
value has), one event of a container in the first list, and two things setup does not
check.  Integers are for indexes only (`ValueFits`): what is assigned is unsigned,
so that a shorter value is filled with zeros, and the sign extension of
`bit_vector::operator=` (`bvector.h:616-661`), which `LogicVector!Assigned` has, is
not needed here.  An index becomes a machine integer of `IndexBits` bits
(`to_signed_int`, `bvector.h:234`): one that is wider than that or has unknown bits
selects the whole net (`bitsel.cc:31`).  And constant parts lie within their nets: one that does not
(`esetup.cc:223` only looks at the order of the bounds) makes the program read and
write memory behind the net.

`NetsInv` is inductive.  `NetsTypeOK` is what types and widths come to, with
`QueueFits`, the event queue's own condition: each container in its list once,
just when its flag says so.  `BatchFits` is what makes the flags of updates
reliable: a batch of updates holds each once, and while it is handled none of
them is queued again (their statements are assignments only, which
queue sensitivity events).  `PendingWhile` ties the value of an update to its
place in queue, batch or handler, so that none is stored twice or lost;
`DumpFollows` is the dump's half, a net either shown or marked as changed.

Four properties need more of a design than that, and say so.  `WriteReads` and
`UpdatesLand` are about nets not read through a port, as an inout port reads
the net outside by its own part (run `inout`).  `EdgeSeen` and `UpdatesLand`
hold for designs that satisfy `WellHeard` and `WellPlaced`; `MCNets` asserts both
for all the designs it checks.  `Connected` is proved for designs that satisfy
`WellConnected`, among others that a driven bit has one driver; `MCNets` asserts it for all but
`Bus`.  What the conditions leave out:

- listeners of an input that is connected directly, of a task's arguments
  (`st_util.cc:164`) or of a memory filled from a file (`:438`) are not told of
  every change;
- the elements of a left hand side are told one by one, so that an
  edge of an expression with two of them may come and go within one assignment
  (a glitch that is not there between two states), and an element may overwrite
  another.  `Groups` says which nets lead to the same net outside: assigning one
  of a group never touches another group.

`ReadMemory` is `$readmemb` or `$readmemh` of a file of tokens: words, addresses,
comments, and the end, before which the last token is lost if no newline
follows it.  An error ends the run and is a step of its own.

### SymbolTable, ScopeTable, Declarations, Elaboration

The symbol table is the sequence of the nodes added, each with the bucket it got:
`Hash` and `Chain` are computed from the characters of names, with the
program's bucket count, so that collisions are those of the program.  `NodeFind`
is the lookup of hierarchical names.  Elaboration's functions call each other,
and its state is largely what is left of these calls: `work` is that stack as a
list, its first element the call that goes on.  `ErrorOf` is the error a call
reports, `Perform` what it does; an element carries its scopes, innermost first,
and the routine it is in.  The steps are as coarse as the functions: a module's
setup (`Enter`, `Leave`, `Connect`), an instance, a declaration, a port, a
process, a statement (`Statement`), a name (`Refer`), a use of a task or function
(`Use`, `Define`, `Arguments`), and the second pass (`Begin`, `Vars`, `Dump`,
`Closing`).  Copies of the tree made for each instance, and the widths of
expressions, which `Expression` has, are abstracted.

### Driver and Session

A session is what the user starts with: `opts` and `files` of the command line, the
`disk`, and `vpp` and `faults`, what may go wrong outside.  `phase` is where a run of
the program is; `bits` are the mode and state bits of
`vbs_error`, `error` its value, `disk` the files there are.  The modules of a
file are tokens: a module, text the grammar refuses, or a construct it knows and
refuses.  Preprocessing is external; what it may come to is chosen from the
session's `vpp`: a copy, a failure nobody notices (only a status below zero
is taken for one, and what `p_exec` returns is that of `waitpid`, `parser.c:146`), a preprocessor that was stopped, or a temporary
file that cannot be written.  `faults` are the calls on temporary files that may fail,
each time they are made or now and then: opening one again (`sim.cc:483`), `remove`
(`Removal`, `sim.cc:279`) and `rename` (`SavedAs`, `sim.cc:290`).  A file that could not
be opened again is not removed, and one that could not be removed stays; the exit
status tells of both, which is what `NoTempLeft` says.  Of the simulation only its end is left: it ends
or fails.

`Session` reads the design a second time, without tables and work list: instances
are paths, a name is looked for scope by scope, a port is what is written for it.
Its invariants compare that with what setup has built when the simulation starts.
`DumpListed`, of what `$dumpvars` selects, speaks of the top level, its own nets and
of `$dumpvars` without arguments.  It promises nothing of the names of other
instances and of nets in them: `get_nets` means to find them and does not (see
"Hazards without a property").  `HeaderScopes` speaks of every argument that is the
top level, if its nets are listed from the scope of the top level on (`BeginsAtTop`):
an argument that leaves a scope open spoils those after it.

## Runs

All runs that pass explore their state space completely.

| Run | Question | Result and bounds |
|---|---|---|
| `wheel` | invariant, refinement of `Agenda` | two statements, times 0..3, two statements per node: all relations of a new time to the nodes (before, at, between, behind) occur |
| `queue` | invariant, refinement of `StratifiedQueue`, no starvation of sensitivity events | seven events: each stratum, two in one container, two containers in the active list |
| `kernel_initial` | the kernel's invariant, one wake-up per suspension, proper use of the wheel, time waits, delays kept, nobody is starved | an initial and an always construct, a nonblocking update, a `$strobe`, times 0..2, blocks two deep |
| `kernel_sensitive` | one wake-up beside forced events; proper use of the event queue | an initial and an always @ construct, a delayed continuous assignment, `$monitor`, nets set between steps, constants in event expressions, times 0..1 |
| `exec` | is each construct executed as its text says? | a delay, zero delay, event control or delayed assignment in up to three levels of blocks, branches, loops and tasks; with and without control in front; times 0..4 |
| `vectors` | every operator beside the integers, unknown bits, comparisons, text and back, and is the value a function of the operands? | machine integers of 4 bits, operands of 1, 2, 3 and 6, results up to 9, signed, unsigned and neither; relations between operands of different widths and signs |
| `nets` | the invariant, edges, ports, words and parts, updates, files, the dump | eight designs of at most eight nets: inputs through two modules, outputs through two, memories, indexes wider than a machine integer and signed ones, a bus, a clocked update, a shared task, files; two statements of the other processes in each of two time units |
| `session` | is an error told, is nothing left, and is what is simulated what was written? | 172 sessions: a design of seven instances of three modules with ports by name and by place, parameters, tasks and functions with names of their own and used from outside, all statements; `$dumpvars` in ten forms with and without nets at the top; 34 designs with one error each; files and options in 56 combinations with everything preprocessing may come to, and in 48 with every set of calls that may fail |
| `exec_loop_in_if` | "delay events in loops" | violated |
| `remainder` | "Remainder takes the sign of the dividend." | violated |
| `inout` | "IO declaration, input, output and inout, is fully supported" | violated |
| `ports` | "The port connections cannot be multi-variable expressions", nor null | violated: setup takes both, as `src/README:134` and `src/CHANGELOG:1353` say; `src/vbs.txt:1263-1276` and `:883` are out of date |

The bounds: `MaxTime` is the last time a statement schedules for and
`MaxListed` how long a list may get before nothing more is scheduled on it;
two times ahead of the present are enough for an insertion between two nodes,
and lists of three let one statement overtake another.  `MaxDepth` 2 tells the
end of a nested block from that of the outermost one; a third level repeats the
second.  Four time units see a loop of two rounds to its end and what follows it;
a third level of nesting is what tells the top of the stack from its bottom.
Machine integers of four bits put every relation of operand, result and machine
width (shorter, equal, longer) in reach of vectors of six bits; an index of five bits does not fit into
`IndexBits` of three.  Two modules in
one another are what tells a port's own selection from the one passed through it,
and `MaxDrives` 2 lets a net change again between an event and its handling.
Names of one to six letters collide in the symbol table as those of real designs
do: lower-case names of five letters have four values between them.  Routines
that enable themselves are in no session: their setup never ends (the body is set
up before the node is marked as done, `st_setup.cc:253`).
Deadlock checking is off where the simulator stops: when the wheel is
empty, after `$finish`, when a construct has ended or its next time is
beyond `MaxTime`, or when a vector has been written outside its memory.

Fairness.  `EventQueue!FairSpec`: `trigger` is a loop that runs on, each handler
returns.  `SimKernel!FairSpec`: setup runs on, the handlers run on, and a
triggered statement returns in the end.  The last holds of every statement
without a loop that never delays (such a loop hangs the simulator too).  Nothing
is assumed about C programs that set nets.

An always construct with an event control inside and none in front (`Timed` and
`Sensitive` at once) is part of the specification but of no run that passes: its
forced event triggers it and it puts itself back on the wheel each time, so the
list of the present time grows without bound.

## What is proved

`TimeWheelProofs` (for every set of statements and every `MaxTime`,
`MaxListed`): `WheelInvariant`, that `WheelInv` is invariant, and
`WheelImplementsAgenda`, that the wheel implements the agenda.  The proofs rest
on `ScheduledProperties`: what `add_event` makes of a sorted list of nodes (it
stays sorted, the list of the time gets the statement last, every other list
stays), which in turn rests on the place where the scan ends.

`EventQueueProofs` (for every set of events, containers, and every assignment
of containers and strata): `QueueInvariant` and `QueueImplementsStrata`.

`SimKernelProofs` (for every set of constructs, every `MaxTime`, `MaxListed` and
`MaxDepth`, with and without a C program that sets nets): `KernelInvariant`,
`KernelUsesWheel` and `KernelUsesQueue`.  `KernelInv` is inductive: the types, the
invariants of wheel and queue, and `InControl`, where control may be: setup comes
first, the event queue is called by the time wheel handler only, and the
statement being triggered is at the head of the list or batch being handled.
Without `InControl` a handler could remove another statement than the one it
triggered.  The proofs about wheel and queue are instantiated (`WP`,
`QP`): the kernel has only to show that each of its steps is one of their
operations, where they allow it.  Together with `WheelImplementsAgenda` and
`QueueImplementsStrata` this composes: nothing the kernel schedules is lost.

`KernelWakeupProofs`:

- `TimeAdvancesWhenDrained`, if no C program sets nets (`~Api`): one may do so
  between two time units, and what it queues is handled in the next.  Its
  invariant, `DrainedInv`, must also say that a design may leave events queued
  by setup if nothing is scheduled, since then no time follows;
- `ProcessWokenOnce` and `DelaysKept`, if no event control has a constant in its
  event expression (`Constant \cap WaitEvents = {}`): the event of such a
  control is queued when setup registers it (`monitor_expr` of a number), before
  the process waits for it, and triggers the process beside its place on the
  wheel. `WakeInv` counts the wake-ups of a process in three places: `Rest`, the
  statements listed for each time without the one being triggered; `Due`, the
  events of the batch without the one being handled; and the events queued or
  armed for it. A process has all of them empty (`Silent`) and one place on the
  wheel, at `until` if it waits for a delay, or none and exactly one signal
  (`OneSignal`). `Course` says how it gets there: while it runs it is not
  suspended, and only an initial construct is ever over.

`ExpressionProofs`, resting on the lemmas of `LogicVectorProofs` (for every width
of machine integers, every set of nodes and operands of any width and sign, and
every value):

- `ExpressionTypeCorrect`: every operator leaves in the node's vector the width
  setup gave it;
- `BranchesCorrect`, `UnknownCorrect`, `ComparisonsCorrect`: `BranchesAgree`,
  `UnknownStays` and `ComparisonsAgree`.  They speak of the last evaluation,
  so that the invariant they need, `Latest`, says that the vector holds what the
  last evaluation computed of the operands, into whatever was there.  The
  comparisons rest on the induction along the scan from the top bit, written
  out in `LogicVectorProofs` over its recursive function, and on the numbers of
  operands extended to the same width (`ExtendedNumber`), by zeros or by the sign;
  the exclusions are those of `InOrder` and `ToldApart`, so that for unsigned operands
  of any widths, and for operands of the same width and sign, there are none;
- `RepeatableCorrect`: `Repeatable`.  Two evaluations of the same operands into two
  vectors are compared bit by bit (`...Forgets`).  For all but the remainder
  each bit is written before it is read.  A remainder keeps the sign of its
  vector, which the comparison of the long division looks at: the proof is that
  what is left is shorter than its vector (`Unfilled`), hence never negative,
  and that the vector of an unsigned remainder is not signed (`RemainderSign`,
  an invariant);
- `ArithmeticCorrect`: `ArithmeticExact`.  The bits are compared with the
  integers they stand for modulo powers of two (`Congruent`): the width of the
  result for the carry chain, the width of the machine's integers for products,
  quotients and remainders.  The sum is an induction along the carries
  (`AddedNumber`), at which the bits that are copied once the shorter
  operand is through are shown to be those of the sum (`AddedBits`); an operand
  of the machine's arithmetic is taken by its absolute value (`DecimalOf`), and
  what comes out gets its sign back modulo the width (`SignedNumber`);
- `ReadsBackCorrect`: `ReadsBack`.  A text spells known bits if the digit of
  each bit has it at its place and every bit beyond the digits is zero
  (`Spells`); the text with all digits does (`ShownDigits`), and what is dropped
  with the leading zeros are zeros.  For the decimal text of a negative vector its
  complement and its number add up to all ones (`InvertedNumber`).

`NetsProofs` (for every design that satisfies `DesignsAssumption`, with any number
of nets, ports in ports, listeners and processes, and every bound):

- `NetsInvariant`: `NetsInv`.  Most of the proof is about the three loops an
  assignment is made of, each a recursive function: the climb through ports
  (`Climbing`: what it changes is what it marks as changed, and each net once,
  since ports lead outwards), the list of a net and the nets on the way
  (`Telling`: an event is queued by the first net that tells it, and its bit is
  followed whether it is or not), and the elements of a left hand side.
  `Assigns` is the sum of it: after an assignment the nets that differ are
  those marked, and exactly those containers are queued in addition whose
  event waits for what happened to them;
- `DumpsShow`: `DumpShows`, from `DumpFollows`;
- `WriteReadsHolds`: `WriteReads`, from lemmas about the part of a vector that
  is replaced and then read, in both directions (`PartReads`);
- `NoEdgeMissed`: `EdgeSeen`, if `WellHeard` holds of every design.  The
  invariant it needs is that the bit every event compares with is the one its
  expression has (`PrevSeen`), whether anybody waits for it or not.  That an edge of
  the whole left hand side is an edge at one of its elements is `HitOnce`,
  where `Apart` is needed;
- `UpdatesLandThere`: `UpdatesLand`, if `WellPlaced` holds of every design.  The
  invariant is that the targets of a pending update are what its selects came
  to (`Aimed`); what one element wrote is untouched by the others since
  they lead elsewhere (`ElementStays`);
- `FilesLoaded`: `FileLoaded`, for every file, memory and pair of indexes that
  ascend.  The property describes the outcome without the loop: a word between the
  indexes is the last of the file's words that went there, of those that were
  read at all (`Kept`), or what it was.  The loop over the tokens keeps, at each
  of them (`Loading`), that for the tokens before it, how many words are left
  to read, and where the next one goes, which the words since the last address
  say (`Position`);
- `DriversReach`: `Connected`, if `WellConnected` holds of every design: every bit
  that a continuous assignment or a port drives is written by nobody else,
  whoever drives waits for all it reads (which is how setup registers it), and
  none of these bits is read through a port, which leaves ports within inout
  ports out.  The invariant is `ConnectedSoFar`.  Each driver is `Busy`, that is
  queued, in the batch or about to be executed, or else the net has its value
  (`Driven`): a driver that was not told, by `NoEdgeMissed`, reads what it read
  before, and what others wrote has no bit of its net (`Placid`, by an
  induction along the way outwards of an assignment, `OnTheWay`, and one along
  the elements of a left hand side).  A port has reached the net outside after
  every statement, and during one there is only the net the way is at for which
  this may not be so; since ports lead outwards, at the end of the way there is
  none.  When the event queue is left nobody is queued, hence nobody busy.

`SessionProofs` (for every session, every design, every set of system tasks and
whatever preprocessing comes to and whichever calls on files fail): `RunEndsClean` and `SimulatesWhatWasRead`.
Neither property is inductive, as both speak of one phase and what they say is
decided in others.  The strengthening has four parts, each inductive:

- `ErrorTold`: until the program ends an error is held just when one was
  reported; the option that is refused has a status of its own;
- `TempKnown`: a temporary file that was not there at first is that of the file
  the parser is reading, or it stays since it could not be opened again or removed,
  and then an error was reported;
- `AllEntered`: as long as there is no error and no mode that prevents the
  simulation, the modules entered are those parsed;
- `AllRead`: for as long, the disk is what it was but for that temporary file,
  and a file of the command line was there or is still to be read.  It is needed
  for the files because `files` forgets a file once it is read.

Setup is opaque to these proofs: a step of it changes no variable of the driver
or ends the run with an error.

The only assumptions are those on the constants, and for some theorems the
hypotheses named with them; `SessionsAssumption` is that options and files are sequences
of strings and of file names.

Model-checked only:

- liveness: `ActiveIsHandled`, `WheelIsTriggered`, `ChangeIsTriggered`;
- `ProcessExec` and `StatementSemantics`, whose operators are recursive;
- `Connected` for nets with several drivers (design `Bus`): that the one driver
  left has its value in the net is no invariant of a bus as such, since a driver
  that turns off leaves the net as it is and nobody triggers the others again
  (`strigger.cc:627`, `:636`);
- what setup makes of a design (`SessionTypeOK`, `NamesFound`, `EveryInstance` and the
  others of `Session`), which compares trees of any depth.

## Hazards without a property

Seen while modelling, beside those `PROJECT.json` lists:

- a design of continuous assignments only ends with its events queued, and they
  are never handled (`sim.cc:175`);
- the options `-a`, `-v` and `-z` reach for the engine before there is one
  (`main.cc:150`); the model ends such a run as a crash;
- a preprocessor that exits with an error is taken for one that succeeded
  (`parser.c:146`);
- with `-c` the modules of one file overwrite one another's object file
  (`sim.cc:333`), whose numbers have no separators and are never read;
- a source file with the extension of temporary files is emptied
  (`sim.cc:466`);
- `$dumpvars` of an instance below the top level, or of a net in one, finds nothing:
  the names in the table of scopes begin with the top level (`scp_tab.cc:406`), while
  `get_nets` strips it from the name it looks for (`:210`, `:236`) and looks up what is
  left (`:251`), so that the list of nets is empty and a warning is printed.  The
  model does as the code does, and no property calls it right;
- a net given to `$dumpvars` opens a scope in the header with the net's own name
  (`dumpvcd.cc:97`), which nobody closes; what follows it is nested in there;
- a net asked for
  by two arguments is declared twice in the header and only its second
  identifier gets values (`dumpvcd.cc:118`);
- `$readmem`: indexes that descend (`st_util.cc:393`), the last token of a file
  without newline (`:292`), an address with more bits than a word (`:432`), and
  listeners of a memory, who are not told (`:438`);
- the remainder of a signed dividend with only its top bit set, as wide as the
  result and wider than a machine integer: its magnitude fills the remainder's
  vector, and the comparison of the long division (`bvector.cc:1392`) takes it
  for negative or not by the sign the vector had.  The first evaluation of the
  node and the later ones differ, as the division sets the sign when it is
  through (`:1416`).  The attempt to prove `Repeatable` showed it;
- the scripting API never calls `vbs_engine::initialize` itself.

## Plan

1. Done: wheel, event queue, kernel, all proved but for liveness.
2. Done for one process: `StatementSemantics`, `ProcessExec`.  Left: two
   processes that enable the same task; functions.
3. Done: nets, ports, edges, nonblocking updates, dump and memory files.
4. Done: tables, elaboration, driver.
5. Done: vectors, text, expressions one node at a time.  Left: trees of nodes,
   with the widths passed down.
6. Left: calls of the scripting API between steps, formats of the display tasks.
7. Proofs.  Done: wheel, event queue, kernel, the files and errors of a session,
   expressions, the nets but for buses.  Left: the types of a session
   and a bus with the one driver that has not turned off.

## Not modelled

The grammar, printing and copying of the tree and the VPI stubs have no state of
their own.  The text of reports and of formatted output is left out: no property
is about it.  The ascii format of the dump, its identifiers and compression are
output only.  Deleting the engine and `symbol_table::remove`, which nothing
calls, are left out.
