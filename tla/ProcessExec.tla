------------------------------ MODULE ProcessExec -----------------------------
(***************************************************************************)
(* How one procedural construct is executed (stmt/strigger.cc, with the    *)
(* post-processing of sim.cc): there is no stack of calls to come back to, *)
(* so the trigger of the root block finds its way by a stack of blocks, a  *)
(* current statement in each, and flags the statements keep of having been *)
(* delayed.  Beside it runs what the construct means (StatementSemantics). *)
(*                                                                         *)
(* The net the conditions look at changes between time units.  The event   *)
(* comes at most once in a time unit, and only to a process that waits for *)
(* it; a zero delay lasts until later in the same time unit (SimKernel has *)
(* the queue it goes through, and events that come at other moments).      *)
(***************************************************************************)
EXTENDS FiniteSets, StatementSemantics

CONSTANTS
  Programs,   \* procedural constructs, each with the body of its task
  MaxTime     \* bound: the last time unit

ASSUME ProcessExecAssumption == MaxTime \in Nat

VARIABLES
  prog,   \* the construct, completed by setup
  now,    \* the present time
  sel,    \* what the conditions look at: 1 for true, 2 for false
  exec,   \* the flags of its statements, its place on the wheel, what it did
  ref     \* the run it should be

vars == <<prog, now, sel, exec, ref>>

-----------------------------------------------------------------------------
(***************************************************************************)
(* Triggering.  An operator takes the flags x and returns what the trigger *)
(* makes of them; ended is the value the trigger returns.                  *)
(*   at, pushed, stk    _curstmt and _pushed of a block, _stk of the root  *)
(*   held               _delayed of a delay or event control               *)
(*   begun, left        _delayed and _repeat_count of a loop               *)
(*   entered, inside    _delayed of a task enable and of the task          *)
(*   valued             _value of an assignment                            *)
(***************************************************************************)
Ended(x) == [x EXCEPT !.ended = TRUE]
Suspended(x) == [x EXCEPT !.ended = FALSE]
Logged(x, what, path) == [x EXCEPT !.log = Append(@, Did(what, path))]

\* handle_dec: an event control inside an always construct is passed over.
Held(s) == s.dec # NoDelay \/ (s.ec /\ ~prog.always)
WakeTime(s) == IF s.dec # NoDelay THEN now + s.dec ELSE Waiting
HeldBack(x, path) ==
  Suspended([x EXCEPT !.held = @ \cup {path}, !.wake = WakeTime(At(prog, path))])

\* Mutant: the flag stays set, and the control counts once only.
ReleasedKept(x, path) == x

Released(x, path) == [x EXCEPT !.held = @ \ {path}]

\* A blocking assignment, in its first trigger and after its own delay.
Assigned(x, path) ==
  LET s == At(prog, path)
  IN IF path \in x.valued
     THEN Ended(Logged([x EXCEPT !.valued = @ \ {path}], "store", path))
     ELSE IF s.store = NoDelay THEN Ended(Logged(x, "all", path))
     ELSE Suspended(Logged([x EXCEPT !.valued = @ \cup {path},
                                     !.held = IF Held(s) THEN @ \cup {path} ELSE @,
                                     !.wake = now + s.store], "value", path))

Pushed(x, path) ==
  IF path \in x.pushed THEN x
  ELSE [x EXCEPT !.pushed = @ \cup {path}, !.stk = Append(@, path), !.at[path] = 1]

\* Mutant: a block that has ended stays marked as pushed.
PoppedMarked(x, path) == Ended([x EXCEPT !.stk = Front(@)])

Popped(x, path) == Ended([x EXCEPT !.stk = Front(@), !.pushed = @ \ {path}])

\* What a loop does before and after each round.
Counted(x, path, n) ==
  IF At(prog, path).times >= 0 THEN [x EXCEPT !.left[path] = n] ELSE x
Decremented(x, path) == Counted(x, path, x.left[path] - 1)
RoundCut(x, path) ==
  [x EXCEPT !.begun = @ \cup {path},
            !.held = IF At(prog, path).dec # NoDelay THEN @ \cup {path} ELSE @]

\* Mutant: the round that was cut is not counted.
RoundUncounted(x, path) == [x EXCEPT !.begun = @ \ {path}]

RoundResumed(x, path) == Decremented([x EXCEPT !.begun = @ \ {path}], path)

RECURSIVE Trigger(_, _), BlockRun(_), LoopRun(_, _)

\* The statement at path is triggered.
Trigger(x, path) ==
  LET s == At(prog, path)
      y == Released(x, path)
      chosen == Chosen(s, sel, path)
  IN IF Held(s) /\ path \notin x.held THEN HeldBack(x, path)
     ELSE CASE s.kind = "plain" -> Assigned(y, path)
            [] s.kind = "block" -> BlockRun(Pushed(y, path))
            [] s.kind \in {"if", "case"} ->
                 IF chosen = <<>> THEN Ended(y) ELSE Trigger(y, chosen[1])
            [] s.kind = "enable" ->
                 IF y.inside THEN Ended([y EXCEPT !.inside = FALSE])
                 ELSE LET z == Trigger(y, Task)
                      IN IF z.ended THEN z
                         ELSE [z EXCEPT !.inside = TRUE, !.entered = @ \cup {path}]
            [] s.kind = "loop" ->
                 LoopRun(IF path \in y.begun THEN RoundResumed(y, path)
                                             ELSE Counted(y, path, s.times), path)

\* Whatever block was triggered, the one on top of the stack is gone on with.
BlockRun(x) ==
  IF x.stk = <<>> THEN Ended(x)
  ELSE LET b == Last(x.stk)
           y == Trigger(x, Append(b, x.at[b]))
       IN IF x.at[b] > Len(At(prog, b).kids) THEN Popped(x, b)
          ELSE IF y.ended THEN BlockRun([y EXCEPT !.at[b] = @ + 1]) ELSE y

LoopRun(x, path) ==
  LET y == Trigger(x, Append(path, 1))
  IN IF ~Again(At(prog, path), x.left[path], sel) THEN Ended(x)
     ELSE IF y.ended THEN LoopRun(Decremented(y, path), path)
     ELSE RoundCut(y, path)
-----------------------------------------------------------------------------
\* trigger_postproc, of a trigger that returned true.

\* Mutant: no test for a task that was delayed.
NextButLoop(x) ==
  LET b == Last(x.stk)
  IN IF Append(b, x.at[b]) \in x.begun THEN x ELSE [x EXCEPT !.at[b] = @ + 1]

NextStatement(x) ==
  LET b == Last(x.stk)
      path == Append(b, x.at[b])
  IN IF path \in x.begun \cup x.entered THEN x ELSE [x EXCEPT !.at[b] = @ + 1]

\* Mutant: the current statement of the root stays where it is.
RootResumed(x) ==
  IF prog.root.ec THEN [x EXCEPT !.wake = Waiting]
  ELSE [x EXCEPT !.held = @ \ {Root}, !.wake = now]

RootAdvanced(x) ==
  LET y == [x EXCEPT !.at[Root] = @ + 1]
  IN IF prog.root.ec THEN [y EXCEPT !.wake = Waiting]
     ELSE [y EXCEPT !.held = @ \ {Root}, !.wake = now]

Postprocessed(x) ==
  IF prog.always THEN RootAdvanced(x)
  ELSE IF x.stk = <<>> THEN [x EXCEPT !.wake = Over]
  ELSE [NextStatement(x) EXCEPT !.wake = now]

\* An always construct with an event control in front is not put on the wheel.
Sensitive(p) == p.always /\ p.root.ec

Init ==
  /\ prog \in {Setup(c) : c \in Programs}
  /\ now = 0
  /\ sel \in {1, 2}
  /\ exec = [at |-> [path \in Paths(prog) |-> 0], left |-> [path \in Paths(prog) |-> 0],
             stk |-> <<>>, pushed |-> {}, held |-> {}, begun |-> {}, entered |-> {},
             inside |-> FALSE, valued |-> {}, ended |-> FALSE, log |-> <<>>,
             wake |-> IF Sensitive(prog) THEN Waiting ELSE 0]
  /\ ref = Run(prog, [rest |-> StartAll(<<Root>>), wake |-> 0, log |-> <<>>], 0, sel)

\* The process is triggered, now.
Resume ==
  /\ exec.wake = now
  /\ exec' = LET x == Trigger([exec EXCEPT !.wake = Over], Root)
             IN IF x.ended THEN Postprocessed(x) ELSE x
  /\ UNCHANGED <<prog, now, sel, ref>>

\* Time passes; the run of ref goes on if its time has come.
PassTo(t) ==
  /\ t \in (now + 1)..MaxTime
  /\ now' = t
  /\ sel' \in {1, 2}
  /\ UNCHANGED prog

Elapse ==
  /\ exec.wake > now
  /\ PassTo(exec.wake)
  /\ exec' = [exec EXCEPT !.log = <<>>]
  /\ ref' = LET r == [ref EXCEPT !.log = <<>>]
            IN IF ref.wake = exec.wake THEN Run(prog, r, now', sel') ELSE r

\* The event comes, for a process that waits for it.
Fire ==
  /\ exec.wake = Waiting
  /\ \E t \in (now + 1)..MaxTime :
       /\ PassTo(t)
       /\ exec' = [exec EXCEPT !.log = <<>>, !.wake = t]
       /\ ref' = LET r == [ref EXCEPT !.log = <<>>]
                 IN IF ref.wake = Waiting THEN Run(prog, r, t, sel') ELSE r

Next == Resume \/ Elapse \/ Fire

Spec == Init /\ [][Next]_vars
-----------------------------------------------------------------------------
\* Types, and the stack: it holds the blocks that are marked as pushed, each
\* once and each in the current statement of the one below it, or in the task
\* that statement enables.
ExecInv ==
  /\ now \in 0..MaxTime /\ sel \in {1, 2}
  /\ exec.at \in [Paths(prog) -> Nat] /\ exec.left \in [Paths(prog) -> Nat]
  /\ exec.stk \in Seq(Paths(prog)) /\ exec.pushed = ToSet(exec.stk)
  /\ Len(exec.stk) = Cardinality(exec.pushed)
  /\ \A i \in 2..Len(exec.stk) :
       LET below == exec.stk[i - 1]
           path == Append(below, exec.at[below])
       IN \/ IsPrefix(path, exec.stk[i])
          \/ /\ Head(exec.stk[i]) # Head(below)
             /\ \E p \in exec.entered : IsPrefix(path, p)
  /\ \A f \in {exec.held, exec.begun, exec.entered, exec.valued} : f \subseteq Paths(prog)
  /\ exec.inside \in BOOLEAN /\ exec.ended \in BOOLEAN
  /\ exec.wake \in Nat \cup {Over, Waiting}

\* The process does nothing but what the construct says it does in this time
\* unit, in that order.
InProgramOrder == IsPrefix(exec.log, ref.log)

\* When it has suspended itself, it has done all of that, and goes on when the
\* construct says so.
DoneInItsTime == exec.wake # now => exec.log = ref.log /\ exec.wake = ref.wake

\* When it has ended, no statement is left marked: a block as pushed, a control
\* or a loop as delayed, a task as entered, an assignment as evaluated.
NoFlagLeft ==
  exec.wake = Over =>
    /\ exec.stk = <<>> /\ ~exec.inside
    /\ exec.pushed \cup exec.held \cup exec.begun \cup exec.valued = {}
=============================================================================
