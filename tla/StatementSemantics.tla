-------------------------- MODULE StatementSemantics --------------------------
(***************************************************************************)
(* Procedural statements, as the parser builds them and as setup completes *)
(* them, and what they mean: a process does its statements one after the   *)
(* other, each as often as the constructs around it say, and time passes   *)
(* only where a statement has a delay or an event control.                 *)
(*                                                                         *)
(* A statement is a record; its place in a program is a path, the sequence *)
(* of the positions that lead to it.  What a statement computes is left    *)
(* out, except the one value the conditions of a program look at.          *)
(***************************************************************************)
EXTENDS Integers, SequencesExt

NoDelay == -1
Forever == -1
While == -2
NoCount == -3

\* A plain statement.  store is the delay of `x = #store y`, times what a
\* loop repeats: a number of times, Forever, or While the condition holds.
Plain == [kind |-> "plain", dec |-> NoDelay, ec |-> FALSE, kids |-> <<>>,
          store |-> NoDelay, times |-> NoCount]
Compound(kind, kids) == [Plain EXCEPT !.kind = kind, !.kids = kids]

Block(ss) == Compound("block", ss)
If(ss) == Compound("if", ss)        \* kids: if true, if false (or none)
Case(ss) == Compound("case", ss)    \* kids: the statements of the items
Enable == Compound("enable", <<>>)  \* of the program's one task
Loop(n, s) == [Compound("loop", <<s>>) EXCEPT !.times = n]
Delayed(n, s) == [s EXCEPT !.dec = n]                \* #n s
OnEvent(s) == [s EXCEPT !.ec = TRUE]                 \* @(e) s
Stored(n) == [Plain EXCEPT !.store = n]              \* x = #n y

\* A procedural construct with the body of its task.
Initial(s, task) == [always |-> FALSE, root |-> s, task |-> task]
Always(s, task) == [always |-> TRUE, root |-> s, task |-> task]

Controlled(s) == s.dec # NoDelay \/ s.ec
-----------------------------------------------------------------------------
(***************************************************************************)
(* Setup: a controlled statement that an if or a loop guards is put in a   *)
(* block of its own (the items of a case are not), and the statement of a  *)
(* construct always is; that of an always hands its control to the block.  *)
(***************************************************************************)
Wrapped(s) == IF Controlled(s) /\ s.kind # "block" THEN Block(<<s>>) ELSE s

RECURSIVE Completed(_)
Completed(s) ==
  LET kids == [i \in DOMAIN s.kids |->
                 Completed(IF s.kind \in {"if", "loop"} THEN Wrapped(s.kids[i])
                                                        ELSE s.kids[i])]
  IN [s EXCEPT !.kids = kids]

RootBlock(c) ==
  IF c.root.kind = "block" THEN c.root
  ELSE IF c.always
       THEN [Block(<<[c.root EXCEPT !.dec = IF c.root.ec THEN @ ELSE NoDelay, !.ec = FALSE]>>)
               EXCEPT !.dec = IF c.root.ec THEN NoDelay ELSE c.root.dec, !.ec = c.root.ec]
       ELSE Block(<<c.root>>)

Setup(c) == [c EXCEPT !.root = Completed(RootBlock(c)), !.task = Completed(c.task)]

\* The statement at a path: <<1>> is the root, <<2>> the body of the task.
Root == <<1>>
Task == <<2>>
At(prog, path) ==
  LET walk[i \in 1..Len(path)] ==
        IF i = 1 THEN (IF path[1] = 1 THEN prog.root ELSE prog.task)
                 ELSE walk[i - 1].kids[path[i]]
  IN walk[Len(path)]

RECURSIVE PathsFrom(_, _)
PathsFrom(s, path) ==
  {path} \cup UNION {PathsFrom(s.kids[i], Append(path, i)) : i \in DOMAIN s.kids}
Paths(prog) == PathsFrom(prog.root, Root) \cup PathsFrom(prog.task, Task)
-----------------------------------------------------------------------------
(***************************************************************************)
(* The meaning.  A run is [rest, wake, log]: what the process has still to *)
(* do, when it goes on, and what it did in the present time unit.          *)
(***************************************************************************)
Over == -1       \* wake: the process has ended
Waiting == -2    \* wake: the process waits for the event

Todo(what, path, n) == [what |-> what, path |-> path, left |-> n]
Did(what, path) == [what |-> what, path |-> path]

\* Which statement of an if or a case the condition selects, if any.
Chosen(s, sel, path) == IF sel <= Len(s.kids) THEN <<Append(path, sel)>> ELSE <<>>

StartAll(paths) == [i \in DOMAIN paths |-> Todo("start", paths[i], 0)]

\* A loop that has `left` rounds to go, and its condition if it has one.
Again(s, left, sel) ==
  \/ s.times = Forever
  \/ s.times = While /\ sel = 1
  \/ s.times >= 0 /\ left > 0

\* What a started statement has become: the things it leaves to do.
Unfolded(s, path, left, sel) ==
  CASE s.kind = "block" -> StartAll([i \in DOMAIN s.kids |-> Append(path, i)])
    [] s.kind \in {"if", "case"} -> StartAll(Chosen(s, sel, path))
    [] s.kind = "enable" -> StartAll(<<Task>>)
    [] s.kind = "loop" ->
         IF Again(s, left, sel)
         THEN <<Todo("start", Append(path, 1), 0), Todo("body", path, left - 1)>>
         ELSE <<>>

RECURSIVE Run(_, _, _, _)
\* The run r of prog goes on at time t while the condition is sel, until time
\* has to pass.
Run(prog, r, t, sel) ==
  IF r.rest = <<>> /\ prog.always
  THEN Run(prog, [r EXCEPT !.rest = StartAll(<<Root>>)], t, sel)
  ELSE IF r.rest = <<>> THEN [r EXCEPT !.wake = Over]
  ELSE LET do == Head(r.rest)
           s == At(prog, do.path)
           GoOn(todo, log) == [r EXCEPT !.rest = todo \o Tail(@), !.log = log]
           body == <<Todo("body", do.path, s.times)>>
           store == <<Todo("store", do.path, 0)>>
           After(d, g) == IF d > 0 THEN [g EXCEPT !.wake = t + d] ELSE Run(prog, g, t, sel)
       IN CASE do.what = "start" /\ s.ec -> [GoOn(body, r.log) EXCEPT !.wake = Waiting]
            [] do.what = "start" /\ ~s.ec -> After(s.dec, GoOn(body, r.log))
            [] do.what = "store" -> Run(prog, GoOn(<<>>, Append(r.log, Did("store", do.path))), t, sel)
            [] do.what = "body" /\ s.kind = "plain" ->
                 IF s.store = NoDelay
                 THEN Run(prog, GoOn(<<>>, Append(r.log, Did("all", do.path))), t, sel)
                 ELSE After(s.store, GoOn(store, Append(r.log, Did("value", do.path))))
            [] do.what = "body" /\ s.kind # "plain" ->
                 Run(prog, GoOn(Unfolded(s, do.path, do.left, sel), r.log), t, sel)
=============================================================================
