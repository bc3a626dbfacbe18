--------------------------------- MODULE Nets --------------------------------
(***************************************************************************)
(* The nets of a design and those who listen to them: assignments from     *)
(* processes, from continuous assignments and through ports queue the      *)
(* events that monitor a net (check_monitor, common/st_util.cc); the event *)
(* queue triggers what they belong to; at the end of a time unit the nets  *)
(* that changed are written to the VCD dump (common/dumpvcd.cc).           *)
(*                                                                         *)
(* A design is a record                                                    *)
(*   nets    the declarations, see NetStore,                               *)
(*   init    what the nets hold after setup,                               *)
(*   order   the events in the order setup registers them,                 *)
(*   events  [kind, expr] of each: "change", "posedge" or "negedge",       *)
(*   forced  the containers that never become inactive,                    *)
(*   wires   those of continuous assignments and ports,                    *)
(*   locals  the inputs of tasks and functions,                            *)
(*   body    what each container triggers,                                 *)
(*   first   the events setup queues: one for each continuous assignment,  *)
(*   moves   the statements its other processes execute.                   *)
(* An event is <<container, number>>.  A statement is [kind, lval, rval,   *)
(* of]: "set" and "later" assign (later names the update of a nonblocking  *)
(* assignment), "entry" and "exit" are those of the arguments of a task,   *)
(* "wait" is an event control, "readmem", with more fields, reads a file   *)
(* into a memory, and the others are the dump tasks.                       *)
(***************************************************************************)
EXTENDS NetStore, MemoryFile

CONSTANTS
  Designs,      \* the designs
  Listeners,    \* containers of continuous assignments, ports and processes
  Updates,      \* containers of the updates of nonblocking assignments
  MaxEvents,    \* bound: events of a container
  MaxDrives,    \* bound: statements of the other processes in a time unit
  MaxTime       \* bound: time units

ASSUME NetsAssumption ==
  /\ Listeners \cap Updates = {}
  /\ MaxEvents \in Nat \ {0} /\ MaxDrives \in Nat /\ MaxTime \in Nat

(***************************************************************************)
(* A design g as setup leaves it.                                          *)
(***************************************************************************)

\* What the bodies of its containers are made of.
BodyStatements(g) == UNION {{g.body[c][i] : i \in DOMAIN g.body[c]} : c \in DOMAIN g.body}

StatementFits(g, p) ==
  /\ p.kind \in {"set", "later", "entry", "exit", "wait",
                 "dumpall", "dumpon", "dumpoff", "dumpvars"}
  /\ p.kind \in {"set", "later"} =>
       ExprFits(g.nets, p.rval) /\ LvalFits(g.nets, p.lval, ExprWidth(g.nets, p.rval))
  /\ p.kind = "later" => p.of \in Updates
  /\ p.kind = "entry" =>
       /\ ExprFits(g.nets, p.rval)
       /\ p.lval[1].net \in g.locals /\ ~IsMemory(g.nets[p.lval[1].net])
  /\ p.kind = "exit" =>
       /\ p.of \in DOMAIN g.nets /\ ~IsMemory(g.nets[p.of]) /\ ~g.nets[p.of].int
       /\ NameFits(g.nets, p.lval[1])
  /\ p.kind = "wait" => p.of \in Listeners

ReadFits(g, p) ==
  /\ p.kind = "readmem" /\ p.base \in {2, 16}
  /\ p.of \in DOMAIN g.nets /\ IsMemory(g.nets[p.of])
  /\ Len(p.args) \in Nat /\ DOMAIN p.args = 1 .. Len(p.args)
  /\ \A k \in DOMAIN p.args : ExprFits(g.nets, p.args[k])
  /\ p.file.tokens \in Seq({p.file.tokens[k] : k \in DOMAIN p.file.tokens})
  /\ \A k \in DOMAIN p.file.tokens :
       /\ p.file.tokens[k].is \in {"word", "address", "comment", "bad"}
       /\ p.file.tokens[k].text \in Seq(Digits) /\ p.file.tokens[k].at \in Nat

DesignFits(g) ==
  /\ IsFiniteSet(DOMAIN g.nets) /\ Outwards(g.nets)
  /\ \A n \in DOMAIN g.nets : NetFits(g.nets, n)
  /\ g.init = [n \in DOMAIN g.nets |-> g.init[n]]
  /\ \A n \in DOMAIN g.nets :
       /\ IF IsMemory(g.nets[n]) THEN g.nets[n].lo .. g.nets[n].hi \subseteq DOMAIN g.init[n]
          ELSE DOMAIN g.init[n] = {0}
       /\ g.init[n] \in [DOMAIN g.init[n] -> [1 .. g.nets[n].size -> Logic]]
  /\ DOMAIN g.events \subseteq Listeners \X (1 .. MaxEvents)
  /\ \A e \in DOMAIN g.events :
       /\ g.events[e].kind \in {"change", "posedge", "negedge"}
       /\ ExprFits(g.nets, g.events[e].expr)
       /\ e[1] \in DOMAIN g.body
  /\ g.order \in Seq(DOMAIN g.events)
  /\ \A e \in DOMAIN g.events : \E i \in DOMAIN g.order : g.order[i] = e
  /\ g.first \in Seq(DOMAIN g.events)
  /\ \A i, j \in DOMAIN g.first : g.first[i][1] = g.first[j][1] => i = j
  /\ g.locals \subseteq DOMAIN g.nets
  /\ \A c \in DOMAIN g.body : g.body[c] \in Seq(BodyStatements(g))
  /\ \A p \in BodyStatements(g) : StatementFits(g, p)
  /\ \A p \in g.moves : StatementFits(g, p) \/ ReadFits(g, p)

ASSUME DesignsAssumption == \A g \in Designs : DesignFits(g)

VARIABLES
  design,    \* the one that is simulated
  store,     \* _storage of each net
  changed,   \* the nets with _changed set
  prev,      \* _previous_bit of each edge event
  active,    \* _active of each container
  pending,   \* _value and _lval's targets of each update
  todo,      \* what is left of the statement being triggered
  queue, queued, temp, stage,   \* the event queue
  drives,    \* statements executed in this time unit
  time,
  dumpOn,    \* _dump_on
  dumped     \* the last value of each net in the dump

netVars == <<store, changed, prev, active, pending, dumpOn, dumped>>
queueVars == <<queue, queued, temp, stage>>
vars == <<design, netVars, queueVars, todo, drives, time>>

AllEvents == (Listeners \X (1 .. MaxEvents)) \cup (Updates \X {1})
Q == INSTANCE EventQueue WITH
  Events <- AllEvents,
  Containers <- Listeners \cup Updates,
  ContainerOf <- [e \in AllEvents |-> e[1]],
  StratumOf <- [e \in AllEvents |-> IF e[1] \in Updates THEN "nonblocking" ELSE "active"]

Decl == design.nets
Nothing == [lval |-> <<>>, targets |-> <<>>, value |-> <<>>]
FirstBit(st, e) == Value(Decl, st, design.events[e].expr)[1]
IsEdge(e) == design.events[e].kind # "change"
OldState == [st |-> store, changed |-> changed, prev |-> prev, active |-> active,
             pending |-> pending, queue |-> queue, queued |-> queued,
             on |-> dumpOn, dumped |-> dumped]
-----------------------------------------------------------------------------
(***************************************************************************)
(* check_monitor                                                           *)
(***************************************************************************)

\* logic_DETECT
Edge(p, c) ==
  IF p = c \/ NVL \in {p, c} \/ {p, c} = {DC, Z} THEN "none"
  ELSE IF p = LO \/ c = HI THEN "posedge" ELSE "negedge"

\* Mutant: nothing is activated by force.
IsActiveUnforced(s, c) == s.active[c]

IsActive(s, c) == c \in design.forced \/ s.active[c]

Added(s, e) ==
  [s EXCEPT !.queue["active"] = Append(@, e), !.queued[e[1]] = TRUE,
            !.active[e[1]] = FALSE]

Noticed(s, e, bit) ==
  /\ IsActive(s, e[1]) /\ ~s.queued[e[1]]
  /\ IsEdge(e) => Edge(s.prev[e], bit) = design.events[e].kind

AddedIf(add, s, e) == IF add THEN Added(s, e) ELSE s

\* Mutant: an event that is not active does not keep track of its bit.
FollowedButIdle(s, e, bit) ==
  IF IsEdge(e) /\ IsActive(s, e[1]) THEN [s EXCEPT !.prev[e] = bit] ELSE s

Followed(s, e, bit) == IF IsEdge(e) THEN [s EXCEPT !.prev[e] = bit] ELSE s

\* One event of the list of a net that has changed.
ToldBit(s, e, bit) == AddedIf(Noticed(s, e, bit), Followed(s, e, bit), e)
Told(s, e) == ToldBit(s, e, FirstBit(s.st, e))

\* The events registered with net n, in the order of its list.
Listening(n) == {e \in DOMAIN design.events : n \in Monitored(design.events[e].expr)}

ToldAll(s, n) ==
  LET told[i \in 0 .. Len(design.order)] ==
        IF i = 0 THEN s
        ELSE IF design.order[i] \in Listening(n) THEN Told(told[i - 1], design.order[i])
        ELSE told[i - 1]
  IN  told[Len(design.order)]

Climbed(s, up) ==
  [s EXCEPT !.st = up[Cardinality(DOMAIN Decl)].st,
            !.changed = @ \cup {up[k].net : k \in {j \in DOMAIN up : up[j].changed}}]

AllTold(s, up) ==
  LET levels == Cardinality(DOMAIN Decl) + 1
      told[i \in 0 .. levels] ==
        IF i = 0 THEN Climbed(s, up)
        ELSE IF up[levels - i].changed THEN ToldAll(told[i - 1], up[levels - i].net)
        ELSE told[i - 1]
  IN  told[levels]

\* st_net_assign, in whole: the nets outside tell their listeners first.
Assignment(s, n, num, slice, target) ==
  AllTold(s, Climb(Decl, s.st, n, num, slice.ms, slice.ls, target.m, target.l))
-----------------------------------------------------------------------------
(***************************************************************************)
(* Statements, from one state of the nets to the next.                     *)
(***************************************************************************)

Target(s, x) == Selected(Decl, s.st, x.sel)

\* trigger_lvalue.  Targets that were not evaluated before, those of a blocking
\* assignment, are looked at when the elements before have their values.
Into(s, lval, num, targets) ==
  LET slices == Elements(Decl, lval)
      target(t, i) == IF targets = <<>> THEN Target(t, lval[i]) ELSE targets[i]
      into[i \in 0 .. Len(lval)] ==
        IF i = 0 THEN s
        ELSE Assignment(into[i - 1], lval[i].net, num, slices[i], target(into[i - 1], i))
  IN  into[Len(lval)]

Store(s, lval, num) == Into(s, lval, num, <<>>)

\* Mutant: the target is looked at again.
StoreAtNew(s, lval, num, targets) == Store(s, lval, num)

StoreAt(s, lval, num, targets) == Into(s, lval, num, targets)

\* A driver that is off leaves the net as it is.
BlockingValue(s, p, v) == IF IsTristate(p.rval, v) THEN s ELSE Store(s, p.lval, v)
Blocking(s, p) == BlockingValue(s, p, Value(Decl, s.st, p.rval))

\* The value stored for later does not know any more that a driver is off.
Pended(s, p) ==
  [s EXCEPT !.pending[p.of] = [lval |-> p.lval, targets |-> Targets(Decl, s.st, p.lval),
                               value |-> Value(Decl, s.st, p.rval)]]

Nonblocking(s, p) ==
  [Pended(s, p) EXCEPT
     !.queue["nonblocking"] = IF s.queued[p.of] THEN @ ELSE Append(@, <<p.of, 1>>),
     !.queued[p.of] = TRUE]

\* Mutant: the value is not deleted.
UpdateKept(s, u) ==
  LET p == s.pending[u]
  IN  StoreAt(s, p.lval, p.value, p.targets)

Update(s, u) ==
  LET p == s.pending[u]
  IN  [StoreAt(s, p.lval, p.value, p.targets) EXCEPT !.pending[u] = Nothing]
\* entry_iovars and exit_iovars, for one argument: the local variables of a
\* task or function get their values behind the back of those who listen.
Entry(s, p) ==
  LET local == p.lval[1].net
  IN  [s EXCEPT !.st[local][0] = Fit(Value(Decl, s.st, p.rval), Decl[local].size)]

Exit(s, p) ==
  LET x == p.lval[1]
  IN  Assignment(s, x.net, Whole(s.st, p.of), [ms |-> None, ls |-> None], Target(s, x))

\* $readmemb and $readmemh.  Nobody is told of the words.
FileBounds(s, p) ==
  LET d == Decl[p.of]
      index(k) == IF k > Len(p.args) THEN None
                  ELSE SignedIndex([int |-> FALSE], Value(Decl, s.st, p.args[k]))
  IN  Bounds(d.lo, d.hi, index(1), index(2))
FromFile(s, p) ==
  Loaded(s.st[p.of], Decl[p.of].lo, Decl[p.of].hi, p.file, p.base, FileBounds(s, p))

\* An error in the file ends the simulation.
ReadMemory(got, p) ==
  /\ got.out # "error"
  /\ store' = [store EXCEPT ![p.of] = got.words]
  /\ UNCHANGED <<changed, prev, active, pending, dumpOn, dumped, queue, queued>>
-----------------------------------------------------------------------------
(***************************************************************************)
(* The VCD dump.                                                           *)
(***************************************************************************)

\* Those with a place in it: memories have none.
DumpedNets == {n \in DOMAIN Decl : Decl[n].hi = Decl[n].lo}
Shown(st, n) == Evaluated(Decl, st, n, None, None)
AllShown(st) == [n \in DumpedNets |-> Shown(st, n)]
AllUnknown == [n \in DumpedNets |-> <<DC>>]

\* Mutant: $dumpon only sets the flag.
DumpOnFlag(s, on) ==
  LET flag == [s EXCEPT !.on = on]
  IN  IF time = 0 \/ on THEN flag ELSE [flag EXCEPT !.dumped = AllUnknown]

\* $dumpon and $dumpoff; at time 0 they only set the flag.
DumpOn(s, on) ==
  LET flag == [s EXCEPT !.on = on]
  IN  IF time = 0 THEN flag
      ELSE [flag EXCEPT !.dumped = IF on THEN AllShown(s.st) ELSE AllUnknown]

\* That $dumpvars is a task of the simulator's turns the dump on.
OnAtFirst == TRUE

\* Executed, $dumpvars is $dumpon: what it asks for is taken during setup.
TurnsOn(p) == p.kind \in {"dumpon", "dumpvars"}

\* $dumpall
DumpAll(s) == [s EXCEPT !.dumped = AllShown(s.st)]

\* dump_values
DumpValues(s) ==
  [s EXCEPT !.dumped = [n \in DumpedNets |-> IF n \in s.changed THEN Shown(s.st, n) ELSE @[n]],
            !.changed = @ \ DumpedNets]

-----------------------------------------------------------------------------
Executed(s, p) ==
  IF p.kind = "set" THEN Blocking(s, p)
  ELSE IF p.kind = "later" THEN Nonblocking(s, p)
  ELSE IF p.kind = "update" THEN Update(s, p.of)
  ELSE IF p.kind = "entry" THEN Entry(s, p)
  ELSE IF p.kind = "exit" THEN Exit(s, p)
  ELSE IF p.kind = "wait" THEN [s EXCEPT !.active[p.of] = TRUE]
  ELSE IF p.kind = "dumpall" THEN DumpAll(s)
  ELSE DumpOn(s, TurnsOn(p))

Becomes(s) ==
  /\ store' = s.st /\ changed' = s.changed /\ prev' = s.prev
  /\ active' = s.active /\ pending' = s.pending
  /\ queue' = s.queue /\ queued' = s.queued
  /\ dumpOn' = s.on /\ dumped' = s.dumped

Init ==
  /\ design \in Designs
  /\ store = design.init
  /\ changed = {}
  /\ prev = [e \in DOMAIN design.events |-> FirstBit(store, e)]
  /\ active = [c \in Listeners |-> FALSE]
  /\ pending = [u \in Updates |-> Nothing]
  /\ todo = <<>>
  /\ queue = [k \in Q!Strata |-> IF k = "active" THEN design.first ELSE <<>>]
  /\ queued = [c \in Listeners \cup Updates |->
                 \E i \in DOMAIN design.first : design.first[i][1] = c]
  /\ temp = <<>> /\ stage = "idle"
  /\ drives = 0 /\ time = 0
  /\ dumpOn = OnAtFirst
  /\ dumped = AllShown(store)

\* A process the time wheel triggers, or a C program, before the event queue
\* is handled.
Drive ==
  /\ stage = "idle" /\ drives < MaxDrives
  /\ \E p \in design.moves :
       \/ p.kind # "readmem" /\ Becomes(Executed(OldState, p))
       \/ p.kind = "readmem" /\ ReadMemory(FromFile(OldState, p), p)
  /\ drives' = drives + 1
  /\ UNCHANGED <<design, todo, temp, stage, time>>

Enter == Q!Enter /\ UNCHANGED <<design, netVars, todo, drives, time>>

Activate ==
  /\ todo = <<>>
  /\ \E r \in DOMAIN Q!Ranked : Q!Activate(r)
  /\ UNCHANGED <<design, netVars, todo, drives, time>>

UpdateOf(u) == [kind |-> "update", of |-> u]

\* The handler takes the next event of the batch.
Trigger ==
  /\ todo = <<>> /\ Q!Handle
  /\ todo' = IF temp[1][1] \in Updates
             THEN <<UpdateOf(temp[1][1])>>
             ELSE design.body[temp[1][1]]
  /\ UNCHANGED <<design, netVars, drives, time>>

Step ==
  /\ todo # <<>>
  /\ Becomes(Executed(OldState, Head(todo)))
  /\ todo' = Tail(todo)
  /\ UNCHANGED <<design, temp, stage, drives, time>>

\* The event queue is empty: the end of the time unit.
EndTime ==
  /\ todo = <<>> /\ time < MaxTime
  /\ Q!Leave
  /\ LET s == IF dumpOn THEN DumpValues(OldState) ELSE OldState
     IN  changed' = s.changed /\ dumped' = s.dumped
  /\ time' = time + 1 /\ drives' = 0
  /\ UNCHANGED <<design, store, prev, active, pending, dumpOn, todo>>

Next == Drive \/ Enter \/ Activate \/ Trigger \/ Step \/ EndTime

Spec == Init /\ [][Next]_vars
-----------------------------------------------------------------------------
(***************************************************************************)
(* Properties.                                                             *)
(***************************************************************************)

Words(g, n) == [DOMAIN g.init[n] -> [1 .. g.nets[n].size -> Logic]]
StoreFits(g, st) ==
  /\ st = [n \in DOMAIN g.nets |-> st[n]]
  /\ \A n \in DOMAIN g.nets : st[n] \in Words(g, n)

\* List l has one event of each container of C that flag says is queued.
ListOf(l, flag, C, E) ==
  /\ l \in Seq(E)
  /\ \A i, j \in DOMAIN l : l[i][1] = l[j][1] => i = j
  /\ \A c \in C : flag[c] <=> \E i \in DOMAIN l : l[i][1] = c

PendingFits(g, p) ==
  p # Nothing =>
    /\ LvalFits(g.nets, p.lval, Len(p.value))
    /\ p.value \in Seq(Logic) /\ p.value # <<>>
    /\ DOMAIN p.targets = DOMAIN p.lval
    /\ \A i \in DOMAIN p.targets : p.targets[i].m \in Int /\ p.targets[i].l \in Int

NetsFit(g, s) ==
  /\ StoreFits(g, s.st) /\ s.changed \subseteq DOMAIN g.nets
  /\ s.prev \in [DOMAIN g.events -> Logic] /\ s.active \in [Listeners -> BOOLEAN]

QueueFits(g, s) ==
  /\ s.queued \in [Listeners \cup Updates -> BOOLEAN]
  /\ s.queue \in [Q!Strata -> Seq(AllEvents)]
  /\ ListOf(s.queue["active"], s.queued, Listeners, DOMAIN g.events)
  /\ ListOf(s.queue["nonblocking"], s.queued, Updates, Updates \X {1})
  /\ \A k \in Q!Strata \ {"active", "nonblocking"} : s.queue[k] = <<>>

NetsTypeOK ==
  /\ design \in Designs
  /\ NetsFit(design, OldState) /\ QueueFits(design, OldState)
  /\ DOMAIN pending = Updates /\ \A u \in Updates : PendingFits(design, pending[u])
  /\ dumpOn \in BOOLEAN /\ DOMAIN dumped = DumpedNets
  /\ drives \in 0 .. MaxDrives /\ time \in 0 .. MaxTime

\* A batch has events of the design only, or updates only, each once, and
\* while it is handled none of these is queued again.
BatchFits ==
  /\ \/ temp \in Seq(DOMAIN design.events) /\ todo \in Seq(BodyStatements(design))
     \/ /\ temp \in Seq(Updates \X {1})
        /\ \A i, j \in DOMAIN temp : temp[i] = temp[j] => i = j
        /\ \A i \in DOMAIN temp : ~queued[temp[i][1]]
        /\ todo # <<>> =>
             \E u \in Updates :
               /\ todo = <<UpdateOf(u)>> /\ ~queued[u]
               /\ \A i \in DOMAIN temp : temp[i] # <<u, 1>>
  /\ stage \in {"idle", "loop"}
  /\ stage = "idle" => temp = <<>> /\ todo = <<>>

\* An update has a value exactly from the execution of its assignment until
\* it is stored (strigger.cc:583-641).
PendingWhile ==
  \A u \in Updates :
    pending[u] # Nothing <=> \/ queued[u]
                             \/ \E i \in DOMAIN temp : temp[i] = <<u, 1>>
                             \/ todo = <<UpdateOf(u)>>

\* While dumping is on, and at time 0, the dump shows every net that has not
\* changed since.
DumpFollows ==
  dumpOn \/ time = 0 =>
    \A n \in DumpedNets \ design.locals :
      ~Inward(Decl[n]) /\ n \notin changed => dumped[n] = Shown(store, n)

\* The inductive invariant: every net keeps its width and its bits, the event
\* queue is used as it must be, updates have their values, and the dump has
\* lost no change.
NetsInv == NetsTypeOK /\ BatchFits /\ PendingWhile /\ DumpFollows

Hit(e) ==
  IF IsEdge(e) THEN Edge(FirstBit(store, e), FirstBit(store', e)) = design.events[e].kind
  ELSE \E n \in Monitored(design.events[e].expr) : store[n] # store'[n]

\* Nets that lead outside to the same net have the same one in their name.
Groups(g) ==
  {group \in [DOMAIN g.nets -> DOMAIN g.nets] :
     \A n \in DOMAIN g.nets : Outward(g.nets[n]) => group[g.nets[n].port] = group[n]}

\* The elements of a left hand side lead to different nets.
Elsewhere(group, lval) ==
  \A i, j \in DOMAIN lval : i # j => group[lval[i].net] # group[lval[j].net]

\* And nobody waits for an edge of an expression with two of these.
Apart(g, group, lval) ==
  /\ Elsewhere(group, lval)
  /\ \A i, j \in DOMAIN lval : i # j =>
       \A e \in DOMAIN g.events : g.events[e].kind # "change" =>
         ~({group[lval[i].net], group[lval[j].net]}
             \subseteq {group[n] : n \in Monitored(g.events[e].expr)})

\* Those who listen to a net have a chance to hear what happens to it: it is
\* not read through a port, not an argument of a task, not loaded from a file,
\* and no assignment makes it change twice.
WellHeard(g) ==
  /\ \A e \in DOMAIN g.events : \A n \in Monitored(g.events[e].expr) :
       /\ ~Inward(g.nets[n]) /\ n \notin g.locals
       /\ \A p \in g.moves : p.kind = "readmem" => p.of # n
  /\ \E group \in Groups(g) : \A p \in BodyStatements(g) \cup g.moves :
       p.kind \in {"set", "later"} => Apart(g, group, p.lval)

\* What a nonblocking assignment writes can be read where it was written: it
\* writes no net twice, and none that is read through a port.
Placed(g, group, lval) ==
  /\ Elsewhere(group, lval)
  /\ \A i \in DOMAIN lval : ~Inward(g.nets[lval[i].net])

WellPlaced(g) ==
  \E group \in Groups(g) : \A p \in BodyStatements(g) \cup g.moves :
    p.kind = "later" => Placed(g, group, p.lval)

\* Whoever waits for an edge of an expression is queued by the assignment
\* that makes it, whichever net or index of the expression was assigned and
\* through however many ports, and by no other; the bit the event compares
\* with is followed while nobody waits (st_util.cc:198).
EdgeSeen ==
  [][store' # store =>
     \A c \in Listeners :
       IsActive(OldState, c) /\ ~queued[c] =>
         (queued'[c] <=> \E e \in DOMAIN design.events : e[1] = c /\ Hit(e))]_vars

Settled == stage = "idle" /\ drives = 0 /\ time > 0

Drivers(n) == {c \in design.wires : design.body[c][1].lval[1].net = n}
Drives(c) == design.body[c][1]
On(c) == ~IsTristate(Drives(c).rval, Value(Decl, store, Drives(c).rval))

\* What setup queues has been assigned; a port has to wait for a change.
Assigned1(c) ==
  \/ \E i \in DOMAIN design.first : design.first[i][1] = c
  \/ \E n \in Monitored(Drives(c).rval) : store[n] # design.init[n]

\* What a port is connected to outside, as the name of an element.
OutsideOf(d) ==
  [net |-> d.port, sel |-> IF d.pms = None THEN [at |-> "none"]
                           ELSE [at |-> "part", ms |-> d.pms, ls |-> d.pls]]

\* At the end of a time unit every net is what drives it: continuous
\* assignments and inputs agree with their expressions, through ports in
\* ports and indexes that changed, a bus with the one driver that is on, and
\* every output has reached the nets outside.
Connected ==
  Settled =>
    /\ \A n \in DOMAIN Decl : \A c \in Drivers(n) :
         On(c) /\ Assigned1(c) /\ (\A b \in Drivers(n) : On(b) => b = c) =>
           LET x == Drives(c).lval[1]
           IN  Read(Decl, store, x) = Fit(Value(Decl, store, Drives(c).rval), WidthOf(Decl, x))
    /\ \A n \in DOMAIN Decl :
         LET outside == OutsideOf(Decl[n])
         IN  Outward(Decl[n]) /\ store[n] # design.init[n] =>
               Read(Decl, store, outside) = Fit(Whole(store, n), WidthOf(Decl, outside))

\* Elements of different nets, or constant parts of one without a common bit.
NoOverlap(D, x, y) ==
  \/ x.net # y.net
  \/ /\ x.sel.at = "part" /\ y.sel.at = "part"
     /\ LET size == D[x.net].size
            up == D[x.net].up
            a == Span(size, up, x.sel.ms, x.sel.ls)
            b == Span(size, up, y.sel.ms, y.sel.ls)
        IN  a.last < b.first \/ b.last < a.first

\* The elements that a statement writes, at once or by its update.
Aims(p) ==
  IF p.kind \in {"set", "later"} THEN {p.lval[i] : i \in DOMAIN p.lval}
  ELSE IF p.kind = "exit" THEN {p.lval[1]} ELSE {}

\* Nobody writes a bit of x but the statements P and the ports N; x is no word
\* of a memory, and it does not move.
Exclusive(g, x, P, N) ==
  /\ NameFits(g.nets, x) /\ x.sel.at # "bit" /\ x.net \notin g.locals
  /\ ~IsMemory(g.nets[x.net]) /\ ~Inward(g.nets[x.net])
  /\ \A p \in (BodyStatements(g) \cup g.moves) \ P : \A y \in Aims(p) : NoOverlap(g.nets, x, y)
  /\ \A n \in DOMAIN g.nets \ N : Outward(g.nets[n]) => NoOverlap(g.nets, x, OutsideOf(g.nets[n]))

\* The continuous assignment or port that c belongs to waits for every net of
\* its expression.
Follower(g, c) ==
  /\ c \in g.forced /\ c \in DOMAIN g.body /\ Len(g.body[c]) = 1
  /\ g.body[c][1].kind = "set" /\ Len(g.body[c][1].lval) = 1
  /\ \E e \in DOMAIN g.events :
       e[1] = c /\ g.events[e].kind = "change" /\ g.events[e].expr = g.body[c][1].rval

\* Every bit that is driven has one driver.
WellConnected(g) ==
  /\ WellHeard(g)
  /\ \A c \in g.wires :
       Follower(g, c) /\ Exclusive(g, g.body[c][1].lval[1], {g.body[c][1]}, {})
  /\ \A n \in DOMAIN g.nets :
       Outward(g.nets[n]) => n \notin g.locals /\ Exclusive(g, OutsideOf(g.nets[n]), {}, {n})

\* Statement p, executed now, has an element of the net for its target, and
\* its driver is on.
Hits(p) ==
  LET t == Selected(Decl, store, p.lval[1].sel)
      d == Decl[p.lval[1].net]
  IN  /\ p.kind = "set" /\ Len(p.lval) = 1
      /\ ~IsTristate(p.rval, Value(Decl, store, p.rval))
      /\ IF IsMemory(d) THEN t.m \in d.lo .. d.hi
         ELSE p.lval[1].sel.at = "none" \/ t.m \in 0 .. d.size - 1

ReadsBack(p, after) ==
  LET x == p.lval[1]
      t == Selected(Decl, store, x.sel)
      span == Span(Decl[x.net].size, Decl[x.net].up, t.m, t.l)
      outside == IF IsMemory(Decl[x.net]) \/ t.m = None THEN {}
                 ELSE {i \in 1 .. Decl[x.net].size : i - 1 < span.first \/ i - 1 > span.last}
      width == IF IsMemory(Decl[x.net]) \/ t.m = None THEN Decl[x.net].size ELSE Length(span)
      seen == Evaluated(Decl, after, x.net, t.m, t.l)
  IN  /\ \A i \in 1 .. width : seen[i] = At(Value(Decl, store, p.rval), i)
      /\ \A i \in outside : after[x.net][0][i] = store[x.net][0][i]
      /\ \A w \in DOMAIN store[x.net] \ {IF IsMemory(Decl[x.net]) THEN t.m ELSE 0} :
           after[x.net][w] = store[x.net][w]

\* What a process assigns to a net, a part of one or a word of a memory is
\* what reading the same element gives at once, and nothing around it moves.
WriteReads ==
  stage = "idle" =>
    \A p \in design.moves :
      Hits(p) /\ ~Inward(Decl[p.lval[1].net]) => ReadsBack(p, Blocking(OldState, p).st)

\* The same for the inout ports of a module ("IO declaration, input, output
\* and inout, is fully supported", vbs.txt:1246).
InoutReads ==
  stage = "idle" =>
    \A p \in design.moves :
      Hits(p) /\ Inward(Decl[p.lval[1].net]) => ReadsBack(p, Blocking(OldState, p).st)

\* A file that can be read in whole, its addresses too.
WellFormed(file, base, size) ==
  /\ file.ended
  /\ \A k \in DOMAIN file.tokens :
       /\ ~Refused(file.tokens[k], base, size)
       /\ file.tokens[k].is = "address" => file.tokens[k].at < Below(size)

\* Where the words of a file go, counted from the address before each.
WordsOf(file) == {k \in DOMAIN file.tokens : file.tokens[k].is = "word"}
AddressOf(file, k, start) ==
  LET before == {j \in 1 .. k : file.tokens[j].is = "address"}
      from == IF before = {} THEN 0 ELSE Last(before)
  IN  (IF from = 0 THEN start ELSE file.tokens[from].at)
      + Cardinality({j \in WordsOf(file) : from < j /\ j < k})

Kept(p, b) ==
  {k \in WordsOf(p.file) :
     LET upto == {j \in WordsOf(p.file) : j <= k}
     IN  /\ Cardinality(upto) <= b.stop - b.start + 1
         /\ \A j \in upto : AddressOf(p.file, j, b.start) <= Decl[p.of].hi}

Arriving(p, b, w) == {k \in Kept(p, b) : AddressOf(p.file, k, b.start) = w}

WordAfter(p, from, old) ==
  IF from = {} THEN old ELSE FromDigits(p.file.tokens[Last(from)].text, p.base, Decl[p.of].size)

LoadedAfter(p, b, words) ==
  WellFormed(p.file, p.base, Decl[p.of].size)
  /\ b.start \in Decl[p.of].lo .. b.stop /\ b.stop <= Decl[p.of].hi
  => words = [w \in DOMAIN words |-> WordAfter(p, Arriving(p, b, w), store[p.of][w])]

\* $readmemb and $readmemh put each word of a file at its address, as many as
\* the task asks for, and touch no other.  This is said of files that end with
\* a newline, of addresses that fit into a word, and of indexes that ascend
\* (st_util.cc, 273-454).
FileLoaded ==
  stage = "idle" =>
    \A p \in {q \in design.moves : q.kind = "readmem"} :
      LoadedAfter(p, FileBounds(OldState, p), FromFile(OldState, p).words)

\* The update of a nonblocking assignment puts the value of its execution
\* where its target was then, whatever has moved since.
UpdatesLand ==
  [][\A u \in Updates :
       pending[u] # Nothing /\ pending'[u] = Nothing =>
         \A i \in DOMAIN pending[u].lval :
           LET x == pending[u].lval[i]
               t == pending[u].targets[i]
               e == Elements(Decl, pending[u].lval)[i]
               v == Slice(pending[u].value, e.ms, e.ls)
               inside == IF IsMemory(Decl[x.net]) THEN t.m \in Decl[x.net].lo .. Decl[x.net].hi
                         ELSE x.sel.at = "none" \/ t.m \in 0 .. Decl[x.net].size - 1
           IN  inside => Fit(Evaluated(Decl, store', x.net, t.m, t.l), ElementWidth(Decl, x))
                           = Fit(v, ElementWidth(Decl, x))]_vars

\* While dumping is on, the dump of a time unit ends with the value of every
\* net, however often $dumpoff and $dumpon came in between.  Arguments of
\* tasks do not count as changed (st_util.cc:164), and an inout port shows
\* what is outside without having changed itself.
DumpShows ==
  [][time' # time /\ dumpOn =>
     \A n \in DumpedNets \ design.locals : ~Inward(Decl[n]) => dumped'[n] = Shown(store, n)]_vars
=============================================================================
