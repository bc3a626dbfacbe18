---------------------------- MODULE Declarations -----------------------------
(***************************************************************************)
(* What the declarations of a module, task or function do to the symbol    *)
(* table (moditm/d_setup.cc, expr/esetup.cc for the names in them).        *)
(*                                                                         *)
(* A declaration is for one identifier,                                    *)
(*   [type, dir, range, name, words, init],                                *)
(* type being "io" or that of a net, range, words (of a memory) and init   *)
(* sequences of constant expressions that may be empty.  A constant is     *)
(*   [op |-> "number", value, width] or [op |-> "name", name], a path.     *)
(***************************************************************************)
EXTENDS ScopeTable

None == -1           \* no storage yet, or a value with unknown bits
MaxRange == 4096     \* logic::cache_size

Local(scopes) == <<scopes[1]>>

Node(name, scope, kind) ==
  [name |-> name, scope |-> scope, kind |-> kind, bucket |-> 0,
   inner |-> None, level |-> 0, type |-> "none", dir |-> "none",
   ms |-> None, ls |-> None, lo |-> None, hi |-> None, value |-> None,
   port |-> 0, io |-> <<>>, done |-> FALSE, of |-> 0, item |-> <<>>]

NewNet(name, scope, type) == [Node(name, scope, "net") EXCEPT !.type = type]
Size(node) == (IF node.ms > node.ls THEN node.ms - node.ls ELSE node.ls - node.ms) + 1
Narrowed(value, bits) == IF bits > 30 THEN value ELSE value % (2 ^ bits)
-----------------------------------------------------------------------------
(***************************************************************************)
(* Constant expressions.                                                   *)
(***************************************************************************)

\* setup_expr of a name: what it may stand for, where only parameters are
\* constant.
NodeError(table, i, constant) ==
  IF i = 0 THEN "SE_STDEF"
  ELSE IF \/ table[i].kind \notin {"net", "function"}
          \/ constant /\ table[i].type # "parameter"
  THEN "SE_TYPE" ELSE "SE_NONE"

ConstError(table, scopes, e, constant) ==
  IF e.op = "number" THEN "SE_NONE"
  ELSE NodeError(table, NodeFind(table, e.name, scopes), constant)

Constant(table, scopes, e) ==
  IF e.op = "number" THEN [value |-> e.value, width |-> e.width]
  ELSE LET node == table[NodeFind(table, e.name, scopes)]
       IN  [value |-> node.value, width |-> Size(node)]

FirstError(errors) ==
  LET S == {k \in DOMAIN errors : errors[k] # "SE_NONE"}
  IN  IF S = {} THEN "SE_NONE" ELSE errors[LeastIn(S)]

ConstErrors(table, scopes, exprs, constant) ==
  FirstError([k \in DOMAIN exprs |-> ConstError(table, scopes, exprs[k], constant)])

Bound(table, scopes, e) == Constant(table, scopes, e).value
-----------------------------------------------------------------------------
(***************************************************************************)
(* io_setup                                                                *)
(***************************************************************************)

Found(table, scopes, d) == NodeFind(table, <<d.name>>, Local(scopes))

RangeOf(table, scopes, d, default) ==
  IF d.range = <<>> THEN default
  ELSE [k \in 1 .. 2 |-> Bound(table, scopes, d.range[k])]

\* The table with the net in it, and where: a module has its ports already.
Entered(table, scopes, d, type) ==
  LET i == Found(table, scopes, d)
      more == Added(table, NewNet(d.name, scopes[1], type))
  IN  IF i # 0 THEN [table |-> table, at |-> i] ELSE [table |-> more, at |-> Len(more)]

IoError(table, scopes, d, mustExist) ==
  LET i == Found(table, scopes, d)
  IN  IF i = 0
      THEN IF mustExist THEN "SE_STDEF"
           ELSE FirstError(<<AddError(table, NewNet(d.name, scopes[1], "port")),
                             ConstErrors(table, scopes, d.range, FALSE)>>)
      ELSE IF table[i].kind # "net" THEN "SE_TYPE"
      ELSE IF table[i].dir # "none" THEN "SE_IODECL"
      ELSE IF table[i].ms # None THEN "SE_NONE"
      ELSE ConstErrors(table, scopes, d.range, FALSE)

WithStorage(node, range) ==
  IF node.ms # None THEN node ELSE [node EXCEPT !.ms = range[1], !.ls = range[2]]

IoEntered(e, d, range) ==
  [e EXCEPT !.table[e.at] = [WithStorage(@, range) EXCEPT !.dir = d.dir]]

IoDeclared(table, scopes, d) ==
  IoEntered(Entered(table, scopes, d, "port"), d, RangeOf(table, scopes, d, <<0, 0>>))
-----------------------------------------------------------------------------
(***************************************************************************)
(* net_setup                                                               *)
(***************************************************************************)

TypeError(type) ==
  CASE type = "wire"      -> "SE_WIREDECL" [] type = "register" -> "SE_REGDECL"
    [] type = "integer"   -> "SE_INTDECL"  [] type = "time"     -> "SE_TIMEDECL"
    [] type = "parameter" -> "SE_PARAMDECL"

\* The range of a type; that of a parameter is as wide as its default.
DefaultRange(type, width) ==
  IF type = "integer" THEN <<31, 0>> ELSE IF type = "time" THEN <<63, 0>>
  ELSE IF type = "parameter" THEN <<width - 1, 0>> ELSE <<0, 0>>

NetRange(table, scopes, d, width) ==
  RangeOf(table, scopes, d, DefaultRange(d.type, width))

NameTaken(table, scopes, d, i) ==
  IF i = 0 THEN AddError(table, NewNet(d.name, scopes[1], d.type))
  ELSE IF table[i].kind # "net" THEN "SE_TYPE"
  ELSE IF table[i].type # "port" THEN TypeError(d.type) ELSE "SE_NONE"

RangeError(table, scopes, d, i, range) ==
  IF d.range # <<>> /\ \E k \in 1 .. 2 : range[k] \notin 0 .. MaxRange THEN "SE_SUPPORT"
  ELSE IF i = 0 \/ table[i].ms = None THEN ConstErrors(table, scopes, d.words, FALSE)
  ELSE IF range # <<table[i].ms, table[i].ls>> /\ d.type # "integer" THEN "SE_IDXORDER"
  ELSE "SE_NONE"

NetError(table, scopes, d, width) ==
  LET i == Found(table, scopes, d)
      before == FirstError(<<NameTaken(table, scopes, d, i),
                             ConstErrors(table, scopes, d.range, FALSE)>>)
  IN  IF before # "SE_NONE" THEN before
      ELSE RangeError(table, scopes, d, i, NetRange(table, scopes, d, width))

\* A memory, unless the storage is there already.
AsMemory(node, a, b) ==
  [node EXCEPT !.type = "memory", !.lo = IF a > b THEN b ELSE a, !.hi = IF a > b THEN a ELSE b]

NetNode(table, scopes, d, node, range) ==
  IF node.ms # None /\ d.type # "integer" THEN node
  ELSE IF node.ms # None \/ d.words = <<>>
  THEN [node EXCEPT !.ms = range[1], !.ls = range[2]]
  ELSE AsMemory([node EXCEPT !.ms = range[1], !.ls = range[2]],
                Bound(table, scopes, d.words[1]), Bound(table, scopes, d.words[2]))

NetEntered(e, scopes, d, range) ==
  [e EXCEPT !.table[e.at] = NetNode(e.table, scopes, d, [@ EXCEPT !.type = d.type], range)]

NetDeclared(table, scopes, d, width) ==
  NetEntered(Entered(table, scopes, d, d.type), scopes, d, NetRange(table, scopes, d, width))
-----------------------------------------------------------------------------
(***************************************************************************)
(* Initial values and parameters.                                          *)
(***************************************************************************)

\* A value assigned to a whole net; a memory has none.
Assigned(e, value) ==
  [e EXCEPT !.table[e.at].value =
     IF e.table[e.at].type = "memory" \/ value = None THEN @
     ELSE Narrowed(value, Size(e.table[e.at]))]

\* The width of the default of a parameter.
DefaultWidth(table, scopes, d) ==
  IF d.type = "parameter" THEN Constant(table, scopes, d.init[1]).width ELSE 0

\* Mutant: an override is used by the next parameter too.
RestKept(overrides) == overrides

\* The override is used up.
Rest(overrides) == IF overrides = <<>> THEN overrides ELSE Tail(overrides)

\* What a declaration of a net, variable or parameter may report.  The
\* default of a parameter is set up before its name is there, the initial
\* value of a variable after it.
DeclError(table, scopes, d) ==
  IF d.type = "parameter" /\ ConstErrors(table, scopes, d.init, TRUE) # "SE_NONE"
  THEN ConstErrors(table, scopes, d.init, TRUE)
  ELSE LET own == NetError(table, scopes, d, DefaultWidth(table, scopes, d))
       IN  IF own # "SE_NONE" \/ d.type \in {"wire", "parameter"} THEN own
           ELSE ConstErrors(NetDeclared(table, scopes, d, 0).table, scopes, d.init, TRUE)

InitValue(table, scopes, d, overrides) ==
  IF d.init = <<>> THEN None
  ELSE IF d.type = "parameter" /\ overrides # <<>> THEN Head(overrides)
  ELSE IF d.type = "wire" /\ d.init[1].op # "number" THEN None
  ELSE Bound(table, scopes, d.init[1])

Declared(table, scopes, d, overrides) ==
  Assigned(NetDeclared(table, scopes, d, DefaultWidth(table, scopes, d)),
           InitValue(table, scopes, d, overrides))
=============================================================================
