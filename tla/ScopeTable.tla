----------------------------- MODULE ScopeTable ------------------------------
(***************************************************************************)
(* The scope table (common/scp_tab.cc), which gives the scopes of          *)
(* instances their hierarchical names, and what $dumpvars takes from it:   *)
(* the nets to be dumped and the header of the VCD file                    *)
(* (common/dumpvcd.cc).                                                    *)
(*                                                                         *)
(* The table is a function from scopes to sequences of components; top is  *)
(* the name of the top level, whose scope is 1.  Strings are compared      *)
(* character by character in the code: no other name of a design begins    *)
(* with that of the top level.                                             *)
(***************************************************************************)
EXTENDS SymbolTable

NotFound == -1
TopScope == 1

\* Mutant: the name of an instance stays on the stack.
UndoKept(path) == path
Undo(path) == SubSeq(path, 1, Len(path) - 1)

-----------------------------------------------------------------------------
(***************************************************************************)
(* Names and scopes.                                                       *)
(***************************************************************************)

\* find: the lowest scope with the name.
FindScope(paths, path) ==
  LET S == {s \in DOMAIN paths : paths[s] = path}
  IN  IF S = {} THEN NotFound ELSE LeastIn(S)

\* A name without that of the top level.
Relative(top, path) ==
  IF path # <<>> /\ Head(path) = top THEN Tail(path) ELSE path

\* get_scope: the name of the scope a net is in, or the whole of a name that
\* has no dot.
GetScope(top, path) ==
  IF Len(Relative(top, path)) > 1 THEN Undo(Relative(top, path)) ELSE Relative(top, path)

\* The scope get_net searches.
NetScope(paths, top, path) ==
  IF Len(path) = 1 \/ GetScope(top, path) = <<>> THEN TopScope
  ELSE LET s == FindScope(paths, GetScope(top, path)) IN IF s = 0 THEN TopScope ELSE s

\* Nodes of a kind in a scope, in the order of the buckets.
InOrder(table, S) ==
  LET before(i, j) == \/ table[i].bucket < table[j].bucket
                      \/ table[i].bucket = table[j].bucket /\ i < j
      sorted[R \in SUBSET S] ==
        IF R = {} THEN <<>>
        ELSE LET i == CHOOSE i \in R : \A j \in R \ {i} : before(i, j)
             IN  <<i>> \o sorted[R \ {i}]
  IN  sorted[S]

KindIn(table, kind, scope) ==
  InOrder(table, {i \in DOMAIN table : table[i].kind = kind /\ table[i].scope = scope})

\* get_nets(int) and get_instances(int)
GetNets(table, scope) == KindIn(table, "net", scope)
GetInstances(table, scope) == KindIn(table, "instance", scope)

\* get_net
GetNet(table, paths, top, path) ==
  LeastOrNone({i \in DOMAIN table :
    /\ table[i].kind = "net" /\ table[i].name = path[Len(path)]
    /\ table[i].scope = NetScope(paths, top, path)})

\* get_instance: the instance that opens a scope.
GetInstance(table, scope) ==
  LeastOrNone({i \in DOMAIN table : table[i].kind = "instance" /\ table[i].inner = scope})
-----------------------------------------------------------------------------
(***************************************************************************)
(* The nets that $dumpvars takes.                                          *)
(***************************************************************************)

\* Mutant: one level too many.
WithinLevelsMore(level, lvls) == level <= lvls \/ lvls = 0

\* How deep get_nets goes; level is counted from the instance it started at.
WithinLevels(level, lvls) == level < lvls \/ lvls = 0

Concat(seqs) ==
  LET upto[k \in 0 .. Len(seqs)] == IF k = 0 THEN <<>> ELSE upto[k - 1] \o seqs[k]
  IN  upto[Len(seqs)]

\* get_nets(int, int): the nets of the instances of a scope come before its
\* own.  start is the level of the instance it all started at.
NetsBelow(table, scope, lvls, start) ==
  LET deep[s \in {table[i].inner : i \in DOMAIN table} \cup {scope}] ==
        Concat([k \in DOMAIN GetInstances(table, s) |->
                 LET inst == table[GetInstances(table, s)[k]]
                 IN  IF WithinLevels(inst.level - start, lvls) THEN deep[inst.inner] ELSE <<>>])
        \o GetNets(table, s)
  IN  deep[scope]

\* get_nets(const char *, int).  The level stays that of an earlier call when
\* the name is that of a net.
NoNets(start) == [nets |-> <<>>, isNet |-> FALSE, start |-> start]

NamedNet(i, start) ==
  IF i = 0 THEN NoNets(start) ELSE [nets |-> <<i>>, isNet |-> TRUE, start |-> start]

FromInstance(table, i, scope, lvls, isNet, start) ==
  IF i = 0 THEN [NoNets(start) EXCEPT !.isNet = isNet]
  ELSE [nets |-> NetsBelow(table, scope, lvls, table[i].level), isNet |-> isNet,
        start |-> table[i].level]

NetsOf(table, paths, top, path, lvls, wasNet, start) ==
  IF path = <<top>>
  THEN FromInstance(table, GetInstance(table, FindScope(paths, path)), TopScope, lvls,
                    wasNet, start)
  ELSE LET name  == Relative(top, path)
           scope == FindScope(paths, name)
       IN  IF scope = NotFound THEN NamedNet(GetNet(table, paths, top, name), start)
           ELSE FromInstance(table, GetInstance(table, scope), scope, lvls, FALSE, start)
-----------------------------------------------------------------------------
(***************************************************************************)
(* The header of the VCD file: what is opened, named and closed, in order. *)
(***************************************************************************)

Open(path) == [out |-> "scope", path |-> path, net |-> 0]
Close == [out |-> "upscope", path |-> <<>>, net |-> 0]
Var(i) == [out |-> "var", path |-> <<>>, net |-> i]

\* What comes before the line of a net when the one before it was in scope
\* last.
Between(table, paths, i, last) ==
  IF table[i].scope = last THEN <<>>
  ELSE (IF last # TopScope THEN <<Close>> ELSE <<>>)
       \o <<IF table[i].scope = TopScope THEN Close ELSE Open(paths[table[i].scope])>>

\* The nets from the last to the first.
Lines(table, paths, nets) ==
  LET line[k \in 0 .. Len(nets)] ==
        IF k = 0 THEN <<>>
        ELSE LET i == nets[Len(nets) - k + 1]
                 before == IF k = 1 THEN i ELSE nets[Len(nets) - k + 2]
             IN  line[k - 1] \o Between(table, paths, i, table[before].scope) \o <<Var(i)>>
  IN  line[Len(nets)]

\* second_pass, for one argument of $dumpvars.  A net opens the scope that
\* has its own name, and nobody closes it.
Section(table, paths, top, path, got) ==
  LET name == Relative(top, path)
      scope == IF got.isNet THEN GetScope(top, name) ELSE name
  IN  IF got.nets = <<>> THEN <<>>
      ELSE (IF scope \in {<<>>, <<top>>} THEN <<>> ELSE <<Open(scope)>>)
           \o Lines(table, paths, got.nets)
           \o (IF got.isNet \/ path = <<top>> THEN <<>> ELSE <<Close>>)
=============================================================================
