----------------------------- MODULE SymbolTable -----------------------------
(***************************************************************************)
(* The symbol table (common/sym_tab.cc, common/hash.cc) and the lookup of  *)
(* hierarchical names in it (st_node_find, common/st_util.cc).             *)
(*                                                                         *)
(* A table is the sequence of the nodes that were added, records with at   *)
(* least                                                                   *)
(*   name, scope, kind, bucket, inner,                                     *)
(* inner being the scope an instance opens.  Nodes are never removed and   *)
(* a bucket is searched from its first node, so that a position in the     *)
(* sequence stands for the hash value that add returned; 0 is none.        *)
(***************************************************************************)
EXTENDS Integers, Sequences, FiniteSets

CONSTANTS
  Names,      \* identifiers
  Spelling    \* the characters of each

ASSUME SpellingAssumption == Spelling \in [Names -> Seq(1 .. 127)]

HashSize == 65537

LeastIn(S) == CHOOSE i \in S : \A j \in S : i <= j
LeastOrNone(S) == IF S = {} THEN 0 ELSE LeastIn(S)
-----------------------------------------------------------------------------
(***************************************************************************)
(* Hashing.                                                                *)
(***************************************************************************)

\* One character more: once the two highest of 16 bits are reached only they
\* are kept, and the next character shifts one of them out.
Mixed(work, c) ==
  LET w == (4 * work + c) % 65536
  IN  IF w < 16384 THEN w ELSE w - (w % 16384)

Hash(name) ==
  LET word[k \in 0 .. Len(Spelling[name])] ==
        IF k = 0 THEN 0 ELSE Mixed(word[k - 1], Spelling[name][k])
  IN  word[Len(Spelling[name])] % HashSize

\* Mutant: the product is not reduced.
ChainUnbounded(name) ==
  LET at[k \in 1 .. HashSize - 1] == IF k = 1 THEN Hash(name) ELSE at[k - 1] * k
  IN  at

\* rehash: the k-th bucket that is tried.  Chains are longer than any table.
Chain(name) ==
  LET at[k \in 1 .. HashSize - 1] ==
        IF k = 1 THEN Hash(name) ELSE (at[k - 1] * k) % HashSize
  IN  at
-----------------------------------------------------------------------------
(***************************************************************************)
(* get, add and find of one name.                                          *)
(***************************************************************************)

\* A node passes if an instance is not asked for, or it is one.
Passes(node, test) == test => node.kind = "instance"

Get(table, bucket, scope, test) ==
  LeastOrNone({i \in DOMAIN table :
    /\ table[i].bucket = bucket /\ table[i].scope = scope
    /\ Passes(table[i], test)})

\* How many buckets are tried: the last one has no node of the scope, or has
\* the node with the name.
Stops(table, name, scope, test, chain) ==
  LET found(i) == i = 0 \/ table[i].name = name
      from[k \in DOMAIN chain] ==
        IF found(Get(table, chain[k], scope, test)) THEN k ELSE from[k + 1]
  IN  from[1]

InBucket(table, bucket, scope, test) ==
  [bucket |-> bucket, at |-> Get(table, bucket, scope, test)]
Along(table, name, scope, test, chain) ==
  InBucket(table, chain[Stops(table, name, scope, test, chain)], scope, test)
Search(table, name, scope, test) == Along(table, name, scope, test, Chain(name))

\* add.  An instance does not mind a node of another kind.
Place(table, node) == Search(table, node.name, node.scope, node.kind = "instance")

Added(table, node) == Append(table, [node EXCEPT !.bucket = Place(table, node).bucket])

UsedBuckets(table) == {table[i].bucket : i \in DOMAIN table}

\* What add answers.
AddError(table, node) ==
  IF Cardinality(UsedBuckets(table)) >= HashSize THEN "SE_STFULL"
  ELSE IF Place(table, node).at # 0 THEN "SE_STDUP" ELSE "SE_NONE"

\* find: the scopes are tried in turn.
FirstHit(at) ==
  LET hits == {k \in DOMAIN at : at[k] # 0}
  IN  IF hits = {} THEN 0 ELSE at[LeastIn(hits)]

FoundAt(table, name, i) == IF i # 0 /\ table[i].name = name THEN i ELSE 0
Find(table, name, scopes, test) ==
  FirstHit([k \in DOMAIN scopes |-> FoundAt(table, name, Search(table, name, scopes[k], test).at)])
-----------------------------------------------------------------------------
(***************************************************************************)
(* Hierarchical names: sequences of components.                            *)
(***************************************************************************)

\* The nodes the components lead to: the first one is searched in all the
\* scopes, each of the others in the instance before it.
Walk(table, path, scopes) ==
  LET node[k \in 0 .. Len(path)] ==
        IF k = 0 THEN 0
        ELSE IF k > 1 /\ node[k - 1] = 0 THEN 0
        ELSE Find(table, path[k], IF k = 1 THEN scopes ELSE <<table[node[k - 1]].inner>>,
                  k < Len(path))
  IN  node

\* The last component must not be an instance.
NotInstance(table, i) == IF i # 0 /\ table[i].kind = "instance" THEN 0 ELSE i
NodeFind(table, path, scopes) == NotInstance(table, Walk(table, path, scopes)[Len(path)])

\* The scope of the instance that a hierarchical name goes through last.
InnerOr(table, i, own) == IF i = 0 THEN own ELSE table[i].inner
ScopeOf(table, path, scopes, own) ==
  InnerOr(table, IF Len(path) = 1 THEN 0 ELSE Walk(table, path, scopes)[Len(path) - 1], own)
=============================================================================
