----------------------------- MODULE MCProcessExec ----------------------------
(***************************************************************************)
(* Programs for the interpreter: what a small grammar generates.           *)
(***************************************************************************)
EXTENDS ProcessExec

\* Statements to build programs of.
Pause == Delayed(1, Plain)
Few == {Plain, Pause, OnEvent(Plain)}
Simple == Few \cup {Delayed(0, Plain), Stored(1), Delayed(1, Stored(1))}
BlocksOf(S) == {Block(<<a>>) : a \in S} \cup {Block(<<a, b>>) : a, b \in S}
GuardedOf(S) ==
  {If(<<a>>) : a \in S} \cup {If(<<Plain, a>>) : a \in S}
  \cup {Case(<<a, Pause>>) : a \in S} \cup {Case(<<Block(<<Pause>>), a>>) : a \in S}
LoopsOf(S) == {Loop(n, a) : n \in {2, While, Forever}, a \in S}
Bodies == Simple \cup BlocksOf(Few)
Constructs ==
  LET one == BlocksOf(Few) \cup GuardedOf(Bodies) \cup LoopsOf(Bodies)
  IN one \cup {Enable} \cup {Delayed(1, s) : s \in one} \cup {OnEvent(s) : s \in one}
Nested ==
  LET two == {Block(<<s, Plain>>) : s \in Constructs}
  IN two \cup {If(<<s>>) : s \in two} \cup {Loop(2, s) : s \in two}

Tasks == {Plain, Block(<<Pause, Plain>>), Block(<<Block(<<Pause>>), Plain>>), If(<<Block(<<Pause>>)>>)}
Initials ==
  {Initial(Block(<<s, Plain>>), Plain) : s \in Simple \cup Constructs \cup Nested}
  \cup {Initial(Block(<<s, t>>), Plain) : s, t \in Simple \cup GuardedOf({Block(<<Pause>>)}) \cup LoopsOf({Block(<<Pause>>)})}
  \cup {Initial(s, t) : s \in {Block(<<Enable, Enable>>), Loop(2, Block(<<Enable, Plain>>)),
                               Loop(2, Enable), If(<<Enable>>), Loop(2, Block(<<If(<<Block(<<Enable>>)>>)>>))},
                        t \in Tasks}

(***************************************************************************)
(* The programs that are executed as they should be.                       *)
(***************************************************************************)
RECURSIVE Suspends(_, _), Passes(_, _), Everywhere(_, _)
\* May a trigger of s return false?  Must time pass before s is done?
Suspends(p, s) ==
  \/ Controlled(s) \/ s.store # NoDelay
  \/ s.kind = "enable" /\ Suspends(p, p.task)
  \/ \E i \in DOMAIN s.kids : Suspends(p, s.kids[i])
Passes(p, s) ==
  \/ s.ec \/ s.dec > 0 \/ s.store > 0
  \/ s.kind = "enable" /\ Passes(p, p.task)
  \/ s.kind = "block" /\ \E i \in DOMAIN s.kids : Passes(p, s.kids[i])

\* What is guarded can be gone on with only from the stack of blocks.
Resumable(p, s) ==
  Suspends(p, s) => s.kind \in {"block", "if", "case"} /\ ~Controlled(s)
GoodNode(p, s) ==
  /\ s.kind \in {"if", "case", "loop"} => \A i \in DOMAIN s.kids : Resumable(p, s.kids[i])
  /\ s.kind = "enable" => Resumable(p, p.task)
  /\ s.kind = "loop" /\ s.times < 0 => Passes(p, s.kids[1])
  /\ s.kind = "loop" /\ s.ec => ~Suspends(p, s.kids[1])
Everywhere(p, s) == GoodNode(p, s) /\ \A i \in DOMAIN s.kids : Everywhere(p, s.kids[i])
Good(c) ==
  LET p == Setup(c)
  IN /\ Everywhere(p, p.root) /\ Everywhere(p, p.task)
     /\ Controlled(p.root) => \A i \in DOMAIN p.root.kids : ~Suspends(p, p.root.kids[i])

\* In an always construct only the root block and the blocks in it are gone on
\* with (after an event control in front, the root only), and event controls
\* inside are passed over.
RECURSIVE NoEvent(_)
NoEvent(s) == ~s.ec /\ \A i \in DOMAIN s.kids : NoEvent(s.kids[i])
Flat(p, s) == \A i \in DOMAIN s.kids : ~Suspends(p, s.kids[i])
FlatBlock(p, s) ==
  Suspends(p, s) => s.kind = "block" /\ \A i \in DOMAIN s.kids : Flat(p, s.kids[i])
Shallow(p, s) ==
  \/ Flat(p, s)
  \/ FlatBlock(p, s)
  \/ s.kind \in {"if", "case"} /\ \A i \in DOMAIN s.kids : FlatBlock(p, s.kids[i])
GoodAlways(c) ==
  LET p == Setup(c)
  IN /\ Good(c)
     /\ Passes(p, p.root)
     /\ \A i \in DOMAIN p.root.kids :
          LET k == p.root.kids[i]
          IN NoEvent(k) /\ Shallow(p, k) /\ (p.root.ec => Flat(p, k))

Alwayses ==
  LET roots == {Block(<<s, t>>) : s \in Simple \cup Constructs, t \in {Plain, Pause}}
               \cup {Block(<<If(<<Pause>>), s>>) : s \in Simple}
               \cup {Block(<<Pause, Block(<<s>>)>>) : s \in Constructs}
      all == roots \cup Simple \cup Constructs
  IN {Always(s, Plain) : s \in all} \cup {Always(Delayed(1, s), Plain) : s \in roots}
     \cup {Always(OnEvent(s), Plain) : s \in roots}
ResumableConstructs == {c \in Initials : Good(c)} \cup {c \in Alwayses : GoodAlways(c)}

\* One that is not.
LoopInIf == {Initial(If(<<Loop(2, Block(<<Pause>>))>>), Plain)}
=============================================================================
