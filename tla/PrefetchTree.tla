---------------------------- MODULE PrefetchTree ----------------------------
(***************************************************************************)
(* What the waveform planner of codegen/prefetch*.cpp does to the program  *)
(* tree: every play gets a Load before it (prepareTree), the loads of one  *)
(* wave become a single one at the front of the program (placeLoads,       *)
(* moveLoadsToFront), and an AwgReady node may follow them.  After that    *)
(* the passes only fill in configurations: Prefetch has them.              *)
(*                                                                         *)
(* Both passes walk the tree with a stack of nodes while they rewire it; a *)
(* step is one round of their loops.  Left out: Lock, Placeholder and      *)
(* Table nodes, which nothing creates.                                     *)
(***************************************************************************)
EXTENDS NodeTree

CONSTANTS Sources,     \* the trees the lowering may hand over, root at node 1
          AwgReady     \* the device type gets an AwgReady node

VARIABLES
    src,        \* the tree as it was handed over: the program that runs
    h,          \* the tree the planner works on
    phase,      \* which pass is running
    work,       \* the stack of nodes the pass has still to visit
    todo,       \* the waves whose loads are still to be moved
    used,       \* waveformMaps_: waves in the order they were collected
    front       \* the chain head moveLoadsToFront has reached

tree == <<src, h, phase, work, todo, used, front>>

Top(s) == s[Len(s)]
Below(s) == SubSeq(s, 1, Len(s) - 1)

\* A program starts with a Load that has no wave.  Its nodes are numbered in
\* the order of the text, each hangs from one before it, and none is a load.
IsProgram(t) ==
    /\ t \in Seq(Nodes(Len(t))) /\ Root \in DOMAIN t
    /\ t[Root].type = "load" /\ t[Root].wave = 0 /\ t[Root].parent = NoNode
    /\ \A n \in DOMAIN t :
          /\ HoldsItsLinks(t, n) /\ t[n].loadRef = NoNode /\ t[n].play = << >>
          /\ \A c \in Links(t, n) : c > n
          /\ n # Root => t[n].type \notin {"load", "ready"} /\ Hangs(t, n)

ASSUME TreeAssumption == AwgReady \in BOOLEAN /\ \A t \in Sources : IsProgram(t)

-----------------------------------------------------------------------------
\* prepareTree.

\* createLoad and insertBefore, for a play that has no load and is no dummy.
LinkLoad(t, n) ==
    IF t[n].loadRef # NoNode \/ t[n].config.dummy THEN t ELSE
    LET ld   == Fresh(t)
        load == [NewNode("load", t[n].asmId) EXCEPT !.wave = t[n].wave, !.var = t[n].var,
                                                    !.reg = ld, !.play = <<n>>]
        t2   == [Append(t, load) EXCEPT ![n].loadRef = ld, ![n].reg = ld]
    IN InsertBefore(t2, n, ld)

\* Mutant: what follows a Branch without bodies goes with it.
RemoveBranchesWhole(t, n) ==
    LET kept == Bodies(t[n].branches)
        t2   == [t EXCEPT ![n].branches = kept,
                          ![n].maySkip = @ \/ kept # t[n].branches]
    IN IF kept = << >> THEN UpdateParent(t2, t[n].parent, n, NoNode) ELSE t2

\* removeBranches: null branches go, and a Branch that lost one may skip all
\* its bodies; a Branch without any is taken out of the chain.
RemoveBranches(t, n) ==
    LET kept == Bodies(t[n].branches)
        t2   == [t EXCEPT ![n].branches = kept,
                          ![n].maySkip = @ \/ kept # t[n].branches]
    IN IF kept = << >> THEN UpdateParent(t2, t[n].parent, n, t[n].next) ELSE t2

\* A copy of the SetVar n in front of cur, if that is the body of the loop par.
CopyInFront(t, par, cur, n) ==
    LET copy == [NewNode("setvar", t[n].asmId) EXCEPT !.var = t[n].var]
    IN IF t[par].type = "loop" /\ t[par].loop = cur
       THEN InsertBefore(Append(t, copy), cur, Fresh(t)) ELSE t

\* expandSetVar: a copy of the SetVar in front of the body of every loop that
\* is entered through the node or through an ancestor of it.
ExpandSetVar(t, n) ==
    LET climb[k \in 0..Len(t)] ==
            IF k = 0 THEN [tree |-> t, at |-> n] ELSE
            LET c   == climb[k - 1]
                par == c.tree[c.at].parent
            IN IF par = NoNode THEN c
               ELSE [tree |-> CopyInFront(c.tree, par, c.at, n), at |-> par]
    IN climb[Len(t)].tree

Collected(n) ==
    LET w == h[n].wave
    IN IF w = 0 \/ w \in Range(used) THEN used ELSE Append(used, w)

PushNode(stack, n) == IF n = NoNode THEN stack ELSE Append(stack, n)

PrepareTree ==
    /\ phase = "prepare" /\ work # << >>
    /\ LET n == Top(work)
           stack == PushNode(Below(work), h[n].next)
       IN CASE h[n].type = "play" ->
                  /\ h' = LinkLoad(h, n) /\ work' = stack
                  /\ used' = IF h[n].config.dummy THEN used ELSE Collected(n)
            [] h[n].type = "branch" ->
                  /\ h' = RemoveBranches(h, n) /\ work' = stack \o h'[n].branches
                  /\ UNCHANGED used
            [] h[n].type = "loop" ->
                  work' = PushNode(stack, h[n].loop) /\ UNCHANGED <<h, used>>
            [] h[n].type = "setvar" ->
                  h' = ExpandSetVar(h, n) /\ work' = stack /\ UNCHANGED used
            [] OTHER -> work' = stack /\ UNCHANGED <<h, used>>
    /\ UNCHANGED <<src, phase, todo, front>>

\* placeLoads: the loads go to the front of a program that has any statement.
EndPrepare ==
    /\ phase = "prepare" /\ work = << >>
    /\ phase' = "move"
    /\ todo' = IF h[Root].next = NoNode THEN << >> ELSE used
    /\ UNCHANGED <<src, h, work, used, front>>

-----------------------------------------------------------------------------
\* moveLoadsToFront: a new Load in front of the chain takes over the plays of
\* the loads of its wave, and these leave the tree.

\* Mutant: the plays keep the register of the load that leaves.
TakeOverRegister(t, ld, old) ==
    UpdateParent([i \in DOMAIN t |->
                     IF \E k \in DOMAIN t[old].play : t[old].play[k] = i
                     THEN [t[i] EXCEPT !.loadRef = ld] ELSE t[i]],
                 t[old].parent, old, t[old].next)

TakeOver(t, ld, old) ==
    LET t1 == [t EXCEPT ![ld].var = IF @ = 0 THEN t[old].var ELSE @,
                        ![ld].play = @ \o t[old].play]
        t2 == [i \in DOMAIN t1 |->
                  IF \E k \in DOMAIN t[old].play : t[old].play[k] = i
                  THEN [t1[i] EXCEPT !.loadRef = ld, !.reg = t1[ld].reg] ELSE t1[i]]
    IN UpdateParent(t2, t[old].parent, old, t[old].next)

\* The Load of the next wave, and the walk behind it.
MoveLoads ==
    /\ phase = "move" /\ work = << >> /\ todo # << >>
    /\ LET ld   == Fresh(h)
           load == [NewNode("load", h[front].asmId) EXCEPT !.wave = Head(todo), !.reg = ld]
       IN /\ h' = InsertBefore(Append(h, load), h[front].next, ld)
          /\ front' = ld
    /\ work' = <<h[front].next>>
    /\ todo' = Tail(todo)
    /\ UNCHANGED <<src, phase, used>>

\* A round of the walk.
MergeLoads ==
    /\ phase = "move" /\ work # << >>
    /\ LET n == Top(work)
           isOfWave == h[n].type = "load" /\ h[n].wave = h[front].wave
       IN /\ h' = IF isOfWave THEN TakeOver(h, front, n) ELSE h
          /\ work' = PushNode(PushNode(Below(work), h[n].next) \o Bodies(h[n].branches), h[n].loop)
    /\ UNCHANGED <<src, phase, todo, used, front>>

EndMove ==
    /\ phase = "move" /\ work = << >> /\ todo = << >>
    /\ phase' = "ready"
    /\ UNCHANGED <<src, h, work, todo, used, front>>

\* placeLoads, the AwgReady node after the last load moved.
PlaceReady ==
    /\ phase = "ready"
    /\ h' = IF ~AwgReady THEN h ELSE
            LET t == Append(h, NewNode("ready", h[front].asmId))
            IN IF h[front].next # NoNode
               THEN InsertBefore(t, h[front].next, Len(t))
               ELSE [t EXCEPT ![front].next = Len(t)]
    /\ phase' = "cwvf"
    /\ UNCHANGED <<src, work, todo, used, front>>

-----------------------------------------------------------------------------
\* The passes that follow: they fill in configurations and rates, move no
\* node, and make no dummy of a play.

Rewiring == {"prepare", "move", "ready"}

Unconfigured(t) ==
    [n \in DOMAIN t |-> [t[n] EXCEPT !.config = ZeroConfig, !.cur = ZeroConfig,
                                     !.rate = -1, !.precomp = 0]]

Configure ==
    /\ phase \notin Rewiring /\ phase' \notin Rewiring
    /\ h' \in Seq(Nodes(Len(h))) /\ Len(h') = Len(h) /\ Unconfigured(h') = Unconfigured(h)
    /\ \A n \in DOMAIN h : h[n].type = "play" => h'[n].config.dummy = h[n].config.dummy
    /\ UNCHANGED <<src, work, todo, used, front>>

TreeInit ==
    /\ src \in Sources /\ h = src
    /\ phase = "prepare" /\ work = <<Root>> /\ todo = << >> /\ used = << >> /\ front = Root

TreePasses == PrepareTree \/ EndPrepare \/ MoveLoads \/ MergeLoads \/ EndMove \/ PlaceReady

\* All that happens to the tree: the planner's steps are these, and once the
\* tree is built, no pass and no run of the program links, makes or moves a node.
OnlyPassesRewire == [][TreePasses \/ Configure]_tree

TreeSpec == TreeInit /\ OnlyPassesRewire

-----------------------------------------------------------------------------
\* Properties.

\* Type correctness.  The used waves are a bimap, so no wave is in it twice.
TreeTypeOK ==
    /\ h \in Seq(Nodes(Len(h))) /\ front \in DOMAIN h
    /\ work \in Seq(DOMAIN h) /\ todo \in Seq(Nat) /\ used \in Seq(Nat)
    /\ IsInjective(used)

\* placeLoads sets no parent when the program has no statement left.
IsLoneReady(n) == h[n].type = "ready" /\ h[n].next = NoNode

\* In the middle of a walk too, every node of the tree is held by one link
\* of one node of the tree, which it names as its parent, up to the root.
TreeIsWhole ==
    \A n \in DOMAIN h :
        Hangs(h, n) =>
            /\ h[n].parent # NoNode => Hangs(h, h[n].parent)
            /\ HoldsItsLinks(h, n) \/ (h[n].next # NoNode /\ IsLoneReady(h[n].next))

\* Neither the insertions nor the removals of the passes, in the middle of
\* their walks too, lose or reorder a play of the program; and what hangs from
\* its parent is what can be reached from the root.
PlaysIn(t) ==
    Visits(t, [n \in DOMAIN t |-> IF t[n].type = "play" THEN <<n>> ELSE << >>], Root)

PlaysAreKept ==
    /\ PlaysIn(h) = PlaysIn(src)
    /\ NodesOf(h, Root) = { n \in DOMAIN h : Hangs(h, n) \/ IsLoneReady(n) }

\* Merging the loads leaves no play of a wave behind: the load it counts on is
\* that of its wave, loads its register, and is the only one of the wave; it
\* stands in front of the program, with nothing but loads before it.
LoadsInFront ==
    phase \notin {"prepare", "move"} =>
        /\ \A n \in DOMAIN h : h[n].type = "play" /\ Hangs(h, n) /\ ~src[n].config.dummy =>
              LET l == h[n].loadRef
              IN /\ l # NoNode /\ h[l].type = "load" /\ Hangs(h, l)
                 /\ h[l].wave = h[n].wave /\ h[l].reg = h[n].reg
        /\ \A l \in DOMAIN h : h[l].type = "load" /\ h[l].wave # 0 /\ Hangs(h, l) =>
              /\ h[h[l].parent].type = "load" /\ h[h[l].parent].next = l
              /\ \A k \in DOMAIN h : h[k].type = "load" /\ h[k].wave = h[l].wave /\ Hangs(h, k) => k = l

\* Node::swap exchanges a node below the root and its child: the child takes
\* the node's slot and holds the node, which holds what followed the child;
\* every other node keeps its parent, and every node still hangs by one link.
SwapExchanges ==
    h = src => \A b \in DOMAIN src :
        LET a == src[b].parent
            t == Swap(src, a, b)
        IN a # NoNode /\ src[a].parent # NoNode =>
              /\ t[b].parent = src[a].parent /\ t[b].next = a /\ t[a].parent = b
              /\ \A n \in DOMAIN t :
                    /\ n \notin {a, b, src[b].next} => t[n].parent = src[n].parent
                    /\ n = src[b].next => t[n].parent = a
                    /\ HoldsItsLinks(t, n) /\ Hangs(t, n)
=============================================================================
