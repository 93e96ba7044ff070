------------------------------ MODULE NodeTree ------------------------------
(***************************************************************************)
(* The program tree of ast/node.cpp, as a heap: a function from node       *)
(* numbers to records, 0 standing for the null pointer.  A node hangs from *)
(* one other node by one of its three links: `next' (the statement after   *)
(* it), one entry of `branches', or `loop' (the body).  `parent' is the    *)
(* weak pointer back.  Only the fields the passes read are kept, and with  *)
(* them `reg', the register Prefetch::nodeStates_ keeps for the node.       *)
(***************************************************************************)
EXTENDS Integers, Sequences, SequencesExt

NoNode == 0
Root   == 1

\* A configuration compares equal to another when PlayConfig::operator!= says
\* so.  `sel' stands for the channel mask, the suppress mask, the marker bits
\* and the trigger, which only ever matter together; -1 is the mask of a
\* configuration that was never set.  `now' and, at rate 0, `hold' are not
\* compared by the code and are not kept.
Config(sel, rate, precomp, dummy) ==
    [sel |-> sel, rate |-> rate, precomp |-> precomp, dummy |-> dummy]

Unset == -1
ZeroConfig  == Config(0, 0, 0, FALSE)
ResetConfig == Config(Unset, 0, 0, FALSE)

Differs(a, b) == a # b

\* Node::Node: no links, no wave, rate -1, zeroed configurations.
NewNode(type, asmId) ==
    [type |-> type, asmId |-> asmId, wave |-> 0, next |-> NoNode,
     branches |-> << >>, loop |-> NoNode, parent |-> NoNode,
     config |-> ZeroConfig, cur |-> ZeroConfig, rate |-> -1, precomp |-> 0,
     once |-> FALSE, maySkip |-> FALSE, var |-> 0,
     loadRef |-> NoNode, play |-> << >>, reg |-> 0]

\* The nodes of a heap of k nodes.
Configs == [sel : Int, rate : Int, precomp : Int, dummy : BOOLEAN]
Nodes(k) ==
    [type : {"load", "play", "branch", "loop", "setvar", "rate", "setprecomp", "ready"},
     asmId : Nat, wave : Nat, next : 0..k, branches : Seq(0..k), loop : 0..k, parent : 0..k,
     config : Configs, cur : Configs, rate : Int, precomp : Int,
     once : BOOLEAN, maySkip : BOOLEAN, var : Nat,
     loadRef : 0..k, play : Seq(1..k), reg : Nat]

\* The node a heap hands out next.
Fresh(h) == Len(h) + 1

\* Node::updateParent: `parent' drops oldChild for newChild, in the first of
\* its links that holds oldChild; only a Branch looks at its branches, and
\* only a node that is no Branch at its loop.  newChild then points back.
Relink(p, oldChild, newChild) ==
    LET at == { i \in DOMAIN p.branches : p.branches[i] = oldChild }
        i0 == CHOOSE i \in at : \A j \in at : i <= j
    IN CASE p.next = oldChild -> [p EXCEPT !.next = newChild]
         [] p.next # oldChild /\ p.type = "branch" /\ at # {} ->
              [p EXCEPT !.branches = IF newChild # NoNode THEN ReplaceAt(@, i0, newChild)
                                                          ELSE RemoveAt(@, i0)]
         [] p.next # oldChild /\ p.type # "branch" /\ p.loop = oldChild ->
              [p EXCEPT !.loop = newChild]
         [] OTHER -> p

UpdateParent(h, parent, oldChild, newChild) ==
    IF parent = NoNode THEN h ELSE
    LET h2 == [h EXCEPT ![parent] = Relink(h[parent], oldChild, newChild)]
    IN IF newChild = NoNode THEN h2 ELSE [h2 EXCEPT ![newChild].parent = parent]

\* Mutant: the node that moves down keeps its old parent.
InsertBeforeOneWay(h, node, newNode) ==
    LET par == h[node].parent
    IN UpdateParent([h EXCEPT ![newNode].next = node, ![newNode].parent = par], par, node, newNode)

\* Node::insertBefore: newNode takes node's place and node hangs from it.
InsertBefore(h, node, newNode) ==
    LET par == h[node].parent
        h1  == [h EXCEPT ![newNode].next = node, ![newNode].parent = par]
        h2  == UpdateParent(h1, par, node, newNode)
    IN [h2 EXCEPT ![node].parent = newNode]

\* Node::swap of a node and its child: the ancestor of `a' that is neither a
\* Loop nor a Branch lends `b' its asm id, then three calls of updateParent.
SwapAncestor(h, a) ==
    LET up[n \in DOMAIN h] ==
            IF h[n].type \in {"loop", "branch"} /\ h[n].parent # NoNode
            THEN up[h[n].parent] ELSE n
    IN up[a]

\* Mutant: the third call comes before the second.
SwapEarly(h, a, b) ==
    LET bNext == h[b].next
        h1    == UpdateParent(h, h[a].parent, a, b)
        h2    == UpdateParent(h1, a, b, bNext)
    IN UpdateParent(h2, b, h2[b].next, bNext)

Swap(h, a, b) ==
    LET id    == h[SwapAncestor(h, a)].asmId
        h0    == IF id > 0 THEN [h EXCEPT ![b].asmId = id] ELSE h
        bNext == h0[b].next
        h1    == UpdateParent(h0, h0[a].parent, a, b)
        h2    == UpdateParent(h1, b, bNext, a)
    IN UpdateParent(h2, a, b, bNext)

\* Node::last: the end of the chain that starts at n.
LastOf(h, n) ==
    LET end[m \in DOMAIN h] == IF h[m].next = NoNode THEN m ELSE end[h[m].next]
    IN end[n]

\* What `own' has for the nodes, in the order placeCommands visits them: a
\* node, then its branches, its body, and the statements after it.
Visits(h, own, n) ==
    LET w[m \in DOMAIN h] ==
            LET sub(c) == IF c = NoNode THEN << >> ELSE w[c]
            IN own[m] \o FlattenSeq([i \in DOMAIN h[m].branches |-> sub(h[m].branches[i])])
                      \o sub(h[m].loop) \o sub(h[m].next)
    IN IF n = NoNode THEN << >> ELSE w[n]

Walk(h, n) == Visits(h, [m \in DOMAIN h |-> <<m>>], n)

\* The nodes that hang from the tree of n.
NodesOf(h, n) == Range(Walk(h, n))

\* The bodies of a Branch, without the null branches.
Bodies(branches) ==
    LET kept[i \in 0..Len(branches)] ==
            IF i = 0 THEN << >>
            ELSE IF branches[i] = NoNode THEN kept[i - 1] ELSE Append(kept[i - 1], branches[i])
    IN kept[Len(branches)]

\* The nodes that hang from n, and whether n itself hangs from its parent.
Links(h, n) == ({h[n].next, h[n].loop} \cup Range(h[n].branches)) \ {NoNode}
Hangs(h, n) == n = Root \/ (h[n].parent # NoNode /\ n \in Links(h, h[n].parent))

\* n holds every child by one link, and the child names it as its parent.
HoldsItsLinks(h, n) ==
    /\ \A c \in Links(h, n) : h[c].parent = n
    /\ h[n].type # "loop" => h[n].loop = NoNode
    /\ h[n].type # "branch" => h[n].branches = << >>
    /\ h[n].next # NoNode => h[n].next # h[n].loop /\ h[n].next \notin Range(h[n].branches)
    /\ \A i, j \in DOMAIN h[n].branches :
          h[n].branches[i] = h[n].branches[j] /\ h[n].branches[i] # NoNode => i = j
=============================================================================
