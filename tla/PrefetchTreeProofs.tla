------------------------- MODULE PrefetchTreeProofs -------------------------
(* Whatever program the planner is given: its walks keep the tree whole     *)
(* while they rewire it and its plays in their order, when the loads have   *)
(* been merged every play has the one load of its wave at the front of the  *)
(* program, and when the program runs, each play plays that wave, on        *)
(* whatever path it is reached.                                             *)
EXTENDS Prefetch, NatFacts, SequenceTheorems, TLAPS

----------------------------------------------------------------------------
(* Sequences without duplicates.                                           *)

LEMMA AppendFacts ==
  ASSUME NEW S, NEW s \in Seq(S), NEW e \in S
  PROVE  /\ Append(s, e) \in Seq(S) /\ Range(Append(s, e)) = Range(s) \cup {e}
         /\ IsInjective(s) /\ e \notin Range(s) => IsInjective(Append(s, e))
<1>1. /\ Append(s, e) \in Seq(S) /\ Len(Append(s, e)) = Len(s) + 1
      /\ \A i \in 1 .. Len(s) : Append(s, e)[i] = s[i]
      /\ Append(s, e)[Len(s) + 1] = e
  OBVIOUS
<1>2. DOMAIN Append(s, e) = 1 .. Len(s) + 1 /\ DOMAIN s = 1 .. Len(s) /\ Len(s) \in Nat
  BY <1>1
<1>3. Range(Append(s, e)) = Range(s) \cup {e}
  BY <1>1, <1>2 DEF Range
<1>4. ASSUME IsInjective(s), e \notin Range(s) PROVE IsInjective(Append(s, e))
  BY <1>1, <1>2, <1>4 DEF IsInjective, Range
<1> QED
  BY <1>1, <1>3, <1>4

LEMMA ConcatFacts ==
  ASSUME NEW S, NEW s \in Seq(S), NEW t \in Seq(S)
  PROVE  /\ s \o t \in Seq(S) /\ Range(s \o t) = Range(s) \cup Range(t)
         /\ IsInjective(s) /\ IsInjective(t) /\ Range(s) \cap Range(t) = {} => IsInjective(s \o t)
<1> DEFINE u == s \o t
<1>1. /\ u \in Seq(S) /\ Len(u) = Len(s) + Len(t)
      /\ \A i \in 1 .. Len(u) : u[i] = IF i <= Len(s) THEN s[i] ELSE t[i - Len(s)]
  OBVIOUS
<1>2. /\ DOMAIN u = 1 .. Len(s) + Len(t) /\ DOMAIN s = 1 .. Len(s) /\ DOMAIN t = 1 .. Len(t)
      /\ Len(s) \in Nat /\ Len(t) \in Nat
  BY <1>1
<1> HIDE DEF u
<1>3. \A i \in DOMAIN s : i \in DOMAIN u /\ u[i] = s[i]
  BY <1>1, <1>2
<1>4. \A i \in DOMAIN t : i + Len(s) \in DOMAIN u /\ u[i + Len(s)] = t[i]
  BY <1>1, <1>2
<1>5. \A i \in DOMAIN u : \/ i \in DOMAIN s /\ u[i] = s[i]
                          \/ i - Len(s) \in DOMAIN t /\ u[i] = t[i - Len(s)]
  BY <1>1, <1>2
<1>6. Range(u) = Range(s) \cup Range(t)
  <2>1. \A x \in Range(u) : x \in Range(s) \cup Range(t)
    BY <1>5 DEF Range
  <2>2. \A x \in Range(s) : x \in Range(u)
    BY <1>3 DEF Range
  <2>3. \A x \in Range(t) : x \in Range(u)
    BY <1>4 DEF Range
  <2> QED
    BY <2>1, <2>2, <2>3
<1>7. ASSUME IsInjective(s), IsInjective(t), Range(s) \cap Range(t) = {},
             NEW i \in DOMAIN u, NEW j \in DOMAIN u, u[i] = u[j]
      PROVE  i = j
  <2>1. CASE i \in DOMAIN s /\ u[i] = s[i] /\ j \in DOMAIN s /\ u[j] = s[j]
    BY <1>7, <2>1 DEF IsInjective
  <2>2. CASE /\ i - Len(s) \in DOMAIN t /\ u[i] = t[i - Len(s)]
             /\ j - Len(s) \in DOMAIN t /\ u[j] = t[j - Len(s)]
    <3>1. i - Len(s) = j - Len(s)
      BY <1>7, <2>2 DEF IsInjective
    <3> QED
      BY <3>1, <1>2
  <2>3. ASSUME NEW a \in DOMAIN s, NEW b \in DOMAIN t, s[a] = t[b] PROVE FALSE
    BY <1>7, <2>3 DEF Range
  <2> QED
    BY <1>5, <1>7, <2>1, <2>2, <2>3
<1> QED
  BY <1>1, <1>6, <1>7 DEF IsInjective, u

LEMMA TopFacts ==
  ASSUME NEW S, NEW s \in Seq(S), s # << >>
  PROVE  /\ Top(s) \in S /\ Top(s) \in Range(s) /\ Below(s) \in Seq(S)
         /\ Range(s) = Range(Below(s)) \cup {Top(s)}
         /\ IsInjective(s) => IsInjective(Below(s)) /\ Top(s) \notin Range(Below(s))
<1> DEFINE u == Below(s)
<1>1. Len(s) \in Nat /\ Len(s) >= 1 /\ DOMAIN s = 1 .. Len(s)
  OBVIOUS
<1>2. /\ u \in Seq(S) /\ Len(u) = Len(s) - 1
      /\ \A i \in 1 .. Len(u) : u[i] = s[i]
  BY <1>1, SubSeqProperties DEF Below
<1>3. DOMAIN u = 1 .. Len(s) - 1
  BY <1>1, <1>2
<1> HIDE DEF u
<1>4. Top(s) = s[Len(s)] /\ Len(s) \in DOMAIN s
  BY <1>1 DEF Top
<1>5. Range(s) = Range(u) \cup {Top(s)}
  BY <1>1, <1>2, <1>3, <1>4 DEF Range
<1>6. ASSUME IsInjective(s) PROVE IsInjective(u) /\ Top(s) \notin Range(u)
  BY <1>1, <1>2, <1>3, <1>4, <1>6 DEF Range, IsInjective
<1> QED
  BY <1>1, <1>2, <1>4, <1>5, <1>6 DEF Range, u

\* Taking out an entry moves those behind it one down.
LEMMA RemoveFacts ==
  ASSUME NEW S, NEW s \in Seq(S), NEW i \in DOMAIN s
  PROVE  /\ RemoveAt(s, i) \in Seq(S) /\ DOMAIN RemoveAt(s, i) = 1 .. Len(s) - 1
         /\ \A k \in 1 .. Len(s) - 1 : RemoveAt(s, i)[k] = IF k < i THEN s[k] ELSE s[k + 1]
<1> DEFINE a == SubSeq(s, 1, i - 1)
           b == SubSeq(s, i + 1, Len(s))
<1>1. Len(s) \in Nat /\ DOMAIN s = 1 .. Len(s) /\ i \in 1 .. Len(s)
  OBVIOUS
<1>2. a \in Seq(S) /\ Len(a) = i - 1 /\ \A k \in 1 .. i - 1 : a[k] = s[k]
  BY <1>1, SubSeqProperties
<1>3. b \in Seq(S) /\ Len(b) = Len(s) - i /\ \A k \in 1 .. Len(s) - i : b[k] = s[i + k]
  BY <1>1, SubSeqProperties
<1> HIDE DEF a, b
<1> DEFINE u == a \o b
<1>4. /\ u \in Seq(S) /\ Len(u) = Len(a) + Len(b)
      /\ \A k \in 1 .. Len(a) + Len(b) : u[k] = IF k <= Len(a) THEN a[k] ELSE b[k - Len(a)]
  <2>1. a \in Seq(S) /\ b \in Seq(S)
    BY <1>2, <1>3
  <2> QED
    BY <2>1, ConcatProperties
<1>5. DOMAIN u = 1 .. Len(s) - 1 /\ RemoveAt(s, i) = u
  BY <1>1, <1>2, <1>3, <1>4 DEF RemoveAt, a, b
<1> HIDE DEF u
<1>6. ASSUME NEW k \in 1 .. Len(s) - 1 PROVE u[k] = IF k < i THEN s[k] ELSE s[k + 1]
  <2>0. k \in 1 .. Len(a) + Len(b)
    BY <1>1, <1>2, <1>3
  <2>1. CASE k < i
    <3>1. k <= Len(a) /\ k \in 1 .. i - 1
      BY <1>1, <1>2, <2>1
    <3> QED
      BY <1>2, <1>4, <2>0, <2>1, <3>1
  <2>2. CASE ~(k < i)
    <3>1. k - Len(a) \in 1 .. Len(s) - i /\ i + (k - Len(a)) = k + 1 /\ ~(k <= Len(a))
      BY <1>1, <1>2, <2>2
    <3>2. b[k - Len(a)] = s[i + (k - Len(a))]
      BY <1>3, <3>1
    <3> QED
      BY <1>4, <2>0, <2>2, <3>1, <3>2
  <2> QED
    BY <2>1, <2>2
<1> QED
  BY <1>4, <1>5, <1>6

\* The recursion that drops the null branches.
Keeps(s, n, g) ==
  g = [i \in 0 .. n |-> IF i = 0 THEN << >>
                        ELSE IF s[i] = NoNode THEN g[i - 1] ELSE Append(g[i - 1], s[i])]

LEMMA KeepsExists ==
  ASSUME NEW s, NEW n \in Nat
  PROVE  \E g : Keeps(s, n, g)
<1> DEFINE W == {m \in Nat : ~\E g : Keeps(s, m, g)}
<1> SUFFICES ASSUME W # {} PROVE FALSE
  OBVIOUS
<1>1. PICK m \in W : \A k \in W : m <= k
  BY LeastElement, W \in SUBSET Nat
<1>2. CASE m = 0
  <2>1. Keeps(s, 0, [i \in 0 .. 0 |-> << >>])
    BY DEF Keeps
  <2> QED
    BY <1>1, <1>2, <2>1
<1>3. CASE m # 0
  <2>1. m - 1 \in Nat /\ m - 1 \notin W
    BY <1>1, <1>3
  <2>2. PICK g : Keeps(s, m - 1, g)
    BY <2>1
  <2> DEFINE last == IF s[m] = NoNode THEN g[m - 1] ELSE Append(g[m - 1], s[m])
             f == [i \in 0 .. m |-> IF i = m THEN last ELSE g[i]]
  <2>3. \A i \in 0 .. m - 1 : f[i] = g[i] /\ i # m
    BY <2>1
  <2>4. ASSUME NEW i \in 0 .. m
        PROVE  f[i] = IF i = 0 THEN << >>
                      ELSE IF s[i] = NoNode THEN f[i - 1] ELSE Append(f[i - 1], s[i])
    <3>1. CASE i = m
      <4>1. f[i] = last /\ f[i - 1] = g[i - 1] /\ i # 0
        BY <1>3, <2>1, <2>3, <3>1
      <4> QED
        BY <3>1, <4>1
    <3>2. CASE i # m
      <4>1. i \in 0 .. m - 1 /\ f[i] = g[i]
        BY <2>1, <2>3, <3>2
      <4>2. g[i] = IF i = 0 THEN << >>
                   ELSE IF s[i] = NoNode THEN g[i - 1] ELSE Append(g[i - 1], s[i])
        BY <2>2, <4>1 DEF Keeps
      <4>3. i # 0 => f[i - 1] = g[i - 1]
        BY <2>1, <2>3, <4>1
      <4> QED
        BY <4>1, <4>2, <4>3
    <3> QED
      BY <3>1, <3>2
  <2>5. f = [i \in 0 .. m |-> f[i]]
    OBVIOUS
  <2> HIDE DEF f
  <2>6. Keeps(s, m, f)
    BY <2>4, <2>5 DEF Keeps
  <2> QED
    BY <1>1, <2>6
<1> QED
  BY <1>2, <1>3

LEMMA BodiesFacts ==
  ASSUME NEW k \in Nat, NEW s \in Seq(0 .. k),
         \A i, j \in DOMAIN s : s[i] = s[j] /\ s[i] # NoNode => i = j
  PROVE  /\ Bodies(s) \in Seq(1 .. k) /\ Range(Bodies(s)) = Range(s) \ {NoNode}
         /\ IsInjective(Bodies(s))
<1> DEFINE n == Len(s)
           g == CHOOSE f : Keeps(s, n, f)
<1>0. n \in Nat /\ DOMAIN s = 1 .. n
  OBVIOUS
<1>1. Keeps(s, n, g)
  BY <1>0, KeepsExists
<1>2. Bodies(s) = g[n]
  BY DEF Bodies, Keeps
<1> HIDE DEF g
<1> DEFINE Good(i) == /\ g[i] \in Seq(1 .. k) /\ IsInjective(g[i])
                      /\ Range(g[i]) = {s[j] : j \in 1 .. i} \ {NoNode}
           W == {i \in 0 .. n : ~Good(i)}
<1> HIDE DEF Good
<1>3. W = {}
  <2> SUFFICES ASSUME W # {} PROVE FALSE
    OBVIOUS
  <2>1. PICK i \in W : \A j \in W : i <= j
    BY LeastElement, W \in SUBSET Nat
  <2>2. CASE i = 0
    <3>1. g[0] = << >>
      BY <1>0, <1>1 DEF Keeps
    <3>2. Range(g[0]) = {} /\ IsInjective(g[0]) /\ g[0] \in Seq(1 .. k)
      BY <3>1 DEF Range, IsInjective
    <3>3. {s[j] : j \in 1 .. 0} = {}
      OBVIOUS
    <3> QED
      BY <2>1, <2>2, <3>2, <3>3 DEF Good
  <2>3. CASE i # 0
    <3>1. i - 1 \in 0 .. n /\ i \in 1 .. n /\ i - 1 < i
      BY <1>0, <2>1, <2>3
    <3>2. Good(i - 1)
      BY <2>1, <3>1
    <3>3. g[i] = IF s[i] = NoNode THEN g[i - 1] ELSE Append(g[i - 1], s[i])
      BY <1>1, <2>3, <3>1 DEF Keeps
    <3>4. s[i] \in 0 .. k /\ {s[j] : j \in 1 .. i} = {s[j] : j \in 1 .. i - 1} \cup {s[i]}
      <4>1. 1 .. i = (1 .. i - 1) \cup {i}
        BY <3>1
      <4>2. {s[j] : j \in 1 .. i} = {s[j] : j \in 1 .. i - 1} \cup {s[i]}
        BY <4>1, Zenon
      <4> QED
        BY <1>0, <3>1, <4>2
    <3>5. CASE s[i] = NoNode
      BY <2>1, <3>2, <3>3, <3>4, <3>5 DEF Good
    <3>6. CASE s[i] # NoNode
      <4>1. s[i] \in 1 .. k
        BY <3>4, <3>6 DEF NoNode
      <4>2. s[i] \notin Range(g[i - 1])
        <5> SUFFICES ASSUME NEW j \in 1 .. i - 1, s[i] = s[j] PROVE FALSE
          BY <3>2 DEF Good
        <5>1. j \in DOMAIN s /\ i \in DOMAIN s /\ j # i
          BY <1>0, <3>1
        <5> QED
          BY <3>6, <5>1
      <4>3. g[i - 1] \in Seq(1 .. k) /\ IsInjective(g[i - 1])
        BY <3>2 DEF Good
      <4>4. /\ Append(g[i - 1], s[i]) \in Seq(1 .. k)
            /\ Range(Append(g[i - 1], s[i])) = Range(g[i - 1]) \cup {s[i]}
            /\ IsInjective(Append(g[i - 1], s[i]))
        BY <4>1, <4>2, <4>3, AppendFacts
      <4>5. Good(i)
        BY <3>2, <3>3, <3>4, <3>6, <4>4 DEF Good
      <4> QED
        BY <2>1, <4>5
    <3> QED
      BY <3>5, <3>6
  <2> QED
    BY <2>2, <2>3
<1>4. Good(n)
  <2>1. n \in 0 .. n
    BY <1>0
  <2> QED
    BY <1>3, <2>1
<1>5. {s[j] : j \in 1 .. n} = Range(s)
  BY <1>0 DEF Range
<1> QED
  BY <1>2, <1>4, <1>5 DEF Good

----------------------------------------------------------------------------
(* Heaps.                                                                  *)

IsHeap(t) == t \in Seq(Nodes(Len(t))) /\ Root \in DOMAIN t

\* What a node links to, and that it does so once.
LinksOf(r) == ({r.next, r.loop} \cup Range(r.branches)) \ {NoNode}
Single(r) ==
  /\ r.type # "loop" => r.loop = NoNode
  /\ r.type # "branch" => r.branches = << >>
  /\ r.next # NoNode => r.next # r.loop /\ r.next \notin Range(r.branches)
  /\ \A i, j \in DOMAIN r.branches : r.branches[i] = r.branches[j] /\ r.branches[i] # NoNode => i = j

\* What the links of a node have nothing to do with.
SameNode(a, b) == /\ a.type = b.type /\ a.asmId = b.asmId /\ a.wave = b.wave /\ a.config = b.config
                  /\ a.loadRef = b.loadRef /\ a.play = b.play /\ a.reg = b.reg

LEMMA HoldsSplit ==
  ASSUME NEW t, NEW n
  PROVE  /\ Links(t, n) = LinksOf(t[n])
         /\ HoldsItsLinks(t, n) <=> (\A c \in Links(t, n) : t[c].parent = n) /\ Single(t[n])
BY Zenon DEF Links, LinksOf, HoldsItsLinks, Single

LEMMA HeapFacts ==
  ASSUME NEW t, IsHeap(t)
  PROVE  /\ Len(t) \in Nat /\ DOMAIN t = 1 .. Len(t) /\ Root \in DOMAIN t
         /\ \A n \in DOMAIN t :
               /\ t[n] \in Nodes(Len(t)) /\ t[n].next \in 0 .. Len(t) /\ t[n].loop \in 0 .. Len(t)
               /\ t[n].parent \in 0 .. Len(t) /\ t[n].branches \in Seq(0 .. Len(t))
               /\ Links(t, n) \subseteq DOMAIN t
<1>1. Len(t) \in Nat /\ DOMAIN t = 1 .. Len(t) /\ Root \in DOMAIN t
  BY DEF IsHeap
<1>2. ASSUME NEW n \in DOMAIN t
      PROVE  /\ t[n] \in Nodes(Len(t)) /\ t[n].next \in 0 .. Len(t) /\ t[n].loop \in 0 .. Len(t)
             /\ t[n].parent \in 0 .. Len(t) /\ t[n].branches \in Seq(0 .. Len(t))
             /\ Links(t, n) \subseteq DOMAIN t
  <2>1. t[n] \in Nodes(Len(t))
    BY <1>1 DEF IsHeap
  <2>2. /\ t[n].next \in 0 .. Len(t) /\ t[n].loop \in 0 .. Len(t)
        /\ t[n].parent \in 0 .. Len(t) /\ t[n].branches \in Seq(0 .. Len(t))
    BY <2>1 DEF Nodes
  <2>3. Range(t[n].branches) \subseteq 0 .. Len(t)
    BY <2>2 DEF Range
  <2>4. Links(t, n) \subseteq DOMAIN t
    BY <1>1, <2>2, <2>3 DEF Links, NoNode
  <2> QED
    BY <2>1, <2>2, <2>4
<1> QED
  BY <1>1, <1>2

\* One node gives up a link for another, or for none.
LEMMA NodeRelinked ==
  ASSUME NEW k \in Nat, NEW r \in Nodes(k), Single(r), NEW old \in LinksOf(r), NEW new \in 0 .. k,
         new \notin LinksOf(r)
  PROVE  LET s == Relink(r, old, new)
         IN  /\ s \in Nodes(k) /\ Single(s) /\ SameNode(s, r) /\ s.parent = r.parent
             /\ LinksOf(s) = (LinksOf(r) \ {old}) \cup ({new} \ {NoNode})
             /\ r.next = old => s.next = new
             /\ r.next # old => s.next = r.next
<1> DEFINE br == r.branches
           held == {i \in DOMAIN br : br[i] = old}
           i0 == CHOOSE i \in held : \A j \in held : i <= j
<1>0. old # NoNode
  BY DEF LinksOf
<1>1. /\ br \in Seq(0 .. k) /\ r.next \in 0 .. k /\ r.loop \in 0 .. k
      /\ DOMAIN br = 1 .. Len(br) /\ Len(br) \in Nat
  BY DEF Nodes
<1>2. CASE r.next = old
  <2> DEFINE s == [r EXCEPT !.next = new]
  <2>1. /\ s \in Nodes(k) /\ s.next = new /\ s.loop = r.loop /\ s.branches = br /\ s.parent = r.parent
        /\ s.type = r.type /\ SameNode(s, r)
    BY DEF Nodes, SameNode
  <2> HIDE DEF s
  <2>2. r.loop # old /\ old \notin Range(br)
    BY <1>0, <1>2 DEF Single
  <2>3. LinksOf(s) = (LinksOf(r) \ {old}) \cup ({new} \ {NoNode})
    BY <1>2, <2>1, <2>2 DEF LinksOf
  <2>4. Single(s)
    BY <2>1 DEF Single, LinksOf
  <2> QED
    BY <1>2, <2>1, <2>3, <2>4 DEF s, Relink
<1>3. CASE r.next # old /\ r.type # "branch"
  <2> DEFINE s == [r EXCEPT !.loop = new]
  <2>0. br = << >> /\ Range(br) = {}
    BY <1>3 DEF Single, Range
  <2>1. r.loop = old /\ r.type = "loop"
    BY <1>0, <1>3, <2>0 DEF LinksOf, Single
  <2>2. /\ s \in Nodes(k) /\ s.loop = new /\ s.next = r.next /\ s.branches = br /\ s.parent = r.parent
        /\ s.type = r.type /\ SameNode(s, r)
    BY DEF Nodes, SameNode
  <2> HIDE DEF s
  <2>3. LinksOf(s) = (LinksOf(r) \ {old}) \cup ({new} \ {NoNode})
    BY <1>3, <2>0, <2>1, <2>2 DEF LinksOf
  <2>4. Single(s)
    BY <2>0, <2>1, <2>2 DEF Single, LinksOf
  <2> QED
    BY <1>3, <2>1, <2>2, <2>3, <2>4 DEF s, Relink
<1>4. CASE r.next # old /\ r.type = "branch"
  <2>0. r.loop = NoNode /\ old \in Range(br)
    BY <1>0, <1>4 DEF Single, LinksOf
  <2>1. PICK i \in DOMAIN br : br[i] = old
    BY <2>0 DEF Range
  <2>2. held = {i}
    BY <1>0, <2>1 DEF Single
  <2>3. held # {} /\ i0 = i
    BY <1>1, <2>2
  <2> DEFINE b2 == IF new # NoNode THEN ReplaceAt(br, i, new) ELSE RemoveAt(br, i)
             s  == [r EXCEPT !.branches = b2]
  <2>4. /\ b2 \in Seq(0 .. k) /\ Range(b2) \ {NoNode} = ((Range(br) \ {old}) \cup {new}) \ {NoNode}
        /\ \A a, b \in DOMAIN b2 : b2[a] = b2[b] /\ b2[a] # NoNode => a = b
    <3>1. CASE new # NoNode
      <4>1. /\ b2 \in Seq(0 .. k) /\ DOMAIN b2 = DOMAIN br
            /\ \A a \in DOMAIN br : b2[a] = IF a = i THEN new ELSE br[a]
        BY <1>1, <3>1 DEF ReplaceAt
      <4>2. new \notin Range(br)
        BY <3>1 DEF LinksOf
      <4>3. \A a \in DOMAIN br : br[a] = old => a = i
        BY <2>2
      <4> HIDE DEF b2
      <4>4. Range(b2) = (Range(br) \ {old}) \cup {new}
        BY <2>1, <4>1, <4>3 DEF Range
      <4>5. ASSUME NEW a \in DOMAIN b2, NEW b \in DOMAIN b2, b2[a] = b2[b], b2[a] # NoNode
            PROVE  a = b
        BY <4>1, <4>2, <4>5 DEF Range, Single
      <4> QED
        BY <4>1, <4>4, <4>5
    <3>2. CASE new = NoNode
      <4>1. /\ b2 \in Seq(0 .. k) /\ DOMAIN b2 = 1 .. Len(br) - 1
            /\ \A a \in 1 .. Len(br) - 1 : b2[a] = IF a < i THEN br[a] ELSE br[a + 1]
        BY <1>1, <3>2, RemoveFacts
      <4> HIDE DEF b2
      <4> DEFINE from(a) == IF a < i THEN a ELSE a + 1
      <4> DEFINE m == Len(br)
      <4>0. /\ m \in Nat /\ i \in 1 .. m /\ DOMAIN br = 1 .. m /\ DOMAIN b2 = 1 .. m - 1
            /\ \A a \in 1 .. m - 1 : b2[a] = IF a < i THEN br[a] ELSE br[a + 1]
        BY <1>1, <4>1
      <4>10. \A a, b \in DOMAIN br : br[a] = br[b] /\ br[a] # NoNode => a = b
        BY DEF Single
      <4> HIDE DEF m, br
      <4>2. ASSUME NEW a \in DOMAIN b2
            PROVE  from(a) \in DOMAIN br /\ from(a) # i /\ b2[a] = br[from(a)]
        <5>1. a \in 1 .. m - 1
          BY <4>0
        <5>2. CASE a < i
          BY <4>0, <5>1, <5>2
        <5>3. CASE ~(a < i)
          BY <4>0, <5>1, <5>3
        <5> QED
          BY <5>2, <5>3
      <4>3. \A a, b \in DOMAIN b2 : from(a) = from(b) => a = b
        BY <4>0
      <4>4. \A c \in DOMAIN br : c # i => \E a \in DOMAIN b2 : from(a) = c
        <5> SUFFICES ASSUME NEW c \in DOMAIN br, c # i PROVE \E a \in DOMAIN b2 : from(a) = c
          OBVIOUS
        <5>1. CASE c < i
          <6>1. c \in DOMAIN b2 /\ from(c) = c
            BY <4>0, <5>1
          <6> QED
            BY <6>1
        <5>2. CASE c > i
          <6>1. c - 1 \in DOMAIN b2 /\ from(c - 1) = c
            BY <4>0, <5>2
          <6> QED
            BY <6>1
        <5> QED
          BY <4>0, <5>1, <5>2
      <4> HIDE DEF from
      <4>5. \A a \in DOMAIN br : br[a] = old => a = i
        BY <2>2
      <4>6. Range(b2) = Range(br) \ {old}
        <5>1. \A x \in Range(b2) : x \in Range(br) \ {old}
          BY <4>2, <4>5 DEF Range
        <5>2. ASSUME NEW x \in Range(br) \ {old} PROVE x \in Range(b2)
          <6>1. PICK c \in DOMAIN br : br[c] = x
            BY DEF Range
          <6>2. c # i
            BY <2>1, <6>1
          <6>3. PICK a \in DOMAIN b2 : from(a) = c
            BY <4>4, <6>2
          <6> QED
            BY <4>2, <6>1, <6>3 DEF Range
        <5> QED
          BY <5>1, <5>2
      <4>7. ASSUME NEW a \in DOMAIN b2, NEW b \in DOMAIN b2, b2[a] = b2[b], b2[a] # NoNode
            PROVE  a = b
        <5>1. from(a) = from(b)
          BY <4>2, <4>7, <4>10
        <5> QED
          BY <4>3, <5>1
      <4> QED
        BY <3>2, <4>1, <4>6, <4>7
    <3> QED
      BY <3>1, <3>2
  <2>5. /\ s.branches = b2 /\ s.next = r.next /\ s.loop = r.loop /\ s.parent = r.parent
        /\ s.type = r.type /\ s \in Nodes(k) /\ SameNode(s, r)
    BY <2>4 DEF Nodes, SameNode
  <2>6. s = [r EXCEPT !.branches = IF new # NoNode THEN ReplaceAt(@, i0, new) ELSE RemoveAt(@, i0)]
    <3> HIDE DEF i0
    <3> QED
      BY <2>3
  <2> HIDE DEF b2, s
  <2>7. LinksOf(s) = (LinksOf(r) \ {old}) \cup ({new} \ {NoNode})
    BY <1>0, <1>4, <2>0, <2>4, <2>5 DEF LinksOf
  <2>8. Single(s)
    BY <1>4, <2>0, <2>4, <2>5 DEF Single, LinksOf
  <2> HIDE DEF held, i0, Relink
  <2> QED
    BY <1>4, <2>3, <2>5, <2>6, <2>7, <2>8 DEF held, i0, Relink
<1> QED
  BY <1>2, <1>3, <1>4

\* The same for Node::updateParent, on the heap.
LEMMA Relinked ==
  ASSUME NEW t, IsHeap(t), NEW p \in DOMAIN t, Single(t[p]), NEW old \in Links(t, p),
         NEW new \in 0 .. Len(t), new \notin Links(t, p)
  PROVE  LET u == UpdateParent(t, p, old, new)
         IN  /\ IsHeap(u) /\ Len(u) = Len(t) /\ DOMAIN u = DOMAIN t
             /\ Links(u, p) = (Links(t, p) \ {old}) \cup ({new} \ {NoNode}) /\ Single(u[p])
             /\ u[p].next = IF t[p].next = old THEN new ELSE t[p].next
             /\ \A n \in DOMAIN t :
                   /\ SameNode(u[n], t[n])
                   /\ u[n].parent = IF n = new THEN p ELSE t[n].parent
                   /\ n # p => /\ Links(u, n) = Links(t, n) /\ (Single(t[n]) => Single(u[n]))
                               /\ u[n].next = t[n].next /\ u[n].branches = t[n].branches
<1> DEFINE r == t[p]
           s == Relink(r, old, new)
           v == [t EXCEPT ![p] = s]
           u == IF new = NoNode THEN v ELSE [v EXCEPT ![new].parent = p]
<1>1. /\ Len(t) \in Nat /\ DOMAIN t = 1 .. Len(t) /\ Root \in DOMAIN t /\ r \in Nodes(Len(t))
      /\ \A n \in DOMAIN t : t[n] \in Nodes(Len(t))
  BY HeapFacts
<1>2. UpdateParent(t, p, old, new) = u
  <2>1. p # NoNode
    BY <1>1 DEF NoNode
  <2> QED
    BY <2>1 DEF UpdateParent
<1>3. Links(t, p) = LinksOf(r)
  BY HoldsSplit
<1>4. /\ s \in Nodes(Len(t)) /\ Single(s) /\ SameNode(s, r) /\ s.parent = r.parent
      /\ LinksOf(s) = (LinksOf(r) \ {old}) \cup ({new} \ {NoNode})
      /\ r.next = old => s.next = new
      /\ r.next # old => s.next = r.next
  <2>1. Single(r) /\ old \in LinksOf(r) /\ new \notin LinksOf(r)
    BY <1>3
  <2> HIDE DEF r
  <2> QED
    BY <1>1, <2>1, NodeRelinked
<1> HIDE DEF s
<1>5. /\ v \in Seq(Nodes(Len(t))) /\ Len(v) = Len(t) /\ DOMAIN v = DOMAIN t /\ v[p] = s
      /\ \A n \in DOMAIN t : n # p => v[n] = t[n]
  BY <1>1, <1>4 DEF IsHeap
<1> HIDE DEF v
<1>6. /\ u \in Seq(Nodes(Len(t))) /\ Len(u) = Len(t) /\ DOMAIN u = DOMAIN t
      /\ \A n \in DOMAIN t : n # new => u[n] = v[n]
      /\ \A n \in DOMAIN t : n = new => u[n] = [v[n] EXCEPT !.parent = p]
  <2>1. CASE new = NoNode
    <3>1. \A n \in DOMAIN t : n # new
      BY <1>1, <2>1 DEF NoNode
    <3> QED
      BY <1>5, <2>1, <3>1
  <2>2. CASE new # NoNode
    <3>1. new \in DOMAIN t /\ p \in 0 .. Len(t)
      BY <1>1, <2>2 DEF NoNode
    <3>2. v[new] \in Nodes(Len(t))
      BY <1>1, <1>4, <1>5, <3>1
    <3>3. [v[new] EXCEPT !.parent = p] \in Nodes(Len(t))
      BY <3>1, <3>2 DEF Nodes
    <3>4. u = [v EXCEPT ![new] = [v[new] EXCEPT !.parent = p]]
      BY <1>5, <2>2, <3>1
    <3> QED
      BY <1>5, <3>1, <3>3, <3>4
  <2> QED
    BY <2>1, <2>2
<1> HIDE DEF u
<1>7. ASSUME NEW n \in DOMAIN t
      PROVE  /\ u[n].type = v[n].type /\ u[n].next = v[n].next /\ u[n].loop = v[n].loop
             /\ u[n].branches = v[n].branches /\ SameNode(u[n], v[n])
             /\ u[n].parent = IF n = new THEN p ELSE v[n].parent
  <2>1. v[n] \in Nodes(Len(t))
    BY <1>1, <1>4, <1>5
  <2>2. CASE n = new
    <3>1. u[n] = [v[n] EXCEPT !.parent = p]
      BY <1>6, <2>2
    <3> QED
      BY <2>1, <2>2, <3>1 DEF Nodes, SameNode
  <2>3. CASE n # new
    BY <1>6, <2>3 DEF SameNode
  <2> QED
    BY <2>2, <2>3
<1>8. IsHeap(u)
  BY <1>1, <1>6 DEF IsHeap
<1>9. ASSUME NEW n \in DOMAIN t, n # p
      PROVE  /\ SameNode(u[n], t[n]) /\ u[n].parent = IF n = new THEN p ELSE t[n].parent
             /\ Links(u, n) = Links(t, n) /\ (Single(t[n]) => Single(u[n]))
             /\ u[n].next = t[n].next /\ u[n].branches = t[n].branches
  BY <1>5, <1>7, <1>9 DEF Links, Single
<1>10. /\ SameNode(u[p], t[p]) /\ u[p].parent = IF p = new THEN p ELSE t[p].parent
       /\ Links(u, p) = LinksOf(s) /\ Single(u[p]) /\ u[p].next = s.next
  <2>1. /\ u[p].type = s.type /\ u[p].next = s.next /\ u[p].loop = s.loop
        /\ u[p].branches = s.branches /\ SameNode(u[p], s)
        /\ u[p].parent = IF p = new THEN p ELSE s.parent
    BY <1>5, <1>7
  <2>2. Links(u, p) = LinksOf(s)
    BY <2>1 DEF Links, LinksOf
  <2>3. Single(u[p])
    BY <1>4, <2>1 DEF Single
  <2> QED
    BY <1>4, <2>1, <2>2, <2>3 DEF SameNode
<1> QED
  BY <1>2, <1>3, <1>4, <1>6, <1>8, <1>9, <1>10

----------------------------------------------------------------------------
(* Whole trees: every node of the tree is held once and by a node of the    *)
(* tree, and links lead down.  The rank lets a proof climb from a node to   *)
(* the root; a node put in front of another takes a rank between two.       *)

Down(t, r) == \A n \in DOMAIN t : \A c \in Links(t, n) : r[n] < r[c]
Ranked(t) == \E r \in [DOMAIN t -> Nat] : Down(t, r)

Whole(t) ==
  /\ IsHeap(t) /\ t[Root].parent = NoNode /\ Ranked(t)
  /\ \A n \in DOMAIN t : Hangs(t, n) => /\ HoldsItsLinks(t, n)
                                        /\ n # Root => Hangs(t, t[n].parent)

\* A node that nothing links to and that links to nothing.
Lone(t, n) ==
  /\ n # Root /\ Links(t, n) = {} /\ t[n].parent = NoNode /\ Single(t[n])
  /\ \A m \in DOMAIN t : n \notin Links(t, m)

LEMMA WholeFacts ==
  ASSUME NEW t, Whole(t), NEW n \in DOMAIN t, Hangs(t, n)
  PROVE  /\ Single(t[n]) /\ n \notin Links(t, n)
         /\ \A c \in Links(t, n) : /\ c \in DOMAIN t /\ t[c].parent = n /\ c # Root /\ c # n
                                   /\ Hangs(t, c)
         /\ n # Root => /\ t[n].parent \in DOMAIN t /\ Hangs(t, t[n].parent) /\ t[n].parent # n
                        /\ n \in Links(t, t[n].parent) /\ t[n].parent \notin Links(t, n)
<1>1. PICK r \in [DOMAIN t -> Nat] : Down(t, r)
  BY DEF Whole, Ranked
<1>2. IsHeap(t) /\ t[Root].parent = NoNode /\ HoldsItsLinks(t, n)
  BY DEF Whole
<1>3. Single(t[n]) /\ \A c \in Links(t, n) : t[c].parent = n
  BY <1>2, HoldsSplit
<1>4. n \in Nat /\ n # NoNode /\ Links(t, n) \subseteq DOMAIN t
  BY <1>2, HeapFacts DEF NoNode
<1>5. \A c \in Links(t, n) : c # n /\ c # Root /\ Hangs(t, c)
  BY <1>1, <1>2, <1>3, <1>4 DEF Down, Hangs
<1>6. ASSUME n # Root
      PROVE  /\ t[n].parent \in DOMAIN t /\ Hangs(t, t[n].parent) /\ t[n].parent # n
             /\ n \in Links(t, t[n].parent) /\ t[n].parent \notin Links(t, n)
  <2>1. t[n].parent # NoNode /\ n \in Links(t, t[n].parent) /\ Hangs(t, t[n].parent)
    BY <1>6 DEF Whole, Hangs
  <2>2. t[n].parent \in DOMAIN t
    BY <1>2, <2>1, HeapFacts DEF NoNode
  <2>3. r[t[n].parent] < r[n] /\ r[n] \in Nat /\ r[t[n].parent] \in Nat
    BY <1>1, <2>1, <2>2 DEF Down
  <2>4. t[n].parent \in Links(t, n) => r[n] < r[t[n].parent]
    BY <1>1 DEF Down
  <2> QED
    BY <2>1, <2>2, <2>3, <2>4
<1> QED
  BY <1>3, <1>4, <1>5, <1>6

\* A change that leaves every link where it is.
LEMMA Relabelled ==
  ASSUME NEW t, Whole(t), NEW u, IsHeap(u), DOMAIN u = DOMAIN t,
         \A n \in DOMAIN t : /\ Links(u, n) = Links(t, n) /\ u[n].parent = t[n].parent
                             /\ Single(t[n]) => Single(u[n])
  PROVE  Whole(u) /\ \A n \in DOMAIN t : Hangs(u, n) <=> Hangs(t, n)
<1>1. IsHeap(t) /\ t[Root].parent = NoNode /\ Root \in DOMAIN t
  BY HeapFacts DEF Whole
<1>2. Ranked(u)
  BY Zenon DEF Whole, Ranked, Down
<1>3. ASSUME NEW n \in DOMAIN t PROVE Hangs(u, n) <=> Hangs(t, n)
  <2>1. t[n].parent # NoNode => t[n].parent \in DOMAIN t
    BY <1>1, HeapFacts DEF NoNode
  <2> QED
    BY <2>1 DEF Hangs
<1>4. ASSUME NEW n \in DOMAIN u, Hangs(u, n)
      PROVE  HoldsItsLinks(u, n) /\ (n # Root => Hangs(u, u[n].parent))
  <2>1. Hangs(t, n)
    BY <1>3, <1>4
  <2>2. Single(u[n]) /\ \A c \in Links(u, n) : u[c].parent = n
    BY <2>1, WholeFacts
  <2>3. n # Root => Hangs(u, u[n].parent)
    BY <1>3, <2>1, WholeFacts
  <2> QED
    BY <2>2, <2>3, HoldsSplit
<1> QED
  BY <1>1, <1>2, <1>3, <1>4 DEF Whole

LEMMA NodesGrow ==
  ASSUME NEW k \in Nat
  PROVE  Nodes(k) \subseteq Nodes(k + 1)
<1>1. 0 .. k \subseteq 0 .. k + 1 /\ 1 .. k \subseteq 1 .. k + 1
  OBVIOUS
<1>2. Seq(0 .. k) \subseteq Seq(0 .. k + 1) /\ Seq(1 .. k) \subseteq Seq(1 .. k + 1)
  <2> SUFFICES ASSUME NEW A, NEW B, A \subseteq B PROVE Seq(A) \subseteq Seq(B)
    BY <1>1
  <2> QED
    OBVIOUS
<1> QED
  BY <1>1, <1>2 DEF Nodes

\* A node more, that is not in the tree yet.
LEMMA Appended ==
  ASSUME NEW t, Whole(t), NEW r \in Nodes(Len(t) + 1), LinksOf(r) = {}, r.parent = NoNode, Single(r)
  PROVE  LET u == Append(t, r)
         IN  /\ Whole(u) /\ Len(u) = Len(t) + 1 /\ DOMAIN u = DOMAIN t \cup {Fresh(t)}
             /\ Fresh(t) = Len(t) + 1 /\ Fresh(t) \notin DOMAIN t
             /\ u[Fresh(t)] = r /\ (\A n \in DOMAIN t : u[n] = t[n])
             /\ Lone(u, Fresh(t)) /\ Links(u, Fresh(t)) = {}
             /\ \A n \in DOMAIN t : Links(u, n) = Links(t, n) /\ (Hangs(u, n) <=> Hangs(t, n))
<1> DEFINE u == Append(t, r)
           k == Fresh(t)
<1>1. /\ IsHeap(t) /\ Len(t) \in Nat /\ DOMAIN t = 1 .. Len(t) /\ Root \in DOMAIN t
      /\ t \in Seq(Nodes(Len(t))) /\ t[Root].parent = NoNode
  BY HeapFacts DEF Whole, IsHeap
<1>2. /\ Len(u) = Len(t) + 1 /\ DOMAIN u = DOMAIN t \cup {k} /\ k = Len(t) + 1 /\ k \notin DOMAIN t
      /\ u[k] = r /\ k # Root /\ \A n \in DOMAIN t : u[n] = t[n]
  BY <1>1 DEF Fresh
<1>3. t \in Seq(Nodes(Len(t) + 1))
  <2>1. \A n \in DOMAIN t : t[n] \in Nodes(Len(t) + 1)
    BY <1>1, NodesGrow
  <2> QED
    BY <1>1, <2>1
<1>4. IsHeap(u)
  BY <1>1, <1>2, <1>3 DEF IsHeap
<1> HIDE DEF u, k
<1>5. /\ Links(u, k) = {} /\ \A n \in DOMAIN t : Links(u, n) = Links(t, n)
  BY <1>2 DEF Links, LinksOf
<1>6. \A n \in DOMAIN t : Links(t, n) \subseteq DOMAIN t
  BY <1>1, HeapFacts
<1>7. Lone(u, k)
  BY <1>2, <1>5, <1>6 DEF Lone
<1>8. ASSUME NEW n \in DOMAIN t PROVE Hangs(u, n) <=> Hangs(t, n)
  <2>1. t[n].parent # NoNode => t[n].parent \in DOMAIN t
    BY <1>1, HeapFacts DEF NoNode
  <2> QED
    BY <1>2, <1>5, <2>1 DEF Hangs
<1>9. ~Hangs(u, k)
  BY <1>2 DEF Hangs
<1>10. Ranked(u)
  <2>1. PICK q \in [DOMAIN t -> Nat] : Down(t, q)
    BY DEF Whole, Ranked
  <2> DEFINE q2 == [n \in DOMAIN u |-> IF n = k THEN 0 ELSE q[n]]
  <2>2. q2 \in [DOMAIN u -> Nat] /\ \A n \in DOMAIN t : q2[n] = q[n]
    BY <1>2
  <2> HIDE DEF q2
  <2>3. Down(u, q2)
    BY <1>2, <1>5, <1>6, <2>1, <2>2 DEF Down
  <2> QED
    BY <2>2, <2>3 DEF Ranked
<1>11. ASSUME NEW n \in DOMAIN u, Hangs(u, n)
       PROVE  HoldsItsLinks(u, n) /\ (n # Root => Hangs(u, u[n].parent))
  <2>1. n \in DOMAIN t /\ Hangs(t, n)
    BY <1>2, <1>8, <1>9, <1>11
  <2>2. Single(u[n]) /\ \A c \in Links(u, n) : u[c].parent = n
    BY <1>2, <1>5, <2>1, WholeFacts
  <2>3. n # Root => Hangs(u, u[n].parent)
    BY <1>2, <1>8, <2>1, WholeFacts
  <2> QED
    BY <2>2, <2>3, HoldsSplit
<1>12. Whole(u)
  BY <1>1, <1>2, <1>4, <1>10, <1>11 DEF Whole
<1> QED
  BY <1>2, <1>5, <1>7, <1>8, <1>12 DEF u, k

\* Node::insertBefore: the new node takes the place of n, which hangs from it.
InFront(t, n, new, u, p) ==
  /\ Whole(u) /\ Len(u) = Len(t) /\ DOMAIN u = DOMAIN t
  /\ Links(u, p) = (Links(t, p) \ {n}) \cup {new} /\ Links(u, new) = {n}
  /\ u[p].next = (IF t[p].next = n THEN new ELSE t[p].next) /\ u[new].next = n
  /\ p # new /\ p # n /\ n # new /\ p \in DOMAIN t
  /\ \A m \in DOMAIN t :
        /\ SameNode(u[m], t[m])
        /\ u[m].parent = IF m = n THEN new ELSE IF m = new THEN p ELSE t[m].parent
        /\ Hangs(u, m) <=> Hangs(t, m) \/ m = new
        /\ m \notin {p, new} => Links(u, m) = Links(t, m) /\ u[m].next = t[m].next

LEMMA Inserted ==
  ASSUME NEW t, Whole(t), NEW n \in DOMAIN t, Hangs(t, n), n # Root,
         NEW new \in DOMAIN t, Lone(t, new)
  PROVE  InFront(t, n, new, InsertBefore(t, n, new), t[n].parent)
<1> DEFINE p  == t[n].parent
           h1 == [t EXCEPT ![new].next = n, ![new].parent = p]
           h2 == UpdateParent(h1, p, n, new)
           u  == [h2 EXCEPT ![n].parent = new]
<1>1. /\ IsHeap(t) /\ t[Root].parent = NoNode /\ Root \in DOMAIN t /\ Len(t) \in Nat
      /\ DOMAIN t = 1 .. Len(t) /\ \A m \in DOMAIN t : t[m] \in Nodes(Len(t))
  BY HeapFacts DEF Whole
<1>2. InsertBefore(t, n, new) = u
  BY DEF InsertBefore
<1>3. /\ p \in DOMAIN t /\ Hangs(t, p) /\ p # n /\ n \in Links(t, p) /\ p \notin Links(t, n)
      /\ Single(t[n]) /\ Single(t[p])
  BY WholeFacts
<1>4. /\ p # new /\ n # new /\ new \notin Links(t, p) /\ Links(t, new) = {}
      /\ Single(t[new]) /\ t[new].parent = NoNode /\ new # Root
      /\ \A m \in DOMAIN t : new \notin Links(t, m)
  BY <1>3 DEF Lone
<1>5. ~Hangs(t, new)
  BY <1>4 DEF Hangs
<1> DEFINE w == [[t[new] EXCEPT !.next = n] EXCEPT !.parent = p]
<1>6. /\ w \in Nodes(Len(t)) /\ LinksOf(w) = {n} /\ w.next = n /\ w.parent = p
      /\ Single(w) /\ SameNode(w, t[new])
  <2> DEFINE z == t[new]
  <2>1. z \in Nodes(Len(t)) /\ LinksOf(z) = {} /\ Single(z) /\ w = [[z EXCEPT !.next = n] EXCEPT !.parent = p]
    BY <1>1, <1>4, HoldsSplit
  <2>2. n \in 0 .. Len(t) /\ p \in 0 .. Len(t) /\ n # NoNode
    BY <1>1, <1>3 DEF NoNode
  <2> HIDE DEF z, p, w
  <2>3. /\ w \in Nodes(Len(t)) /\ w.next = n /\ w.parent = p /\ w.loop = z.loop
        /\ w.branches = z.branches /\ w.type = z.type /\ SameNode(w, z)
    BY <2>1, <2>2 DEF Nodes, SameNode
  <2>4. LinksOf(w) = {n} /\ Single(w)
    BY <2>1, <2>2, <2>3 DEF LinksOf, Single
  <2> QED
    BY <2>3, <2>4 DEF z
<1> HIDE DEF w
<1>7. /\ IsHeap(h1) /\ Len(h1) = Len(t) /\ DOMAIN h1 = DOMAIN t /\ h1[new] = w
      /\ \A m \in DOMAIN t : m # new => h1[m] = t[m]
  <2>1. h1 = [t EXCEPT ![new] = w]
    BY <1>1 DEF w
  <2> QED
    BY <1>1, <1>6, <2>1 DEF IsHeap
<1> HIDE DEF h1
<1>8. /\ Links(h1, new) = {n} /\ \A m \in DOMAIN t : m # new => Links(h1, m) = Links(t, m)
  BY <1>6, <1>7, HoldsSplit
<1>9. new \in 0 .. Len(t)
  BY <1>1
<1>10. /\ IsHeap(h2) /\ Len(h2) = Len(t) /\ DOMAIN h2 = DOMAIN t
       /\ Links(h2, p) = (Links(t, p) \ {n}) \cup ({new} \ {NoNode}) /\ Single(h2[p])
       /\ h2[p].next = IF t[p].next = n THEN new ELSE t[p].next
       /\ \A m \in DOMAIN t :
             /\ SameNode(h2[m], h1[m])
             /\ h2[m].parent = IF m = new THEN p ELSE h1[m].parent
             /\ m # p => /\ Links(h2, m) = Links(h1, m) /\ (Single(h1[m]) => Single(h2[m]))
                         /\ h2[m].next = h1[m].next
  <2> HIDE DEF p, h2
  <2>1. p \in DOMAIN h1 /\ Single(h1[p]) /\ n \in Links(h1, p) /\ new \in 0 .. Len(h1)
        /\ new \notin Links(h1, p) /\ h1[p] = t[p] /\ Links(h1, p) = Links(t, p)
    BY <1>3, <1>4, <1>7, <1>8, <1>9
  <2> QED
    BY <1>7, <2>1, Relinked DEF h2
<1> HIDE DEF h2, p
<1>11. /\ u \in Seq(Nodes(Len(t))) /\ Len(u) = Len(t) /\ DOMAIN u = DOMAIN t
       /\ \A m \in DOMAIN t :
             /\ m # n => u[m] = h2[m]
             /\ m = n => u[m] = [h2[m] EXCEPT !.parent = new]
  <2>1. h2[n] \in Nodes(Len(t))
    BY <1>10, HeapFacts
  <2>2. [h2[n] EXCEPT !.parent = new] \in Nodes(Len(t))
    BY <1>9, <2>1 DEF Nodes
  <2>3. u = [h2 EXCEPT ![n] = [h2[n] EXCEPT !.parent = new]]
    BY <1>10
  <2>4. h2 \in Seq(Nodes(Len(t)))
    BY <1>10 DEF IsHeap
  <2> QED
    BY <1>10, <2>2, <2>3, <2>4
<1> HIDE DEF u
<1>12. IsHeap(u)
  BY <1>1, <1>11 DEF IsHeap
<1>13. ASSUME NEW m \in DOMAIN t
       PROVE  /\ Links(u, m) = Links(h2, m) /\ u[m].next = h2[m].next
              /\ u[m].parent = (IF m = n THEN new ELSE h2[m].parent)
              /\ SameNode(u[m], h2[m]) /\ (Single(h2[m]) => Single(u[m]))
  <2>1. h2[m] \in Nodes(Len(t))
    BY <1>10, HeapFacts
  <2>2. CASE m # n
    BY <1>11, <2>2 DEF Links, SameNode
  <2>3. CASE m = n
    <3>1. /\ u[m].type = h2[m].type /\ u[m].next = h2[m].next /\ u[m].loop = h2[m].loop
          /\ u[m].branches = h2[m].branches /\ SameNode(u[m], h2[m]) /\ u[m].parent = new
      BY <1>11, <2>1, <2>3 DEF Nodes, SameNode
    <3> QED
      BY <2>3, <3>1 DEF Links, Single
  <2> QED
    BY <2>2, <2>3
<1>14. /\ Links(u, p) = (Links(t, p) \ {n}) \cup {new} /\ Links(u, new) = {n}
       /\ u[p].next = (IF t[p].next = n THEN new ELSE t[p].next) /\ u[new].next = n
       /\ Single(u[p]) /\ Single(u[new])
  <2>1. {new} \ {NoNode} = {new}
    BY <1>1 DEF NoNode
  <2>2. Single(h2[p]) /\ Links(h2, p) = (Links(t, p) \ {n}) \cup {new} /\ new # p
    BY <1>4, <1>10, <2>1
  <2>3. Links(h2, new) = {n} /\ h2[new].next = n /\ Single(h2[new])
    BY <1>6, <1>7, <1>8, <1>10, <2>2
  <2> QED
    BY <1>3, <1>10, <1>13, <2>2, <2>3
<1>15. ASSUME NEW m \in DOMAIN t
       PROVE  /\ SameNode(u[m], t[m])
              /\ u[m].parent = IF m = n THEN new ELSE IF m = new THEN p ELSE t[m].parent
              /\ m \notin {p, new} => /\ Links(u, m) = Links(t, m) /\ u[m].next = t[m].next
                                      /\ Single(t[m]) => Single(u[m])
  <2>1. CASE m = new
    <3>1. SameNode(h1[m], t[m])
      BY <1>6, <1>7, <2>1
    <3> QED
      BY <1>4, <1>10, <1>13, <2>1, <3>1 DEF SameNode
  <2>2. CASE m # new
    <3>1. h1[m] = t[m] /\ Links(h1, m) = Links(t, m)
      BY <1>7, <1>8, <2>2
    <3>2. SameNode(u[m], t[m])
      BY <1>10, <1>13, <3>1 DEF SameNode
    <3> QED
      BY <1>10, <1>13, <2>2, <3>1, <3>2
  <2> QED
    BY <2>1, <2>2
<1>16. ASSUME NEW m \in DOMAIN t PROVE Hangs(u, m) <=> Hangs(t, m) \/ m = new
  <2>0. t[m].parent # NoNode => t[m].parent \in DOMAIN t
    BY <1>1, HeapFacts DEF NoNode
  <2>1. CASE m = new
    <3>1. u[m].parent = p /\ m \in Links(u, p) /\ p # NoNode
      BY <1>1, <1>3, <1>4, <1>14, <1>15, <2>1 DEF NoNode
    <3> QED
      BY <2>1, <3>1 DEF Hangs
  <2>2. CASE m = n
    <3>1. u[m].parent = new /\ m \in Links(u, new) /\ new # NoNode
      BY <1>1, <1>14, <1>15, <2>2 DEF NoNode
    <3> QED
      BY <2>2, <3>1 DEF Hangs
  <2>3. CASE m # new /\ m # n
    <3>1. u[m].parent = t[m].parent
      BY <1>15, <2>3
    <3>2. \A q \in DOMAIN t : m \in Links(u, q) <=> m \in Links(t, q)
      BY <1>4, <1>14, <1>15, <2>3
    <3> QED
      BY <2>0, <2>3, <3>1, <3>2 DEF Hangs
  <2> QED
    BY <2>1, <2>2, <2>3
<1>17. ASSUME NEW m \in DOMAIN t, Hangs(u, m)
       PROVE  HoldsItsLinks(u, m) /\ (m # Root => Hangs(u, u[m].parent))
  <2>1. Single(u[m])
    BY <1>14, <1>15, <1>16, <1>17, WholeFacts
  <2>2. ASSUME NEW c \in Links(u, m) PROVE u[c].parent = m
    <3>1. CASE m = new
      BY <1>14, <1>15, <2>2, <3>1
    <3>2. CASE m # new /\ c = new
      <4>1. m = p
        BY <1>4, <1>15, <2>2, <3>2
      <4> QED
        BY <1>4, <1>15, <3>2, <4>1
    <3>3. CASE m # new /\ c # new
      <4>1. c \in Links(t, m) /\ (m = p => c # n) /\ Hangs(t, m)
        BY <1>14, <1>15, <1>16, <1>17, <2>2, <3>3
      <4>2. c \in DOMAIN t /\ t[c].parent = m
        BY <4>1, WholeFacts
      <4>3. c # n
        BY <4>1, <4>2 DEF p
      <4> QED
        BY <1>15, <3>3, <4>2, <4>3
    <3> QED
      BY <3>1, <3>2, <3>3
  <2>3. ASSUME m # Root PROVE Hangs(u, u[m].parent)
    <3>1. CASE m = new
      BY <1>3, <1>4, <1>15, <1>16, <3>1
    <3>2. CASE m = n
      BY <1>15, <1>16, <3>2
    <3>3. CASE m # new /\ m # n
      <4>1. Hangs(t, t[m].parent) /\ t[m].parent \in DOMAIN t
        BY <1>16, <1>17, <2>3, <3>3, WholeFacts
      <4> QED
        BY <1>15, <1>16, <3>3, <4>1
    <3> QED
      BY <3>1, <3>2, <3>3
  <2> QED
    BY <2>1, <2>2, <2>3, HoldsSplit
<1>18. Ranked(u)
  <2>1. PICK q \in [DOMAIN t -> Nat] : Down(t, q)
    BY DEF Whole, Ranked
  <2> DEFINE q2 == [m \in DOMAIN u |-> IF m = new THEN 2 * q[n] - 1 ELSE 2 * q[m]]
  <2>0. 2 * q[n] - 1 \in Nat /\ q[p] < q[n]
    <3>1. q[p] < q[n] /\ q[n] \in Nat /\ q[p] \in Nat
      BY <1>3, <2>1 DEF Down
    <3> QED
      BY <3>1
  <2>2. /\ q2 \in [DOMAIN u -> Nat] /\ q2[new] = 2 * q[n] - 1
        /\ \A m \in DOMAIN t : m # new => q2[m] = 2 * q[m]
    BY <1>11, <2>0
  <2> HIDE DEF q2
  <2>3. ASSUME NEW m \in DOMAIN t, NEW c \in Links(u, m) PROVE q2[m] < q2[c]
    <3>1. CASE m = new
      BY <1>4, <1>14, <2>2, <2>3, <3>1
    <3>2. CASE m # new /\ c = new
      <4>1. m = p
        BY <1>4, <1>15, <2>3, <3>2
      <4>2. q[p] < q[n] /\ q[n] \in Nat /\ q[p] \in Nat
        BY <1>3, <2>1 DEF Down
      <4> QED
        BY <1>3, <1>4, <2>2, <3>2, <4>1, <4>2
    <3>3. CASE m # new /\ c # new
      <4>1. c \in Links(t, m)
        BY <1>14, <1>15, <2>3, <3>3
      <4>2. c \in DOMAIN t
        BY <1>1, <4>1, HeapFacts
      <4>3. q[m] < q[c] /\ q[c] \in Nat /\ q[m] \in Nat
        BY <2>1, <4>1, <4>2 DEF Down
      <4> QED
        BY <2>2, <3>3, <4>2, <4>3
    <3> QED
      BY <3>1, <3>2, <3>3
  <2> QED
    BY <1>11, <2>2, <2>3 DEF Ranked, Down
<1>19. Whole(u)
  <2>1. u[Root].parent = NoNode
    BY <1>1, <1>4, <1>15
  <2> QED
    BY <1>11, <1>12, <1>17, <1>18, <2>1 DEF Whole
<1> QED
  BY <1>2, <1>3, <1>4, <1>11, <1>14, <1>15, <1>16, <1>19 DEF p, InFront

\* A node whose only link is the statement after it leaves the chain.
Without(t, n, u, p, x) ==
  /\ Whole(u) /\ Len(u) = Len(t) /\ DOMAIN u = DOMAIN t
  /\ Links(u, p) = (Links(t, p) \ {n}) \cup ({x} \ {NoNode})
  /\ u[p].next = (IF t[p].next = n THEN x ELSE t[p].next)
  /\ p # n /\ x # n /\ x # p /\ p \in DOMAIN t
  /\ \A m \in DOMAIN t :
        /\ SameNode(u[m], t[m])
        /\ u[m].parent = IF m = x THEN p ELSE t[m].parent
        /\ Hangs(u, m) <=> Hangs(t, m) /\ m # n
        /\ m # p => /\ Links(u, m) = Links(t, m) /\ u[m].next = t[m].next
                    /\ u[m].branches = t[m].branches

LEMMA Dropped ==
  ASSUME NEW t, Whole(t), NEW n \in DOMAIN t, Hangs(t, n), n # Root,
         Links(t, n) = {t[n].next} \ {NoNode}
  PROVE  Without(t, n, UpdateParent(t, t[n].parent, n, t[n].next), t[n].parent, t[n].next)
<1> DEFINE p == t[n].parent
           x == t[n].next
           u == UpdateParent(t, p, n, x)
<1>1. /\ IsHeap(t) /\ t[Root].parent = NoNode /\ Root \in DOMAIN t /\ Len(t) \in Nat
      /\ DOMAIN t = 1 .. Len(t) /\ x \in 0 .. Len(t) /\ p \in 0 .. Len(t)
      /\ \A m \in DOMAIN t : Links(t, m) \subseteq DOMAIN t
  BY HeapFacts DEF Whole
<1>2. /\ p \in DOMAIN t /\ Hangs(t, p) /\ p # n /\ n \in Links(t, p) /\ p \notin Links(t, n)
      /\ Single(t[n]) /\ Single(t[p]) /\ n \notin Links(t, n)
      /\ \A c \in Links(t, p) : t[c].parent = p
  BY WholeFacts
<1>3. x # NoNode => x \in Links(t, n) /\ x \in DOMAIN t /\ t[x].parent = n /\ x # Root
  <2>1. x # NoNode => x \in Links(t, n)
    OBVIOUS
  <2> QED
    BY <2>1, WholeFacts
<1>4. /\ x # n /\ x # p /\ x \notin Links(t, p) /\ n # NoNode /\ p # NoNode
  <2>1. n # NoNode /\ p # NoNode
    BY <1>1, <1>2 DEF NoNode
  <2>2. NoNode \notin Links(t, p)
    BY DEF Links
  <2> QED
    BY <1>2, <1>3, <2>1, <2>2
<1>5. /\ IsHeap(u) /\ Len(u) = Len(t) /\ DOMAIN u = DOMAIN t
      /\ Links(u, p) = (Links(t, p) \ {n}) \cup ({x} \ {NoNode}) /\ Single(u[p])
      /\ u[p].next = (IF t[p].next = n THEN x ELSE t[p].next)
      /\ \A m \in DOMAIN t :
            /\ SameNode(u[m], t[m])
            /\ u[m].parent = IF m = x THEN p ELSE t[m].parent
            /\ m # p => /\ Links(u, m) = Links(t, m) /\ (Single(t[m]) => Single(u[m]))
                        /\ u[m].next = t[m].next /\ u[m].branches = t[m].branches
  <2> HIDE DEF p, x, u
  <2> QED
    BY <1>1, <1>2, <1>4, Relinked DEF u
<1>6. Links(t, n) = {x} \ {NoNode}
  OBVIOUS
<1>7. t[n].parent = p
  OBVIOUS
<1> HIDE DEF u, p, x
<1>8. ASSUME NEW m \in DOMAIN t PROVE Hangs(u, m) <=> Hangs(t, m) /\ m # n
  <2>0. t[m].parent # NoNode => t[m].parent \in DOMAIN t
    BY <1>1, HeapFacts DEF NoNode
  <2>1. CASE m = n
    <3>1. u[m].parent = p /\ m \notin Links(u, p)
      BY <1>4, <1>5, <1>7, <2>1
    <3> QED
      BY <2>1, <3>1 DEF Hangs
  <2>2. CASE m = x
    <3>1. u[m].parent = p /\ m \in Links(u, p)
      BY <1>1, <1>5, <2>2 DEF NoNode
    <3>2. Hangs(t, m)
      BY <1>1, <1>3, <1>4, <2>2 DEF Hangs, NoNode
    <3> QED
      BY <1>4, <2>2, <3>1, <3>2 DEF Hangs
  <2>3. CASE m # n /\ m # x
    <3>1. u[m].parent = t[m].parent /\ \A q \in DOMAIN t : m \in Links(u, q) <=> m \in Links(t, q)
      BY <1>5, <2>3
    <3> QED
      BY <2>0, <2>3, <3>1 DEF Hangs
  <2> QED
    BY <2>1, <2>2, <2>3
<1>9. ASSUME NEW m \in DOMAIN t, Hangs(u, m)
      PROVE  HoldsItsLinks(u, m) /\ (m # Root => Hangs(u, u[m].parent))
  <2>0. Hangs(t, m) /\ m # n
    BY <1>8, <1>9
  <2>1. Single(u[m])
    BY <1>5, <2>0, WholeFacts
  <2>2. ASSUME NEW c \in Links(u, m) PROVE u[c].parent = m
    <3>1. CASE c \in Links(t, m)
      <4>1. c \in DOMAIN t /\ t[c].parent = m
        BY <2>0, <3>1, WholeFacts
      <4>2. c # x
        BY <1>3, <1>4, <2>0, <4>1, <1>1 DEF NoNode
      <4> QED
        BY <1>5, <4>1, <4>2
    <3>2. CASE c \notin Links(t, m)
      <4>1. m = p /\ c = x /\ c # NoNode
        BY <1>5, <2>2, <3>2
      <4> QED
        BY <1>3, <1>5, <4>1
    <3> QED
      BY <3>1, <3>2
  <2>3. ASSUME m # Root PROVE Hangs(u, u[m].parent)
    <3>1. CASE m = x
      BY <1>2, <1>5, <1>8, <3>1
    <3>2. CASE m # x
      <4>1. Hangs(t, t[m].parent) /\ t[m].parent \in DOMAIN t /\ m \in Links(t, t[m].parent)
        BY <2>0, <2>3, WholeFacts
      <4>2. t[m].parent # n
        BY <1>6, <3>2, <4>1
      <4> QED
        BY <1>5, <1>8, <3>2, <4>1, <4>2
    <3> QED
      BY <3>1, <3>2
  <2> QED
    BY <2>1, <2>2, <2>3, HoldsSplit
<1>10. Ranked(u)
  <2>1. PICK q \in [DOMAIN t -> Nat] : Down(t, q)
    BY DEF Whole, Ranked
  <2>2. ASSUME NEW m \in DOMAIN t, NEW c \in Links(u, m) PROVE q[m] < q[c]
    <3>1. CASE c \in Links(t, m)
      BY <2>1, <3>1 DEF Down
    <3>2. CASE c \notin Links(t, m)
      <4>1. m = p /\ c = x /\ c # NoNode
        BY <1>5, <2>2, <3>2
      <4>2. q[p] < q[n] /\ q[n] < q[x] /\ q[x] \in Nat /\ q[n] \in Nat /\ q[p] \in Nat
        BY <1>2, <1>3, <2>1, <4>1 DEF Down
      <4> QED
        BY <4>1, <4>2
    <3> QED
      BY <3>1, <3>2
  <2> QED
    BY <1>5, <2>1, <2>2 DEF Ranked, Down
<1>11. Whole(u)
  <2>1. u[Root].parent = NoNode
    BY <1>1, <1>3, <1>5 DEF NoNode, Root
  <2> QED
    BY <1>5, <1>9, <1>10, <2>1 DEF Whole
<1> QED
  BY <1>2, <1>4, <1>5, <1>8, <1>11 DEF u, p, x, Without

----------------------------------------------------------------------------
(* Walks.  A stack of nodes still to visit, and the set of those visited:   *)
(* each node of the stack is in the tree and its parent has been visited,   *)
(* and what a visited node links to has been visited or is on the stack.    *)

Walks(t, w, V) ==
  /\ w \in Seq(DOMAIN t) /\ IsInjective(w) /\ V \subseteq DOMAIN t /\ Range(w) \cap V = {}
  /\ \A x \in Range(w) : Hangs(t, x) /\ (x # Root => t[x].parent \in V)
  /\ \A x \in V : Hangs(t, x) => /\ Links(t, x) \subseteq V \cup Range(w)
                                 /\ x # Root => t[x].parent \in V

LEMMA PushNodeFacts ==
  ASSUME NEW S, NEW b \in Seq(S), NEW n, n # NoNode => n \in S /\ n \notin Range(b)
  PROVE  /\ PushNode(b, n) \in Seq(S) /\ Range(PushNode(b, n)) = Range(b) \cup ({n} \ {NoNode})
         /\ IsInjective(b) => IsInjective(PushNode(b, n))
<1>1. CASE n = NoNode
  BY <1>1 DEF PushNode
<1>2. CASE n # NoNode
  BY <1>2, AppendFacts DEF PushNode
<1> QED
  BY <1>1, <1>2

\* The stack once everything n links to has been pushed.
Spread(t, b, n) == PushNode(PushNode(b, t[n].next) \o Bodies(t[n].branches), t[n].loop)

LEMMA SpreadFacts ==
  ASSUME NEW t, Whole(t), NEW n \in DOMAIN t, Hangs(t, n),
         NEW b \in Seq(DOMAIN t), IsInjective(b), Range(b) \cap Links(t, n) = {}
  PROVE  /\ Spread(t, b, n) \in Seq(DOMAIN t) /\ IsInjective(Spread(t, b, n))
         /\ Range(Spread(t, b, n)) = Range(b) \cup Links(t, n)
         /\ t[n].type # "loop" => Spread(t, b, n) = PushNode(b, t[n].next) \o Bodies(t[n].branches)
         /\ t[n].type # "branch" => /\ Spread(t, b, n) = PushNode(PushNode(b, t[n].next), t[n].loop)
                                    /\ Bodies(t[n].branches) = << >>
         /\ t[n].type \notin {"loop", "branch"} => Spread(t, b, n) = PushNode(b, t[n].next)
<1> DEFINE S  == DOMAIN t
           r  == t[n]
           c  == PushNode(b, r.next)
           bo == Bodies(r.branches)
           d  == c \o bo
<1>1. /\ Len(t) \in Nat /\ S = 1 .. Len(t) /\ r.next \in 0 .. Len(t) /\ r.loop \in 0 .. Len(t)
      /\ r.branches \in Seq(0 .. Len(t))
  BY HeapFacts DEF Whole
<1>2. Single(r) /\ Links(t, n) = LinksOf(r)
  BY WholeFacts, HoldsSplit
<1>3. bo \in Seq(S) /\ Range(bo) = Range(r.branches) \ {NoNode} /\ IsInjective(bo)
  <2> HIDE DEF r
  <2>1. \A i, j \in DOMAIN r.branches : r.branches[i] = r.branches[j] /\ r.branches[i] # NoNode => i = j
    BY <1>2 DEF Single
  <2> QED
    BY <1>1, <2>1, BodiesFacts
<1>4. /\ c \in Seq(S) /\ Range(c) = Range(b) \cup ({r.next} \ {NoNode}) /\ IsInjective(c)
  <2>1. r.next # NoNode => r.next \in S /\ r.next \notin Range(b)
    BY <1>1, <1>2 DEF LinksOf, NoNode
  <2> QED
    BY <2>1, PushNodeFacts
<1> HIDE DEF r, c, bo, S
<1>5. Range(c) \cap Range(bo) = {}
  BY <1>2, <1>3, <1>4 DEF LinksOf, Single
<1>6. /\ d \in Seq(S) /\ Range(d) = Range(b) \cup (({r.next} \cup Range(r.branches)) \ {NoNode})
      /\ IsInjective(d)
  <2>1. d \in Seq(S) /\ Range(d) = Range(c) \cup Range(bo) /\ IsInjective(d)
    BY <1>3, <1>4, <1>5, ConcatFacts
  <2> HIDE DEF d
  <2> QED
    BY <1>3, <1>4, <2>1
<1>7. r.type # "branch" => bo = << >> /\ d = c
  <2> SUFFICES ASSUME r.type # "branch" PROVE bo = << >> /\ d = c
    OBVIOUS
  <2>1. Range(bo) = {}
    <3>1. r.branches = << >>
      BY <1>2 DEF Single
    <3> QED
      BY <1>3, <3>1 DEF Range
  <2>2. bo = << >>
    BY <1>3, <2>1 DEF Range
  <2> QED
    BY <1>4, <2>2
<1> HIDE DEF d
<1>8. r.loop # NoNode => r.loop \in S /\ r.loop \notin Range(d) /\ r.type = "loop"
  <2>1. r.loop # NoNode => r.loop \in S /\ r.loop \notin Range(b) /\ r.type = "loop"
    BY <1>1, <1>2 DEF LinksOf, NoNode, Single, S
  <2>2. r.loop # NoNode => r.branches = << >> /\ Range(r.branches) = {}
    BY <1>2, <2>1 DEF Single, Range
  <2> QED
    BY <1>2, <1>6, <2>1, <2>2 DEF Single
<1>9. Spread(t, b, n) = PushNode(d, r.loop)
  BY DEF Spread, d, c, bo, r
<1>10. /\ Spread(t, b, n) \in Seq(S) /\ IsInjective(Spread(t, b, n))
       /\ Range(Spread(t, b, n)) = Range(b) \cup LinksOf(r)
  <2>1. /\ PushNode(d, r.loop) \in Seq(S) /\ Range(PushNode(d, r.loop)) = Range(d) \cup ({r.loop} \ {NoNode})
        /\ IsInjective(PushNode(d, r.loop))
    BY <1>6, <1>8, PushNodeFacts
  <2> QED
    BY <1>6, <1>9, <2>1 DEF LinksOf
<1>11. r.type # "loop" => Spread(t, b, n) = d
  BY <1>8, <1>9 DEF PushNode
<1> QED
  BY <1>2, <1>7, <1>9, <1>10, <1>11 DEF r, c, bo, d, S

\* A walk visits the top of its stack and pushes what it links to.
LEMMA Visited ==
  ASSUME NEW t, Whole(t), NEW w, NEW V, Walks(t, w, V), w # << >>
  PROVE  /\ Top(w) \in DOMAIN t /\ Hangs(t, Top(w)) /\ Top(w) \notin V
         /\ Below(w) \in Seq(DOMAIN t) /\ IsInjective(Below(w))
         /\ Range(Below(w)) \cap Links(t, Top(w)) = {}
         /\ Walks(t, Spread(t, Below(w), Top(w)), V \cup {Top(w)})
<1> DEFINE n == Top(w)
           b == Below(w)
           s == Spread(t, b, n)
<1>1. /\ n \in DOMAIN t /\ n \in Range(w) /\ b \in Seq(DOMAIN t) /\ IsInjective(b)
      /\ Range(w) = Range(b) \cup {n} /\ n \notin Range(b)
  BY TopFacts DEF Walks
<1>2. Hangs(t, n) /\ n \notin V /\ (n # Root => t[n].parent \in V)
  BY <1>1 DEF Walks
<1> HIDE DEF n, b
<1>3. \A c \in Links(t, n) : c \in DOMAIN t /\ t[c].parent = n /\ c # Root /\ c # n /\ Hangs(t, c)
  BY <1>1, <1>2, WholeFacts
<1>4. Range(b) \cap Links(t, n) = {}
  BY <1>1, <1>2, <1>3 DEF Walks
<1>5. s \in Seq(DOMAIN t) /\ IsInjective(s) /\ Range(s) = Range(b) \cup Links(t, n)
  BY <1>1, <1>2, <1>4, SpreadFacts
<1> HIDE DEF s
<1>6. Range(s) \cap (V \cup {n}) = {}
  <2>1. ASSUME NEW c \in Links(t, n), c \in V PROVE FALSE
    BY <1>2, <1>3, <2>1 DEF Walks
  <2> QED
    BY <1>1, <1>3, <1>5, <2>1 DEF Walks
<1>7. ASSUME NEW x \in Range(s) PROVE Hangs(t, x) /\ (x # Root => t[x].parent \in V \cup {n})
  BY <1>1, <1>3, <1>5 DEF Walks
<1>8. ASSUME NEW x \in V \cup {n}, Hangs(t, x)
      PROVE  /\ Links(t, x) \subseteq V \cup {n} \cup Range(s)
             /\ x # Root => t[x].parent \in V \cup {n}
  BY <1>1, <1>2, <1>5, <1>8 DEF Walks
<1>9. Walks(t, s, V \cup {n})
  BY <1>1, <1>5, <1>6, <1>7, <1>8 DEF Walks
<1> QED
  BY <1>1, <1>2, <1>4, <1>9 DEF n, b, s

\* A walk with nothing left on its stack has visited the whole tree.
LEMMA AllVisited ==
  ASSUME NEW t, Whole(t), NEW V, Walks(t, << >>, V), Root \in V
  PROVE  \A n \in DOMAIN t : Hangs(t, n) => n \in V
<1>1. PICK r \in [DOMAIN t -> Nat] : Down(t, r)
  BY DEF Whole, Ranked
<1> DEFINE Missed == {n \in DOMAIN t : Hangs(t, n) /\ n \notin V}
           R == {r[n] : n \in Missed}
<1> SUFFICES ASSUME Missed # {} PROVE FALSE
  OBVIOUS
<1>2. R # {} /\ R \in SUBSET Nat
  OBVIOUS
<1>3. PICK k \in R : \A j \in R : k <= j
  BY <1>2, LeastElement
<1>4. PICK n \in Missed : k = r[n]
  BY <1>3
<1>5. /\ n \in DOMAIN t /\ n # Root /\ t[n].parent \in DOMAIN t /\ Hangs(t, t[n].parent)
      /\ n \in Links(t, t[n].parent)
  BY <1>4, WholeFacts
<1>6. t[n].parent \notin V
  BY <1>4, <1>5 DEF Walks, Range
<1>7. r[t[n].parent] < r[n] /\ r[n] \in Nat /\ r[t[n].parent] \in Nat
  BY <1>1, <1>5 DEF Down
<1>8. r[t[n].parent] \in R
  BY <1>5, <1>6
<1>9. r[n] <= r[t[n].parent]
  BY <1>3, <1>4, <1>8
<1> QED
  BY <1>7, <1>9

\* A walk goes on over a change that leaves every link of its tree alone,
LEMMA SameWalks ==
  ASSUME NEW t, NEW u, DOMAIN t \subseteq DOMAIN u, NEW w, NEW V, Walks(t, w, V),
         \A n \in DOMAIN t : /\ Links(u, n) = Links(t, n) /\ u[n].parent = t[n].parent
                             /\ Hangs(u, n) <=> Hangs(t, n)
  PROVE  Walks(u, w, V)
<1>1. w \in Seq(DOMAIN u)
  <2>1. w \in Seq(DOMAIN t)
    BY DEF Walks
  <2> QED
    BY <2>1
<1>2. Range(w) \subseteq DOMAIN t
  BY DEF Walks, Range
<1> QED
  BY <1>1, <1>2 DEF Walks

\* over a node put in front of one that was visited,
LEMMA InsertedWalks ==
  ASSUME NEW t, Whole(t), NEW n \in DOMAIN t, Hangs(t, n), n # Root,
         NEW new \in DOMAIN t, Lone(t, new), NEW w, NEW V, Walks(t, w, V), n \in V
  PROVE  Walks(InsertBefore(t, n, new), w, V \cup {new})
<1> DEFINE u == InsertBefore(t, n, new)
           p == t[n].parent
<1>1. /\ DOMAIN u = DOMAIN t
      /\ Links(u, p) = (Links(t, p) \ {n}) \cup {new} /\ Links(u, new) = {n}
      /\ p # new /\ p # n /\ n # new /\ p \in DOMAIN t
      /\ \A m \in DOMAIN t :
            /\ u[m].parent = IF m = n THEN new ELSE IF m = new THEN p ELSE t[m].parent
            /\ Hangs(u, m) <=> Hangs(t, m) \/ m = new
            /\ m \notin {p, new} => Links(u, m) = Links(t, m)
  <2>1. InFront(t, n, new, u, p)
    BY Inserted
  <2> HIDE DEF u, p
  <2> QED
    BY <2>1, Zenon DEF InFront
<1>2. p \in V
  BY DEF Walks
<1> HIDE DEF u, p
<1>3. ~Hangs(t, new)
  BY DEF Lone, Hangs
<1>4. Range(w) \subseteq DOMAIN t /\ new \notin Range(w) /\ n \notin Range(w)
  BY <1>3 DEF Walks, Range
<1>5. \A x \in Range(w) : Hangs(u, x) /\ (x # Root => u[x].parent \in V \cup {new})
  BY <1>1, <1>4 DEF Walks
<1>6. ASSUME NEW x \in V \cup {new}, Hangs(u, x)
      PROVE  /\ Links(u, x) \subseteq V \cup {new} \cup Range(w)
             /\ x # Root => u[x].parent \in V \cup {new}
  <2>1. CASE x = new
    BY <1>1, <1>2, <2>1
  <2>2. CASE x # new
    <3>1. x \in V /\ x \in DOMAIN t /\ Hangs(t, x)
      BY <1>1, <1>6, <2>2 DEF Walks
    <3>2. Links(t, x) \subseteq V \cup Range(w) /\ (x # Root => t[x].parent \in V)
      BY <3>1 DEF Walks
    <3> QED
      BY <1>1, <2>2, <3>1, <3>2
  <2> QED
    BY <2>1, <2>2
<1>7. Walks(u, w, V \cup {new})
  BY <1>1, <1>4, <1>5, <1>6 DEF Walks
<1> QED
  BY <1>7 DEF u

\* and over one that was visited and leaves.
LEMMA DroppedWalks ==
  ASSUME NEW t, Whole(t), NEW n \in DOMAIN t, Hangs(t, n), n # Root,
         Links(t, n) = {t[n].next} \ {NoNode}, NEW w, NEW V, Walks(t, w, V), n \in V
  PROVE  Walks(UpdateParent(t, t[n].parent, n, t[n].next), w, V)
<1> DEFINE u == UpdateParent(t, t[n].parent, n, t[n].next)
           p == t[n].parent
           x == t[n].next
<1>1. /\ DOMAIN u = DOMAIN t
      /\ Links(u, p) = (Links(t, p) \ {n}) \cup ({x} \ {NoNode})
      /\ p # n /\ x # n /\ x # p /\ p \in DOMAIN t
      /\ \A m \in DOMAIN t :
            /\ u[m].parent = IF m = x THEN p ELSE t[m].parent
            /\ Hangs(u, m) <=> Hangs(t, m) /\ m # n
            /\ m # p => Links(u, m) = Links(t, m)
  <2>1. Without(t, n, u, p, x)
    BY Dropped
  <2> HIDE DEF u, p, x
  <2> QED
    BY <2>1, Zenon DEF Without
<1>2. p \in V /\ {x} \ {NoNode} \subseteq V \cup Range(w)
  BY DEF Walks
<1> HIDE DEF u, p, x
<1>3. Range(w) \subseteq DOMAIN t /\ n \notin Range(w)
  BY DEF Walks, Range
<1>4. \A y \in Range(w) : Hangs(u, y) /\ (y # Root => u[y].parent \in V)
  BY <1>1, <1>2, <1>3 DEF Walks
<1>5. ASSUME NEW y \in V, Hangs(u, y)
      PROVE  /\ Links(u, y) \subseteq V \cup Range(w)
             /\ y # Root => u[y].parent \in V
  <2>1. y \in DOMAIN t /\ Hangs(t, y)
    BY <1>1, <1>5 DEF Walks
  <2>2. Links(t, y) \subseteq V \cup Range(w) /\ (y # Root => t[y].parent \in V)
    BY <2>1 DEF Walks
  <2> QED
    BY <1>1, <1>2, <2>1, <2>2
<1>6. Walks(u, w, V)
  BY <1>1, <1>3, <1>4, <1>5 DEF Walks
<1> QED
  BY <1>6 DEF u

----------------------------------------------------------------------------
(* Sequences of sequences, joined.                                         *)

Joins(q, n, g) == g = [i \in 0 .. n |-> IF i = 0 THEN << >> ELSE g[i - 1] \o q[i]]

LEMMA JoinsExist ==
  ASSUME NEW q, NEW n \in Nat
  PROVE  \E g : Joins(q, n, g)
<1> DEFINE W == {m \in Nat : ~\E g : Joins(q, m, g)}
<1> SUFFICES ASSUME W # {} PROVE FALSE
  OBVIOUS
<1>1. PICK m \in W : \A k \in W : m <= k
  BY LeastElement, W \in SUBSET Nat
<1>2. CASE m = 0
  <2>1. Joins(q, 0, [i \in 0 .. 0 |-> << >>])
    BY DEF Joins
  <2> QED
    BY <1>1, <1>2, <2>1
<1>3. CASE m # 0
  <2>1. m - 1 \in Nat /\ m - 1 \notin W
    BY <1>1, <1>3
  <2>2. PICK g : Joins(q, m - 1, g)
    BY <2>1
  <2> DEFINE f == [i \in 0 .. m |-> IF i = m THEN g[m - 1] \o q[m] ELSE g[i]]
  <2>3. \A i \in 0 .. m - 1 : f[i] = g[i] /\ i # m
    BY <2>1
  <2>4. ASSUME NEW i \in 0 .. m
        PROVE  f[i] = IF i = 0 THEN << >> ELSE f[i - 1] \o q[i]
    <3>1. CASE i = m
      <4>1. f[i] = g[m - 1] \o q[m] /\ f[i - 1] = g[i - 1] /\ i # 0
        BY <1>3, <2>1, <2>3, <3>1
      <4> QED
        BY <3>1, <4>1
    <3>2. CASE i # m
      <4>1. i \in 0 .. m - 1 /\ f[i] = g[i]
        BY <2>1, <2>3, <3>2
      <4>2. g[i] = IF i = 0 THEN << >> ELSE g[i - 1] \o q[i]
        BY <2>2, <4>1 DEF Joins
      <4>3. i # 0 => f[i - 1] = g[i - 1]
        BY <2>1, <2>3, <4>1
      <4> QED
        BY <4>1, <4>2, <4>3
    <3> QED
      BY <3>1, <3>2
  <2>5. f = [i \in 0 .. m |-> f[i]]
    OBVIOUS
  <2> HIDE DEF f
  <2>6. Joins(q, m, f)
    BY <2>4, <2>5 DEF Joins
  <2> QED
    BY <1>1, <2>6
<1> QED
  BY <1>2, <1>3

LEMMA JoinsSeq ==
  ASSUME NEW S, NEW q, NEW n \in Nat, \A i \in 1 .. n : q[i] \in Seq(S), NEW g, Joins(q, n, g)
  PROVE  \A i \in 0 .. n : g[i] \in Seq(S)
<1> DEFINE W == {i \in 0 .. n : g[i] \notin Seq(S)}
<1> SUFFICES ASSUME W # {} PROVE FALSE
  OBVIOUS
<1>1. PICK i \in W : \A j \in W : i <= j
  BY LeastElement, W \in SUBSET Nat
<1>2. g[i] = IF i = 0 THEN << >> ELSE g[i - 1] \o q[i]
  BY <1>1 DEF Joins
<1>3. CASE i = 0
  <2>1. << >> \in Seq(S)
    OBVIOUS
  <2> QED
    BY <1>1, <1>2, <1>3, <2>1
<1>4. CASE i # 0
  <2>1. i - 1 \in 0 .. n /\ i \in 1 .. n /\ i - 1 < i
    BY <1>1, <1>4
  <2>2. g[i - 1] \in Seq(S) /\ q[i] \in Seq(S)
    BY <1>1, <2>1
  <2>3. g[i - 1] \o q[i] \in Seq(S)
    BY <2>2, ConcatProperties
  <2> QED
    BY <1>1, <1>2, <1>4, <2>3
<1> QED
  BY <1>3, <1>4

LEMMA JoinsSame ==
  ASSUME NEW q, NEW n \in Nat, NEW f, Joins(q, n, f), NEW g, Joins(q, n, g)
  PROVE  f = g
<1> DEFINE W == {i \in 0 .. n : f[i] # g[i]}
<1>1. W = {}
  <2> SUFFICES ASSUME W # {} PROVE FALSE
    OBVIOUS
  <2>1. PICK i \in W : \A j \in W : i <= j
    BY LeastElement, W \in SUBSET Nat
  <2>2. /\ f[i] = IF i = 0 THEN << >> ELSE f[i - 1] \o q[i]
        /\ g[i] = IF i = 0 THEN << >> ELSE g[i - 1] \o q[i]
    BY <2>1 DEF Joins
  <2>3. i # 0 => i - 1 \in 0 .. n /\ i - 1 < i
    BY <2>1
  <2>4. i # 0 => f[i - 1] = g[i - 1]
    BY <2>1, <2>3
  <2> QED
    BY <2>1, <2>2, <2>4
<1>2. f = [i \in 0 .. n |-> f[i]] /\ g = [i \in 0 .. n |-> g[i]]
  BY DEF Joins
<1> QED
  BY <1>1, <1>2

\* FlattenSeq is the last of them.
LEMMA FlattenJoins ==
  ASSUME NEW S, NEW q \in Seq(Seq(S)), NEW g, Joins(q, Len(q), g)
  PROVE  FlattenSeq(q) = g[Len(q)]
<1> DEFINE n == Len(q)
           Flats(f) == f = [i \in 1 .. n |-> IF i = 1 THEN q[i] ELSE f[i - 1] \o q[i]]
           fl == CHOOSE f : Flats(f)
<1>1. n \in Nat /\ DOMAIN q = 1 .. n /\ \A i \in 1 .. n : q[i] \in Seq(S)
  OBVIOUS
<1>2. \A i \in 0 .. n : g[i] \in Seq(S) /\ g[i] = IF i = 0 THEN << >> ELSE g[i - 1] \o q[i]
  <2>1. \A i \in 0 .. n : g[i] \in Seq(S)
    BY <1>1, JoinsSeq
  <2> QED
    BY <2>1 DEF Joins
<1>3. CASE n = 0
  <2>1. q = << >>
    BY <1>1, <1>3
  <2> QED
    BY <1>2, <1>3, <2>1 DEF FlattenSeq
<1>4. CASE n # 0
  <2>1. FlattenSeq(q) = fl[n]
    BY <1>4 DEF FlattenSeq
  <2> DEFINE r == [i \in 1 .. n |-> g[i]]
  <2>2. Flats(r)
    <3>1. r = [i \in 1 .. n |-> r[i]] /\ \A i \in 1 .. n : r[i] = g[i]
      OBVIOUS
    <3> HIDE DEF r, n
    <3>2. ASSUME NEW i \in 1 .. n PROVE r[i] = IF i = 1 THEN q[i] ELSE r[i - 1] \o q[i]
      <4>1. i \in 0 .. n /\ i # 0 /\ r[i] = g[i]
        BY <1>1, <3>1
      <4>2. g[i] = g[i - 1] \o q[i] /\ q[i] \in Seq(S)
        BY <1>1, <1>2, <4>1
      <4>3. CASE i = 1
        <5>1. 0 \in 0 .. n /\ i - 1 = 0
          BY <1>1, <4>3
        <5>2. g[i - 1] = << >>
          BY <1>2, <5>1
        <5> QED
          BY <4>1, <4>2, <4>3, <5>2, ConcatEmptySeq
      <4>4. CASE i # 1
        <5>1. i - 1 \in 1 .. n
          BY <1>1, <4>4
        <5> QED
          BY <3>1, <4>1, <4>2, <4>4, <5>1
      <4> QED
        BY <4>3, <4>4
    <3> QED
      BY <3>1, <3>2
  <2>3. Flats(fl)
    BY <2>2
  <2> DEFINE W == {i \in 1 .. n : fl[i] # g[i]}
  <2>4. W = {}
    <3> SUFFICES ASSUME W # {} PROVE FALSE
      OBVIOUS
    <3> HIDE DEF fl
    <3>1. PICK i \in W : \A j \in W : i <= j
      BY LeastElement, W \in SUBSET Nat
    <3>2. fl[i] = IF i = 1 THEN q[i] ELSE fl[i - 1] \o q[i]
      BY <2>3, <3>1
    <3>3. g[i] = g[i - 1] \o q[i] /\ q[i] \in Seq(S)
      <4>1. i \in 0 .. n /\ i # 0 /\ i \in 1 .. n
        BY <1>1, <3>1
      <4> QED
        BY <1>1, <1>2, <4>1
    <3>4. CASE i = 1
      <4>1. g[i - 1] = << >>
        BY <1>1, <1>2, <3>4
      <4> QED
        BY <3>1, <3>2, <3>3, <3>4, <4>1, ConcatEmptySeq
    <3>5. CASE i # 1
      <4>1. i - 1 \in 1 .. n /\ ~(i <= i - 1)
        BY <1>1, <3>1, <3>5
      <4>2. i - 1 \notin W
        <5> HIDE DEF W
        <5> QED
          BY <3>1, <4>1, Zenon
      <4>3. fl[i - 1] = g[i - 1]
        BY <4>1, <4>2
      <4> QED
        BY <3>1, <3>2, <3>3, <3>5, <4>3
    <3> QED
      BY <3>4, <3>5
  <2>5. n \in 1 .. n
    BY <1>1, <1>4
  <2> HIDE DEF fl
  <2> QED
    BY <2>1, <2>4, <2>5
<1> QED
  BY <1>3, <1>4

\* So it depends on the entries only, is a sequence of what they have, and has all of it.
LEMMA FlattenFacts ==
  ASSUME NEW S, NEW q \in Seq(Seq(S))
  PROVE  /\ FlattenSeq(q) \in Seq(S)
         /\ Range(FlattenSeq(q)) = UNION {Range(q[i]) : i \in DOMAIN q}
<1>1. Len(q) \in Nat /\ DOMAIN q = 1 .. Len(q) /\ \A i \in 1 .. Len(q) : q[i] \in Seq(S)
  OBVIOUS
<1>2. PICK g : Joins(q, Len(q), g)
  BY <1>1, JoinsExist
<1>3. \A i \in 0 .. Len(q) : g[i] \in Seq(S)
  BY <1>1, <1>2, JoinsSeq
<1> DEFINE n == Len(q)
           Upto(i) == UNION {Range(q[j]) : j \in 1 .. i}
           W == {i \in 0 .. n : Range(g[i]) # Upto(i)}
<1>4. W = {}
  <2> SUFFICES ASSUME W # {} PROVE FALSE
    OBVIOUS
  <2>1. PICK i \in W : \A j \in W : i <= j
    BY LeastElement, W \in SUBSET Nat
  <2>2. g[i] = IF i = 0 THEN << >> ELSE g[i - 1] \o q[i]
    BY <1>2, <2>1 DEF Joins
  <2>3. CASE i = 0
    <3>1. Range(<< >>) = {}
      BY DEF Range
    <3>2. Upto(0) = {}
      OBVIOUS
    <3> QED
      BY <2>1, <2>2, <2>3, <3>1, <3>2
  <2>4. CASE i # 0
    <3>1. i - 1 \in 0 .. n /\ i - 1 < i /\ i \in 1 .. n /\ 1 .. i = (1 .. i - 1) \cup {i}
      BY <2>1, <2>4
    <3>2. Range(g[i - 1]) = Upto(i - 1)
      <4> HIDE DEF Upto
      <4> QED
        BY <2>1, <3>1
    <3>3. Range(g[i - 1] \o q[i]) = Range(g[i - 1]) \cup Range(q[i])
      BY <1>1, <1>3, <3>1, ConcatFacts
    <3>4. Upto(i) = Upto(i - 1) \cup Range(q[i])
      BY <3>1, Zenon
    <3> HIDE DEF Upto
    <3> QED
      BY <2>1, <2>2, <2>4, <3>2, <3>3, <3>4
  <2> QED
    BY <2>3, <2>4
<1>5. n \in 0 .. n
  BY <1>1
<1>6. FlattenSeq(q) = g[n]
  BY <1>2, FlattenJoins
<1>7. Range(g[n]) = Upto(n)
  BY <1>4, <1>5
<1> HIDE DEF W
<1> QED
  BY <1>1, <1>3, <1>5, <1>6, <1>7
----------------------------------------------------------------------------
(* What a walk finds: the lists the nodes of a heap stand for.              *)

Part(g, c) == IF c = NoNode THEN << >> ELSE g[c]
Flat(g, br) == FlattenSeq([i \in DOMAIN br |-> Part(g, br[i])])
Entry(g, o, r) == o \o Flat(g, r.branches) \o Part(g, r.loop) \o Part(g, r.next)

Lists(t, own, g) == g = [n \in DOMAIN t |-> Entry(g, own[n], t[n])]

LEMMA EntrySame ==
  ASSUME NEW f, NEW g, NEW o, NEW r, \A c \in LinksOf(r) : f[c] = g[c]
  PROVE  Entry(f, o, r) = Entry(g, o, r)
<1>1. Part(f, r.loop) = Part(g, r.loop) /\ Part(f, r.next) = Part(g, r.next)
  BY DEF Part, LinksOf
<1>2. \A i \in DOMAIN r.branches : Part(f, r.branches[i]) = Part(g, r.branches[i])
  BY DEF Part, LinksOf, Range
<1>3. [i \in DOMAIN r.branches |-> Part(f, r.branches[i])]
      = [i \in DOMAIN r.branches |-> Part(g, r.branches[i])]
  BY <1>2, Zenon
<1> QED
  BY <1>1, <1>3, Zenon DEF Entry, Flat

\* What the lists of the nodes it links to have.
Gathered(g, r) == UNION {Range(g[c]) : c \in LinksOf(r)}

LEMMA EntryFacts ==
  ASSUME NEW S, NEW g, NEW o \in Seq(S), NEW r, NEW X, r.branches \in Seq(X),
         \A c \in LinksOf(r) : g[c] \in Seq(S)
  PROVE  /\ Flat(g, r.branches) \in Seq(S) /\ Part(g, r.loop) \in Seq(S) /\ Part(g, r.next) \in Seq(S)
         /\ Entry(g, o, r) \in Seq(S)
         /\ Range(Entry(g, o, r)) = Range(o) \cup Gathered(g, r)
<1> DEFINE br == r.branches
           q == [i \in DOMAIN br |-> Part(g, br[i])]
           fl == Flat(g, br)
           lo == Part(g, r.loop)
           ne == Part(g, r.next)
<1>0. << >> \in Seq(S) /\ Range(<< >>) = {}
  BY DEF Range
<1>1. /\ lo \in Seq(S) /\ ne \in Seq(S)
      /\ \A i \in DOMAIN br : Part(g, br[i]) \in Seq(S)
  BY <1>0 DEF Part, LinksOf, Range
<1>2. q \in Seq(Seq(S))
  <2>1. DOMAIN br = 1 .. Len(br) /\ Len(br) \in Nat
    OBVIOUS
  <2>2. q \in [1 .. Len(br) -> Seq(S)]
    BY <1>1, <2>1
  <2> QED
    BY <2>1, <2>2
<1>3. fl \in Seq(S) /\ Range(fl) = UNION {Range(q[i]) : i \in DOMAIN q}
  <2> HIDE DEF q
  <2>1. FlattenSeq(q) \in Seq(S) /\ Range(FlattenSeq(q)) = UNION {Range(q[i]) : i \in DOMAIN q}
    BY <1>2, FlattenFacts
  <2> QED
    BY <2>1 DEF Flat, q
<1>4. Range(fl) = UNION {Range(g[c]) : c \in Range(br) \ {NoNode}}
  <2>1. DOMAIN q = DOMAIN br /\ \A i \in DOMAIN br : q[i] = Part(g, br[i])
    OBVIOUS
  <2> HIDE DEF q
  <2>2. ASSUME NEW x \in Range(fl) PROVE x \in UNION {Range(g[c]) : c \in Range(br) \ {NoNode}}
    <3>1. PICK i \in DOMAIN br : x \in Range(Part(g, br[i]))
      BY <1>3, <2>1
    <3>2. br[i] # NoNode /\ x \in Range(g[br[i]])
      BY <1>0, <3>1 DEF Part
    <3> QED
      BY <3>2 DEF Range
  <2>3. ASSUME NEW c \in Range(br) \ {NoNode}, NEW x \in Range(g[c]) PROVE x \in Range(fl)
    <3>1. PICK i \in DOMAIN br : br[i] = c
      BY DEF Range
    <3>2. q[i] = g[c]
      BY <2>1, <3>1 DEF Part
    <3> QED
      BY <1>3, <2>1, <2>3, <3>1, <3>2
  <2> QED
    BY <2>2, <2>3
<1>5. Range(lo) = UNION {Range(g[c]) : c \in {r.loop} \ {NoNode}}
  BY <1>0 DEF Part
<1>6. Range(ne) = UNION {Range(g[c]) : c \in {r.next} \ {NoNode}}
  BY <1>0 DEF Part
<1> HIDE DEF fl, lo, ne, q
<1>7. o \o fl \in Seq(S) /\ Range(o \o fl) = Range(o) \cup Range(fl)
  BY <1>3, ConcatFacts
<1> DEFINE a == o \o fl
<1>8. a \in Seq(S) /\ Range(a) = Range(o) \cup Range(fl)
  BY <1>7
<1> HIDE DEF a
<1>9. a \o lo \in Seq(S) /\ Range(a \o lo) = Range(a) \cup Range(lo)
  BY <1>1, <1>8, ConcatFacts
<1> DEFINE b == a \o lo
<1>10. b \in Seq(S) /\ Range(b) = Range(a) \cup Range(lo)
  BY <1>9
<1> HIDE DEF b
<1>11. b \o ne \in Seq(S) /\ Range(b \o ne) = Range(b) \cup Range(ne)
  BY <1>1, <1>10, ConcatFacts
<1>12. Entry(g, o, r) = b \o ne
  BY DEF Entry, fl, lo, ne, a, b
<1>13. Gathered(g, r) = Range(fl) \cup Range(lo) \cup Range(ne)
  <2>1. LinksOf(r) = (Range(br) \ {NoNode}) \cup ({r.loop} \ {NoNode}) \cup ({r.next} \ {NoNode})
    BY DEF LinksOf
  <2> QED
    BY <1>4, <1>5, <1>6, <2>1 DEF Gathered
<1> QED
  BY <1>1, <1>3, <1>8, <1>10, <1>11, <1>12, <1>13 DEF fl, lo, ne

\* A set of nodes has one with no link to another of them, and one that none
\* of them links to.
LEMMA RankBound ==
  ASSUME NEW k \in Nat, NEW r \in [1 .. k -> Nat]
  PROVE  \E b \in Nat : \A n \in 1 .. k : r[n] <= b
<1> DEFINE Good(j) == \E b \in Nat : \A n \in 1 .. j : r[n] <= b
           W == {j \in 0 .. k : ~Good(j)}
<1> HIDE DEF Good
<1>1. W = {}
  <2> SUFFICES ASSUME W # {} PROVE FALSE
    OBVIOUS
  <2>1. PICK j \in W : \A i \in W : j <= i
    BY LeastElement, W \in SUBSET Nat
  <2>2. j # 0
    <3>1. \A n \in 1 .. 0 : r[n] <= 0
      OBVIOUS
    <3>2. Good(0)
      BY <3>1 DEF Good
    <3> QED
      BY <2>1, <3>2
  <2>3. j - 1 \in 0 .. k /\ j - 1 < j /\ j \in 1 .. k
    BY <2>1, <2>2
  <2>4. Good(j - 1)
    BY <2>1, <2>3
  <2>5. PICK b \in Nat : \A n \in 1 .. j - 1 : r[n] <= b
    BY <2>4 DEF Good
  <2>6. r[j] \in Nat
    BY <2>3
  <2>7. ASSUME NEW n \in 1 .. j PROVE r[n] <= b + r[j]
    <3>1. CASE n = j
      BY <2>6, <3>1
    <3>2. CASE n # j
      <4>1. n \in 1 .. j - 1 /\ n \in 1 .. k
        BY <2>3, <3>2
      <4>2. r[n] \in Nat /\ r[n] <= b
        BY <2>5, <4>1
      <4> QED
        BY <2>6, <4>2
    <3> QED
      BY <3>1, <3>2
  <2>8. Good(j)
    <3>1. b + r[j] \in Nat
      BY <2>6
    <3> QED
      BY <2>7, <3>1 DEF Good
  <2> QED
    BY <2>1, <2>8
<1>2. k \in 0 .. k
  OBVIOUS
<1> QED
  BY <1>1, <1>2 DEF Good

LEMMA Lowest ==
  ASSUME NEW t, IsHeap(t), Ranked(t), NEW W \in SUBSET DOMAIN t, W # {}
  PROVE  \E n \in W : \A c \in Links(t, n) : c \notin W
<1>1. Len(t) \in Nat /\ DOMAIN t = 1 .. Len(t)
  BY HeapFacts
<1>2. PICK r \in [DOMAIN t -> Nat] : Down(t, r)
  BY DEF Ranked
<1>3. PICK b \in Nat : \A n \in DOMAIN t : r[n] <= b
  BY <1>1, <1>2, RankBound
<1> DEFINE K == {r[n] : n \in W}
<1>4. K \in SUBSET Nat /\ K # {} /\ \A k \in K : k <= b
  BY <1>2, <1>3
<1>5. PICK k \in K : \A j \in K : j <= k
  BY <1>3, <1>4, GreatestElement
<1>6. PICK n \in W : r[n] = k
  BY <1>5
<1>7. ASSUME NEW c \in Links(t, n), c \in W PROVE FALSE
  <2>1. r[n] < r[c]
    BY <1>2, <1>7 DEF Down
  <2>2. r[c] <= r[n] /\ r[c] \in Nat /\ r[n] \in Nat
    BY <1>2, <1>5, <1>6, <1>7
  <2> QED
    BY <2>1, <2>2
<1> QED
  BY <1>7

LEMMA Highest ==
  ASSUME NEW t, IsHeap(t), Ranked(t), NEW W \in SUBSET DOMAIN t, W # {}
  PROVE  \E n \in W : \A p \in DOMAIN t : n \in Links(t, p) => p \notin W
<1>1. PICK r \in [DOMAIN t -> Nat] : Down(t, r)
  BY DEF Ranked
<1> DEFINE K == {r[n] : n \in W}
<1>2. K \in SUBSET Nat /\ K # {}
  BY <1>1
<1>3. PICK k \in K : \A j \in K : k <= j
  BY <1>2, LeastElement
<1>4. PICK n \in W : r[n] = k
  BY <1>3
<1>5. ASSUME NEW p \in W, n \in Links(t, p) PROVE FALSE
  <2>1. r[p] < r[n]
    BY <1>1, <1>5 DEF Down
  <2>2. r[n] <= r[p] /\ r[p] \in Nat /\ r[n] \in Nat
    BY <1>1, <1>3, <1>4, <1>5
  <2> QED
    BY <2>1, <2>2
<1> QED
  BY <1>5

LEMMA ListsSame ==
  ASSUME NEW t, IsHeap(t), Ranked(t), NEW own, NEW f, Lists(t, own, f), NEW g, Lists(t, own, g)
  PROVE  f = g
<1> DEFINE W == {n \in DOMAIN t : f[n] # g[n]}
<1>1. \A n \in DOMAIN t : f[n] = Entry(f, own[n], t[n]) /\ g[n] = Entry(g, own[n], t[n])
  BY DEF Lists
<1>2. W = {}
  <2> SUFFICES ASSUME W # {} PROVE FALSE
    OBVIOUS
  <2>1. PICK n \in W : \A c \in Links(t, n) : c \notin W
    BY Lowest
  <2>2. \A c \in LinksOf(t[n]) : f[c] = g[c]
    BY <2>1, HeapFacts, HoldsSplit
  <2>3. Entry(f, own[n], t[n]) = Entry(g, own[n], t[n])
    BY <2>2, EntrySame
  <2> QED
    BY <1>1, <2>1, <2>3
<1>3. f = [n \in DOMAIN t |-> f[n]] /\ g = [n \in DOMAIN t |-> g[n]]
  BY DEF Lists
<1> QED
  BY <1>2, <1>3

\* They exist: from the nodes of the greatest rank up.
LEMMA ListsExist ==
  ASSUME NEW S, NEW t, IsHeap(t), Ranked(t), NEW own, \A n \in DOMAIN t : own[n] \in Seq(S)
  PROVE  \E g \in [DOMAIN t -> Seq(S)] : Lists(t, own, g)
<1>1. /\ Len(t) \in Nat /\ DOMAIN t = 1 .. Len(t)
      /\ \A n \in DOMAIN t : t[n].branches \in Seq(0 .. Len(t)) /\ Links(t, n) \subseteq DOMAIN t
  BY HeapFacts
<1>2. PICK r \in [DOMAIN t -> Nat] : Down(t, r)
  BY DEF Ranked
<1>3. PICK b \in Nat : \A n \in DOMAIN t : r[n] <= b
  BY <1>1, <1>2, RankBound
<1> DEFINE D(j) == {n \in DOMAIN t : r[n] + j > b}
           Good(j, g) == /\ g \in [D(j) -> Seq(S)]
                         /\ \A n \in D(j) : g[n] = Entry(g, own[n], t[n])
           W == {j \in 0 .. b + 1 : ~\E g : Good(j, g)}
<1>4. ASSUME NEW j \in Nat, NEW n \in D(j + 1)
      PROVE  n \in DOMAIN t /\ LinksOf(t[n]) \subseteq D(j)
  <2>1. n \in DOMAIN t /\ Links(t, n) = LinksOf(t[n])
    BY HoldsSplit
  <2>2. ASSUME NEW c \in Links(t, n) PROVE c \in D(j)
    <3>1. c \in DOMAIN t /\ r[n] < r[c] /\ r[c] \in Nat /\ r[n] \in Nat
      BY <1>1, <1>2, <2>1, <2>2 DEF Down
    <3> QED
      BY <1>3, <2>1, <3>1
  <2> HIDE DEF D
  <2> QED
    BY <2>1, <2>2
<1>5. D(0) = {} /\ D(b + 1) = DOMAIN t
  <2>1. \A n \in DOMAIN t : r[n] \in Nat /\ ~(r[n] + 0 > b) /\ r[n] + (b + 1) > b
    BY <1>2, <1>3
  <2> QED
    BY <2>1, Zenon
<1>6. \A j \in Nat : D(j) \subseteq D(j + 1) /\ D(j) \subseteq DOMAIN t
  BY <1>2, <1>3
<1> HIDE DEF D
<1>7. W = {}
  <2> SUFFICES ASSUME W # {} PROVE FALSE
    OBVIOUS
  <2>1. PICK j \in W : \A i \in W : j <= i
    BY LeastElement, W \in SUBSET Nat
  <2>2. CASE j = 0
    <3>1. Good(0, [n \in {} |-> << >>])
      BY <1>5
    <3> QED
      BY <2>1, <2>2, <3>1
  <2>3. CASE j # 0
    <3> DEFINE i == j - 1
    <3>1. i \in Nat /\ i \in 0 .. b + 1 /\ i < j /\ j = i + 1
      BY <1>3, <2>1, <2>3
    <3> HIDE DEF i
    <3>2. PICK g : Good(i, g)
      <4> HIDE DEF Good
      <4>1. i \notin W
        BY <2>1, <3>1
      <4> QED
        BY <3>1, <4>1
    <3> DEFINE f == [n \in D(j) |-> Entry(g, own[n], t[n])]
    <3>3. ASSUME NEW n \in D(j)
          PROVE  f[n] \in Seq(S) /\ f[n] = Entry(g, own[n], t[n]) /\ \A c \in LinksOf(t[n]) : c \in D(i)
      <4>1. n \in DOMAIN t /\ LinksOf(t[n]) \subseteq D(i)
        BY <1>4, <3>1, <3>3
      <4>2. \A c \in LinksOf(t[n]) : g[c] \in Seq(S)
        BY <3>2, <4>1
      <4>3. own[n] \in Seq(S) /\ t[n].branches \in Seq(0 .. Len(t))
        BY <1>1, <4>1
      <4>4. Entry(g, own[n], t[n]) \in Seq(S)
        BY <4>2, <4>3, EntryFacts
      <4> QED
        BY <4>1, <4>4
    <3>4. f \in [D(j) -> Seq(S)]
      <4>1. f = [n \in D(j) |-> f[n]]
        OBVIOUS
      <4> HIDE DEF f
      <4> QED
        BY <3>3, <4>1
    <3> HIDE DEF f
    <3>5. ASSUME NEW c \in D(i) PROVE f[c] = g[c]
      <4>1. c \in D(j)
        BY <1>6, <3>1
      <4> QED
        BY <3>2, <3>3, <4>1
    <3>6. ASSUME NEW n \in D(j) PROVE f[n] = Entry(f, own[n], t[n])
      <4>1. \A c \in LinksOf(t[n]) : f[c] = g[c]
        BY <3>3, <3>5
      <4>2. Entry(f, own[n], t[n]) = Entry(g, own[n], t[n])
        BY <4>1, EntrySame
      <4> QED
        BY <3>3, <4>2
    <3>7. Good(j, f)
      BY <3>4, <3>6
    <3> HIDE DEF Good
    <3> QED
      BY <2>1, <3>7
  <2> QED
    BY <2>2, <2>3
<1>8. PICK g : Good(b + 1, g)
  <2>1. b + 1 \in 0 .. b + 1
    BY <1>3
  <2> HIDE DEF Good
  <2> QED
    BY <1>7, <2>1
<1>9. g \in [DOMAIN t -> Seq(S)] /\ \A n \in DOMAIN t : g[n] = Entry(g, own[n], t[n])
  BY <1>5, <1>8
<1>10. g = [n \in DOMAIN t |-> g[n]]
  BY <1>9
<1>11. Lists(t, own, g)
  BY <1>9, <1>10 DEF Lists
<1> QED
  BY <1>9, <1>11

\* The walk of the model finds them.
LEMMA VisitsListed ==
  ASSUME NEW t, IsHeap(t), Ranked(t), NEW own, NEW g, Lists(t, own, g)
  PROVE  Visits(t, own, Root) = g[Root]
<1> DEFINE w == CHOOSE f : Lists(t, own, f)
<1>1. Lists(t, own, w)
  OBVIOUS
<1>2. Visits(t, own, Root) = w[Root]
  BY DEF Visits, Lists, Entry, Flat, Part, Root, NoNode
<1> HIDE DEF w
<1>3. w = g
  BY <1>1, ListsSame
<1> QED
  BY <1>2, <1>3

----------------------------------------------------------------------------
(* Rewirings that keep the lists.                                          *)

LEMMA FlattenAppend ==
  ASSUME NEW S, NEW q \in Seq(Seq(S)), NEW e \in Seq(S)
  PROVE  FlattenSeq(Append(q, e)) = FlattenSeq(q) \o e
<1> DEFINE n == Len(q)
           u == Append(q, e)
<1>1. /\ n \in Nat /\ u \in Seq(Seq(S)) /\ Len(u) = n + 1 /\ u[n + 1] = e
      /\ \A i \in 1 .. n : u[i] = q[i]
  BY AppendProperties
<1> HIDE DEF u
<1>2. PICK g : Joins(u, n + 1, g)
  <2>1. n + 1 \in Nat
    BY <1>1
  <2> HIDE DEF n
  <2> QED
    BY <2>1, JoinsExist
<1> DEFINE f == [i \in 0 .. n |-> g[i]]
<1>3. /\ \A i \in 0 .. n : f[i] = g[i] /\ g[i] = IF i = 0 THEN << >> ELSE g[i - 1] \o u[i]
      /\ g[n + 1] = g[n] \o u[n + 1]
  <2>1. \A i \in 0 .. n + 1 : g[i] = IF i = 0 THEN << >> ELSE g[i - 1] \o u[i]
    BY <1>2 DEF Joins
  <2>2. \A i \in 0 .. n : i \in 0 .. n + 1
    BY <1>1
  <2>3. n + 1 \in 0 .. n + 1 /\ n + 1 # 0 /\ (n + 1) - 1 = n
    BY <1>1
  <2> QED
    BY <2>1, <2>2, <2>3
<1>4. f = [i \in 0 .. n |-> f[i]]
  OBVIOUS
<1> HIDE DEF f
<1>5. Joins(q, n, f)
  <2>1. ASSUME NEW i \in 0 .. n PROVE f[i] = IF i = 0 THEN << >> ELSE f[i - 1] \o q[i]
    <3>1. CASE i = 0
      BY <1>3, <3>1
    <3>2. CASE i # 0
      <4>1. i - 1 \in 0 .. n /\ i \in 1 .. n
        BY <1>1, <3>2
      <4> QED
        BY <1>1, <1>3, <3>2, <4>1
    <3> QED
      BY <3>1, <3>2
  <2> HIDE DEF n
  <2> QED
    BY <1>4, <2>1 DEF Joins
<1>6. FlattenSeq(q) = f[n] /\ FlattenSeq(u) = g[n + 1]
  BY <1>1, <1>2, <1>5, FlattenJoins
<1>7. f[n] = g[n]
  BY <1>1, <1>3
<1> QED
  BY <1>1, <1>3, <1>6, <1>7 DEF u

LEMMA FlattenRemoved ==
  ASSUME NEW S, NEW q \in Seq(Seq(S)), NEW x \in DOMAIN q, q[x] = << >>
  PROVE  RemoveAt(q, x) \in Seq(Seq(S)) /\ FlattenSeq(RemoveAt(q, x)) = FlattenSeq(q)
<1> DEFINE n == Len(q)
           u == RemoveAt(q, x)
<1>1. /\ u \in Seq(Seq(S)) /\ DOMAIN u = 1 .. n - 1 /\ n \in Nat /\ x \in 1 .. n
      /\ \A k \in 1 .. n - 1 : u[k] = IF k < x THEN q[k] ELSE q[k + 1]
  BY RemoveFacts
<1> HIDE DEF u
<1>2. Len(u) = n - 1 /\ n - 1 \in Nat
  BY <1>1
<1>3. PICK g : Joins(q, n, g)
  BY <1>1, JoinsExist
<1>4. /\ \A i \in 0 .. n : g[i] \in Seq(S)
      /\ g[0] = << >> /\ \A i \in 1 .. n : g[i] = g[i - 1] \o q[i]
  <2>1. \A i \in 1 .. n : q[i] \in Seq(S)
    OBVIOUS
  <2>2. \A i \in 0 .. n : g[i] \in Seq(S)
    BY <1>1, <1>3, <2>1, JoinsSeq
  <2>3. 0 \in 0 .. n /\ \A i \in 1 .. n : i \in 0 .. n /\ i # 0
    BY <1>1
  <2>4. \A i \in 0 .. n : g[i] = IF i = 0 THEN << >> ELSE g[i - 1] \o q[i]
    BY <1>3 DEF Joins
  <2> QED
    BY <2>2, <2>3, <2>4
<1>5. g[x] = g[x - 1]
  <2>1. g[x] = g[x - 1] \o << >> /\ g[x - 1] \in Seq(S)
    <3>1. x - 1 \in 0 .. n
      BY <1>1
    <3> QED
      BY <1>1, <1>4, <3>1
  <2> QED
    BY <2>1, ConcatEmptySeq
<1> DEFINE f == [i \in 0 .. n - 1 |-> IF i < x THEN g[i] ELSE g[i + 1]]
<1>6. f = [i \in 0 .. n - 1 |-> f[i]] /\ \A i \in 0 .. n - 1 : f[i] = IF i < x THEN g[i] ELSE g[i + 1]
  OBVIOUS
<1> HIDE DEF f
<1>7. ASSUME NEW i \in 0 .. n - 1 PROVE f[i] = IF i = 0 THEN << >> ELSE f[i - 1] \o u[i]
  <2>0. n \in Nat /\ x \in Nat /\ 0 < x /\ x <= n /\ i \in Nat /\ i <= n - 1
    BY <1>1
  <2>1. CASE i = 0
    <3>1. f[i] = g[0]
      BY <1>6, <2>0, <2>1
    <3> QED
      BY <1>4, <2>1, <3>1
  <2>2. CASE i # 0 /\ i < x
    <3>1. i \in 1 .. n /\ i \in 1 .. n - 1 /\ i - 1 \in 0 .. n - 1 /\ i - 1 < x
      <4> HIDE DEF n
      <4> QED
        BY <2>0, <2>2
    <3>2. f[i] = g[i] /\ f[i - 1] = g[i - 1] /\ u[i] = q[i]
      BY <1>1, <1>6, <2>2, <3>1
    <3> QED
      BY <1>4, <2>2, <3>1, <3>2
  <2>3. CASE i # 0 /\ ~(i < x)
    <3>1. i + 1 \in 1 .. n /\ i \in 1 .. n - 1 /\ i - 1 \in 0 .. n - 1 /\ (i + 1) - 1 = i
      BY <1>1, <2>3
    <3>2. f[i] = g[i + 1] /\ u[i] = q[i + 1] /\ g[i + 1] = g[i] \o q[i + 1]
      BY <1>1, <1>4, <1>6, <2>3, <3>1
    <3>3. CASE i = x
      <4>1. i - 1 < x
        BY <1>1, <3>3
      <4>2. f[i - 1] = g[i - 1]
        BY <1>6, <3>1, <4>1
      <4> QED
        BY <1>5, <2>3, <3>2, <3>3, <4>2
    <3>4. CASE i # x
      <4>1. ~(i - 1 < x) /\ (i - 1) + 1 = i
        BY <1>1, <2>3, <3>4
      <4>2. f[i - 1] = g[i]
        BY <1>6, <3>1, <4>1
      <4> QED
        BY <2>3, <3>2, <4>2
    <3> QED
      BY <3>3, <3>4
  <2> QED
    BY <2>1, <2>2, <2>3
<1>8. Joins(u, n - 1, f)
  <2> HIDE DEF n
  <2> QED
    BY <1>6, <1>7 DEF Joins
<1>9. FlattenSeq(q) = g[n] /\ FlattenSeq(u) = f[n - 1]
  BY <1>1, <1>2, <1>3, <1>8, FlattenJoins
<1>10. f[n - 1] = g[n]
  <2>1. n - 1 \in 0 .. n - 1 /\ (n - 1) + 1 = n
    BY <1>1
  <2>2. CASE n - 1 < x
    <3>1. x = n
      BY <1>1, <2>2
    <3> QED
      BY <1>5, <1>6, <2>1, <2>2, <3>1
  <2>3. CASE ~(n - 1 < x)
    BY <1>6, <2>1, <2>3
  <2> QED
    BY <2>2, <2>3
<1> QED
  BY <1>1, <1>9, <1>10 DEF u

\* The parts of a list of nodes.
Parts(g, br) == [i \in DOMAIN br |-> Part(g, br[i])]

LEMMA PartsFacts ==
  ASSUME NEW S, NEW g, NEW X, NEW br \in Seq(X), \A c \in Range(br) : Part(g, c) \in Seq(S)
  PROVE  Parts(g, br) \in Seq(Seq(S)) /\ Len(Parts(g, br)) = Len(br)
<1>1. DOMAIN br = 1 .. Len(br) /\ Len(br) \in Nat
  OBVIOUS
<1>2. \A i \in DOMAIN br : Part(g, br[i]) \in Seq(S)
  BY DEF Range
<1>3. Parts(g, br) \in [1 .. Len(br) -> Seq(S)]
  BY <1>1, <1>2 DEF Parts
<1> QED
  BY <1>1, <1>3

LEMMA FlatBodies ==
  ASSUME NEW S, NEW g, NEW k \in Nat, NEW br \in Seq(0 .. k),
         \A c \in Range(br) : Part(g, c) \in Seq(S)
  PROVE  Flat(g, Bodies(br)) = Flat(g, br)
<1> DEFINE n == Len(br)
           ke == CHOOSE f : Keeps(br, n, f)
           q == Parts(g, br)
<1>0. n \in Nat /\ DOMAIN br = 1 .. n
  OBVIOUS
<1>1. Keeps(br, n, ke)
  BY <1>0, KeepsExists
<1>2. Bodies(br) = ke[n]
  BY DEF Bodies, Keeps
<1> HIDE DEF ke
<1>3. q \in Seq(Seq(S)) /\ Len(q) = n /\ \A i \in 1 .. n : q[i] = Part(g, br[i])
  <2>1. q \in Seq(Seq(S)) /\ Len(q) = n
    BY PartsFacts
  <2> QED
    BY <1>0, <2>1 DEF Parts
<1> HIDE DEF q
<1>4. PICK jo : Joins(q, n, jo)
  BY <1>0, JoinsExist
<1> DEFINE Good(i) == /\ ke[i] \in Seq(1 .. k) /\ (\A c \in Range(ke[i]) : Part(g, c) \in Seq(S))
                      /\ FlattenSeq(Parts(g, ke[i])) = jo[i]
           W == {i \in 0 .. n : ~Good(i)}
<1> HIDE DEF Good
<1>5. W = {}
  <2> SUFFICES ASSUME W # {} PROVE FALSE
    OBVIOUS
  <2>1. PICK i \in W : \A j \in W : i <= j
    BY LeastElement, W \in SUBSET Nat
  <2>2. /\ ke[i] = IF i = 0 THEN << >> ELSE IF br[i] = NoNode THEN ke[i - 1] ELSE Append(ke[i - 1], br[i])
        /\ jo[i] = IF i = 0 THEN << >> ELSE jo[i - 1] \o q[i]
    BY <1>1, <1>4, <2>1 DEF Keeps, Joins
  <2>3. CASE i = 0
    <3>1. << >> \in Seq(1 .. k) /\ Range(<< >>) = {}
      BY DEF Range
    <3>2. FlattenSeq(Parts(g, << >>)) = << >>
      <4>1. Parts(g, << >>) = << >>
        BY DEF Parts
      <4> QED
        BY <4>1 DEF FlattenSeq
    <3> QED
      BY <2>1, <2>2, <2>3, <3>1, <3>2 DEF Good
  <2>4. CASE i # 0
    <3>1. i - 1 \in 0 .. n /\ i \in 1 .. n /\ i - 1 < i
      BY <1>0, <2>1, <2>4
    <3>2. Good(i - 1)
      BY <2>1, <3>1
    <3>3. q[i] = Part(g, br[i]) /\ br[i] \in 0 .. k /\ Part(g, br[i]) \in Seq(S)
      BY <1>0, <1>3, <3>1 DEF Range
    <3>4. CASE br[i] = NoNode
      <4>1. q[i] = << >>
        BY <3>3, <3>4 DEF Part
      <4>2. jo[i - 1] \in Seq(S)
        <5>1. \A j \in 1 .. n : q[j] \in Seq(S)
          BY <1>3
        <5> QED
          BY <1>0, <1>4, <3>1, <5>1, JoinsSeq
      <4>3. jo[i] = jo[i - 1]
        BY <2>2, <2>4, <4>1, <4>2, ConcatEmptySeq
      <4> QED
        BY <2>1, <2>2, <2>4, <3>2, <3>4, <4>3 DEF Good
    <3>5. CASE br[i] # NoNode
      <4> DEFINE s == ke[i - 1]
                 e == br[i]
      <4>1. /\ s \in Seq(1 .. k) /\ (\A c \in Range(s) : Part(g, c) \in Seq(S))
            /\ FlattenSeq(Parts(g, s)) = jo[i - 1]
        BY <3>2 DEF Good
      <4>2. e \in 1 .. k /\ Part(g, e) \in Seq(S)
        BY <3>3, <3>5 DEF NoNode
      <4> HIDE DEF s, e
      <4>3. Append(s, e) \in Seq(1 .. k) /\ Range(Append(s, e)) = Range(s) \cup {e}
        BY <4>1, <4>2, AppendFacts
      <4>4. Parts(g, s) \in Seq(Seq(S)) /\ Len(Parts(g, s)) = Len(s)
        <5> DEFINE X == 1 .. k
        <5>1. s \in Seq(X) /\ \A c \in Range(s) : Part(g, c) \in Seq(S)
          BY <4>1
        <5> HIDE DEF X
        <5> QED
          BY <5>1, PartsFacts
      <4>5. Parts(g, Append(s, e)) = Append(Parts(g, s), Part(g, e))
        <5> DEFINE a == Parts(g, Append(s, e))
                   b == Append(Parts(g, s), Part(g, e))
        <5>1. /\ Len(s) \in Nat /\ DOMAIN Append(s, e) = 1 .. Len(s) + 1 /\ Append(s, e)[Len(s) + 1] = e
              /\ (\A j \in 1 .. Len(s) : Append(s, e)[j] = s[j]) /\ DOMAIN s = 1 .. Len(s)
          BY <4>1, <4>2
        <5>2. a = [j \in 1 .. Len(s) + 1 |-> Part(g, Append(s, e)[j])]
          BY <5>1 DEF Parts
        <5>3. /\ b \in Seq(Seq(S)) /\ Len(b) = Len(s) + 1 /\ b[Len(s) + 1] = Part(g, e)
              /\ \A j \in 1 .. Len(s) : b[j] = Parts(g, s)[j]
          BY <4>2, <4>4, AppendProperties
        <5>4. \A j \in 1 .. Len(s) : b[j] = Part(g, s[j])
          BY <5>1, <5>3 DEF Parts
        <5> HIDE DEF b
        <5>5. b = [j \in 1 .. Len(s) + 1 |-> b[j]]
          BY <5>3
        <5>6. \A j \in 1 .. Len(s) + 1 : b[j] = Part(g, Append(s, e)[j])
          <6> SUFFICES ASSUME NEW j \in 1 .. Len(s) + 1 PROVE b[j] = Part(g, Append(s, e)[j])
            OBVIOUS
          <6>1. j \in 1 .. Len(s) \/ j = Len(s) + 1
            BY <5>1
          <6> QED
            BY <5>1, <5>3, <5>4, <6>1
        <5> QED
          BY <5>2, <5>5, <5>6 DEF b
      <4>6. FlattenSeq(Append(Parts(g, s), Part(g, e))) = FlattenSeq(Parts(g, s)) \o Part(g, e)
        BY <4>2, <4>4, FlattenAppend
      <4>7. /\ ke[i] = Append(s, e) /\ jo[i] = jo[i - 1] \o Part(g, e)
        BY <2>2, <2>4, <3>3, <3>5 DEF s, e
      <4>8. \A c \in Range(Append(s, e)) : Part(g, c) \in Seq(S)
        BY <4>1, <4>2, <4>3
      <4>9. Good(i)
        BY <4>1, <4>3, <4>5, <4>6, <4>7, <4>8 DEF Good
      <4> QED
        BY <2>1, <4>9
    <3> QED
      BY <3>4, <3>5
  <2> QED
    BY <2>3, <2>4
<1>6. Good(n)
  <2>1. n \in 0 .. n
    BY <1>0
  <2> QED
    BY <1>5, <2>1
<1>7. FlattenSeq(q) = jo[n]
  BY <1>3, <1>4, FlattenJoins
<1> QED
  BY <1>2, <1>6, <1>7 DEF Good, Flat, Parts, q

\* All that the list of a node depends on, but for the lists of others.
SameLinks(a, b) == a.type = b.type /\ a.next = b.next /\ a.loop = b.loop /\ a.branches = b.branches

LEMMA EntryOfSame ==
  ASSUME NEW a, NEW b, SameLinks(a, b), NEW g, NEW o
  PROVE  Entry(g, o, a) = Entry(g, o, b)
BY Zenon DEF SameLinks, Entry, Flat

\* Node::updateParent may give a link to what stands for the same list.
PartsIn(S, g, k) == \A c \in 0 .. k : Part(g, c) \in Seq(S)
SameEntry(g, s, r) == s.type = r.type /\ \A o : Entry(g, o, s) = Entry(g, o, r)

LEMMA RelinkEntry ==
  ASSUME NEW S, NEW k \in Nat, NEW r \in Nodes(k), NEW old \in 1 .. k, NEW new \in 0 .. k, NEW g,
         PartsIn(S, g, k), Part(g, new) = Part(g, old)
  PROVE  SameEntry(g, Relink(r, old, new), r)
<1> DEFINE br == r.branches
           held == {i \in DOMAIN br : br[i] = old}
           i0 == CHOOSE i \in held : \A j \in held : i <= j
           s == Relink(r, old, new)
<1>1. /\ br \in Seq(0 .. k) /\ DOMAIN br = 1 .. Len(br) /\ Len(br) \in Nat /\ old # NoNode
  <2>1. br \in Seq(0 .. k)
    BY DEF Nodes
  <2>2. old # NoNode
    BY DEF NoNode
  <2> HIDE DEF br
  <2> QED
    BY <2>1, <2>2
<1>2. CASE r.next = old
  <2> DEFINE v == [r EXCEPT !.next = new]
  <2>1. v.next = new /\ v.loop = r.loop /\ v.branches = br /\ v.type = r.type
    BY DEF Nodes
  <2>2. s = v
    BY <1>2 DEF Relink
  <2> HIDE DEF v, s
  <2>3. \A o : Entry(g, o, v) = Entry(g, o, r)
    BY <1>2, <2>1 DEF Entry
  <2> QED
    BY <2>1, <2>2, <2>3 DEF s, SameEntry
<1>3. CASE r.next # old /\ r.type = "branch" /\ held # {}
  <2>1. i0 \in held
    <3>1. \E i \in held : \A j \in held : i <= j
      BY <1>1, <1>3, LeastElement, held \in SUBSET Nat
    <3> QED
      BY <3>1
  <2> DEFINE b2 == IF new # NoNode THEN ReplaceAt(br, i0, new) ELSE RemoveAt(br, i0)
             v  == [r EXCEPT !.branches = b2]
  <2>2. v.next = r.next /\ v.loop = r.loop /\ v.branches = b2 /\ v.type = r.type
    BY DEF Nodes
  <2>3. s = v
    <3>1. v = [r EXCEPT !.branches = IF new # NoNode THEN ReplaceAt(@, i0, new) ELSE RemoveAt(@, i0)]
      <4> HIDE DEF i0
      <4> QED
        OBVIOUS
    <3> HIDE DEF v, b2
    <3> QED
      BY <1>3, <3>1 DEF Relink
  <2>4. i0 \in DOMAIN br /\ br[i0] = old
    BY <2>1
  <2> HIDE DEF i0, held, s, v, b2
  <2>5. Flat(g, b2) = Flat(g, br)
    <3>1. Parts(g, br) \in Seq(Seq(S)) /\ DOMAIN Parts(g, br) = DOMAIN br
      <4> DEFINE X == 0 .. k
      <4>1. br \in Seq(X) /\ \A c \in Range(br) : Part(g, c) \in Seq(S)
        <5> HIDE DEF br
        <5>1. br \in Seq(X) /\ \A i \in DOMAIN br : br[i] \in X
          BY <1>1
        <5>2. \A c \in X : Part(g, c) \in Seq(S)
          BY DEF PartsIn
        <5> HIDE DEF X
        <5> QED
          BY <5>1, <5>2 DEF Range
      <4> HIDE DEF X
      <4> QED
        BY <4>1, PartsFacts DEF Parts
    <3>2. CASE new # NoNode
      <4>1. DOMAIN b2 = DOMAIN br /\ \A a \in DOMAIN br : b2[a] = IF a = i0 THEN new ELSE br[a]
        BY <3>2 DEF b2, ReplaceAt
      <4>2. \A a \in DOMAIN br : Part(g, b2[a]) = Part(g, br[a])
        BY <2>4, <4>1
      <4>3. [a \in DOMAIN b2 |-> Part(g, b2[a])] = [a \in DOMAIN br |-> Part(g, br[a])]
        BY <4>1, <4>2, Zenon
      <4> QED
        BY <4>3 DEF Flat
    <3>3. CASE new = NoNode
      <4> DEFINE q == Parts(g, br)
      <4>1. b2 = RemoveAt(br, i0)
        BY <3>3 DEF b2
      <4>2. q[i0] = << >>
        BY <2>4, <3>3 DEF Parts, Part
      <4>3. /\ DOMAIN b2 = 1 .. Len(br) - 1
            /\ \A a \in 1 .. Len(br) - 1 : b2[a] = IF a < i0 THEN br[a] ELSE br[a + 1]
        <5> DEFINE X == 0 .. k
        <5>1. br \in Seq(X) /\ i0 \in DOMAIN br
          BY <1>1, <2>4
        <5> HIDE DEF X
        <5> QED
          BY <4>1, <5>1, RemoveFacts
      <4>4. q \in Seq(Seq(S)) /\ i0 \in DOMAIN q
        BY <2>4, <3>1
      <4>5. Len(q) = Len(br)
        BY <1>1, <3>1, <4>4
      <4>6. \A a \in DOMAIN br : q[a] = Part(g, br[a])
        BY DEF Parts
      <4> HIDE DEF q
      <4>7. /\ DOMAIN RemoveAt(q, i0) = 1 .. Len(br) - 1
            /\ \A a \in 1 .. Len(br) - 1 : RemoveAt(q, i0)[a] = IF a < i0 THEN q[a] ELSE q[a + 1]
            /\ RemoveAt(q, i0) \in Seq(Seq(S)) /\ FlattenSeq(RemoveAt(q, i0)) = FlattenSeq(q)
        BY <4>2, <4>4, <4>5, RemoveFacts, FlattenRemoved
      <4>8. ASSUME NEW a \in 1 .. Len(br) - 1 PROVE RemoveAt(q, i0)[a] = Part(g, b2[a])
        <5>1. a \in DOMAIN br /\ a + 1 \in DOMAIN br
          <6> HIDE DEF br
          <6>1. Len(br) \in Nat /\ DOMAIN br = 1 .. Len(br)
            BY <1>1
          <6> QED
            BY <6>1
        <5> QED
          BY <4>3, <4>6, <4>7, <5>1
      <4> DEFINE z == RemoveAt(q, i0)
      <4>9. z = [a \in 1 .. Len(br) - 1 |-> z[a]]
        BY <4>7
      <4> HIDE DEF z
      <4>10. z = [a \in DOMAIN b2 |-> Part(g, b2[a])]
        BY <4>3, <4>8, <4>9 DEF z
      <4> QED
        BY <4>7, <4>10 DEF Flat, z, q, Parts
    <3> QED
      BY <3>2, <3>3
  <2>6. \A o : Entry(g, o, v) = Entry(g, o, r)
    BY <2>2, <2>5 DEF Entry
  <2> QED
    BY <2>2, <2>3, <2>6 DEF s, SameEntry
<1>4. CASE r.next # old /\ r.type # "branch" /\ r.loop = old
  <2> DEFINE v == [r EXCEPT !.loop = new]
  <2>1. v.loop = new /\ v.next = r.next /\ v.branches = br /\ v.type = r.type
    BY DEF Nodes
  <2>2. s = v
    BY <1>4 DEF Relink
  <2> HIDE DEF v, s
  <2>3. \A o : Entry(g, o, v) = Entry(g, o, r)
    BY <1>4, <2>1 DEF Entry
  <2> QED
    BY <2>1, <2>2, <2>3 DEF s, SameEntry
<1>5. CASE /\ r.next # old /\ ~(r.type = "branch" /\ held # {})
           /\ ~(r.type # "branch" /\ r.loop = old)
  <2>1. s = r
    BY <1>5 DEF Relink
  <2> HIDE DEF s
  <2> QED
    BY <2>1 DEF s, SameEntry
<1> QED
  BY <1>2, <1>3, <1>4, <1>5

LEMMA UpdatedOrder ==
  ASSUME NEW S, NEW t, IsHeap(t), NEW p \in DOMAIN t, NEW old \in DOMAIN t, NEW new \in 0 .. Len(t),
         new # p, NEW g \in [DOMAIN t -> Seq(S)], Part(g, new) = Part(g, old)
  PROVE  LET u == UpdateParent(t, p, old, new)
         IN  /\ DOMAIN u = DOMAIN t
             /\ \A m \in DOMAIN t : /\ u[m].type = t[m].type
                                    /\ m # p => u[m] \in Nodes(Len(t)) /\ SameLinks(u[m], t[m])
                                    /\ SameEntry(g, u[m], t[m])
<1> DEFINE k == Len(t)
           s == Relink(t[p], old, new)
           v == [t EXCEPT ![p] = s]
           u == IF new = NoNode THEN v ELSE [v EXCEPT ![new].parent = p]
           w == [t[new] EXCEPT !.parent = p]
<1>1. k \in Nat /\ DOMAIN t = 1 .. k /\ \A m \in DOMAIN t : t[m] \in Nodes(k)
  BY HeapFacts
<1>2. UpdateParent(t, p, old, new) = u
  <2>1. p # NoNode
    BY <1>1 DEF NoNode
  <2> QED
    BY <2>1 DEF UpdateParent
<1>3. PartsIn(S, g, k)
  <2>1. << >> \in Seq(S) /\ \A c \in 0 .. k : c # NoNode => c \in DOMAIN t
    BY <1>1 DEF NoNode
  <2> QED
    BY <2>1 DEF Part, PartsIn
<1>4. SameEntry(g, s, t[p])
  <2> DEFINE r == t[p]
  <2>1. r \in Nodes(k) /\ old \in 1 .. k /\ new \in 0 .. k
    BY <1>1
  <2> HIDE DEF k, r
  <2>2. SameEntry(g, Relink(r, old, new), r)
    BY <1>1, <1>3, <2>1, RelinkEntry
  <2> QED
    BY <2>2 DEF r
<1> HIDE DEF s
<1>5. new # NoNode => /\ new \in DOMAIN t /\ w \in Nodes(k) /\ SameLinks(w, t[new])
  <2> SUFFICES ASSUME new # NoNode PROVE new \in DOMAIN t /\ w \in Nodes(k) /\ SameLinks(w, t[new])
    OBVIOUS
  <2>1. new \in DOMAIN t
    BY <1>1 DEF NoNode
  <2>2. t[new] \in Nodes(k) /\ p \in 0 .. k
    BY <1>1, <2>1
  <2> QED
    BY <2>1, <2>2 DEF Nodes, SameLinks
<1>6. /\ DOMAIN u = DOMAIN t /\ u[p] = s
      /\ \A m \in DOMAIN t : m # p => u[m] = IF m = new THEN w ELSE t[m]
  <2>1. DOMAIN v = DOMAIN t /\ v[p] = s /\ \A m \in DOMAIN t : m # p => v[m] = t[m]
    BY <1>1
  <2> HIDE DEF v
  <2>2. CASE new = NoNode
    <3>1. new \notin DOMAIN t
      BY <1>1, <2>2 DEF NoNode
    <3> QED
      BY <2>1, <2>2, <3>1
  <2>3. CASE new # NoNode
    <3>1. new \in DOMAIN v /\ v[new] = t[new]
      BY <1>5, <2>1, <2>3
    <3> QED
      BY <2>1, <2>3, <3>1
  <2> QED
    BY <2>2, <2>3
<1> HIDE DEF u, w
<1>7. ASSUME NEW m \in DOMAIN t
      PROVE  /\ u[m].type = t[m].type
             /\ m # p => u[m] \in Nodes(k) /\ SameLinks(u[m], t[m])
             /\ SameEntry(g, u[m], t[m])
  <2>1. CASE m = p
    BY <1>4, <1>6, <2>1 DEF SameEntry
  <2>2. CASE m # p
    <3>1. u[m] \in Nodes(k) /\ SameLinks(u[m], t[m])
      <4>1. CASE m = new
        <5>1. new # NoNode
          BY <1>1, <4>1 DEF NoNode
        <5> QED
          BY <1>5, <1>6, <2>2, <4>1, <5>1
      <4>2. CASE m # new
        BY <1>1, <1>6, <2>2, <4>2 DEF SameLinks
      <4> QED
        BY <4>1, <4>2
    <3>2. u[m].type = t[m].type
      BY <3>1 DEF SameLinks
    <3> QED
      BY <2>2, <3>1, <3>2, EntryOfSame DEF SameEntry
  <2> QED
    BY <2>1, <2>2
<1> QED
  BY <1>2, <1>6, <1>7

\* The plays of a tree in the order of a walk from any of its nodes; a change
\* keeps it when it keeps that of every node.
Plays(t) == [n \in DOMAIN t |-> IF t[n].type = "play" THEN <<n>> ELSE << >>]
OrderOf(t, g) == g \in [DOMAIN t -> Seq(Nat)] /\ Lists(t, Plays(t), g)
KeepsOrder(t, u) ==
  /\ DOMAIN t \subseteq DOMAIN u
  /\ \A g : OrderOf(t, g) => \E f : OrderOf(u, f) /\ \A n \in DOMAIN t : f[n] = g[n]

LEMMA OrderKeptOn ==
  ASSUME NEW t, NEW u, NEW v, KeepsOrder(t, u), KeepsOrder(u, v)
  PROVE  KeepsOrder(t, v)
<1>1. DOMAIN t \subseteq DOMAIN u /\ DOMAIN u \subseteq DOMAIN v
  BY DEF KeepsOrder
<1>2. ASSUME NEW g, OrderOf(t, g) PROVE \E f : OrderOf(v, f) /\ \A n \in DOMAIN t : f[n] = g[n]
  <2>1. PICK f : OrderOf(u, f) /\ \A n \in DOMAIN t : f[n] = g[n]
    BY <1>2 DEF KeepsOrder
  <2>2. PICK e : OrderOf(v, e) /\ \A n \in DOMAIN u : e[n] = f[n]
    BY <2>1 DEF KeepsOrder
  <2>3. \A n \in DOMAIN t : e[n] = g[n]
    BY <1>1, <2>1, <2>2
  <2> QED
    BY <2>2, <2>3
<1> QED
  BY <1>1, <1>2 DEF KeepsOrder

LEMMA OrderHas ==
  ASSUME NEW t, NEW g, OrderOf(t, g), NEW n \in DOMAIN t
  PROVE  g[n] \in Seq(Nat) /\ g[n] = Entry(g, Plays(t)[n], t[n])
<1>1. g = [m \in DOMAIN t |-> Entry(g, Plays(t)[m], t[m])] /\ g \in [DOMAIN t -> Seq(Nat)]
  BY DEF OrderOf, Lists
<1>2. g[n] \in Seq(Nat)
  BY <1>1
<1> DEFINE E(m) == Entry(g, Plays(t)[m], t[m])
<1>3. g = [m \in DOMAIN t |-> E(m)]
  BY <1>1
<1> HIDE DEF E
<1>4. g[n] = E(n)
  BY <1>3
<1> QED
  BY <1>2, <1>4 DEF E

LEMMA OrderShown ==
  ASSUME NEW u, NEW f \in [DOMAIN u -> Seq(Nat)],
         \A n \in DOMAIN u : f[n] = Entry(f, IF u[n].type = "play" THEN <<n>> ELSE << >>, u[n])
  PROVE  OrderOf(u, f)
<1> DEFINE E(n) == Entry(f, Plays(u)[n], u[n])
<1>1. \A n \in DOMAIN u : Plays(u)[n] = IF u[n].type = "play" THEN <<n>> ELSE << >>
  BY DEF Plays
<1>2. \A n \in DOMAIN u : f[n] = E(n)
  BY <1>1
<1>3. f = [n \in DOMAIN u |-> f[n]]
  OBVIOUS
<1> HIDE DEF E
<1>4. f = [n \in DOMAIN u |-> E(n)]
  BY <1>2, <1>3
<1> QED
  BY <1>4 DEF OrderOf, Lists, E

\* No link and no type changes.
LEMMA SameOrder ==
  ASSUME NEW t, NEW u, DOMAIN u = DOMAIN t, \A n \in DOMAIN t : SameLinks(u[n], t[n])
  PROVE  KeepsOrder(t, u)
<1> SUFFICES ASSUME NEW g, OrderOf(t, g) PROVE OrderOf(u, g)
  BY DEF KeepsOrder
<1>1. g \in [DOMAIN u -> Seq(Nat)]
  BY DEF OrderOf
<1>2. ASSUME NEW n \in DOMAIN u
      PROVE  g[n] = Entry(g, IF u[n].type = "play" THEN <<n>> ELSE << >>, u[n])
  <2> DEFINE o == Plays(t)[n]
  <2>1. SameLinks(u[n], t[n]) /\ g[n] = Entry(g, o, t[n])
    BY OrderHas
  <2>2. o = IF u[n].type = "play" THEN <<n>> ELSE << >>
    BY <2>1 DEF Plays, SameLinks
  <2> HIDE DEF o
  <2>3. Entry(g, o, u[n]) = Entry(g, o, t[n])
    BY <2>1, EntryOfSame
  <2> QED
    BY <2>1, <2>2, <2>3
<1> QED
  BY <1>1, <1>2, OrderShown

\* A node that only has a next.
LEMMA EntryOfNext ==
  ASSUME NEW S, NEW g, NEW r, r.branches = << >>, r.loop = NoNode, Part(g, r.next) \in Seq(S)
  PROVE  Entry(g, << >>, r) = Part(g, r.next)
<1>1. Flat(g, << >>) = << >>
  <2>1. [i \in DOMAIN << >> |-> Part(g, << >>[i])] = << >>
    OBVIOUS
  <2> QED
    BY <2>1 DEF Flat, FlattenSeq
<1>2. Part(g, r.loop) = << >>
  BY DEF Part
<1> DEFINE e == << >>
           x == Part(g, r.next)
<1>3. e \o e = e /\ e \o x = x
  BY ConcatEmptySeq
<1> HIDE DEF e, x
<1>4. Entry(g, e, r) = e \o e \o e \o x
  BY <1>1, <1>2 DEF Entry, e, x
<1> QED
  BY <1>3, <1>4 DEF e, x

\* A node more, in front of n.
LEMMA InsertedOrder ==
  ASSUME NEW t, IsHeap(t), NEW v, IsHeap(v), NEW k, k \notin DOMAIN t, DOMAIN v = DOMAIN t \cup {k},
         \A m \in DOMAIN t : SameLinks(v[m], t[m]),
         v[k].type # "play", v[k].branches = << >>, v[k].loop = NoNode,
         NEW n \in DOMAIN t, v[n].parent \in DOMAIN t, v[n].parent # n
  PROVE  KeepsOrder(t, InsertBefore(v, n, k))
<1> DEFINE p  == v[n].parent
           r  == [[v[k] EXCEPT !.next = n] EXCEPT !.parent = p]
           h1 == [v EXCEPT ![k].next = n, ![k].parent = p]
           h2 == UpdateParent(h1, p, n, k)
           u  == [h2 EXCEPT ![n].parent = k]
<1>1. InsertBefore(v, n, k) = u
  BY DEF InsertBefore
<1>2. /\ Len(t) \in Nat /\ DOMAIN t = 1 .. Len(t) /\ Len(v) \in Nat /\ DOMAIN v = 1 .. Len(v)
      /\ v \in Seq(Nodes(Len(v))) /\ v[k] \in Nodes(Len(v)) /\ k \in DOMAIN v /\ Root \in DOMAIN v
  BY HeapFacts DEF IsHeap
<1>3. /\ r \in Nodes(Len(v)) /\ r.next = n /\ r.branches = << >> /\ r.loop = NoNode
      /\ r.type = v[k].type
  <2>1. n \in 0 .. Len(v) /\ p \in 0 .. Len(v)
    BY <1>2
  <2> HIDE DEF p
  <2> QED
    BY <1>2, <2>1 DEF Nodes
<1>4. /\ h1 \in Seq(Nodes(Len(v))) /\ Len(h1) = Len(v) /\ DOMAIN h1 = DOMAIN v /\ h1[k] = r
      /\ \A m \in DOMAIN t : h1[m] = v[m]
  <2>1. h1 = [v EXCEPT ![k] = r]
    BY <1>2
  <2> HIDE DEF h1, r
  <2> QED
    BY <1>2, <1>3, <2>1
<1>5. IsHeap(h1)
  BY <1>2, <1>4 DEF IsHeap
<1> HIDE DEF r, h1, h2, u
<1> SUFFICES ASSUME NEW g, OrderOf(t, g)
             PROVE  \E f : OrderOf(u, f) /\ \A m \in DOMAIN t : f[m] = g[m]
  <2>1. DOMAIN u = DOMAIN h2
    BY DEF u
  <2>2. DOMAIN h2 = DOMAIN h1
    BY DEF h2, UpdateParent
  <2> QED
    BY <1>1, <1>4, <2>1, <2>2 DEF KeepsOrder
<1> DEFINE f == [m \in DOMAIN v |-> IF m = k THEN g[n] ELSE g[m]]
<1>6. \A m \in DOMAIN t : g[m] \in Seq(Nat)
  BY OrderHas
<1>7. f \in [DOMAIN v -> Seq(Nat)] /\ f[k] = g[n] /\ \A m \in DOMAIN t : f[m] = g[m]
  BY <1>2, <1>6
<1> HIDE DEF f
<1>8. Part(f, k) = g[n] /\ Part(f, n) = g[n]
  BY <1>2, <1>7 DEF Part, NoNode
<1>9. /\ DOMAIN h2 = DOMAIN h1
      /\ \A m \in DOMAIN h1 : /\ h2[m].type = h1[m].type
                              /\ m # p => h2[m] \in Nodes(Len(h1)) /\ SameLinks(h2[m], h1[m])
                              /\ SameEntry(f, h2[m], h1[m])
  <2>1. /\ p \in DOMAIN h1 /\ n \in DOMAIN h1 /\ k \in 0 .. Len(h1) /\ k # p
        /\ f \in [DOMAIN h1 -> Seq(Nat)] /\ Part(f, k) = Part(f, n)
    BY <1>2, <1>4, <1>7, <1>8
  <2> HIDE DEF p
  <2> QED
    BY <1>5, <2>1, UpdatedOrder DEF h2
<1>10. DOMAIN u = DOMAIN v /\ \A m \in DOMAIN v : SameLinks(u[m], h2[m])
  <2>1. n \in DOMAIN h2 /\ n # p /\ h2[n] \in Nodes(Len(h1))
    BY <1>2, <1>4, <1>9
  <2> DEFINE w == [h2[n] EXCEPT !.parent = k]
  <2>2. SameLinks(w, h2[n])
    BY <2>1 DEF Nodes, SameLinks
  <2>3. u = [h2 EXCEPT ![n] = w]
    BY <2>1 DEF u
  <2> HIDE DEF w
  <2>4. DOMAIN u = DOMAIN h2 /\ u[n] = w /\ \A m \in DOMAIN h2 : m # n => u[m] = h2[m]
    BY <2>1, <2>3
  <2>5. \A m \in DOMAIN h2 : SameLinks(h2[m], h2[m])
    BY DEF SameLinks
  <2> QED
    BY <1>4, <1>9, <2>2, <2>4, <2>5
<1>11. ASSUME NEW m \in DOMAIN u
       PROVE  f[m] = Entry(f, IF u[m].type = "play" THEN <<m>> ELSE << >>, u[m])
  <2> DEFINE o == IF h1[m].type = "play" THEN <<m>> ELSE << >>
  <2>1. u[m].type = h1[m].type
    BY <1>4, <1>9, <1>10 DEF SameLinks
  <2>2. Entry(f, o, u[m]) = Entry(f, o, h1[m])
    <3>1. SameLinks(u[m], h2[m]) /\ SameEntry(f, h2[m], h1[m])
      BY <1>4, <1>9, <1>10
    <3> HIDE DEF o
    <3>2. Entry(f, o, u[m]) = Entry(f, o, h2[m])
      BY <3>1, EntryOfSame
    <3> QED
      BY <3>1, <3>2 DEF SameEntry
  <2>3. f[m] = Entry(f, o, h1[m])
    <3>1. CASE m = k
      <4>1. o = << >> /\ h1[m] = r
        BY <1>3, <1>4, <3>1
      <4>2. Part(f, r.next) = g[n] /\ g[n] \in Seq(Nat)
        BY <1>3, <1>6, <1>8
      <4> HIDE DEF o
      <4>3. Entry(f, << >>, r) = g[n]
        BY <1>3, <4>2, EntryOfNext
      <4> QED
        BY <1>7, <3>1, <4>1, <4>3
    <3>2. CASE m # k
      <4>1. m \in DOMAIN t /\ h1[m] = v[m] /\ SameLinks(v[m], t[m]) /\ f[m] = g[m]
        BY <1>4, <1>7, <1>10, <3>2
      <4>2. o = Plays(t)[m]
        BY <4>1 DEF Plays, SameLinks
      <4> HIDE DEF o
      <4>3. g[m] = Entry(g, o, t[m])
        BY <4>1, <4>2, OrderHas
      <4>4. \A c \in LinksOf(t[m]) : f[c] = g[c]
        <5>1. LinksOf(t[m]) \subseteq DOMAIN t
          BY <4>1, HeapFacts, HoldsSplit
        <5> QED
          BY <1>7, <5>1
      <4>5. Entry(f, o, t[m]) = Entry(g, o, t[m])
        BY <4>4, EntrySame
      <4>6. Entry(f, o, v[m]) = Entry(f, o, t[m])
        BY <4>1, EntryOfSame
      <4> QED
        BY <4>1, <4>3, <4>5, <4>6
    <3> QED
      BY <3>1, <3>2
  <2> QED
    BY <2>1, <2>2, <2>3
<1>12. OrderOf(u, f)
  BY <1>7, <1>10, <1>11, OrderShown
<1> QED
  BY <1>7, <1>12

\* The null branches of a node go.
LEMMA BodiesOrder ==
  ASSUME NEW t, IsHeap(t), NEW n \in DOMAIN t, NEW u, DOMAIN u = DOMAIN t,
         u[n].type = t[n].type, u[n].next = t[n].next, u[n].loop = t[n].loop,
         u[n].branches = Bodies(t[n].branches), \A m \in DOMAIN t : m # n => u[m] = t[m]
  PROVE  KeepsOrder(t, u)
<1> SUFFICES ASSUME NEW g, OrderOf(t, g) PROVE OrderOf(u, g)
  BY DEF KeepsOrder
<1>1. g \in [DOMAIN u -> Seq(Nat)]
  BY DEF OrderOf
<1> DEFINE k  == Len(t)
           br == t[n].branches
<1>2. k \in Nat /\ br \in Seq(0 .. k) /\ DOMAIN t = 1 .. k
  BY HeapFacts
<1>3. \A c \in Range(br) : Part(g, c) \in Seq(Nat)
  <2>1. Range(br) \subseteq 0 .. k
    BY <1>2 DEF Range
  <2>2. \A c \in Range(br) : c # NoNode => c \in DOMAIN t
    BY <1>2, <2>1 DEF NoNode
  <2> QED
    BY <1>1, <2>2 DEF Part
<1>4. Flat(g, Bodies(br)) = Flat(g, br)
  <2> HIDE DEF k, br
  <2> QED
    BY <1>2, <1>3, FlatBodies
<1>5. ASSUME NEW o PROVE Entry(g, o, u[n]) = Entry(g, o, t[n])
  BY <1>4 DEF Entry
<1>6. ASSUME NEW m \in DOMAIN u
      PROVE  g[m] = Entry(g, IF u[m].type = "play" THEN <<m>> ELSE << >>, u[m])
  <2> DEFINE o == Plays(t)[m]
  <2>1. o = IF u[m].type = "play" THEN <<m>> ELSE << >>
    BY DEF Plays
  <2>2. g[m] = Entry(g, o, t[m])
    BY OrderHas
  <2> HIDE DEF o
  <2>3. Entry(g, o, u[m]) = Entry(g, o, t[m])
    BY <1>5
  <2> QED
    BY <2>1, <2>2, <2>3
<1> QED
  BY <1>1, <1>6, OrderShown

\* A node more, behind f, which nothing followed.
Follows(t, f, k, u) ==
  /\ IsHeap(t) /\ k \in Nat /\ k \notin DOMAIN t /\ k # NoNode /\ f \in DOMAIN t
  /\ t[f].next = NoNode /\ DOMAIN u = DOMAIN t \cup {k} /\ u[f].next = k
  /\ u[f].type = t[f].type /\ u[f].loop = t[f].loop /\ u[f].branches = t[f].branches
  /\ \A m \in DOMAIN t : m # f => u[m] = t[m]
  /\ u[k].type # "play" /\ u[k].branches = << >> /\ u[k].loop = NoNode /\ u[k].next = NoNode

LEMMA LinkedOrder ==
  ASSUME NEW t, NEW f, NEW k, NEW u, Follows(t, f, k, u)
  PROVE  KeepsOrder(t, u)
<1>0. /\ IsHeap(t) /\ k \in Nat /\ k \notin DOMAIN t /\ k # NoNode /\ f \in DOMAIN t
      /\ t[f].next = NoNode /\ DOMAIN u = DOMAIN t \cup {k} /\ u[f].next = k
      /\ u[f].type = t[f].type /\ u[f].loop = t[f].loop /\ u[f].branches = t[f].branches
      /\ \A m \in DOMAIN t : m # f => u[m] = t[m]
      /\ u[k].type # "play" /\ u[k].branches = << >> /\ u[k].loop = NoNode /\ u[k].next = NoNode
  BY DEF Follows
<1> SUFFICES ASSUME NEW g, OrderOf(t, g)
             PROVE  \E e : OrderOf(u, e) /\ \A m \in DOMAIN t : e[m] = g[m]
  BY <1>0 DEF KeepsOrder
<1> DEFINE e == [m \in DOMAIN u |-> IF m = k THEN << >> ELSE g[m]]
<1>1. << >> \in Seq(Nat) /\ \A m \in DOMAIN t : g[m] \in Seq(Nat)
  BY OrderHas
<1>2. e \in [DOMAIN u -> Seq(Nat)] /\ e[k] = << >> /\ \A m \in DOMAIN t : e[m] = g[m]
  BY <1>0, <1>1
<1> HIDE DEF e
<1>3. Part(e, k) = << >> /\ Part(e, NoNode) = << >>
  BY <1>2 DEF Part
<1>4. ASSUME NEW m \in DOMAIN u
      PROVE  e[m] = Entry(e, IF u[m].type = "play" THEN <<m>> ELSE << >>, u[m])
  <2>1. CASE m = k
    <3> DEFINE r == u[k]
    <3>1. r.type # "play" /\ r.branches = << >> /\ r.loop = NoNode
      BY <1>0
    <3>2. Part(e, r.next) = << >>
      BY <1>0, <1>3
    <3> HIDE DEF r
    <3>3. Entry(e, << >>, r) = Part(e, r.next)
      <4>1. Part(e, r.next) \in Seq(Nat)
        BY <1>1, <3>2
      <4> QED
        BY <3>1, <4>1, EntryOfNext
    <3>4. u[m] = r /\ e[m] = << >>
      BY <1>2, <2>1 DEF r
    <3> QED
      BY <3>1, <3>2, <3>3, <3>4
  <2>2. CASE m # k
    <3> DEFINE o == Plays(t)[m]
    <3>1. m \in DOMAIN t /\ u[m].type = t[m].type
      BY <1>0, <2>2
    <3>2. o = IF u[m].type = "play" THEN <<m>> ELSE << >>
      BY <3>1 DEF Plays
    <3> HIDE DEF o
    <3>3. g[m] = Entry(g, o, t[m])
      BY <3>1, OrderHas DEF o
    <3>4. \A c \in LinksOf(t[m]) : e[c] = g[c]
      <4>1. LinksOf(t[m]) \subseteq DOMAIN t
        BY <1>0, <3>1, HeapFacts, HoldsSplit
      <4> QED
        BY <1>2, <4>1
    <3>5. Entry(e, o, t[m]) = Entry(g, o, t[m])
      BY <3>4, EntrySame
    <3>6. Entry(e, o, u[m]) = Entry(e, o, t[m])
      <4>1. CASE m = f
        BY <1>0, <1>3, <4>1 DEF Entry
      <4>2. CASE m # f
        BY <1>0, <3>1, <4>2
      <4> QED
        BY <4>1, <4>2
    <3> QED
      BY <1>2, <3>1, <3>2, <3>3, <3>5, <3>6
  <2> QED
    BY <2>1, <2>2
<1>5. OrderOf(u, e)
  BY <1>2, <1>4, OrderShown
<1> QED
  BY <1>0, <1>2, <1>5

\* A node that is no play leaves the chain.
LEMMA DroppedOrder ==
  ASSUME NEW t, IsHeap(t), NEW n \in DOMAIN t, t[n].type # "play", t[n].branches = << >>,
         t[n].loop = NoNode, t[n].parent \in DOMAIN t, t[n].next # t[n].parent
  PROVE  KeepsOrder(t, UpdateParent(t, t[n].parent, n, t[n].next))
<1> DEFINE p == t[n].parent
           x == t[n].next
           u == UpdateParent(t, p, n, x)
<1>1. Len(t) \in Nat /\ DOMAIN t = 1 .. Len(t) /\ x \in 0 .. Len(t) /\ p \in DOMAIN t /\ x # p
  BY HeapFacts
<1> HIDE DEF u
<1>0. DOMAIN u = DOMAIN t
  BY DEF u, UpdateParent
<1> SUFFICES ASSUME NEW g, OrderOf(t, g) PROVE OrderOf(u, g)
  BY <1>0 DEF KeepsOrder, u
<1>2. g \in [DOMAIN t -> Seq(Nat)]
  BY DEF OrderOf
<1>3. Part(g, x) \in Seq(Nat)
  BY <1>1, <1>2 DEF Part, NoNode
<1>4. Part(g, x) = g[n]
  <2>1. Plays(t)[n] = << >>
    BY DEF Plays
  <2>2. g[n] = Entry(g, << >>, t[n])
    BY <2>1, OrderHas
  <2> QED
    BY <1>3, <2>2, EntryOfNext
<1>5. Part(g, n) = g[n]
  BY <1>1 DEF Part, NoNode
<1> HIDE DEF p, x
<1>6. \A m \in DOMAIN t : u[m].type = t[m].type /\ SameEntry(g, u[m], t[m])
  <2>1. p \in DOMAIN t /\ x \in 0 .. Len(t) /\ x # p /\ Part(g, x) = Part(g, n)
    BY <1>1, <1>4, <1>5
  <2> DEFINE D == DOMAIN t
             v == UpdateParent(t, p, n, x)
  <2>2. DOMAIN v = D /\ \A m \in D : v[m].type = t[m].type /\ SameEntry(g, v[m], t[m])
    BY <1>2, <2>1, UpdatedOrder
  <2> HIDE DEF v
  <2> QED
    BY <2>2 DEF u, v
<1>7. ASSUME NEW m \in DOMAIN u
      PROVE  g[m] = Entry(g, IF u[m].type = "play" THEN <<m>> ELSE << >>, u[m])
  <2> DEFINE o == Plays(t)[m]
  <2>1. o = IF u[m].type = "play" THEN <<m>> ELSE << >>
    BY <1>0, <1>6 DEF Plays
  <2> HIDE DEF o
  <2>2. Entry(g, o, u[m]) = Entry(g, o, t[m])
    BY <1>0, <1>6 DEF SameEntry
  <2>3. g[m] = Entry(g, o, t[m])
    BY <1>0, OrderHas DEF o
  <2> QED
    BY <2>1, <2>2, <2>3
<1> QED
  BY <1>0, <1>2, <1>7, OrderShown

----------------------------------------------------------------------------
(* What the steps of prepareTree do to the tree.                           *)

LEMMA NewNodeFacts ==
  ASSUME NEW k \in Nat, NEW id \in Nat, NEW type \in {"load", "setvar", "ready"}
  PROVE  LET r == NewNode(type, id)
         IN  /\ r \in Nodes(k) /\ r.type = type /\ r.next = NoNode /\ r.loop = NoNode
             /\ r.branches = << >> /\ r.parent = NoNode /\ LinksOf(r) = {} /\ Single(r)
<1> DEFINE r == NewNode(type, id)
<1>1. /\ r.type = type /\ r.next = NoNode /\ r.loop = NoNode
      /\ r.branches = << >> /\ r.parent = NoNode
  BY DEF NewNode
<1>2. ZeroConfig \in Configs
  BY DEF ZeroConfig, Configs, Config
<1>3. << >> \in Seq(0 .. k) /\ << >> \in Seq(1 .. k) /\ 0 \in 0 .. k
  OBVIOUS
<1>4. r \in Nodes(k)
  BY <1>2, <1>3 DEF NewNode, Nodes, NoNode
<1> HIDE DEF r
<1>5. LinksOf(r) = {} /\ Single(r)
  BY <1>1 DEF LinksOf, Single, Range
<1> QED
  BY <1>1, <1>4, <1>5 DEF r

LEMMA NoLinks ==
  ASSUME NEW r, LinksOf(r) = {}, Single(r), r.type \notin {"branch", "loop"}
  PROVE  r.branches = << >> /\ r.loop = NoNode /\ r.next = NoNode
BY DEF LinksOf, Single

\* createLoad and insertBefore: a load in front of the play n.
Loaded(t, n, u, ld) ==
  /\ Whole(u) /\ ld \notin DOMAIN t /\ DOMAIN u = DOMAIN t \cup {ld} /\ n # ld
  /\ u[ld].type = "load" /\ u[ld].wave = t[n].wave /\ u[ld].reg = ld /\ u[ld].play = <<n>>
  /\ u[ld].next = n /\ Hangs(u, ld)
  /\ u[n].type = t[n].type /\ u[n].wave = t[n].wave /\ u[n].config = t[n].config
  /\ u[n].asmId = t[n].asmId /\ u[n].play = t[n].play /\ u[n].loadRef = ld /\ u[n].reg = ld
  /\ \A m \in DOMAIN t : /\ m # n => SameNode(u[m], t[m])
                         /\ Hangs(u, m) <=> Hangs(t, m)
                         /\ t[m].next # n => u[m].next = t[m].next

LEMMA LoadLinked ==
  ASSUME NEW t, Whole(t), NEW n \in DOMAIN t, Hangs(t, n), n # Root,
         t[n].loadRef = NoNode, ~t[n].config.dummy
  PROVE  /\ Loaded(t, n, LinkLoad(t, n), Fresh(t))
         /\ \A w, V : Walks(t, w, V) /\ n \in V => Walks(LinkLoad(t, n), w, V \cup {Fresh(t)})
         /\ KeepsOrder(t, LinkLoad(t, n))
<1> DEFINE ld   == Fresh(t)
           load == [NewNode("load", t[n].asmId) EXCEPT !.wave = t[n].wave, !.var = t[n].var,
                                                       !.reg = ld, !.play = <<n>>]
           t1   == Append(t, load)
           t2   == [t1 EXCEPT ![n].loadRef = ld, ![n].reg = ld]
           u    == InsertBefore(t2, n, ld)
<1>1. /\ IsHeap(t) /\ Len(t) \in Nat /\ DOMAIN t = 1 .. Len(t) /\ t[n] \in Nodes(Len(t))
      /\ ld = Len(t) + 1
  BY HeapFacts DEF Whole, Fresh
<1>2. LinkLoad(t, n) = u
  BY DEF LinkLoad
<1>3. /\ load \in Nodes(Len(t) + 1) /\ load.type = "load" /\ load.wave = t[n].wave
      /\ load.reg = ld /\ load.play = <<n>> /\ load.parent = NoNode
      /\ LinksOf(load) = {} /\ Single(load)
  <2> DEFINE k == Len(t) + 1
  <2>1. /\ t[n].asmId \in Nat /\ t[n].wave \in Nat /\ t[n].var \in Nat /\ ld \in Nat
        /\ n \in 1 .. k /\ k \in Nat /\ <<n>> \in Seq(1 .. k)
    <3> HIDE DEF ld, load, t1, t2, u
    <3>1. t[n].asmId \in Nat /\ t[n].wave \in Nat /\ t[n].var \in Nat
      BY <1>1 DEF Nodes
    <3>2. ld \in Nat /\ n \in 1 .. k /\ k \in Nat
      BY <1>1
    <3> QED
      BY <3>1, <3>2
  <2> HIDE DEF ld, k
  <2> DEFINE nn == NewNode("load", t[n].asmId)
  <2>2. /\ nn \in Nodes(k) /\ nn.type = "load" /\ nn.next = NoNode /\ nn.loop = NoNode
        /\ nn.branches = << >> /\ nn.parent = NoNode
    BY <2>1, NewNodeFacts
  <2>3. /\ load.next = NoNode /\ load.loop = NoNode /\ load.branches = << >> /\ load.type = "load"
        /\ load.wave = t[n].wave /\ load.reg = ld /\ load.play = <<n>> /\ load.parent = NoNode
        /\ load \in Nodes(k)
    BY <2>1, <2>2 DEF Nodes
  <2> HIDE DEF load
  <2> QED
    BY <2>3 DEF LinksOf, Single, Range, k
<1> HIDE DEF load
<1>4. /\ Whole(t1) /\ Len(t1) = Len(t) + 1 /\ DOMAIN t1 = DOMAIN t \cup {ld} /\ ld \notin DOMAIN t
      /\ t1[ld] = load /\ (\A m \in DOMAIN t : t1[m] = t[m]) /\ Lone(t1, ld) /\ Links(t1, ld) = {}
      /\ \A m \in DOMAIN t : Links(t1, m) = Links(t, m) /\ (Hangs(t1, m) <=> Hangs(t, m))
  <2>1. ld = Fresh(t)
    OBVIOUS
  <2> HIDE DEF ld
  <2> QED
    BY <1>3, <2>1, Appended
<1> HIDE DEF t1, ld
<1> DEFINE r == [[t1[n] EXCEPT !.loadRef = ld] EXCEPT !.reg = ld]
<1>5. /\ r \in Nodes(Len(t1)) /\ r.type = t[n].type /\ r.asmId = t[n].asmId /\ r.wave = t[n].wave /\ r.config = t[n].config
      /\ r.play = t[n].play /\ r.loadRef = ld /\ r.reg = ld /\ r.next = t[n].next
      /\ r.branches = t[n].branches /\ r.loop = t[n].loop /\ r.parent = t[n].parent
  <2>1. t1[n] \in Nodes(Len(t1)) /\ t1[n] = t[n] /\ ld \in 0 .. Len(t1) /\ ld \in Nat
    BY <1>1, <1>4, HeapFacts DEF Whole
  <2> QED
    BY <2>1 DEF Nodes
<1>6. /\ t2 \in Seq(Nodes(Len(t1))) /\ Len(t2) = Len(t1) /\ DOMAIN t2 = DOMAIN t1 /\ t2[n] = r
      /\ \A m \in DOMAIN t1 : m # n => t2[m] = t1[m]
  <2>1. t2 = [t1 EXCEPT ![n] = r]
    BY <1>4
  <2>2. t1 \in Seq(Nodes(Len(t1)))
    BY <1>4 DEF Whole, IsHeap
  <2> HIDE DEF r, t2
  <2> QED
    BY <1>1, <1>4, <1>5, <2>1, <2>2
<1> HIDE DEF t2, r
<1>7. IsHeap(t2)
  BY <1>4, <1>6 DEF IsHeap, Whole
<1>8. ASSUME NEW m \in DOMAIN t1
      PROVE  /\ Links(t2, m) = Links(t1, m) /\ t2[m].parent = t1[m].parent
             /\ t2[m].next = t1[m].next /\ (Single(t1[m]) => Single(t2[m]))
  <2>1. CASE m = n
    BY <1>4, <1>5, <1>6, <2>1 DEF Links, Single
  <2>2. CASE m # n
    BY <1>6, <2>2 DEF Links
  <2> QED
    BY <2>1, <2>2
<1>9. Whole(t2) /\ \A m \in DOMAIN t1 : Hangs(t2, m) <=> Hangs(t1, m)
  BY <1>4, <1>6, <1>7, <1>8, Relabelled
<1>10. n # ld /\ n \in DOMAIN t2 /\ ld \in DOMAIN t2 /\ Hangs(t2, n)
  BY <1>4, <1>6, <1>9
<1>11. Lone(t2, ld)
  BY <1>4, <1>6, <1>8, <1>10 DEF Lone
<1>12. InFront(t2, n, ld, u, t2[n].parent)
  BY <1>9, <1>10, <1>11, Inserted
<1>13. ASSUME NEW w, NEW V, Walks(t, w, V), n \in V PROVE Walks(u, w, V \cup {ld})
  <2>1. Walks(t2, w, V)
    BY <1>4, <1>6, <1>8, <1>9, <1>13, SameWalks
  <2> QED
    BY <1>9, <1>10, <1>11, <1>13, <2>1, InsertedWalks
<1> HIDE DEF u
<1>14. /\ Whole(u) /\ DOMAIN u = DOMAIN t \cup {ld} /\ u[ld].next = n /\ Hangs(u, ld)
       /\ SameNode(u[n], r) /\ SameNode(u[ld], load)
  BY <1>4, <1>6, <1>10, <1>12 DEF InFront
<1>15. ASSUME NEW m \in DOMAIN t
       PROVE  /\ m # n => SameNode(u[m], t[m])
              /\ Hangs(u, m) <=> Hangs(t, m)
              /\ t[m].next # n => u[m].next = t[m].next
  <2>1. m \in DOMAIN t2 /\ m # ld /\ (Hangs(t2, m) <=> Hangs(t, m)) /\ t2[m].next = t[m].next
        /\ (m # n => t2[m] = t[m])
    BY <1>4, <1>6, <1>8, <1>9
  <2>2. m # t2[n].parent => u[m].next = t2[m].next
    BY <1>12, <2>1, Zenon DEF InFront
  <2>3. m = t2[n].parent => u[m].next = IF t2[m].next = n THEN ld ELSE t2[m].next
    BY <1>12, <2>1 DEF InFront
  <2>4. SameNode(u[m], t2[m]) /\ (Hangs(u, m) <=> Hangs(t2, m) \/ m = ld)
    BY <1>12, <2>1 DEF InFront
  <2> QED
    BY <2>1, <2>2, <2>3, <2>4
<1>16. Loaded(t, n, u, ld)
  BY <1>3, <1>4, <1>5, <1>10, <1>14, <1>15 DEF Loaded, SameNode
<1>17. KeepsOrder(t, u)
  <2>1. \A m \in DOMAIN t : SameLinks(t2[m], t[m])
    BY <1>4, <1>5, <1>6 DEF SameLinks
  <2>2. /\ ld \notin DOMAIN t /\ DOMAIN t2 = DOMAIN t \cup {ld} /\ t2[ld] = load
        /\ t2[n].parent \in DOMAIN t /\ t2[n].parent # n
    <3>1. t2[n].parent = t[n].parent
      BY <1>5, <1>6
    <3> QED
      BY <1>4, <1>6, <1>10, <3>1, WholeFacts
  <2>3. load.type # "play" /\ load.branches = << >> /\ load.loop = NoNode
    BY <1>3, NoLinks
  <2> QED
    BY <1>1, <1>7, <2>1, <2>2, <2>3, InsertedOrder DEF u
<1> QED
  BY <1>2, <1>13, <1>16, <1>17 DEF ld

\* expandSetVar: the nodes that come with it are SetVars, and nothing else
\* changes but the parent of what they stand in front of.
SetVarsAdded(t, u) ==
  /\ Whole(u) /\ DOMAIN t \subseteq DOMAIN u /\ KeepsOrder(t, u)
  /\ \A m \in DOMAIN t : /\ SameNode(u[m], t[m]) /\ u[m].next = t[m].next
                         /\ Hangs(u, m) <=> Hangs(t, m)
  /\ \A m \in DOMAIN u \ DOMAIN t : u[m].type = "setvar"

WalksOver(t, u, n) ==
  \A w, V : Walks(t, w, V) /\ n \in V => Walks(u, w, V \cup (DOMAIN u \ DOMAIN t))

LEMMA CopiedInFront ==
  ASSUME NEW t, Whole(t), NEW cur \in DOMAIN t, Hangs(t, cur), NEW n \in DOMAIN t,
         t[cur].parent # NoNode
  PROVE  LET u == CopyInFront(t, t[cur].parent, cur, n)
         IN  SetVarsAdded(t, u) /\ WalksOver(t, u, cur)
<1> DEFINE p  == t[cur].parent
           cp == [NewNode("setvar", t[n].asmId) EXCEPT !.var = t[n].var]
           u  == CopyInFront(t, p, cur, n)
           t1 == Append(t, cp)
           k  == Fresh(t)
<1>1. /\ IsHeap(t) /\ Len(t) \in Nat /\ t[n] \in Nodes(Len(t)) /\ t[Root].parent = NoNode
  BY HeapFacts DEF Whole
<1>2. cur # Root /\ p \in DOMAIN t /\ Single(t[p]) /\ cur # NoNode
  <2>1. cur # Root
    BY <1>1
  <2>2. p \in DOMAIN t /\ Hangs(t, p) /\ cur \in Links(t, p)
    BY <2>1, WholeFacts
  <2> QED
    BY <2>1, <2>2, WholeFacts DEF Links
<1>3. CASE ~(t[p].type = "loop" /\ t[p].loop = cur)
  <2>1. u = t
    BY <1>3 DEF CopyInFront
  <2>2. SetVarsAdded(t, u)
    <3>1. KeepsOrder(t, t)
      BY SameOrder DEF SameLinks
    <3> QED
      BY <2>1, <3>1 DEF SetVarsAdded, SameNode
  <2>3. \A V : V \cup (DOMAIN t \ DOMAIN t) = V
    OBVIOUS
  <2> HIDE DEF u
  <2>4. WalksOver(t, u, cur)
    BY <2>1, <2>3 DEF WalksOver
  <2> QED
    BY <2>2, <2>4 DEF u
<1>4. CASE t[p].type = "loop" /\ t[p].loop = cur
  <2>1. /\ cp \in Nodes(Len(t) + 1) /\ cp.type = "setvar" /\ cp.parent = NoNode
        /\ LinksOf(cp) = {} /\ Single(cp)
    <3> DEFINE nn == NewNode("setvar", t[n].asmId)
    <3>1. t[n].asmId \in Nat /\ t[n].var \in Nat /\ Len(t) + 1 \in Nat
      BY <1>1 DEF Nodes
    <3>2. /\ nn \in Nodes(Len(t) + 1) /\ nn.type = "setvar" /\ nn.next = NoNode /\ nn.loop = NoNode
          /\ nn.branches = << >> /\ nn.parent = NoNode
      BY <3>1, NewNodeFacts
    <3>3. /\ cp.next = NoNode /\ cp.loop = NoNode /\ cp.branches = << >> /\ cp.type = "setvar"
          /\ cp.parent = NoNode /\ cp \in Nodes(Len(t) + 1)
      BY <3>1, <3>2 DEF Nodes
    <3> HIDE DEF cp
    <3> QED
      BY <3>3 DEF LinksOf, Single, Range
  <2>2. u = InsertBefore(t1, cur, k)
    BY <1>4 DEF CopyInFront
  <2> HIDE DEF cp
  <2>3. /\ Whole(t1) /\ DOMAIN t1 = DOMAIN t \cup {k} /\ k \notin DOMAIN t
        /\ t1[k] = cp /\ (\A m \in DOMAIN t : t1[m] = t[m]) /\ Lone(t1, k)
        /\ \A m \in DOMAIN t : Links(t1, m) = Links(t, m) /\ (Hangs(t1, m) <=> Hangs(t, m))
    <3>1. k = Fresh(t)
      OBVIOUS
    <3> HIDE DEF k
    <3> QED
      BY <2>1, <3>1, Appended
  <2> HIDE DEF t1, k
  <2>4. /\ cur \in DOMAIN t1 /\ k \in DOMAIN t1 /\ Hangs(t1, cur) /\ t1[cur] = t[cur]
        /\ t1[p] = t[p] /\ cur # k
    BY <1>2, <2>3
  <2>5. InFront(t1, cur, k, u, p)
    BY <1>2, <2>2, <2>3, <2>4, Inserted
  <2>6. ASSUME NEW w, NEW V, Walks(t, w, V), cur \in V PROVE Walks(u, w, V \cup {k})
    <3>1. Walks(t1, w, V)
      BY <2>3, <2>6, SameWalks
    <3> QED
      BY <1>2, <2>2, <2>3, <2>4, <2>6, <3>1, InsertedWalks
  <2> HIDE DEF u
  <2>7. Whole(u) /\ DOMAIN u = DOMAIN t \cup {k}
    BY <2>3, <2>5 DEF InFront
  <2>8. DOMAIN u \ DOMAIN t = {k}
    BY <2>3, <2>7
  <2>9. WalksOver(t, u, cur)
    BY <2>6, <2>8 DEF WalksOver
  <2>10. u[k].type = "setvar"
    BY <2>1, <2>3, <2>4, <2>5 DEF InFront, SameNode
  <2>11. t[p].next # cur
    BY <1>2, <1>4 DEF Single
  <2>12. ASSUME NEW m \in DOMAIN t
         PROVE  SameNode(u[m], t[m]) /\ u[m].next = t[m].next /\ (Hangs(u, m) <=> Hangs(t, m))
    <3>1. m \in DOMAIN t1 /\ m # k /\ t1[m] = t[m] /\ (Hangs(t1, m) <=> Hangs(t, m))
      BY <2>3
    <3>2. SameNode(u[m], t1[m]) /\ (Hangs(u, m) <=> Hangs(t1, m) \/ m = k)
      BY <2>5, <3>1 DEF InFront
    <3>3. CASE m = p
      <4>1. u[p].next = t1[p].next
        BY <2>4, <2>5, <2>11 DEF InFront
      <4> QED
        BY <3>1, <3>2, <3>3, <4>1
    <3>4. CASE m # p
      <4>1. u[m].next = t1[m].next
        BY <2>5, <3>1, <3>4 DEF InFront
      <4> QED
        BY <3>1, <3>2, <4>1
    <3> QED
      BY <3>3, <3>4
  <2>13. KeepsOrder(t, u)
    <3>1. \A m \in DOMAIN t : SameLinks(t1[m], t[m])
      BY <2>3 DEF SameLinks
    <3>2. cp.type # "play" /\ cp.branches = << >> /\ cp.loop = NoNode
      BY <2>1, NoLinks
    <3>3. /\ t1[cur].parent \in DOMAIN t /\ t1[cur].parent # cur /\ IsHeap(t1)
      <4>1. t1[cur].parent = p /\ p # cur
        BY <1>2, <2>4, WholeFacts
      <4> QED
        BY <1>2, <2>3, <4>1 DEF Whole
    <3> QED
      BY <1>1, <2>2, <2>3, <3>1, <3>2, <3>3, InsertedOrder DEF u
  <2>14. SetVarsAdded(t, u)
    BY <2>7, <2>8, <2>10, <2>12, <2>13 DEF SetVarsAdded
  <2> QED
    BY <2>9, <2>14 DEF u
<1> QED
  BY <1>3, <1>4

\* The recursion that climbs to the root.
ClimbStep(c, n) ==
  LET par == c.tree[c.at].parent
  IN IF par = NoNode THEN c ELSE [tree |-> CopyInFront(c.tree, par, c.at, n), at |-> par]

Climbs(t, n, k, g) ==
  g = [i \in 0 .. k |-> IF i = 0 THEN [tree |-> t, at |-> n] ELSE ClimbStep(g[i - 1], n)]

LEMMA ClimbExists ==
  ASSUME NEW t, NEW n, NEW k \in Nat
  PROVE  \E g : Climbs(t, n, k, g)
<1> DEFINE W == {m \in Nat : ~\E g : Climbs(t, n, m, g)}
<1> SUFFICES ASSUME W # {} PROVE FALSE
  OBVIOUS
<1>1. PICK m \in W : \A j \in W : m <= j
  BY LeastElement, W \in SUBSET Nat
<1>2. CASE m = 0
  <2>1. Climbs(t, n, 0, [i \in 0 .. 0 |-> [tree |-> t, at |-> n]])
    BY DEF Climbs
  <2> QED
    BY <1>1, <1>2, <2>1
<1>3. CASE m # 0
  <2>1. m - 1 \in Nat /\ m - 1 \notin W
    BY <1>1, <1>3
  <2>2. PICK g : Climbs(t, n, m - 1, g)
    BY <2>1
  <2> DEFINE f == [i \in 0 .. m |-> IF i = m THEN ClimbStep(g[m - 1], n) ELSE g[i]]
  <2>3. \A i \in 0 .. m - 1 : f[i] = g[i] /\ i # m
    BY <2>1
  <2>4. ASSUME NEW i \in 0 .. m
        PROVE  f[i] = IF i = 0 THEN [tree |-> t, at |-> n] ELSE ClimbStep(f[i - 1], n)
    <3>1. CASE i = m
      <4>1. f[i] = ClimbStep(g[m - 1], n) /\ f[i - 1] = g[i - 1] /\ i # 0
        BY <1>3, <2>1, <2>3, <3>1
      <4> QED
        BY <3>1, <4>1
    <3>2. CASE i # m
      <4>1. i \in 0 .. m - 1 /\ f[i] = g[i]
        BY <2>1, <2>3, <3>2
      <4>2. g[i] = IF i = 0 THEN [tree |-> t, at |-> n] ELSE ClimbStep(g[i - 1], n)
        BY <2>2, <4>1 DEF Climbs
      <4>3. i # 0 => f[i - 1] = g[i - 1]
        BY <2>1, <2>3, <4>1
      <4> QED
        BY <4>1, <4>2, <4>3
    <3> QED
      BY <3>1, <3>2
  <2>5. f = [i \in 0 .. m |-> f[i]]
    OBVIOUS
  <2> HIDE DEF f
  <2>6. Climbs(t, n, m, f)
    BY <2>4, <2>5 DEF Climbs
  <2> QED
    BY <1>1, <2>6
<1> QED
  BY <1>2, <1>3

\* What holds all along the climb from n.
Climbed(t, n, c) ==
  /\ SetVarsAdded(t, c.tree) /\ WalksOver(t, c.tree, n)
  /\ c.at \in DOMAIN c.tree /\ Hangs(c.tree, c.at)
  /\ \A w, V : Walks(t, w, V) /\ n \in V => c.at \in V \cup (DOMAIN c.tree \ DOMAIN t)

LEMMA ClimbGoesOn ==
  ASSUME NEW t, NEW n \in DOMAIN t, NEW c, Climbed(t, n, c)
  PROVE  Climbed(t, n, ClimbStep(c, n))
<1> DEFINE s   == c.tree
           cur == c.at
           par == s[cur].parent
           u   == CopyInFront(s, par, cur, n)
<1>1. SetVarsAdded(t, s) /\ WalksOver(t, s, n) /\ cur \in DOMAIN s /\ Hangs(s, cur) /\ Whole(s)
      /\ n \in DOMAIN s
  BY DEF Climbed, SetVarsAdded
<1>2. CASE par = NoNode
  BY <1>2 DEF ClimbStep
<1>3. CASE par # NoNode
  <2>1. ClimbStep(c, n) = [tree |-> u, at |-> par]
    BY <1>3 DEF ClimbStep
  <2>2. cur # Root
    BY <1>1, <1>3 DEF Whole
  <2>3. par \in DOMAIN s /\ Hangs(s, par)
    BY <1>1, <2>2, WholeFacts
  <2>4. SetVarsAdded(s, u) /\ WalksOver(s, u, cur)
    BY <1>1, <1>3, CopiedInFront
  <2>5. ASSUME NEW w, NEW V, Walks(t, w, V), n \in V
        PROVE  /\ Walks(s, w, V \cup (DOMAIN s \ DOMAIN t))
               /\ cur \in V \cup (DOMAIN s \ DOMAIN t) /\ par \in V \cup (DOMAIN s \ DOMAIN t)
    <3>1. Walks(s, w, V \cup (DOMAIN s \ DOMAIN t)) /\ cur \in V \cup (DOMAIN s \ DOMAIN t)
      BY <1>1, <2>5 DEF WalksOver, Climbed
    <3> HIDE DEF s, cur
    <3>2. par \in V \cup (DOMAIN s \ DOMAIN t)
      BY <1>1, <2>2, <3>1 DEF Walks
    <3> QED
      BY <3>1, <3>2
  <2> HIDE DEF u, s, cur, par
  <2>6. DOMAIN t \subseteq DOMAIN s /\ DOMAIN s \subseteq DOMAIN u
    BY <1>1, <2>4 DEF SetVarsAdded
  <2>7. SetVarsAdded(t, u)
    <3>1. Whole(u) /\ DOMAIN t \subseteq DOMAIN u /\ KeepsOrder(t, u)
      BY <1>1, <2>4, <2>6, OrderKeptOn DEF SetVarsAdded
    <3>2. ASSUME NEW m \in DOMAIN t
          PROVE  SameNode(u[m], t[m]) /\ u[m].next = t[m].next /\ (Hangs(u, m) <=> Hangs(t, m))
      <4>1. SameNode(s[m], t[m]) /\ s[m].next = t[m].next /\ (Hangs(s, m) <=> Hangs(t, m))
        BY <1>1 DEF SetVarsAdded
      <4>2. m \in DOMAIN s
        BY <2>6
      <4>3. SameNode(u[m], s[m]) /\ u[m].next = s[m].next /\ (Hangs(u, m) <=> Hangs(s, m))
        BY <2>4, <4>2 DEF SetVarsAdded
      <4> QED
        BY <4>1, <4>3 DEF SameNode
    <3>3. ASSUME NEW m \in DOMAIN u \ DOMAIN t PROVE u[m].type = "setvar"
      <4>1. CASE m \in DOMAIN s
        BY <1>1, <2>4, <3>3, <4>1 DEF SetVarsAdded, SameNode
      <4>2. CASE m \notin DOMAIN s
        BY <2>4, <3>3, <4>2 DEF SetVarsAdded
      <4> QED
        BY <4>1, <4>2
    <3> QED
      BY <3>1, <3>2, <3>3 DEF SetVarsAdded
  <2>8. ASSUME NEW w, NEW V, Walks(t, w, V), n \in V
        PROVE  /\ Walks(u, w, V \cup (DOMAIN u \ DOMAIN t))
               /\ par \in V \cup (DOMAIN u \ DOMAIN t)
    <3> DEFINE X == V \cup (DOMAIN s \ DOMAIN t)
    <3>1. Walks(s, w, X) /\ cur \in X /\ par \in X
      BY <2>5, <2>8
    <3>2. Walks(u, w, X \cup (DOMAIN u \ DOMAIN s))
      BY <2>4, <3>1 DEF WalksOver
    <3>3. X \cup (DOMAIN u \ DOMAIN s) = V \cup (DOMAIN u \ DOMAIN t)
      <4>1. V \subseteq DOMAIN t
        BY <2>8 DEF Walks
      <4> QED
        BY <2>6, <4>1
    <3> HIDE DEF X
    <3> QED
      BY <3>1, <3>2, <3>3
  <2>9. par \in DOMAIN u /\ Hangs(u, par)
    BY <2>3, <2>4, <2>6 DEF SetVarsAdded
  <2>10. WalksOver(t, u, n)
    BY <2>8 DEF WalksOver
  <2>11. Climbed(t, n, [tree |-> u, at |-> par])
    BY <2>7, <2>8, <2>9, <2>10 DEF Climbed
  <2> QED
    BY <2>1, <2>11
<1> QED
  BY <1>2, <1>3

LEMMA SetVarExpanded ==
  ASSUME NEW t, Whole(t), NEW n \in DOMAIN t, Hangs(t, n)
  PROVE  SetVarsAdded(t, ExpandSetVar(t, n)) /\ WalksOver(t, ExpandSetVar(t, n), n)
<1> DEFINE k == Len(t)
           g == CHOOSE f : Climbs(t, n, k, f)
<1>0. k \in Nat
  BY HeapFacts DEF Whole
<1>1. Climbs(t, n, k, g)
  BY <1>0, ClimbExists
<1>2. ExpandSetVar(t, n) = g[k].tree
  BY DEF ExpandSetVar, Climbs, ClimbStep
<1> HIDE DEF g
<1>3. \A i \in 0 .. k : Climbed(t, n, g[i])
  <2> DEFINE W == {i \in 0 .. k : ~Climbed(t, n, g[i])}
  <2> SUFFICES ASSUME W # {} PROVE FALSE
    OBVIOUS
  <2>1. PICK i \in W : \A j \in W : i <= j
    BY LeastElement, W \in SUBSET Nat
  <2>2. g[i] = IF i = 0 THEN [tree |-> t, at |-> n] ELSE ClimbStep(g[i - 1], n)
    BY <1>1, <2>1 DEF Climbs
  <2>3. CASE i = 0
    <3>1. SetVarsAdded(t, t)
      <4>1. KeepsOrder(t, t)
        BY SameOrder DEF SameLinks
      <4> QED
        BY <4>1 DEF SetVarsAdded, SameNode
    <3>2. WalksOver(t, t, n)
      <4>1. \A V : V \cup (DOMAIN t \ DOMAIN t) = V
        OBVIOUS
      <4> QED
        BY <4>1 DEF WalksOver
    <3>3. Climbed(t, n, [tree |-> t, at |-> n])
      BY <3>1, <3>2 DEF Climbed
    <3> QED
      BY <2>1, <2>2, <2>3, <3>3
  <2>4. CASE i # 0
    <3>1. i - 1 \in 0 .. k /\ i - 1 < i
      BY <1>0, <2>1, <2>4
    <3>2. Climbed(t, n, g[i - 1])
      BY <2>1, <3>1
    <3> QED
      BY <2>1, <2>2, <2>4, <3>2, ClimbGoesOn
  <2> QED
    BY <2>3, <2>4
<1>4. Climbed(t, n, g[k])
  BY <1>0, <1>3
<1> QED
  BY <1>2, <1>4 DEF Climbed

\* removeBranches: null branches go, and a Branch without any leaves.
Pruned(t, n, u) ==
  /\ Whole(u) /\ DOMAIN u = DOMAIN t /\ u[n].branches = Bodies(t[n].branches) /\ KeepsOrder(t, u)
  /\ \A m \in DOMAIN t : /\ SameNode(u[m], t[m])
                         /\ Hangs(u, m) => Hangs(t, m)
                         /\ Hangs(t, m) /\ m # n => Hangs(u, m)
                         /\ t[m].next # n => u[m].next = t[m].next

LEMMA BranchesPruned ==
  ASSUME NEW t, Whole(t), NEW n \in DOMAIN t, Hangs(t, n), n # Root, t[n].type = "branch"
  PROVE  /\ Pruned(t, n, RemoveBranches(t, n))
         /\ \A w, V : Walks(t, w, V) /\ n \in V => Walks(RemoveBranches(t, n), w, V)
<1> DEFINE bo == Bodies(t[n].branches)
           r  == [[t[n] EXCEPT !.branches = bo] EXCEPT !.maySkip = @ \/ bo # t[n].branches]
           t2 == [t EXCEPT ![n].branches = bo, ![n].maySkip = @ \/ bo # t[n].branches]
           x  == t[n].next
           p  == t[n].parent
           u  == RemoveBranches(t, n)
<1>1. /\ IsHeap(t) /\ Len(t) \in Nat /\ t[n] \in Nodes(Len(t)) /\ DOMAIN t = 1 .. Len(t)
      /\ t \in Seq(Nodes(Len(t))) /\ t[n].branches \in Seq(0 .. Len(t))
  BY HeapFacts DEF Whole, IsHeap
<1>2. Single(t[n]) /\ Links(t, n) = LinksOf(t[n])
  BY WholeFacts, HoldsSplit
<1>3. /\ bo \in Seq(1 .. Len(t)) /\ Range(bo) = Range(t[n].branches) \ {NoNode} /\ IsInjective(bo)
  <2>1. \A i, j \in DOMAIN t[n].branches :
           t[n].branches[i] = t[n].branches[j] /\ t[n].branches[i] # NoNode => i = j
    BY <1>2 DEF Single
  <2> QED
    BY <1>1, <2>1, BodiesFacts
<1>4. bo \in Seq(0 .. Len(t))
  <2>1. 1 .. Len(t) \subseteq 0 .. Len(t)
    BY <1>1
  <2> HIDE DEF bo
  <2> QED
    BY <1>3, <2>1
<1> HIDE DEF bo
<1>5. /\ r \in Nodes(Len(t)) /\ r.type = "branch" /\ r.next = x /\ r.loop = t[n].loop
      /\ r.branches = bo /\ r.parent = p /\ SameNode(r, t[n])
  BY <1>1, <1>4 DEF Nodes, SameNode
<1>6. t2 = [t EXCEPT ![n] = r]
  BY <1>1
<1>7. /\ t2 \in Seq(Nodes(Len(t))) /\ Len(t2) = Len(t) /\ DOMAIN t2 = DOMAIN t /\ t2[n] = r
      /\ \A m \in DOMAIN t : m # n => t2[m] = t[m]
  <2> HIDE DEF t2, r
  <2> QED
    BY <1>1, <1>5, <1>6
<1>8. u = IF bo = << >> THEN UpdateParent(t2, p, n, x) ELSE t2
  BY DEF RemoveBranches, bo
<1> HIDE DEF u, t2, r, x, p
<1>9. IsHeap(t2)
  BY <1>1, <1>7 DEF IsHeap
<1>10. LinksOf(r) = LinksOf(t[n])
  BY <1>3, <1>5 DEF LinksOf, x
<1>11. Single(r)
  BY <1>2, <1>3, <1>5 DEF Single, IsInjective, x
<1>12. ASSUME NEW m \in DOMAIN t
       PROVE  /\ Links(t2, m) = Links(t, m) /\ t2[m].parent = t[m].parent
              /\ t2[m].next = t[m].next /\ SameNode(t2[m], t[m])
              /\ Single(t[m]) => Single(t2[m])
  <2>1. CASE m = n
    BY <1>5, <1>7, <1>10, <1>11, <2>1, HoldsSplit DEF x, p
  <2>2. CASE m # n
    BY <1>7, <2>2, HoldsSplit DEF SameNode
  <2> QED
    BY <2>1, <2>2
<1>13. Whole(t2) /\ \A m \in DOMAIN t : Hangs(t2, m) <=> Hangs(t, m)
  BY <1>7, <1>9, <1>12, Relabelled
<1>14. \A w, V : Walks(t, w, V) => Walks(t2, w, V)
  BY <1>7, <1>12, <1>13, SameWalks
<1>17. KeepsOrder(t, t2)
  <2>1. t[n].type = r.type /\ t[n].next = r.next /\ t[n].loop = r.loop /\ r.branches = Bodies(t[n].branches)
    BY <1>5 DEF x, bo
  <2> QED
    BY <1>1, <1>7, <2>1, BodiesOrder DEF Whole
<1>15. CASE bo # << >>
  <2>1. u = t2
    BY <1>8, <1>15
  <2>2. Pruned(t, n, u)
    BY <1>5, <1>7, <1>12, <1>13, <1>17, <2>1 DEF Pruned, bo
  <2> QED
    BY <1>14, <2>1, <2>2 DEF u
<1>16. CASE bo = << >>
  <2>1. t2[n].next = x /\ t2[n].parent = p /\ n \in DOMAIN t2 /\ Hangs(t2, n)
    BY <1>5, <1>7, <1>13
  <2>2. u = UpdateParent(t2, t2[n].parent, n, t2[n].next)
    BY <1>8, <1>16, <2>1
  <2>3. Links(t2, n) = {t2[n].next} \ {NoNode}
    <3>1. r.loop = NoNode /\ Range(r.branches) = {}
      BY <1>5, <1>11, <1>16 DEF Single, Range
    <3> QED
      BY <1>7, <3>1 DEF Links
  <2>4. Without(t2, n, u, t2[n].parent, t2[n].next)
    BY <1>13, <2>1, <2>2, <2>3, Dropped
  <2>5. ASSUME NEW w, NEW V, Walks(t, w, V), n \in V PROVE Walks(u, w, V)
    BY <1>13, <1>14, <2>1, <2>2, <2>3, <2>5, DroppedWalks
  <2>6. Whole(u) /\ DOMAIN u = DOMAIN t
    BY <1>7, <2>4 DEF Without
  <2>7. ASSUME NEW m \in DOMAIN t
        PROVE  /\ SameNode(u[m], t[m])
               /\ Hangs(u, m) => Hangs(t, m)
               /\ Hangs(t, m) /\ m # n => Hangs(u, m)
               /\ t[m].next # n => u[m].next = t[m].next
    <3>1. SameNode(u[m], t2[m]) /\ (Hangs(u, m) <=> Hangs(t2, m) /\ m # n)
      BY <1>7, <2>4 DEF Without
    <3>2. t2[m].next # n => u[m].next = t2[m].next
      BY <1>7, <2>4 DEF Without
    <3> QED
      BY <1>12, <1>13, <3>1, <3>2 DEF SameNode
  <2>8. u[n].branches = bo
    BY <1>5, <1>7, <2>4 DEF Without
  <2>10. KeepsOrder(t2, u)
    <3>1. t2[n].type # "play" /\ t2[n].branches = << >> /\ t2[n].loop = NoNode
      BY <1>5, <1>7, <1>11, <1>16 DEF Single
    <3>2. t2[n].parent \in DOMAIN t2 /\ t2[n].next # t2[n].parent
      BY <1>7, <2>4 DEF Without
    <3> QED
      BY <1>9, <2>1, <2>2, <3>1, <3>2, DroppedOrder
  <2>11. KeepsOrder(t, u)
    BY <1>17, <2>10, OrderKeptOn
  <2>9. Pruned(t, n, u)
    BY <2>6, <2>7, <2>8, <2>11 DEF Pruned, bo
  <2> QED
    BY <2>5, <2>9 DEF u
<1> QED
  BY <1>15, <1>16

----------------------------------------------------------------------------
(* What a step of moveLoadsToFront does to the tree: the load ld takes over *)
(* the plays of the load old, which leaves.                                *)

Merged(t, ld, old, u, p, x) ==
  /\ Whole(u) /\ DOMAIN u = DOMAIN t /\ p \in DOMAIN t /\ KeepsOrder(t, u)
  /\ \A m \in DOMAIN t :
        /\ u[m].type = t[m].type /\ u[m].wave = t[m].wave /\ u[m].config = t[m].config
        /\ u[m].asmId = t[m].asmId
        /\ u[m].loadRef = (IF m \in Range(t[old].play) THEN ld ELSE t[m].loadRef)
        /\ u[m].reg = (IF m \in Range(t[old].play) THEN t[ld].reg ELSE t[m].reg)
        /\ u[m].play = (IF m = ld THEN t[ld].play \o t[old].play ELSE t[m].play)
        /\ Hangs(u, m) <=> Hangs(t, m) /\ m # old
        /\ u[m].parent = (IF m = x THEN p ELSE t[m].parent)
        /\ u[m].next = (IF m = p /\ t[p].next = old THEN x ELSE t[m].next)

LEMMA TakenOver ==
  ASSUME NEW t, Whole(t), NEW ld \in DOMAIN t, NEW old \in DOMAIN t, Hangs(t, old), old # Root,
         t[old].type = "load"
  PROVE  /\ Merged(t, ld, old, TakeOver(t, ld, old), t[old].parent, t[old].next)
         /\ \A w, V : Walks(t, w, V) /\ old \in V => Walks(TakeOver(t, ld, old), w, V)
<1> DEFINE pl == t[old].play
           t1 == [t EXCEPT ![ld].var = IF @ = 0 THEN t[old].var ELSE @, ![ld].play = @ \o pl]
           t2 == [i \in DOMAIN t1 |-> IF \E k \in DOMAIN pl : pl[k] = i
                                      THEN [t1[i] EXCEPT !.loadRef = ld, !.reg = t1[ld].reg] ELSE t1[i]]
           x  == t[old].next
           p  == t[old].parent
           u  == TakeOver(t, ld, old)
           a  == [[t[ld] EXCEPT !.var = IF @ = 0 THEN t[old].var ELSE @] EXCEPT !.play = @ \o pl]
<1>1. /\ IsHeap(t) /\ Len(t) \in Nat /\ DOMAIN t = 1 .. Len(t) /\ t \in Seq(Nodes(Len(t)))
      /\ \A m \in DOMAIN t : t[m] \in Nodes(Len(t))
  BY HeapFacts DEF Whole, IsHeap
<1>2. u = UpdateParent(t2, p, old, x)
  BY DEF TakeOver
<1>3. /\ a \in Nodes(Len(t)) /\ a.type = t[ld].type /\ a.wave = t[ld].wave /\ a.config = t[ld].config
      /\ a.asmId = t[ld].asmId /\ a.loadRef = t[ld].loadRef /\ a.reg = t[ld].reg /\ a.play = t[ld].play \o pl
      /\ a.next = t[ld].next /\ a.loop = t[ld].loop /\ a.branches = t[ld].branches
      /\ a.parent = t[ld].parent
  <2>1. t[ld] \in Nodes(Len(t)) /\ t[old].var \in Nat /\ pl \in Seq(1 .. Len(t))
        /\ t[ld].play \in Seq(1 .. Len(t))
    BY <1>1 DEF Nodes
  <2>2. t[ld].play \o pl \in Seq(1 .. Len(t))
    BY <2>1
  <2> HIDE DEF pl
  <2> QED
    BY <2>1, <2>2 DEF Nodes
<1>4. t1 = [t EXCEPT ![ld] = a]
  BY <1>1
<1>5. /\ t1 \in Seq(Nodes(Len(t))) /\ Len(t1) = Len(t) /\ DOMAIN t1 = DOMAIN t /\ t1[ld] = a
      /\ \A m \in DOMAIN t : m # ld => t1[m] = t[m]
  <2> HIDE DEF t1, a
  <2> QED
    BY <1>1, <1>3, <1>4
<1> HIDE DEF t1, a, u
<1>6. ASSUME NEW m \in DOMAIN t
      PROVE  /\ t1[m] \in Nodes(Len(t)) /\ t1[m].type = t[m].type /\ t1[m].wave = t[m].wave
             /\ t1[m].asmId = t[m].asmId /\ t1[m].config = t[m].config /\ t1[m].loadRef = t[m].loadRef /\ t1[m].reg = t[m].reg
             /\ t1[m].play = (IF m = ld THEN t[ld].play \o pl ELSE t[m].play)
             /\ t1[m].next = t[m].next /\ t1[m].loop = t[m].loop /\ t1[m].branches = t[m].branches
             /\ t1[m].parent = t[m].parent
  BY <1>1, <1>3, <1>5
<1>7. DOMAIN t2 = DOMAIN t
  BY <1>5
<1>8. ASSUME NEW m \in DOMAIN t
      PROVE  /\ t2[m] \in Nodes(Len(t)) /\ t2[m].type = t[m].type /\ t2[m].wave = t[m].wave
             /\ t2[m].config = t[m].config /\ t2[m].asmId = t[m].asmId
             /\ t2[m].loadRef = (IF m \in Range(pl) THEN ld ELSE t[m].loadRef)
             /\ t2[m].reg = (IF m \in Range(pl) THEN t[ld].reg ELSE t[m].reg)
             /\ t2[m].play = (IF m = ld THEN t[ld].play \o pl ELSE t[m].play)
             /\ t2[m].next = t[m].next /\ t2[m].loop = t[m].loop /\ t2[m].branches = t[m].branches
             /\ t2[m].parent = t[m].parent
  <2>1. t1[ld].reg = t[ld].reg /\ t1[ld].reg \in Nat /\ ld \in 0 .. Len(t)
    <3>1. t1[ld].reg = t[ld].reg /\ t[ld] \in Nodes(Len(t)) /\ ld \in 0 .. Len(t)
      BY <1>1, <1>6
    <3>2. t[ld].reg \in Nat
      BY <3>1 DEF Nodes
    <3> QED
      BY <3>1, <3>2
  <2>2. m \in Range(pl) <=> \E k \in DOMAIN pl : pl[k] = m
    BY DEF Range
  <2> DEFINE z == [t1[m] EXCEPT !.loadRef = ld, !.reg = t1[ld].reg]
  <2>3. t2[m] = IF m \in Range(pl) THEN z ELSE t1[m]
    BY <1>5, <2>2
  <2> HIDE DEF t2, pl
  <2>4. CASE m \in Range(pl)
    <3>1. /\ z \in Nodes(Len(t)) /\ z.type = t1[m].type /\ z.wave = t1[m].wave /\ z.config = t1[m].config
          /\ z.asmId = t1[m].asmId /\ z.loadRef = ld /\ z.reg = t1[ld].reg /\ z.play = t1[m].play /\ z.next = t1[m].next
          /\ z.loop = t1[m].loop /\ z.branches = t1[m].branches /\ z.parent = t1[m].parent
      <4>1. t1[m] \in Nodes(Len(t))
        BY <1>6
      <4> QED
        BY <2>1, <4>1 DEF Nodes
    <3> HIDE DEF z
    <3> QED
      BY <1>6, <2>1, <2>3, <2>4, <3>1
  <2>5. CASE m \notin Range(pl)
    BY <1>6, <2>3, <2>5
  <2> QED
    BY <2>4, <2>5
<1> HIDE DEF t2
<1>9. IsHeap(t2) /\ Len(t2) = Len(t)
  <2>1. t2 \in [1 .. Len(t) -> Nodes(Len(t))]
    <3>1. t2 = [m \in 1 .. Len(t) |-> t2[m]]
      BY <1>1, <1>5, <1>7 DEF t2
    <3> QED
      BY <1>1, <1>8, <3>1
  <2>2. t2 \in Seq(Nodes(Len(t))) /\ Len(t2) = Len(t)
    BY <1>1, <2>1
  <2> QED
    BY <1>1, <1>7, <2>2 DEF IsHeap
<1>10. ASSUME NEW m \in DOMAIN t
       PROVE  /\ Links(t2, m) = Links(t, m) /\ t2[m].parent = t[m].parent
              /\ Single(t[m]) => Single(t2[m])
  BY <1>8 DEF Links, Single
<1>11. Whole(t2) /\ \A m \in DOMAIN t : Hangs(t2, m) <=> Hangs(t, m)
  BY <1>7, <1>9, <1>10, Relabelled
<1>12. Links(t2, old) = {t2[old].next} \ {NoNode}
  <2>1. Links(t, old) = LinksOf(t[old]) /\ Single(t[old])
    BY WholeFacts, HoldsSplit
  <2>2. t[old].loop = NoNode /\ Range(t[old].branches) = {}
    BY <2>1 DEF Single, Range
  <2> QED
    BY <1>8, <1>10, <2>1, <2>2 DEF LinksOf
<1>13. t2[old].parent = p /\ t2[old].next = x /\ old \in DOMAIN t2 /\ Hangs(t2, old)
  BY <1>7, <1>8, <1>11
<1>14. Without(t2, old, u, p, x)
  BY <1>2, <1>11, <1>12, <1>13, Dropped
<1>19. KeepsOrder(t, u)
  <2>1. KeepsOrder(t, t2)
    BY <1>7, <1>8, SameOrder DEF SameLinks
  <2>2. t2[old].type # "play" /\ t2[old].branches = << >> /\ t2[old].loop = NoNode
    <3>1. Single(t[old])
      BY WholeFacts
    <3> QED
      BY <1>8, <3>1 DEF Single
  <2>3. t2[old].parent \in DOMAIN t2 /\ t2[old].next # t2[old].parent
    BY <1>7, <1>13, <1>14 DEF Without
  <2>4. KeepsOrder(t2, u)
    BY <1>2, <1>9, <1>13, <2>2, <2>3, DroppedOrder
  <2> QED
    BY <2>1, <2>4, OrderKeptOn
<1>15. ASSUME NEW w, NEW V, Walks(t, w, V), old \in V PROVE Walks(u, w, V)
  <2>1. Walks(t2, w, V)
    BY <1>7, <1>10, <1>11, <1>15, SameWalks
  <2> QED
    BY <1>2, <1>11, <1>12, <1>13, <1>15, <2>1, DroppedWalks
<1> HIDE DEF p, x
<1>16. Whole(u) /\ DOMAIN u = DOMAIN t /\ p \in DOMAIN t
  BY <1>7, <1>14 DEF Without
<1>17. ASSUME NEW m \in DOMAIN t
       PROVE  /\ u[m].type = t[m].type /\ u[m].wave = t[m].wave /\ u[m].config = t[m].config
              /\ u[m].asmId = t[m].asmId
              /\ u[m].loadRef = (IF m \in Range(pl) THEN ld ELSE t[m].loadRef)
              /\ u[m].reg = (IF m \in Range(pl) THEN t[ld].reg ELSE t[m].reg)
              /\ u[m].play = (IF m = ld THEN t[ld].play \o pl ELSE t[m].play)
              /\ Hangs(u, m) <=> Hangs(t, m) /\ m # old
              /\ u[m].parent = (IF m = x THEN p ELSE t[m].parent)
              /\ u[m].next = (IF m = p /\ t[p].next = old THEN x ELSE t[m].next)
  <2> HIDE DEF pl
  <2>1. SameNode(u[m], t2[m]) /\ u[m].parent = (IF m = x THEN p ELSE t2[m].parent)
        /\ (Hangs(u, m) <=> Hangs(t2, m) /\ m # old)
    BY <1>7, <1>14 DEF Without
  <2>2. u[m].next = (IF m = p /\ t2[p].next = old THEN x ELSE t2[m].next)
    <3>1. CASE m = p
      BY <1>14, <3>1 DEF Without
    <3>2. CASE m # p
      BY <1>7, <1>14, <3>2 DEF Without
    <3> QED
      BY <3>1, <3>2
  <2> QED
    BY <1>8, <1>11, <1>16, <2>1, <2>2 DEF SameNode
<1>18. Merged(t, ld, old, u, p, x)
  BY <1>16, <1>17, <1>19 DEF Merged
<1> QED
  BY <1>15, <1>18 DEF u, p, x

----------------------------------------------------------------------------
(* While the tree is prepared.                                             *)

\* A play that has a load is no dummy and is served by it, in the tree; the
\* plays a load of the tree lists are those it serves.
Served(t) ==
  \A m \in DOMAIN t : t[m].type = "play" /\ t[m].loadRef # NoNode =>
      /\ ~t[m].config.dummy
      /\ t[m].loadRef \in DOMAIN t /\ t[t[m].loadRef].type = "load" /\ Hangs(t, t[m].loadRef)
      /\ t[t[m].loadRef].wave = t[m].wave /\ t[t[m].loadRef].reg = t[m].reg
      /\ m \in Range(t[t[m].loadRef].play)
Serves(t) ==
  \A l \in DOMAIN t : t[l].type = "load" /\ Hangs(t, l) =>
      \A m \in Range(t[l].play) : m \in DOMAIN t /\ t[m].type = "play" /\ t[m].loadRef = l

\* No play is made or leaves, none has its configuration changed, and the nodes
\* of the program stay what they are.
Stays(s, t, m) == /\ m \in DOMAIN t /\ t[m].type = s[m].type /\ t[m].wave = s[m].wave
                  /\ t[m].asmId = s[m].asmId
                  /\ s[m].type = "play" => Hangs(t, m)
FromSource(s, t) ==
  /\ \A m \in DOMAIN t : t[m].type = "play" => m \in DOMAIN s /\ t[m].config = s[m].config
  /\ \A m \in DOMAIN s : Stays(s, t, m)

\* A load stands in front of a play it serves, and its wave has been collected.
Ahead(t, U) ==
  \A l \in DOMAIN t : t[l].type = "load" =>
      /\ l # Root => Hangs(t, l) /\ t[l].next \in Range(t[l].play)
      /\ t[l].wave = 0 \/ t[l].wave \in Range(U)

HaveLoads(t, V) ==
  \A m \in V : t[m].type = "play" /\ ~t[m].config.dummy => t[m].loadRef # NoNode

Waves(U) == U \in Seq(Nat) /\ IsInjective(U) /\ 0 \notin Range(U)

Linking(s, t, w, V, U) ==
  /\ Whole(t) /\ Walks(t, w, V) /\ Root \in V \cup Range(w)
  /\ t[Root].type = "load" /\ t[Root].wave = 0
  /\ Served(t) /\ Serves(t) /\ FromSource(s, t) /\ Ahead(t, U) /\ Waves(U)

LEMMA LinkingVisit ==
  ASSUME NEW s, NEW t, NEW w, NEW V, NEW U, Linking(s, t, w, V, U), w # << >>
  PROVE  /\ Top(w) \in DOMAIN t /\ Hangs(t, Top(w)) /\ Top(w) \notin V
         /\ Linking(s, t, Spread(t, Below(w), Top(w)), V \cup {Top(w)}, U)
         /\ t[Top(w)].type \notin {"loop", "branch"} =>
               Spread(t, Below(w), Top(w)) = PushNode(Below(w), t[Top(w)].next)
         /\ t[Top(w)].type = "loop" =>
               Spread(t, Below(w), Top(w)) = PushNode(PushNode(Below(w), t[Top(w)].next), t[Top(w)].loop)
         /\ t[Top(w)].type = "branch" =>
               Spread(t, Below(w), Top(w)) = PushNode(Below(w), t[Top(w)].next) \o Bodies(t[Top(w)].branches)
<1> DEFINE n == Top(w)
           b == Below(w)
<1>1. Whole(t) /\ Walks(t, w, V) /\ Root \in V \cup Range(w)
  BY DEF Linking
<1>2. /\ n \in DOMAIN t /\ Hangs(t, n) /\ n \notin V /\ b \in Seq(DOMAIN t) /\ IsInjective(b)
      /\ Range(b) \cap Links(t, n) = {} /\ Walks(t, Spread(t, b, n), V \cup {n})
  BY <1>1, Visited
<1>3. Range(w) = Range(b) \cup {n}
  BY <1>1, TopFacts DEF Walks
<1> HIDE DEF n, b
<1>4. /\ Range(Spread(t, b, n)) = Range(b) \cup Links(t, n)
      /\ t[n].type # "loop" => Spread(t, b, n) = PushNode(b, t[n].next) \o Bodies(t[n].branches)
      /\ t[n].type # "branch" => Spread(t, b, n) = PushNode(PushNode(b, t[n].next), t[n].loop)
      /\ t[n].type \notin {"loop", "branch"} => Spread(t, b, n) = PushNode(b, t[n].next)
  BY <1>1, <1>2, SpreadFacts
<1>5. Root \in (V \cup {n}) \cup Range(Spread(t, b, n))
  BY <1>1, <1>3, <1>4
<1>6. Linking(s, t, Spread(t, b, n), V \cup {n}, U)
  BY <1>2, <1>5 DEF Linking
<1> QED
  BY <1>2, <1>4, <1>6 DEF n, b

\* A play gets its load,
LEMMA LinkingPlay ==
  ASSUME NEW s, NEW t, NEW w, NEW V, NEW U, Linking(s, t, w, V, U),
         NEW n \in V, Hangs(t, n), t[n].type = "play", t[n].loadRef = NoNode, ~t[n].config.dummy,
         NEW U2, Waves(U2), Range(U) \subseteq Range(U2), t[n].wave = 0 \/ t[n].wave \in Range(U2)
  PROVE  /\ Linking(s, LinkLoad(t, n), w, V \cup {Fresh(t)}, U2)
         /\ HaveLoads(t, V \ {n}) => HaveLoads(LinkLoad(t, n), V \cup {Fresh(t)})
<1> DEFINE u  == LinkLoad(t, n)
           ld == Fresh(t)
<1>1. /\ Whole(t) /\ Walks(t, w, V) /\ n \in DOMAIN t /\ n # Root /\ Root \in DOMAIN t
      /\ Root \in V \cup Range(w) /\ t[Root].type = "load" /\ t[Root].wave = 0
  <2>1. V \subseteq DOMAIN t /\ Root \in DOMAIN t
    BY HeapFacts DEF Linking, Walks, Whole
  <2> QED
    BY <2>1 DEF Linking
<1>2. Loaded(t, n, u, ld) /\ Walks(u, w, V \cup {ld})
  BY <1>1, LoadLinked
<1> HIDE DEF u, ld
<1>3. /\ Whole(u) /\ ld \notin DOMAIN t /\ DOMAIN u = DOMAIN t \cup {ld} /\ n # ld
      /\ u[ld].type = "load" /\ u[ld].wave = t[n].wave /\ u[ld].reg = ld /\ u[ld].play = <<n>>
      /\ u[ld].next = n /\ Hangs(u, ld)
      /\ u[n].type = "play" /\ u[n].wave = t[n].wave /\ u[n].config = t[n].config
      /\ u[n].asmId = t[n].asmId /\ u[n].play = t[n].play /\ u[n].loadRef = ld /\ u[n].reg = ld
  BY <1>2 DEF Loaded
<1>4. \A m \in DOMAIN t : /\ m # n => SameNode(u[m], t[m])
                          /\ Hangs(u, m) <=> Hangs(t, m)
                          /\ t[m].next # n => u[m].next = t[m].next
  BY <1>2 DEF Loaded
<1>5. Range(<<n>>) = {n}
  BY DEF Range
<1>6. ld # NoNode
  <2>1. DOMAIN u = 1 .. Len(u) /\ Len(u) \in Nat
    BY <1>3, HeapFacts DEF Whole
  <2> QED
    BY <1>3, <2>1 DEF NoNode
<1>7. Served(u)
  <2>1. ASSUME NEW m \in DOMAIN t, m # n, t[m].type = "play", t[m].loadRef # NoNode
        PROVE  /\ ~u[m].config.dummy
               /\ u[m].loadRef \in DOMAIN u /\ u[u[m].loadRef].type = "load" /\ Hangs(u, u[m].loadRef)
               /\ u[u[m].loadRef].wave = u[m].wave /\ u[u[m].loadRef].reg = u[m].reg
               /\ m \in Range(u[u[m].loadRef].play)
    <3> DEFINE l == t[m].loadRef
    <3>1. /\ l \in DOMAIN t /\ t[l].type = "load" /\ Hangs(t, l) /\ t[l].wave = t[m].wave
          /\ t[l].reg = t[m].reg /\ m \in Range(t[l].play) /\ ~t[m].config.dummy
      BY <2>1 DEF Linking, Served
    <3> HIDE DEF l
    <3>2. l # n /\ SameNode(u[l], t[l]) /\ SameNode(u[m], t[m]) /\ Hangs(u, l)
      BY <1>4, <2>1, <3>1
    <3> QED
      BY <1>3, <3>1, <3>2 DEF SameNode, l
  <2>2. \A m \in DOMAIN u : u[m].type = "play" => m \in DOMAIN t /\ t[m].type = "play"
                                                 /\ (m # n => u[m].loadRef = t[m].loadRef)
    BY <1>3, <1>4 DEF SameNode
  <2>3. /\ ~u[n].config.dummy
        /\ u[n].loadRef \in DOMAIN u /\ u[u[n].loadRef].type = "load" /\ Hangs(u, u[n].loadRef)
        /\ u[u[n].loadRef].wave = u[n].wave /\ u[u[n].loadRef].reg = u[n].reg
        /\ n \in Range(u[u[n].loadRef].play)
    BY <1>3, <1>5
  <2>4. ASSUME NEW m \in DOMAIN u, u[m].type = "play", u[m].loadRef # NoNode
        PROVE  /\ ~u[m].config.dummy
               /\ u[m].loadRef \in DOMAIN u /\ u[u[m].loadRef].type = "load" /\ Hangs(u, u[m].loadRef)
               /\ u[u[m].loadRef].wave = u[m].wave /\ u[u[m].loadRef].reg = u[m].reg
               /\ m \in Range(u[u[m].loadRef].play)
    <3>1. CASE m = n
      BY <2>3, <3>1
    <3>2. CASE m # n
      BY <2>1, <2>2, <2>4, <3>2
    <3> QED
      BY <3>1, <3>2
  <2> QED
    BY <2>4 DEF Served
<1>8. \A l \in DOMAIN t : t[l].type = "load" /\ Hangs(t, l) => n \notin Range(t[l].play)
  <2> SUFFICES ASSUME NEW l \in DOMAIN t, t[l].type = "load", Hangs(t, l), n \in Range(t[l].play)
               PROVE  FALSE
    OBVIOUS
  <2>1. t[n].loadRef = l
    BY DEF Linking, Serves
  <2>2. l # NoNode
    BY <1>1, HeapFacts DEF Whole, NoNode
  <2> QED
    BY <2>1, <2>2
<1>9. Serves(u)
  <2>1. ASSUME NEW l \in DOMAIN u, u[l].type = "load", Hangs(u, l), NEW m \in Range(u[l].play)
        PROVE  m \in DOMAIN u /\ u[m].type = "play" /\ u[m].loadRef = l
    <3>1. CASE l = ld
      BY <1>1, <1>3, <1>5, <2>1, <3>1
    <3>2. CASE l # ld
      <4>1. l \in DOMAIN t /\ l # n
        BY <1>3, <2>1, <3>2
      <4>2. t[l].type = "load" /\ Hangs(t, l) /\ m \in Range(t[l].play)
        BY <1>4, <2>1, <4>1 DEF SameNode
      <4>3. m \in DOMAIN t /\ t[m].type = "play" /\ t[m].loadRef = l /\ m # n
        BY <1>8, <4>1, <4>2 DEF Linking, Serves
      <4> QED
        BY <1>3, <1>4, <4>3 DEF SameNode
    <3> QED
      BY <3>1, <3>2
  <2> QED
    BY <2>1 DEF Serves
<1>10. FromSource(s, u)
  <2>1. FromSource(s, t)
    BY DEF Linking
  <2>2. \A m \in DOMAIN u : u[m].type = "play" => m \in DOMAIN s /\ u[m].config = s[m].config
    BY <1>1, <1>3, <1>4, <2>1 DEF FromSource, SameNode
  <2>3. \A m \in DOMAIN s : Stays(s, u, m)
    BY <1>1, <1>3, <1>4, <2>1 DEF FromSource, SameNode, Stays
  <2> QED
    BY <2>2, <2>3 DEF FromSource
<1>11. Ahead(u, U2)
  <2>0. Ahead(t, U)
    BY DEF Linking
  <2>1. ASSUME NEW l \in DOMAIN u, u[l].type = "load"
        PROVE  /\ l # Root => Hangs(u, l) /\ u[l].next \in Range(u[l].play)
               /\ u[l].wave = 0 \/ u[l].wave \in Range(U2)
    <3>1. CASE l = ld
      BY <1>3, <1>5, <3>1
    <3>2. CASE l # ld
      <4>1. l \in DOMAIN t /\ l # n /\ SameNode(u[l], t[l])
        BY <1>3, <1>4, <2>1, <3>2
      <4>2. t[l].type = "load" /\ (t[l].wave = 0 \/ t[l].wave \in Range(U))
        BY <2>0, <2>1, <4>1 DEF Ahead, SameNode
      <4>3. l # Root => Hangs(t, l) /\ t[l].next \in Range(t[l].play) /\ t[l].next # n
        BY <1>8, <2>0, <4>1, <4>2 DEF Ahead
      <4> QED
        BY <1>4, <4>1, <4>2, <4>3 DEF SameNode
    <3> QED
      BY <3>1, <3>2
  <2> QED
    BY <2>1 DEF Ahead
<1>12. u[Root].type = "load" /\ u[Root].wave = 0
  BY <1>1, <1>4 DEF SameNode
<1>13. Linking(s, u, w, V \cup {ld}, U2)
  BY <1>1, <1>2, <1>3, <1>7, <1>9, <1>10, <1>11, <1>12 DEF Linking
<1>14. ASSUME HaveLoads(t, V \ {n}) PROVE HaveLoads(u, V \cup {ld})
  <2>1. V \subseteq DOMAIN t
    BY <1>1 DEF Walks
  <2> QED
    BY <1>3, <1>4, <1>6, <1>14, <2>1 DEF HaveLoads, SameNode
<1> QED
  BY <1>13, <1>14 DEF u, ld

\* and a step that makes no load and takes none away leaves the loads alone.
LEMMA LinkingKept ==
  ASSUME NEW s, NEW t, NEW w, NEW V, NEW U, Linking(s, t, w, V, U),
         NEW u, Whole(u), DOMAIN t \subseteq DOMAIN u,
         \A m \in DOMAIN t : /\ SameNode(u[m], t[m])
                             /\ Hangs(u, m) => Hangs(t, m)
                             /\ t[m].type = "play" => (Hangs(t, m) => Hangs(u, m))
                             /\ t[m].type = "load" => /\ Hangs(t, m) => Hangs(u, m)
                                                      /\ m # Root => u[m].next = t[m].next,
         \A m \in DOMAIN u \ DOMAIN t : u[m].type = "setvar",
         NEW V2, V \subseteq V2, V2 \subseteq V \cup (DOMAIN u \ DOMAIN t), Walks(u, w, V2)
  PROVE  /\ Linking(s, u, w, V2, U)
         /\ HaveLoads(t, V) => HaveLoads(u, V2)
<1>1. /\ Whole(t) /\ Walks(t, w, V) /\ Root \in DOMAIN t
      /\ Root \in V \cup Range(w) /\ t[Root].type = "load" /\ t[Root].wave = 0
  <2>1. Root \in DOMAIN t
    BY HeapFacts DEF Linking, Whole
  <2> QED
    BY <2>1 DEF Linking
<1>2. /\ Served(t) /\ Serves(t) /\ FromSource(s, t) /\ Ahead(t, U) /\ Waves(U)
  BY DEF Linking
<1>3. \A m \in DOMAIN u : u[m].type # "setvar" => m \in DOMAIN t
  OBVIOUS
<1>4. Served(u)
  <2> SUFFICES ASSUME NEW m \in DOMAIN u, u[m].type = "play", u[m].loadRef # NoNode
               PROVE  /\ ~u[m].config.dummy
                      /\ u[m].loadRef \in DOMAIN u /\ u[u[m].loadRef].type = "load"
                      /\ Hangs(u, u[m].loadRef)
                      /\ u[u[m].loadRef].wave = u[m].wave /\ u[u[m].loadRef].reg = u[m].reg
                      /\ m \in Range(u[u[m].loadRef].play)
    BY DEF Served
  <2>1. m \in DOMAIN t /\ t[m].type = "play" /\ t[m].loadRef = u[m].loadRef /\ t[m].loadRef # NoNode
        /\ t[m].wave = u[m].wave /\ t[m].reg = u[m].reg
    BY <1>3 DEF SameNode
  <2> DEFINE l == t[m].loadRef
  <2>2. /\ l \in DOMAIN t /\ t[l].type = "load" /\ Hangs(t, l) /\ t[l].wave = t[m].wave
        /\ t[l].reg = t[m].reg /\ m \in Range(t[l].play) /\ ~t[m].config.dummy
    BY <1>2, <2>1 DEF Served
  <2> HIDE DEF l
  <2>3. SameNode(u[l], t[l]) /\ Hangs(u, l) /\ l \in DOMAIN u
    BY <2>2
  <2> QED
    BY <2>1, <2>2, <2>3 DEF SameNode, l
<1>5. Serves(u)
  <2> SUFFICES ASSUME NEW l \in DOMAIN u, u[l].type = "load", Hangs(u, l), NEW m \in Range(u[l].play)
               PROVE  m \in DOMAIN u /\ u[m].type = "play" /\ u[m].loadRef = l
    BY DEF Serves
  <2>1. l \in DOMAIN t
    BY <1>3
  <2>2. t[l].type = "load" /\ Hangs(t, l) /\ m \in Range(t[l].play)
    BY <2>1 DEF SameNode
  <2>3. m \in DOMAIN t /\ t[m].type = "play" /\ t[m].loadRef = l
    BY <1>2, <2>1, <2>2 DEF Serves
  <2> QED
    BY <2>3 DEF SameNode
<1>6. FromSource(s, u)
  <2>1. \A m \in DOMAIN u : u[m].type = "play" => m \in DOMAIN s /\ u[m].config = s[m].config
    BY <1>2, <1>3 DEF FromSource, SameNode
  <2>2. \A m \in DOMAIN s : Stays(s, u, m)
    BY <1>2 DEF FromSource, SameNode, Stays
  <2> QED
    BY <2>1, <2>2 DEF FromSource
<1>7. Ahead(u, U)
  <2> SUFFICES ASSUME NEW l \in DOMAIN u, u[l].type = "load"
               PROVE  /\ l # Root => Hangs(u, l) /\ u[l].next \in Range(u[l].play)
                      /\ u[l].wave = 0 \/ u[l].wave \in Range(U)
    BY DEF Ahead
  <2>1. l \in DOMAIN t /\ SameNode(u[l], t[l])
    BY <1>3
  <2>2. t[l].type = "load" /\ (t[l].wave = 0 \/ t[l].wave \in Range(U))
    BY <1>2, <2>1 DEF Ahead, SameNode
  <2>3. l # Root => Hangs(t, l) /\ t[l].next \in Range(t[l].play)
    BY <1>2, <2>1, <2>2 DEF Ahead
  <2> QED
    BY <2>1, <2>2, <2>3 DEF SameNode
<1>8. u[Root].type = "load" /\ u[Root].wave = 0
  BY <1>1 DEF SameNode
<1>9. ASSUME HaveLoads(t, V) PROVE HaveLoads(u, V2)
  <2>1. V \subseteq DOMAIN t
    BY <1>1 DEF Walks
  <2>2. ASSUME NEW m \in V2, u[m].type = "play" PROVE m \in V
    BY <2>2
  <2> QED
    BY <1>9, <2>1, <2>2 DEF HaveLoads, SameNode
<1>10. Linking(s, u, w, V2, U)
  BY <1>1, <1>2, <1>4, <1>5, <1>6, <1>7, <1>8 DEF Linking
<1> QED
  BY <1>9, <1>10

LEMMA LinkingBranch ==
  ASSUME NEW s, NEW t, NEW w, NEW V, NEW U, Linking(s, t, w, V, U),
         NEW n \in V, Hangs(t, n), t[n].type = "branch"
  PROVE  /\ Linking(s, RemoveBranches(t, n), w, V, U)
         /\ RemoveBranches(t, n)[n].branches = Bodies(t[n].branches)
         /\ HaveLoads(t, V) => HaveLoads(RemoveBranches(t, n), V)
<1> DEFINE u == RemoveBranches(t, n)
<1>1. /\ Whole(t) /\ Walks(t, w, V) /\ n \in DOMAIN t /\ n # Root
  <2>1. V \subseteq DOMAIN t
    BY DEF Linking, Walks
  <2> QED
    BY <2>1 DEF Linking
<1>2. Pruned(t, n, u) /\ Walks(u, w, V)
  BY <1>1, BranchesPruned
<1> HIDE DEF u
<1>3. /\ Whole(u) /\ DOMAIN u = DOMAIN t /\ u[n].branches = Bodies(t[n].branches)
      /\ \A m \in DOMAIN t : /\ SameNode(u[m], t[m])
                             /\ Hangs(u, m) => Hangs(t, m)
                             /\ Hangs(t, m) /\ m # n => Hangs(u, m)
                             /\ t[m].next # n => u[m].next = t[m].next
  BY <1>2 DEF Pruned
<1>4. ASSUME NEW m \in DOMAIN t, t[m].type = "load", m # Root PROVE t[m].next # n
  <2>1. Hangs(t, m) /\ t[m].next \in Range(t[m].play)
    BY <1>4 DEF Linking, Ahead
  <2>2. t[t[m].next].type = "play"
    BY <1>4, <2>1 DEF Linking, Serves
  <2> QED
    BY <2>2
<1>5. ASSUME NEW m \in DOMAIN t
      PROVE  /\ SameNode(u[m], t[m])
             /\ Hangs(u, m) => Hangs(t, m)
             /\ t[m].type = "play" => (Hangs(t, m) => Hangs(u, m))
             /\ t[m].type = "load" => /\ Hangs(t, m) => Hangs(u, m)
                                      /\ m # Root => u[m].next = t[m].next
  BY <1>3, <1>4
<1>6. \A m \in DOMAIN u \ DOMAIN t : u[m].type = "setvar"
  BY <1>3
<1>7. Linking(s, u, w, V, U) /\ (HaveLoads(t, V) => HaveLoads(u, V))
  <2>1. DOMAIN t \subseteq DOMAIN u /\ V \subseteq V /\ V \subseteq V \cup (DOMAIN u \ DOMAIN t)
    BY <1>3
  <2> QED
    BY <1>2, <1>3, <1>5, <1>6, <2>1, LinkingKept
<1> QED
  BY <1>3, <1>7 DEF u

LEMMA LinkingSetVar ==
  ASSUME NEW s, NEW t, NEW w, NEW V, NEW U, Linking(s, t, w, V, U), NEW n \in V, Hangs(t, n)
  PROVE  \E V2 : /\ Linking(s, ExpandSetVar(t, n), w, V2, U)
                 /\ HaveLoads(t, V) => HaveLoads(ExpandSetVar(t, n), V2)
<1> DEFINE u  == ExpandSetVar(t, n)
           V2 == V \cup (DOMAIN u \ DOMAIN t)
<1>1. /\ Whole(t) /\ Walks(t, w, V) /\ n \in DOMAIN t
  <2>1. V \subseteq DOMAIN t
    BY DEF Linking, Walks
  <2> QED
    BY <2>1 DEF Linking
<1>2. SetVarsAdded(t, u) /\ WalksOver(t, u, n)
  BY <1>1, SetVarExpanded
<1> HIDE DEF u
<1>3. Walks(u, w, V2) /\ V \subseteq V2 /\ V2 \subseteq V \cup (DOMAIN u \ DOMAIN t)
  BY <1>1, <1>2 DEF WalksOver
<1> HIDE DEF V2
<1>4. /\ Whole(u) /\ DOMAIN t \subseteq DOMAIN u
      /\ \A m \in DOMAIN u \ DOMAIN t : u[m].type = "setvar"
  BY <1>2 DEF SetVarsAdded
<1>5. ASSUME NEW m \in DOMAIN t
      PROVE  /\ SameNode(u[m], t[m])
             /\ Hangs(u, m) => Hangs(t, m)
             /\ t[m].type = "play" => (Hangs(t, m) => Hangs(u, m))
             /\ t[m].type = "load" => /\ Hangs(t, m) => Hangs(u, m)
                                      /\ m # Root => u[m].next = t[m].next
  BY <1>2 DEF SetVarsAdded
<1>6. Linking(s, u, w, V2, U) /\ (HaveLoads(t, V) => HaveLoads(u, V2))
  BY <1>3, <1>4, <1>5, LinkingKept
<1> QED
  BY <1>6 DEF u

LEMMA CollectedFacts ==
  ASSUME Waves(used), NEW n, h[n].wave \in Nat
  PROVE  /\ Waves(Collected(n)) /\ Range(used) \subseteq Range(Collected(n))
         /\ h[n].wave = 0 \/ h[n].wave \in Range(Collected(n))
<1> DEFINE v == h[n].wave
<1>1. CASE v = 0 \/ v \in Range(used)
  BY <1>1 DEF Collected
<1>2. CASE ~(v = 0 \/ v \in Range(used))
  <2>1. Collected(n) = Append(used, v)
    BY <1>2 DEF Collected
  <2> HIDE DEF v
  <2>2. /\ Append(used, v) \in Seq(Nat) /\ Range(Append(used, v)) = Range(used) \cup {v}
        /\ IsInjective(Append(used, v))
    <3>1. v \in Nat /\ used \in Seq(Nat) /\ IsInjective(used) /\ v \notin Range(used)
      BY <1>2 DEF Waves, v
    <3> QED
      BY <3>1, AppendFacts
  <2> QED
    BY <1>2, <2>1, <2>2 DEF Waves, v
<1> QED
  BY <1>1, <1>2

\* A round of prepareTree.
LEMMA PrepareRound ==
  ASSUME NEW V, Linking(src, h, work, V, used), HaveLoads(h, V), PrepareTree
  PROVE  \E V2 : Linking(src, h', work', V2, used') /\ HaveLoads(h', V2)
<1> DEFINE n  == Top(work)
           b  == Below(work)
           V1 == V \cup {n}
           w1 == Spread(h, b, n)
           st == PushNode(b, h[n].next)
<1>0. work # << >> /\ src' = src
  BY DEF PrepareTree
<1>1. /\ n \in DOMAIN h /\ Hangs(h, n) /\ n \notin V /\ Linking(src, h, w1, V1, used)
      /\ h[n].type \notin {"loop", "branch"} => w1 = st
      /\ h[n].type = "loop" => w1 = PushNode(st, h[n].loop)
      /\ h[n].type = "branch" => w1 = st \o Bodies(h[n].branches)
  BY <1>0, LinkingVisit
<1>2. CASE h[n].type = "play"
  <2>1. h' = LinkLoad(h, n) /\ work' = st /\ used' = IF h[n].config.dummy THEN used ELSE Collected(n)
    BY <1>2 DEF PrepareTree
  <2>2. h[n].wave \in Nat
    <3>1. h[n] \in Nodes(Len(h))
      BY <1>1, HeapFacts DEF Linking, Whole
    <3> QED
      BY <3>1 DEF Nodes
  <2>3. /\ Waves(Collected(n)) /\ Range(used) \subseteq Range(Collected(n))
        /\ h[n].wave = 0 \/ h[n].wave \in Range(Collected(n))
    BY <2>2, CollectedFacts DEF Linking
  <2>4. HaveLoads(h, V1 \ {n}) /\ n \in V1 /\ w1 = st
    BY <1>1, <1>2 DEF HaveLoads
  <2> HIDE DEF n, b, V1, w1, st
  <2>5. CASE h[n].config.dummy
    <3>1. h' = h /\ used' = used
      BY <2>1, <2>5 DEF LinkLoad
    <3>2. HaveLoads(h, V1)
      BY <2>4, <2>5 DEF HaveLoads
    <3> QED
      BY <1>1, <2>1, <2>4, <3>1, <3>2
  <2>6. CASE ~h[n].config.dummy /\ h[n].loadRef = NoNode
    <3>1. /\ Linking(src, LinkLoad(h, n), w1, V1 \cup {Fresh(h)}, Collected(n))
          /\ HaveLoads(LinkLoad(h, n), V1 \cup {Fresh(h)})
      BY <1>1, <1>2, <2>3, <2>4, <2>6, LinkingPlay
    <3> QED
      BY <2>1, <2>4, <2>6, <3>1
  <2>7. CASE ~h[n].config.dummy /\ h[n].loadRef # NoNode
    <3>1. h' = h /\ used' = Collected(n)
      BY <2>1, <2>7 DEF LinkLoad
    <3>2. HaveLoads(h, V1)
      BY <2>4, <2>7 DEF HaveLoads
    <3>3. Linking(src, h, w1, V1, Collected(n))
      BY <1>1, <2>3 DEF Linking, Ahead
    <3> QED
      BY <2>1, <2>4, <3>1, <3>2, <3>3
  <2> QED
    BY <2>5, <2>6, <2>7
<1>3. ASSUME h[n].type # "play" PROVE HaveLoads(h, V1)
  BY <1>3 DEF HaveLoads
<1>4. CASE h[n].type = "branch"
  <2>1. h' = RemoveBranches(h, n) /\ work' = st \o h'[n].branches /\ used' = used
    BY <1>4 DEF PrepareTree
  <2>2. n \in V1 /\ HaveLoads(h, V1) /\ w1 = st \o Bodies(h[n].branches)
    BY <1>1, <1>3, <1>4
  <2> HIDE DEF n, V1, w1, st
  <2>3. /\ Linking(src, RemoveBranches(h, n), w1, V1, used)
        /\ RemoveBranches(h, n)[n].branches = Bodies(h[n].branches)
        /\ HaveLoads(RemoveBranches(h, n), V1)
    BY <1>1, <1>4, <2>2, LinkingBranch
  <2> QED
    BY <2>1, <2>2, <2>3
<1>5. CASE h[n].type = "loop"
  <2>1. h' = h /\ work' = w1 /\ used' = used
    BY <1>1, <1>5 DEF PrepareTree
  <2> QED
    BY <1>1, <1>3, <1>5, <2>1
<1>6. CASE h[n].type = "setvar"
  <2>1. h' = ExpandSetVar(h, n) /\ work' = st /\ used' = used
    BY <1>6 DEF PrepareTree
  <2>2. n \in V1 /\ HaveLoads(h, V1) /\ w1 = st
    BY <1>1, <1>3, <1>6
  <2> HIDE DEF n, V1, w1, st
  <2> QED
    BY <1>1, <2>1, <2>2, LinkingSetVar
<1>7. CASE h[n].type \notin {"play", "branch", "loop", "setvar"}
  <2>1. h' = h /\ work' = st /\ used' = used
    BY <1>7 DEF PrepareTree
  <2> QED
    BY <1>1, <1>3, <1>7, <2>1
<1> QED
  BY <1>2, <1>4, <1>5, <1>6, <1>7

----------------------------------------------------------------------------
(* While the loads are moved.                                              *)

\* The chain at the front of the program: loads, each the next of the one
\* before it, from the root to f, with the asm id of the root; each loads a
\* register of its own.
Chain(t, C, f) ==
  /\ C \subseteq DOMAIN t /\ Root \in C /\ f \in C /\ t[f].next \notin C
  /\ \A c \in C : /\ t[c].type = "load" /\ t[c].asmId = t[Root].asmId /\ (c # Root => t[c].reg = c)
                  /\ c # Root => t[c].parent \in C /\ t[t[c].parent].next = c
                  /\ c # f => t[c].next \in C

\* Its waves differ and are not to be moved again.  A load that is not in it
\* has a wave still to be moved, or the one the walk is merging, and then the
\* walk has still to reach it.
OnePerWave(t, V, C, f, T) ==
  /\ \A c \in C : /\ t[c].wave \notin Range(T) /\ (c # Root => t[c].wave # 0)
                  /\ \A d \in C : t[c].wave = t[d].wave => c = d
  /\ \A l \in DOMAIN t : t[l].type = "load" /\ Hangs(t, l) /\ t[l].wave # 0 /\ l \notin C =>
        t[l].wave \in Range(T) \/ (t[l].wave = t[f].wave /\ l \notin V)

InTree(t) == {m \in DOMAIN t : Hangs(t, m)}

Followed(t) ==
  \A l \in DOMAIN t : t[l].type = "load" /\ Hangs(t, l) /\ l # Root => t[l].next # NoNode

Moving(s, t, w, V, C, f, T) ==
  /\ Whole(t) /\ Walks(t, w, V) /\ C \subseteq V /\ Chain(t, C, f) /\ t[Root].wave = 0
  /\ Served(t) /\ Serves(t) /\ FromSource(s, t) /\ HaveLoads(t, InTree(t))
  /\ Followed(t) /\ (T # << >> => t[Root].next # NoNode)
  /\ Waves(T) /\ OnePerWave(t, V, C, f, T)

LEMMA ChainFacts ==
  ASSUME NEW t, Whole(t), NEW C, NEW f, Chain(t, C, f)
  PROVE  /\ NoNode \notin C
         /\ \A c \in C : Hangs(t, c) /\ Links(t, c) = {t[c].next} \ {NoNode}
<1>1. NoNode \notin C
  <2>1. DOMAIN t = 1 .. Len(t) /\ Len(t) \in Nat
    BY HeapFacts DEF Whole
  <2> QED
    BY <2>1 DEF Chain, NoNode
<1>2. ASSUME NEW c \in C PROVE Hangs(t, c)
  <2>1. c # Root => t[c].parent # NoNode /\ t[t[c].parent].next = c /\ c # NoNode
    BY <1>1 DEF Chain
  <2> QED
    BY <2>1 DEF Hangs, Links
<1>3. ASSUME NEW c \in C PROVE Links(t, c) = {t[c].next} \ {NoNode}
  <2>1. c \in DOMAIN t /\ t[c].type = "load" /\ Hangs(t, c)
    BY <1>2 DEF Chain
  <2>2. Single(t[c])
    BY <2>1, WholeFacts
  <2>3. t[c].loop = NoNode /\ Range(t[c].branches) = {}
    BY <2>1, <2>2 DEF Single, Range
  <2> QED
    BY <2>3 DEF Links
<1> QED
  BY <1>1, <1>2, <1>3

\* The walk of prepareTree is over: the chain is the root.
LEMMA MovingStarts ==
  ASSUME NEW s, NEW t, NEW V, NEW U, Linking(s, t, << >>, V, U), HaveLoads(t, V)
  PROVE  Moving(s, t, << >>, V, {Root}, Root, IF t[Root].next = NoNode THEN << >> ELSE U)
<1> DEFINE T == IF t[Root].next = NoNode THEN << >> ELSE U
<1>1. /\ Whole(t) /\ Walks(t, << >>, V) /\ Root \in DOMAIN t /\ Range(<< >>) = {}
      /\ Root \in V /\ t[Root].type = "load" /\ t[Root].wave = 0
      /\ Served(t) /\ Serves(t) /\ FromSource(s, t) /\ Ahead(t, U) /\ Waves(U)
  <2>1. Root \in DOMAIN t
    BY HeapFacts DEF Linking, Whole
  <2>2. Range(<< >>) = {}
    BY DEF Range
  <2> QED
    BY <2>1, <2>2 DEF Linking
<1>2. \A m \in DOMAIN t : Hangs(t, m) => m \in V
  BY <1>1, AllVisited
<1>3. HaveLoads(t, InTree(t))
  BY <1>2 DEF HaveLoads, InTree
<1>4. Chain(t, {Root}, Root)
  <2>1. Root \notin Links(t, Root)
    BY <1>1, WholeFacts DEF Hangs
  <2>2. Root # NoNode
    BY DEF Root, NoNode
  <2>3. t[Root].next # Root
    BY <2>1, <2>2 DEF Links
  <2> QED
    BY <1>1, <2>3 DEF Chain
<1>5. ASSUME NEW l \in DOMAIN t, t[l].type = "load", Hangs(t, l), l # Root
      PROVE  t[l].next # NoNode
  <2>1. t[l].next \in Range(t[l].play)
    BY <1>1, <1>5 DEF Ahead
  <2>2. t[l].next \in DOMAIN t
    BY <1>1, <1>5, <2>1 DEF Serves
  <2>3. DOMAIN t = 1 .. Len(t) /\ Len(t) \in Nat
    BY <1>1, HeapFacts DEF Whole
  <2> QED
    BY <2>2, <2>3 DEF NoNode
<1>6. ASSUME t[Root].next = NoNode, NEW l \in DOMAIN t, Hangs(t, l) PROVE l = Root
  <2>1. Links(t, Root) = {}
    BY <1>1, <1>4, <1>6, ChainFacts
  <2>2. Walks(t, << >>, {Root})
    <3>1. << >> \in Seq(DOMAIN t) /\ IsInjective(<< >>)
      BY DEF IsInjective
    <3> QED
      BY <1>1, <2>1, <3>1 DEF Walks
  <2>3. l \in {Root}
    BY <1>1, <1>6, <2>2, AllVisited
  <2> QED
    BY <2>3
<1>7. Waves(T) /\ (T # << >> => t[Root].next # NoNode)
  BY <1>1 DEF Waves, IsInjective, Range
<1>8. OnePerWave(t, V, {Root}, Root, T)
  <2>1. t[Root].wave \notin Range(T)
    BY <1>1, <1>7 DEF Waves
  <2>2. ASSUME NEW l \in DOMAIN t, t[l].type = "load", Hangs(t, l), t[l].wave # 0, l # Root
        PROVE  t[l].wave \in Range(T)
    <3>1. t[Root].next # NoNode
      BY <1>6, <2>2
    <3>2. t[l].wave \in Range(U)
      BY <1>1, <2>2 DEF Ahead
    <3> QED
      BY <3>1, <3>2
  <2> QED
    BY <2>1, <2>2 DEF OnePerWave
<1>9. Followed(t)
  BY <1>5 DEF Followed
<1> HIDE DEF T
<1>10. Moving(s, t, << >>, V, {Root}, Root, T)
  BY <1>1, <1>3, <1>4, <1>7, <1>8, <1>9 DEF Moving
<1> QED
  BY <1>10 DEF T

\* A new node after the front, in front of what followed it.
NewFront(t, f, x, k, r, u) ==
  /\ Whole(u) /\ DOMAIN u = DOMAIN t \cup {k} /\ k \notin DOMAIN t
  /\ (r.type \notin {"play", "branch", "loop"} => KeepsOrder(t, u))
  /\ SameNode(u[k], r) /\ u[k].next = x /\ u[k].parent = f /\ Hangs(u, k)
  /\ \A m \in DOMAIN t : /\ SameNode(u[m], t[m]) /\ (Hangs(u, m) <=> Hangs(t, m))
                         /\ u[m].parent = (IF m = x THEN k ELSE t[m].parent)
                         /\ u[m].next = (IF m = f THEN k ELSE t[m].next)

LEMMA FrontInserted ==
  ASSUME NEW t, Whole(t), NEW f \in DOMAIN t, Hangs(t, f), NEW x, x = t[f].next, x # NoNode,
         NEW r \in Nodes(Len(t) + 1), LinksOf(r) = {}, r.parent = NoNode, Single(r)
  PROVE  /\ x \in DOMAIN t /\ x # Root /\ Hangs(t, x) /\ t[x].parent = f
         /\ NewFront(t, f, x, Fresh(t), r, InsertBefore(Append(t, r), x, Fresh(t)))
<1> DEFINE k  == Fresh(t)
           t1 == Append(t, r)
           u  == InsertBefore(t1, x, k)
<1>1. x \in DOMAIN t /\ x # Root /\ Hangs(t, x) /\ t[x].parent = f
  <2>1. x \in Links(t, f)
    BY DEF Links
  <2> QED
    BY <2>1, WholeFacts
<1>2. /\ Whole(t1) /\ DOMAIN t1 = DOMAIN t \cup {k} /\ k \notin DOMAIN t
      /\ t1[k] = r /\ (\A m \in DOMAIN t : t1[m] = t[m]) /\ Lone(t1, k)
      /\ \A m \in DOMAIN t : Hangs(t1, m) <=> Hangs(t, m)
  <2>1. k = Fresh(t)
    OBVIOUS
  <2> HIDE DEF k
  <2> QED
    BY <2>1, Appended
<1> HIDE DEF t1, k
<1>3. InFront(t1, x, k, u, f)
  <2>1. x \in DOMAIN t1 /\ Hangs(t1, x) /\ x # Root /\ k \in DOMAIN t1 /\ t1[x].parent = f
    BY <1>1, <1>2
  <2> QED
    BY <1>2, <2>1, Inserted
<1> HIDE DEF u
<1>4. /\ Whole(u) /\ DOMAIN u = DOMAIN t \cup {k} /\ u[k].next = x /\ x # k /\ f # k
      /\ SameNode(u[k], r) /\ u[k].parent = f /\ Hangs(u, k) /\ u[f].next = k
  <2>1. k \in DOMAIN t1 /\ t1[f].next = x /\ t1[k] = r
    BY <1>2
  <2>2. x # k /\ f # k
    BY <1>3 DEF InFront
  <2> QED
    BY <1>2, <1>3, <2>1, <2>2 DEF InFront
<1>5. ASSUME NEW m \in DOMAIN t
      PROVE  /\ SameNode(u[m], t[m]) /\ (Hangs(u, m) <=> Hangs(t, m))
             /\ u[m].parent = (IF m = x THEN k ELSE t[m].parent)
             /\ u[m].next = (IF m = f THEN k ELSE t[m].next)
  <2>1. m \in DOMAIN t1 /\ m # k /\ t1[m] = t[m] /\ (Hangs(t1, m) <=> Hangs(t, m))
    BY <1>2
  <2>2. /\ SameNode(u[m], t1[m]) /\ (Hangs(u, m) <=> Hangs(t1, m) \/ m = k)
        /\ u[m].parent = (IF m = x THEN k ELSE IF m = k THEN f ELSE t1[m].parent)
        /\ m \notin {f, k} => u[m].next = t1[m].next
    BY <1>3, <2>1 DEF InFront
  <2> QED
    BY <1>4, <2>1, <2>2
<1>7. r.type \notin {"play", "branch", "loop"} => KeepsOrder(t, u)
  <2> SUFFICES ASSUME r.type \notin {"play", "branch", "loop"} PROVE KeepsOrder(t, u)
    OBVIOUS
  <2>1. \A m \in DOMAIN t : SameLinks(t1[m], t[m])
    BY <1>2 DEF SameLinks
  <2>2. r.branches = << >> /\ r.loop = NoNode
    BY NoLinks
  <2>3. t1[x].parent \in DOMAIN t /\ t1[x].parent # x /\ IsHeap(t1) /\ IsHeap(t)
    <3>1. t1[x].parent = f /\ f # x
      BY <1>1, <1>2, WholeFacts
    <3> QED
      BY <1>2, <3>1 DEF Whole
  <2> QED
    BY <1>1, <1>2, <2>1, <2>2, <2>3, InsertedOrder DEF u
<1>6. NewFront(t, f, x, k, r, u)
  BY <1>2, <1>4, <1>5, <1>7 DEF NewFront
<1> QED
  BY <1>1, <1>6 DEF u, t1, k

\* The next load goes to the front, and its walk starts behind it.
LEMMA MovingLoad ==
  ASSUME NEW s, NEW t, NEW V, NEW C, NEW f, NEW T, Moving(s, t, << >>, V, C, f, T), T # << >>,
         NEW ld, NEW u, NEW r, NewFront(t, f, t[f].next, ld, r, u),
         r.type = "load", r.wave = Head(T), r.play = << >>, r.asmId = t[f].asmId, r.reg = ld
  PROVE  Moving(s, u, <<t[f].next>>, C \cup {ld}, C \cup {ld}, ld, Tail(T))
<1> DEFINE x  == t[f].next
           v  == Head(T)
           C2 == C \cup {ld}
           T2 == Tail(T)
<1>1. /\ Whole(t) /\ Walks(t, << >>, V) /\ Chain(t, C, f) /\ t[Root].wave = 0
      /\ Served(t) /\ Serves(t) /\ FromSource(s, t) /\ HaveLoads(t, InTree(t)) /\ Followed(t)
      /\ t[Root].next # NoNode /\ Waves(T) /\ OnePerWave(t, V, C, f, T) /\ C \subseteq V
  BY DEF Moving
<1>2. /\ C \subseteq DOMAIN t /\ Root \in C /\ f \in C /\ x \notin C /\ NoNode \notin C
      /\ \A c \in C : Hangs(t, c) /\ Links(t, c) = {t[c].next} \ {NoNode} /\ t[c].type = "load"
  BY <1>1, ChainFacts DEF Chain
<1>3. /\ Whole(u) /\ DOMAIN u = DOMAIN t \cup {ld} /\ ld \notin DOMAIN t
      /\ u[ld].type = "load" /\ u[ld].wave = v /\ u[ld].play = << >> /\ u[ld].next = x
      /\ u[ld].asmId = t[f].asmId /\ u[ld].reg = ld /\ u[ld].parent = f /\ Hangs(u, ld)
      /\ \A m \in DOMAIN t : /\ SameNode(u[m], t[m]) /\ (Hangs(u, m) <=> Hangs(t, m))
                             /\ u[m].parent = (IF m = x THEN ld ELSE t[m].parent)
                             /\ u[m].next = (IF m = f THEN ld ELSE t[m].next)
  BY DEF NewFront, SameNode
<1>4. x # NoNode /\ x \in DOMAIN t /\ x # Root /\ Hangs(t, x)
  <2>1. x # NoNode
    BY <1>1, <1>2 DEF Followed
  <2>2. x \in Links(t, f)
    BY <1>2, <2>1
  <2> QED
    BY <1>1, <1>2, <2>1, <2>2, WholeFacts
<1>5. v \in Nat \ {0} /\ Range(T) = Range(T2) \cup {v} /\ Waves(T2) /\ v \notin Range(T2)
  <2>1. T \in Seq(Nat) /\ IsInjective(T) /\ 0 \notin Range(T)
    BY <1>1 DEF Waves
  <2>2. /\ Len(T) \in Nat /\ Len(T) >= 1 /\ DOMAIN T = 1 .. Len(T) /\ v = T[1] /\ T2 \in Seq(Nat)
        /\ DOMAIN T2 = 1 .. Len(T) - 1 /\ \A i \in 1 .. Len(T) - 1 : T2[i] = T[i + 1]
    BY <2>1
  <2> HIDE DEF v, T2
  <2>3. \A i \in DOMAIN T : i = 1 \/ (i - 1 \in DOMAIN T2 /\ T2[i - 1] = T[i])
    BY <2>2
  <2>4. \A i \in DOMAIN T2 : i + 1 \in DOMAIN T /\ i + 1 # 1 /\ T2[i] = T[i + 1]
    BY <2>2
  <2>5. 1 \in DOMAIN T /\ T[1] = v
    BY <2>2
  <2>6. Range(T) = Range(T2) \cup {v}
    <3>1. \A y \in Range(T) : y \in Range(T2) \cup {v}
      BY <2>3, <2>5 DEF Range
    <3>2. \A y \in Range(T2) : y \in Range(T)
      BY <2>4 DEF Range
    <3>3. v \in Range(T)
      BY <2>5 DEF Range
    <3> QED
      BY <3>1, <3>2, <3>3
  <2>7. IsInjective(T2)
    <3> SUFFICES ASSUME NEW i \in DOMAIN T2, NEW j \in DOMAIN T2, T2[i] = T2[j] PROVE i = j
      BY DEF IsInjective
    <3>1. i + 1 = j + 1
      BY <2>1, <2>4 DEF IsInjective
    <3> QED
      BY <2>2, <3>1
  <2>8. v \notin Range(T2)
    <3> SUFFICES ASSUME NEW i \in DOMAIN T2, T2[i] = v PROVE FALSE
      BY DEF Range
    <3> QED
      BY <2>1, <2>4, <2>5 DEF IsInjective
  <2>9. v \in Nat /\ v \in Range(T) /\ v # 0
    BY <2>1, <2>2, <2>6
  <2> QED
    BY <2>1, <2>2, <2>6, <2>7, <2>8, <2>9 DEF Waves
<1> HIDE DEF x, v, T2
<1>6. /\ C2 \subseteq DOMAIN u /\ Root \in C2 /\ ld \in C2 /\ x \notin C2 /\ f # ld /\ Root # ld
  BY <1>2, <1>3, <1>4
<1>7. Chain(u, C2, ld)
  <2>1. ASSUME NEW c \in C, c # Root
        PROVE  t[c].parent \in C /\ t[c].parent # f /\ t[t[c].parent].next = c
    BY <1>1, <1>2, <2>1 DEF Chain, x
  <2>2. ASSUME NEW c \in C
        PROVE  /\ u[c].type = "load" /\ u[c].asmId = t[c].asmId /\ u[c].reg = t[c].reg
               /\ c # Root => u[c].parent \in C2 /\ u[u[c].parent].next = c
               /\ u[c].next \in C2
    <3>1. /\ c \in DOMAIN t /\ c # x /\ u[c].type = "load" /\ u[c].parent = t[c].parent
          /\ u[c].asmId = t[c].asmId /\ u[c].reg = t[c].reg
      BY <1>2, <1>3 DEF SameNode
    <3>2. c # Root => u[c].parent \in C2 /\ u[u[c].parent].next = c
      BY <1>2, <1>3, <2>1, <3>1
    <3>3. u[c].next \in C2
      BY <1>1, <1>3, <3>1 DEF Chain
    <3> QED
      BY <3>1, <3>2, <3>3
  <2>3. u[ld].parent \in C2 /\ u[u[ld].parent].next = ld
    BY <1>2, <1>3
  <2>4. \A c \in C : t[c].asmId = t[Root].asmId /\ (c # Root => t[c].reg = c)
    BY <1>1 DEF Chain
  <2>5. \A c \in C2 : u[c].asmId = u[Root].asmId /\ (c # Root => u[c].reg = c)
    BY <1>2, <1>3, <2>2, <2>4
  <2> QED
    BY <1>3, <1>6, <2>2, <2>3, <2>5 DEF Chain
<1>8. Walks(u, <<x>>, C2)
  <2>1. <<x>> \in Seq(DOMAIN u) /\ Range(<<x>>) = {x} /\ IsInjective(<<x>>)
    BY <1>3, <1>4 DEF Range, IsInjective
  <2>2. Hangs(u, x) /\ u[x].parent \in C2
    BY <1>3, <1>4
  <2>3. ASSUME NEW c \in C2
        PROVE  Links(u, c) \subseteq C2 \cup {x} /\ (c # Root => u[c].parent \in C2)
    <3>1. Links(u, c) = {u[c].next} \ {NoNode}
      BY <1>3, <1>7, ChainFacts
    <3> QED
      BY <1>3, <1>7, <3>1 DEF Chain
  <2> QED
    BY <1>6, <2>1, <2>2, <2>3 DEF Walks
<1>9. \A m \in DOMAIN u : m # ld => m \in DOMAIN t
  BY <1>3
<1>10. Served(u)
  <2> SUFFICES ASSUME NEW m \in DOMAIN u, u[m].type = "play", u[m].loadRef # NoNode
               PROVE  /\ ~u[m].config.dummy
                      /\ u[m].loadRef \in DOMAIN u /\ u[u[m].loadRef].type = "load"
                      /\ Hangs(u, u[m].loadRef)
                      /\ u[u[m].loadRef].wave = u[m].wave /\ u[u[m].loadRef].reg = u[m].reg
                      /\ m \in Range(u[u[m].loadRef].play)
    BY DEF Served
  <2>1. m \in DOMAIN t /\ SameNode(u[m], t[m])
    BY <1>3, <1>9
  <2> DEFINE l == t[m].loadRef
  <2>2. /\ l \in DOMAIN t /\ t[l].type = "load" /\ Hangs(t, l) /\ t[l].wave = t[m].wave
        /\ t[l].reg = t[m].reg /\ m \in Range(t[l].play) /\ l = u[m].loadRef
        /\ ~u[m].config.dummy
    BY <1>1, <2>1 DEF Served, SameNode
  <2> HIDE DEF l
  <2>3. SameNode(u[l], t[l]) /\ Hangs(u, l) /\ l \in DOMAIN u
    BY <1>3, <2>2
  <2> QED
    BY <2>1, <2>2, <2>3 DEF SameNode
<1>11. Serves(u)
  <2> SUFFICES ASSUME NEW l \in DOMAIN u, u[l].type = "load", Hangs(u, l), NEW m \in Range(u[l].play)
               PROVE  m \in DOMAIN u /\ u[m].type = "play" /\ u[m].loadRef = l
    BY DEF Serves
  <2>1. l # ld
    BY <1>3 DEF Range
  <2>2. l \in DOMAIN t /\ t[l].type = "load" /\ Hangs(t, l) /\ m \in Range(t[l].play)
    BY <1>3, <1>9, <2>1 DEF SameNode
  <2>3. m \in DOMAIN t /\ t[m].type = "play" /\ t[m].loadRef = l
    BY <1>1, <2>2 DEF Serves
  <2> QED
    BY <1>3, <2>3 DEF SameNode
<1>12. FromSource(s, u)
  <2>1. \A m \in DOMAIN u : u[m].type = "play" => m \in DOMAIN s /\ u[m].config = s[m].config
    BY <1>1, <1>3, <1>9 DEF FromSource, SameNode
  <2>2. \A m \in DOMAIN s : Stays(s, u, m)
    BY <1>1, <1>3 DEF FromSource, SameNode, Stays
  <2> QED
    BY <2>1, <2>2 DEF FromSource
<1>13. HaveLoads(u, InTree(u))
  <2> SUFFICES ASSUME NEW m \in DOMAIN u, Hangs(u, m), u[m].type = "play", ~u[m].config.dummy
               PROVE  u[m].loadRef # NoNode
    BY DEF HaveLoads, InTree
  <2>1. m \in DOMAIN t /\ SameNode(u[m], t[m]) /\ Hangs(t, m)
    BY <1>3, <1>9
  <2> QED
    BY <1>1, <2>1 DEF HaveLoads, InTree, SameNode
<1>14. ld # NoNode
  <2>1. DOMAIN u = 1 .. Len(u) /\ Len(u) \in Nat
    BY <1>3, HeapFacts DEF Whole
  <2> QED
    BY <1>3, <2>1 DEF NoNode
<1>15. Followed(u)
  <2> SUFFICES ASSUME NEW l \in DOMAIN u, u[l].type = "load", Hangs(u, l), l # Root
               PROVE  u[l].next # NoNode
    BY DEF Followed
  <2>1. CASE l = ld
    BY <1>3, <1>4, <2>1
  <2>2. CASE l # ld
    <3>1. l \in DOMAIN t /\ t[l].type = "load" /\ Hangs(t, l)
      BY <1>3, <1>9, <2>2 DEF SameNode
    <3> QED
      BY <1>1, <1>3, <1>14, <3>1 DEF Followed
  <2> QED
    BY <2>1, <2>2
<1>16. u[Root].next # NoNode /\ u[Root].wave = 0
  BY <1>1, <1>2, <1>3, <1>14 DEF SameNode
<1>17. OnePerWave(u, C2, C2, ld, T2)
  <2>1. ASSUME NEW c \in C
        PROVE  /\ u[c].wave = t[c].wave /\ t[c].wave # v /\ t[c].wave \notin Range(T2)
               /\ c # Root => t[c].wave # 0
               /\ \A d \in C : t[c].wave = t[d].wave => c = d
    <3>1. u[c].wave = t[c].wave
      BY <1>2, <1>3 DEF SameNode
    <3> QED
      BY <1>1, <1>5, <3>1 DEF OnePerWave
  <2>2. u[ld].wave = v /\ v # 0 /\ v \notin Range(T2)
    BY <1>3, <1>5
  <2>3. ASSUME NEW l \in DOMAIN u, u[l].type = "load", Hangs(u, l), u[l].wave # 0, l \notin C2
        PROVE  u[l].wave \in Range(T2) \/ u[l].wave = v
    <3>1. l \in DOMAIN t /\ l \notin C /\ t[l].type = "load" /\ Hangs(t, l) /\ t[l].wave = u[l].wave
      BY <1>3, <1>9, <2>3 DEF SameNode
    <3>2. l \in V
      BY <1>1, <1>2, <3>1, AllVisited
    <3> QED
      BY <1>1, <1>5, <2>3, <3>1, <3>2 DEF OnePerWave
  <2>4. ASSUME NEW c \in C2
        PROVE  /\ u[c].wave \notin Range(T2) /\ (c # Root => u[c].wave # 0)
               /\ \A d \in C2 : u[c].wave = u[d].wave => c = d
    BY <2>1, <2>2
  <2> QED
    BY <2>2, <2>3, <2>4 DEF OnePerWave
<1>18. Moving(s, u, <<x>>, C2, C2, ld, T2)
  BY <1>3, <1>5, <1>7, <1>8, <1>10, <1>11, <1>12, <1>13, <1>15, <1>16, <1>17 DEF Moving
<1> QED
  BY <1>18 DEF x, T2

\* A round of the walk that finds no load of its wave,
LEMMA MovingVisit ==
  ASSUME NEW s, NEW t, NEW w, NEW V, NEW C, NEW f, NEW T, Moving(s, t, w, V, C, f, T), w # << >>
  PROVE  /\ Top(w) \in DOMAIN t /\ Hangs(t, Top(w)) /\ Top(w) \notin V
         /\ Walks(t, Spread(t, Below(w), Top(w)), V \cup {Top(w)})
         /\ ~(t[Top(w)].type = "load" /\ t[Top(w)].wave = t[f].wave) =>
               Moving(s, t, Spread(t, Below(w), Top(w)), V \cup {Top(w)}, C, f, T)
<1> DEFINE n  == Top(w)
           w1 == Spread(t, Below(w), n)
           V1 == V \cup {n}
<1>1. Whole(t) /\ Walks(t, w, V) /\ C \subseteq V /\ OnePerWave(t, V, C, f, T)
  BY DEF Moving
<1>2. n \in DOMAIN t /\ Hangs(t, n) /\ n \notin V /\ Walks(t, w1, V1)
  BY <1>1, Visited
<1> HIDE DEF n, w1
<1>3. ASSUME ~(t[n].type = "load" /\ t[n].wave = t[f].wave)
      PROVE  Moving(s, t, w1, V1, C, f, T)
  <2>1. OnePerWave(t, V1, C, f, T)
    BY <1>1, <1>3 DEF OnePerWave
  <2> QED
    BY <1>1, <1>2, <2>1 DEF Moving
<1> QED
  BY <1>2, <1>3 DEF n, w1

\* and one that does: the front takes its plays over.
LEMMA MovingMerge ==
  ASSUME NEW s, NEW t, NEW w, NEW V, NEW C, NEW f, NEW T, Moving(s, t, w, V, C, f, T), w # << >>,
         t[Top(w)].type = "load", t[Top(w)].wave = t[f].wave
  PROVE  Moving(s, TakeOver(t, f, Top(w)), Spread(t, Below(w), Top(w)), V \cup {Top(w)}, C, f, T)
<1> DEFINE n  == Top(w)
           w1 == Spread(t, Below(w), n)
           V1 == V \cup {n}
           u  == TakeOver(t, f, n)
           x  == t[n].next
           p  == t[n].parent
<1>1. /\ Whole(t) /\ Walks(t, w, V) /\ C \subseteq V /\ Chain(t, C, f) /\ t[Root].wave = 0
      /\ Served(t) /\ Serves(t) /\ FromSource(s, t) /\ HaveLoads(t, InTree(t))
      /\ Followed(t) /\ (T # << >> => t[Root].next # NoNode)
      /\ Waves(T) /\ OnePerWave(t, V, C, f, T)
  BY DEF Moving
<1>2. n \in DOMAIN t /\ Hangs(t, n) /\ n \notin V /\ Walks(t, w1, V1)
  BY <1>1, Visited
<1>3. /\ C \subseteq DOMAIN t /\ Root \in C /\ f \in C /\ t[f].next \notin C /\ NoNode \notin C
      /\ f \in DOMAIN t /\ n \notin C /\ n # Root /\ n # f
      /\ \A c \in C : Hangs(t, c) /\ t[c].type = "load"
  BY <1>1, <1>2, ChainFacts DEF Chain
<1>4. t[n].type = "load" /\ t[n].wave = t[f].wave /\ n \in V1
  OBVIOUS
<1>5. Merged(t, f, n, u, p, x) /\ Walks(u, w1, V1)
  <2> HIDE DEF n, w1, V1
  <2> QED
    BY <1>1, <1>2, <1>3, <1>4, TakenOver
<1>6. x # NoNode /\ x \in DOMAIN t /\ x \notin C /\ t[x].parent = n
  <2>1. x # NoNode
    BY <1>1, <1>2, <1>3, <1>4 DEF Followed
  <2>2. x \in Links(t, n)
    BY <2>1 DEF Links
  <2>3. x \in DOMAIN t /\ t[x].parent = n /\ x # Root
    BY <1>1, <1>2, <2>2, WholeFacts
  <2> QED
    BY <1>1, <1>3, <2>1, <2>3 DEF Chain
<1> DEFINE pl == Range(t[n].play)
<1>7. /\ Whole(u) /\ DOMAIN u = DOMAIN t /\ p \in DOMAIN t
      /\ \A m \in DOMAIN t :
            /\ u[m].type = t[m].type /\ u[m].wave = t[m].wave /\ u[m].config = t[m].config
            /\ u[m].asmId = t[m].asmId
            /\ u[m].loadRef = (IF m \in pl THEN f ELSE t[m].loadRef)
            /\ u[m].reg = (IF m \in pl THEN t[f].reg ELSE t[m].reg)
            /\ u[m].play = (IF m = f THEN t[f].play \o t[n].play ELSE t[m].play)
            /\ Hangs(u, m) <=> Hangs(t, m) /\ m # n
            /\ u[m].parent = (IF m = x THEN p ELSE t[m].parent)
            /\ u[m].next = (IF m = p /\ t[p].next = n THEN x ELSE t[m].next)
  <2> HIDE DEF n, u, p, x
  <2> QED
    BY <1>5 DEF Merged
<1>8. \A m \in pl : m \in DOMAIN t /\ t[m].type = "play" /\ t[m].loadRef = n
  BY <1>1, <1>2, <1>4 DEF Serves
<1>9. /\ Range(t[f].play) \subseteq Range(u[f].play) /\ pl \subseteq Range(u[f].play)
      /\ Range(u[f].play) \subseteq Range(t[f].play) \cup pl
  <2>1. u[f].play = t[f].play \o t[n].play
    BY <1>3, <1>7
  <2>2. t[f].play \in Seq(1 .. Len(t)) /\ t[n].play \in Seq(1 .. Len(t))
    <3>1. t[f] \in Nodes(Len(t)) /\ t[n] \in Nodes(Len(t))
      BY <1>1, <1>2, <1>3, HeapFacts DEF Whole
    <3> QED
      BY <3>1 DEF Nodes
  <2>3. Range(t[f].play \o t[n].play) = Range(t[f].play) \cup Range(t[n].play)
    BY <2>2, ConcatFacts
  <2> QED
    BY <2>1, <2>3
<1> HIDE DEF n, w1, u, x, p, pl
<1>10. ASSUME NEW l \in DOMAIN t, t[l].type = "load"
       PROVE  u[l].reg = t[l].reg /\ Range(t[l].play) \subseteq Range(u[l].play)
  <2>1. l \notin pl
    BY <1>8, <1>10
  <2> QED
    BY <1>7, <1>9, <1>10, <2>1
<1>11. Served(u)
  <2> SUFFICES ASSUME NEW m \in DOMAIN u, u[m].type = "play", u[m].loadRef # NoNode
               PROVE  /\ ~u[m].config.dummy
                      /\ u[m].loadRef \in DOMAIN u /\ u[u[m].loadRef].type = "load"
                      /\ Hangs(u, u[m].loadRef)
                      /\ u[u[m].loadRef].wave = u[m].wave /\ u[u[m].loadRef].reg = u[m].reg
                      /\ m \in Range(u[u[m].loadRef].play)
    BY DEF Served
  <2>0. m \in DOMAIN t /\ t[m].type = "play" /\ u[m].wave = t[m].wave
    BY <1>7
  <2>1. CASE m \in pl
    <3>1. u[m].loadRef = f /\ u[m].reg = t[f].reg /\ t[m].loadRef = n
      BY <1>7, <1>8, <2>0, <2>1
    <3>2. n # NoNode
      <4>1. DOMAIN t = 1 .. Len(t) /\ Len(t) \in Nat
        BY <1>1, HeapFacts DEF Whole
      <4> QED
        BY <1>2, <4>1 DEF NoNode
    <3>3. t[n].wave = t[m].wave /\ ~u[m].config.dummy
      BY <1>1, <1>7, <2>0, <3>1, <3>2 DEF Served
    <3>4. u[f].wave = t[n].wave /\ u[f].type = "load" /\ Hangs(u, f) /\ u[f].reg = t[f].reg
      BY <1>3, <1>4, <1>7, <1>10 DEF n
    <3> QED
      BY <1>3, <1>7, <1>9, <2>0, <2>1, <3>1, <3>3, <3>4
  <2>2. CASE m \notin pl
    <3> DEFINE l == t[m].loadRef
    <3>1. /\ l \in DOMAIN t /\ t[l].type = "load" /\ Hangs(t, l) /\ t[l].wave = t[m].wave
          /\ t[l].reg = t[m].reg /\ m \in Range(t[l].play) /\ l = u[m].loadRef
          /\ u[m].reg = t[m].reg /\ ~u[m].config.dummy
      BY <1>1, <1>7, <2>0, <2>2 DEF Served
    <3> HIDE DEF l
    <3>2. l # n
      BY <2>2, <3>1 DEF pl
    <3>3. l \in DOMAIN u /\ u[l].type = "load" /\ Hangs(u, l) /\ u[l].wave = t[l].wave
      BY <1>7, <3>1, <3>2
    <3>4. u[l].reg = t[l].reg /\ m \in Range(u[l].play)
      BY <1>10, <3>1
    <3> QED
      BY <2>0, <3>1, <3>3, <3>4
  <2> QED
    BY <2>1, <2>2
<1>12. Serves(u)
  <2> SUFFICES ASSUME NEW l \in DOMAIN u, u[l].type = "load", Hangs(u, l), NEW m \in Range(u[l].play)
               PROVE  m \in DOMAIN u /\ u[m].type = "play" /\ u[m].loadRef = l
    BY DEF Serves
  <2>1. l \in DOMAIN t /\ l # n /\ t[l].type = "load" /\ Hangs(t, l)
    BY <1>7
  <2>2. CASE m \in pl /\ l = f
    BY <1>7, <1>8, <2>2
  <2>3. CASE m \notin pl \/ l # f
    <3>1. m \in Range(t[l].play)
      BY <1>7, <1>9, <2>1, <2>3
    <3>2. m \in DOMAIN t /\ t[m].type = "play" /\ t[m].loadRef = l
      BY <1>1, <2>1, <3>1 DEF Serves
    <3>3. m \notin pl
      BY <1>8, <2>1, <3>2
    <3> QED
      BY <1>7, <3>2, <3>3
  <2> QED
    BY <2>2, <2>3
<1>13. FromSource(s, u)
  <2>1. \A m \in DOMAIN u : u[m].type = "play" => m \in DOMAIN s /\ u[m].config = s[m].config
    BY <1>1, <1>7 DEF FromSource
  <2>2. \A m \in DOMAIN s : Stays(s, u, m)
    BY <1>1, <1>4, <1>7 DEF FromSource, Stays
  <2> QED
    BY <2>1, <2>2 DEF FromSource
<1>14. HaveLoads(u, InTree(u))
  <2> SUFFICES ASSUME NEW m \in DOMAIN u, Hangs(u, m), u[m].type = "play", ~u[m].config.dummy
               PROVE  u[m].loadRef # NoNode
    BY DEF HaveLoads, InTree
  <2>1. m \in DOMAIN t /\ Hangs(t, m) /\ t[m].type = "play" /\ ~t[m].config.dummy
    BY <1>7
  <2>2. t[m].loadRef # NoNode /\ f # NoNode
    BY <1>1, <1>3, <2>1 DEF HaveLoads, InTree
  <2> QED
    BY <1>7, <2>1, <2>2
<1>15. Followed(u)
  BY <1>1, <1>6, <1>7 DEF Followed
<1>16. u[Root].wave = 0 /\ (T # << >> => u[Root].next # NoNode)
  BY <1>1, <1>3, <1>6, <1>7
<1>17. Chain(u, C, f)
  <2>1. ASSUME NEW c \in C
        PROVE  /\ u[c].type = "load" /\ u[c].parent = t[c].parent
               /\ u[c].asmId = t[c].asmId /\ u[c].reg = t[c].reg
               /\ c # f => u[c].next = t[c].next
    BY <1>1, <1>3, <1>6, <1>7, <1>10 DEF Chain
  <2>2. u[f].next \notin C
    BY <1>3, <1>6, <1>7
  <2>3. ASSUME NEW c \in C, c # Root PROVE u[c].parent \in C /\ u[u[c].parent].next = c
    <3>1. t[c].parent \in C /\ t[t[c].parent].next = c
      BY <1>1, <2>3 DEF Chain
    <3>2. t[c].parent # f
      BY <1>3, <2>3, <3>1
    <3> QED
      BY <2>1, <2>3, <3>1, <3>2
  <2>4. ASSUME NEW c \in C, c # f PROVE u[c].next \in C
    BY <1>1, <2>1, <2>4 DEF Chain
  <2>5. \A c \in C : u[c].asmId = u[Root].asmId /\ (c # Root => u[c].reg = c)
    BY <1>1, <1>3, <2>1 DEF Chain
  <2> QED
    BY <1>3, <1>7, <2>1, <2>2, <2>3, <2>4, <2>5 DEF Chain
<1>18. OnePerWave(u, V1, C, f, T)
  <2>1. \A m \in DOMAIN t : u[m].wave = t[m].wave /\ u[m].type = t[m].type
                            /\ (Hangs(u, m) => Hangs(t, m) /\ m # n)
    BY <1>7
  <2>2. f \in DOMAIN t /\ C \subseteq DOMAIN t /\ DOMAIN u = DOMAIN t
    BY <1>3, <1>7
  <2> QED
    BY <1>1, <2>1, <2>2 DEF OnePerWave
<1>19. Moving(s, u, w1, V1, C, f, T)
  BY <1>1, <1>5, <1>7, <1>11, <1>12, <1>13, <1>14, <1>15, <1>16, <1>17, <1>18 DEF Moving
<1> QED
  BY <1>19 DEF n, w1, u

LEMMA MovingRound ==
  ASSUME NEW V, NEW C, Moving(src, h, work, V, C, front, todo), MergeLoads
  PROVE  \E V2 : Moving(src, h', work', V2, C, front, todo)
<1> DEFINE n  == Top(work)
           w1 == Spread(h, Below(work), n)
<1>1. /\ work # << >> /\ work' = w1
      /\ h' = IF h[n].type = "load" /\ h[n].wave = h[front].wave THEN TakeOver(h, front, n) ELSE h
  BY DEF MergeLoads, Spread
<1>2. CASE h[n].type = "load" /\ h[n].wave = h[front].wave
  <2>1. Moving(src, TakeOver(h, front, n), w1, V \cup {n}, C, front, todo)
    BY <1>1, <1>2, MovingMerge
  <2> HIDE DEF w1, n
  <2> QED
    BY <1>1, <1>2, <2>1
<1>3. CASE ~(h[n].type = "load" /\ h[n].wave = h[front].wave)
  <2>1. Moving(src, h, w1, V \cup {n}, C, front, todo)
    BY <1>1, <1>3, MovingVisit
  <2> HIDE DEF w1, n
  <2> QED
    BY <1>1, <1>3, <2>1
<1> QED
  BY <1>2, <1>3

LEMMA MovingNext ==
  ASSUME NEW V, NEW C, Moving(src, h, work, V, C, front, todo), MoveLoads
  PROVE  /\ \E V2, C2 : Moving(src, h', work', V2, C2, front', todo')
         /\ \E r, x, k : NewFront(h, front, x, k, r, h') /\ r.type = "load"
<1> DEFINE ld   == Fresh(h)
           nn   == NewNode("load", h[front].asmId)
           load == [nn EXCEPT !.wave = Head(todo), !.reg = ld]
           x    == h[front].next
<1>1. /\ work = << >> /\ todo # << >> /\ front' = ld /\ work' = <<x>> /\ todo' = Tail(todo)
      /\ h' = InsertBefore(Append(h, load), x, ld)
  BY DEF MoveLoads
<1>2. /\ Whole(h) /\ Chain(h, C, front) /\ Followed(h) /\ h[Root].next # NoNode /\ Waves(todo)
  BY <1>1 DEF Moving
<1>3. front \in DOMAIN h /\ Hangs(h, front) /\ h[front].type = "load"
  BY <1>2, ChainFacts DEF Chain
<1>4. x # NoNode
  BY <1>2, <1>3 DEF Followed
<1>5. /\ load \in Nodes(Len(h) + 1) /\ LinksOf(load) = {} /\ load.parent = NoNode /\ Single(load)
      /\ load.asmId = h[front].asmId /\ load.reg = ld /\ load.type = "load" /\ load.wave = Head(todo) /\ load.play = << >>
  <2>1. Len(h) \in Nat /\ h[front] \in Nodes(Len(h)) /\ ld = Len(h) + 1
    BY <1>2, <1>3, HeapFacts DEF Whole, Fresh
  <2>2. h[front].asmId \in Nat /\ ld \in Nat /\ Len(h) + 1 \in Nat /\ Head(todo) \in Nat
    <3>1. h[front].asmId \in Nat
      BY <2>1 DEF Nodes
    <3>2. todo \in Seq(Nat) /\ todo # << >>
      BY <1>1, <1>2 DEF Waves
    <3>3. Head(todo) \in Nat
      BY <3>2
    <3> QED
      BY <2>1, <3>1, <3>3
  <2>3. /\ nn \in Nodes(Len(h) + 1) /\ nn.type = "load" /\ nn.next = NoNode /\ nn.loop = NoNode
        /\ nn.branches = << >> /\ nn.parent = NoNode
    BY <2>2, NewNodeFacts
  <2>4. nn.play = << >> /\ nn.asmId = h[front].asmId
    BY DEF NewNode
  <2> HIDE DEF ld, nn
  <2>5. /\ load.next = NoNode /\ load.loop = NoNode /\ load.branches = << >> /\ load.type = "load"
        /\ load.wave = Head(todo) /\ load.play = << >> /\ load.parent = NoNode
        /\ load \in Nodes(Len(h) + 1) /\ load.asmId = h[front].asmId /\ load.reg = ld
    BY <2>2, <2>3, <2>4 DEF Nodes
  <2> HIDE DEF load
  <2> QED
    BY <2>5 DEF LinksOf, Single, Range
<1> HIDE DEF load
<1>6. NewFront(h, front, x, ld, load, h')
  <2>1. x = h[front].next /\ ld = Fresh(h)
    OBVIOUS
  <2> HIDE DEF x, ld
  <2> QED
    BY <1>1, <1>2, <1>3, <1>4, <1>5, <2>1, FrontInserted
<1>7. Moving(src, h', <<x>>, C \cup {ld}, C \cup {ld}, ld, Tail(todo))
  BY <1>1, <1>5, <1>6, MovingLoad
<1>8. \E r, y, k : NewFront(h, front, y, k, r, h') /\ r.type = "load"
  BY <1>5, <1>6
<1> HIDE DEF ld, x
<1> QED
  BY <1>1, <1>7, <1>8

----------------------------------------------------------------------------
(* The tree the passes that follow work on.                                *)

\* The bodies of the two properties.
IsWhole(t) ==
  \A n \in DOMAIN t : Hangs(t, n) =>
      /\ t[n].parent # NoNode => Hangs(t, t[n].parent)
      /\ HoldsItsLinks(t, n) \/ (t[n].next # NoNode /\ t[t[n].next].type = "ready"
                                                    /\ t[t[n].next].next = NoNode)
PlaysServed(s, t) ==
  \A n \in DOMAIN t : t[n].type = "play" /\ Hangs(t, n) /\ ~s[n].config.dummy =>
      /\ t[n].loadRef # NoNode /\ t[t[n].loadRef].type = "load" /\ Hangs(t, t[n].loadRef)
      /\ t[t[n].loadRef].wave = t[n].wave /\ t[t[n].loadRef].reg = t[n].reg
OneLoad(t) ==
  \A l \in DOMAIN t : t[l].type = "load" /\ t[l].wave # 0 /\ Hangs(t, l) =>
      /\ t[t[l].parent].type = "load" /\ t[t[l].parent].next = l
      /\ \A k \in DOMAIN t : t[k].type = "load" /\ t[k].wave = t[l].wave /\ Hangs(t, k) => k = l

\* A whole tree with every load in the chain in front; it need not be the one
\* the passes work on, which differs from it in the parent of a lone AwgReady
\* node and in the configurations.
Settled(s, g, C, f) ==
  /\ Whole(g) /\ Chain(g, C, f) /\ g[Root].wave = 0
  /\ Served(g) /\ FromSource(s, g) /\ HaveLoads(g, InTree(g))
  /\ \A l \in DOMAIN g : g[l].type = "load" /\ g[l].wave # 0 /\ Hangs(g, l) => l \in C
Alike(g, t) ==
  /\ DOMAIN t = DOMAIN g
  /\ \A n \in DOMAIN g :
        /\ t[n].type = g[n].type /\ t[n].asmId = g[n].asmId /\ t[n].wave = g[n].wave
        /\ t[n].next = g[n].next /\ t[n].branches = g[n].branches /\ t[n].loop = g[n].loop
        /\ t[n].loadRef = g[n].loadRef /\ t[n].reg = g[n].reg
        /\ g[n].type = "play" => t[n].config.dummy = g[n].config.dummy
Laid(s, t) == \E g, C, f : Settled(s, g, C, f) /\ Alike(g, t)

Built(s, t) ==
  IsHeap(t) /\ IsWhole(t) /\ PlaysServed(s, t) /\ OneLoad(t) /\ t[Root].wave = 0 /\ Laid(s, t)

LEMMA WholeIsWhole ==
  ASSUME NEW t, Whole(t)
  PROVE  IsWhole(t)
BY DEF Whole, IsWhole

\* When every wave has been moved, each has its load in the chain.
LEMMA MovedAll ==
  ASSUME NEW s, NEW t, NEW V, NEW C, NEW f, Moving(s, t, << >>, V, C, f, << >>)
  PROVE  /\ Built(s, t) /\ Settled(s, t, C, f)
         /\ \A l \in DOMAIN t : t[l].type = "load" /\ t[l].wave # 0 /\ Hangs(t, l) => l \in C
<1>1. /\ Whole(t) /\ Walks(t, << >>, V) /\ C \subseteq V /\ Chain(t, C, f) /\ t[Root].wave = 0
      /\ Served(t) /\ FromSource(s, t) /\ HaveLoads(t, InTree(t)) /\ OnePerWave(t, V, C, f, << >>)
  BY DEF Moving
<1>2. Root \in V /\ Range(<< >>) = {}
  BY <1>1 DEF Chain, Range
<1>3. ASSUME NEW l \in DOMAIN t, t[l].type = "load", t[l].wave # 0, Hangs(t, l) PROVE l \in C
  <2>1. l \in V
    BY <1>1, <1>2, <1>3, AllVisited
  <2> QED
    BY <1>1, <1>2, <1>3, <2>1 DEF OnePerWave
<1>4. PlaysServed(s, t)
  BY <1>1 DEF PlaysServed, Served, FromSource, HaveLoads, InTree
<1>5. OneLoad(t)
  <2> SUFFICES ASSUME NEW l \in DOMAIN t, t[l].type = "load", t[l].wave # 0, Hangs(t, l)
               PROVE  /\ t[t[l].parent].type = "load" /\ t[t[l].parent].next = l
                      /\ \A k \in DOMAIN t :
                            t[k].type = "load" /\ t[k].wave = t[l].wave /\ Hangs(t, k) => k = l
    BY DEF OneLoad
  <2>1. l \in C /\ l # Root
    BY <1>1, <1>3
  <2>2. t[t[l].parent].type = "load" /\ t[t[l].parent].next = l
    BY <1>1, <2>1 DEF Chain
  <2>3. ASSUME NEW k \in DOMAIN t, t[k].type = "load", t[k].wave = t[l].wave, Hangs(t, k)
        PROVE  k = l
    <3>1. k \in C
      BY <1>3, <2>3
    <3> QED
      BY <1>1, <2>1, <2>3, <3>1 DEF OnePerWave
  <2> QED
    BY <2>2, <2>3
<1>6. IsHeap(t) /\ IsWhole(t)
  BY <1>1, WholeIsWhole DEF Whole
<1>7. Settled(s, t, C, f)
  BY <1>1, <1>3 DEF Settled
<1>8. Laid(s, t)
  <2>1. Alike(t, t)
    BY DEF Alike
  <2> QED
    BY <1>7, <2>1 DEF Laid
<1> QED
  BY <1>1, <1>3, <1>4, <1>5, <1>6, <1>7, <1>8 DEF Built

\* An AwgReady node more, behind the chain, changes nothing of that.
LEMMA SettledKept ==
  ASSUME NEW s, NEW t, NEW C, NEW f, Settled(s, t, C, f), NEW u, Whole(u),
         NEW k, k \notin DOMAIN t, DOMAIN u = DOMAIN t \cup {k}, u[k].type = "ready",
         \A m \in DOMAIN t : SameNode(u[m], t[m]) /\ (Hangs(u, m) <=> Hangs(t, m)),
         \A c \in C : u[c].parent = t[c].parent /\ (c # f => u[c].next = t[c].next),
         u[f].next \notin C
  PROVE  Settled(s, u, C, f)
<1>1. /\ Whole(t) /\ Chain(t, C, f) /\ t[Root].wave = 0
      /\ Served(t) /\ FromSource(s, t) /\ HaveLoads(t, InTree(t))
      /\ \A l \in DOMAIN t : t[l].type = "load" /\ t[l].wave # 0 /\ Hangs(t, l) => l \in C
  BY DEF Settled
<1>2. ASSUME NEW m \in DOMAIN u, u[m].type # "ready"
      PROVE  m \in DOMAIN t /\ SameNode(u[m], t[m]) /\ (Hangs(u, m) <=> Hangs(t, m))
  BY <1>2
<1>3. C \subseteq DOMAIN t /\ Root \in C /\ f \in C
  BY <1>1 DEF Chain
<1>4. Chain(u, C, f)
  <2>1. ASSUME NEW c \in C
        PROVE  /\ u[c].type = "load" /\ u[c].asmId = u[Root].asmId /\ (c # Root => u[c].reg = c)
               /\ c # f => u[c].next \in C
    <3>1. SameNode(u[c], t[c]) /\ SameNode(u[Root], t[Root])
      BY <1>3
    <3> QED
      BY <1>1, <3>1 DEF Chain, SameNode
  <2>2. ASSUME NEW c \in C, c # Root PROVE u[c].parent \in C /\ u[u[c].parent].next = c
    <3>1. t[c].parent \in C /\ t[t[c].parent].next = c /\ t[c].parent # f
      BY <1>1, <2>2 DEF Chain
    <3> QED
      BY <3>1
  <2> QED
    BY <1>3, <2>1, <2>2 DEF Chain
<1>5. Served(u)
  <2> SUFFICES ASSUME NEW m \in DOMAIN u, u[m].type = "play", u[m].loadRef # NoNode
               PROVE  /\ ~u[m].config.dummy
                      /\ u[m].loadRef \in DOMAIN u /\ u[u[m].loadRef].type = "load"
                      /\ Hangs(u, u[m].loadRef)
                      /\ u[u[m].loadRef].wave = u[m].wave /\ u[u[m].loadRef].reg = u[m].reg
                      /\ m \in Range(u[u[m].loadRef].play)
    BY DEF Served
  <2>1. m \in DOMAIN t /\ SameNode(u[m], t[m])
    BY <1>2
  <2> DEFINE l == t[m].loadRef
  <2>2. /\ l \in DOMAIN t /\ t[l].type = "load" /\ Hangs(t, l) /\ t[l].wave = t[m].wave
        /\ t[l].reg = t[m].reg /\ m \in Range(t[l].play) /\ l = u[m].loadRef
        /\ ~u[m].config.dummy
    BY <1>1, <2>1 DEF Served, SameNode
  <2> HIDE DEF l
  <2>3. SameNode(u[l], t[l]) /\ Hangs(u, l) /\ l \in DOMAIN u
    BY <2>2
  <2> QED
    BY <2>1, <2>2, <2>3 DEF SameNode
<1>6. FromSource(s, u)
  <2>1. \A m \in DOMAIN u : u[m].type = "play" => m \in DOMAIN s /\ u[m].config = s[m].config
    BY <1>1, <1>2 DEF FromSource, SameNode
  <2>2. \A m \in DOMAIN s : Stays(s, u, m)
    BY <1>1 DEF FromSource, SameNode, Stays
  <2> QED
    BY <2>1, <2>2 DEF FromSource
<1>7. HaveLoads(u, InTree(u))
  <2> SUFFICES ASSUME NEW m \in DOMAIN u, Hangs(u, m), u[m].type = "play", ~u[m].config.dummy
               PROVE  u[m].loadRef # NoNode
    BY DEF HaveLoads, InTree
  <2>1. m \in DOMAIN t /\ SameNode(u[m], t[m]) /\ Hangs(t, m)
    BY <1>2
  <2> QED
    BY <1>1, <2>1 DEF HaveLoads, InTree, SameNode
<1>8. \A l \in DOMAIN u : u[l].type = "load" /\ u[l].wave # 0 /\ Hangs(u, l) => l \in C
  BY <1>1, <1>2 DEF SameNode
<1>9. u[Root].wave = 0
  BY <1>1, <1>3 DEF SameNode
<1> QED
  BY <1>4, <1>5, <1>6, <1>7, <1>8, <1>9 DEF Settled

\* The AwgReady node comes behind the chain,
LEMMA ReadyInserted ==
  ASSUME NEW s, NEW t, NEW V, NEW C, NEW f, Moving(s, t, << >>, V, C, f, << >>),
         NEW k, NEW u, NEW r, NewFront(t, f, t[f].next, k, r, u), r.type = "ready"
  PROVE  Built(s, u)
<1> DEFINE x == t[f].next
<1>1. /\ Built(s, t)
      /\ \A l \in DOMAIN t : t[l].type = "load" /\ t[l].wave # 0 /\ Hangs(t, l) => l \in C
  BY MovedAll
<1>2. /\ Whole(t) /\ Chain(t, C, f) /\ t[Root].wave = 0
  BY DEF Moving
<1>3. PlaysServed(s, t) /\ OneLoad(t)
  BY <1>1 DEF Built
<1>4. /\ Whole(u) /\ DOMAIN u = DOMAIN t \cup {k} /\ k \notin DOMAIN t /\ u[k].type = "ready"
      /\ \A m \in DOMAIN t : /\ SameNode(u[m], t[m]) /\ (Hangs(u, m) <=> Hangs(t, m))
                             /\ u[m].parent = (IF m = x THEN k ELSE t[m].parent)
                             /\ u[m].next = (IF m = f THEN k ELSE t[m].next)
  BY DEF NewFront, SameNode
<1>5. x \notin C
  BY <1>2 DEF Chain
<1> HIDE DEF x
<1>6. ASSUME NEW m \in DOMAIN u, u[m].type # "ready" PROVE m \in DOMAIN t /\ SameNode(u[m], t[m])
  BY <1>4, <1>6
<1>7. PlaysServed(s, u)
  <2> SUFFICES ASSUME NEW n \in DOMAIN u, u[n].type = "play", Hangs(u, n), ~s[n].config.dummy
               PROVE  /\ u[n].loadRef # NoNode /\ u[u[n].loadRef].type = "load" /\ Hangs(u, u[n].loadRef)
                      /\ u[u[n].loadRef].wave = u[n].wave /\ u[u[n].loadRef].reg = u[n].reg
    BY DEF PlaysServed
  <2>1. n \in DOMAIN t /\ SameNode(u[n], t[n]) /\ Hangs(t, n) /\ t[n].type = "play"
    BY <1>4, <1>6 DEF SameNode
  <2> DEFINE l == t[n].loadRef
  <2>2. /\ l # NoNode /\ t[l].type = "load" /\ Hangs(t, l) /\ t[l].wave = t[n].wave
        /\ t[l].reg = t[n].reg
    BY <1>3, <2>1 DEF PlaysServed
  <2>3. l \in DOMAIN t
    <3>1. l \in 0 .. Len(t) /\ DOMAIN t = 1 .. Len(t) /\ Len(t) \in Nat
      <4>1. IsHeap(t)
        BY <1>2 DEF Whole
      <4>2. t[n] \in Nodes(Len(t)) /\ DOMAIN t = 1 .. Len(t) /\ Len(t) \in Nat
        BY <2>1, <4>1, HeapFacts
      <4> QED
        BY <4>2 DEF Nodes
    <3> QED
      BY <2>2, <3>1 DEF NoNode
  <2> HIDE DEF l
  <2>4. SameNode(u[l], t[l]) /\ Hangs(u, l)
    BY <1>4, <2>2, <2>3
  <2> QED
    BY <2>1, <2>2, <2>4 DEF SameNode, l
<1>8. OneLoad(u)
  <2> SUFFICES ASSUME NEW l \in DOMAIN u, u[l].type = "load", u[l].wave # 0, Hangs(u, l)
               PROVE  /\ u[u[l].parent].type = "load" /\ u[u[l].parent].next = l
                      /\ \A j \in DOMAIN u :
                            u[j].type = "load" /\ u[j].wave = u[l].wave /\ Hangs(u, j) => j = l
    BY DEF OneLoad
  <2>1. /\ l \in DOMAIN t /\ t[l].type = "load" /\ Hangs(t, l) /\ t[l].wave = u[l].wave
        /\ l \in C /\ l # Root
    BY <1>1, <1>2, <1>4, <1>6 DEF SameNode
  <2> DEFINE p == t[l].parent
  <2>2. p \in C /\ p \in DOMAIN t /\ t[p].type = "load" /\ t[p].next = l
    BY <1>2, <2>1 DEF Chain
  <2>3. p # f
    BY <1>2, <1>5, <2>1, <2>2 DEF x
  <2>4. u[l].parent = p
    BY <1>4, <1>5, <2>1
  <2> HIDE DEF p
  <2>5. u[p].type = "load" /\ u[p].next = l
    BY <1>4, <2>2, <2>3 DEF SameNode
  <2>6. ASSUME NEW j \in DOMAIN u, u[j].type = "load", u[j].wave = u[l].wave, Hangs(u, j)
        PROVE  j = l
    <3>1. j \in DOMAIN t /\ t[j].type = "load" /\ t[j].wave = t[l].wave /\ Hangs(t, j)
      BY <1>4, <1>6, <2>1, <2>6 DEF SameNode
    <3> QED
      BY <1>3, <2>1, <3>1 DEF OneLoad
  <2> QED
    BY <2>4, <2>5, <2>6
<1>9. u[Root].wave = 0
  <2>1. Root \in DOMAIN t
    BY <1>2, HeapFacts DEF Whole
  <2> QED
    BY <1>2, <1>4, <2>1 DEF SameNode
<1>10. Laid(s, u)
  <2>1. Settled(s, t, C, f)
    BY MovedAll
  <2>2. \A c \in C : c \in DOMAIN t /\ c # x
    BY <1>2, <1>5 DEF Chain
  <2>3. /\ \A c \in C : u[c].parent = t[c].parent /\ (c # f => u[c].next = t[c].next)
        /\ u[f].next \notin C
    <3>1. f \in DOMAIN t /\ k \notin DOMAIN t
      BY <1>2, <1>4 DEF Chain
    <3> QED
      BY <1>4, <2>2, <3>1
  <2>4. /\ k \notin DOMAIN t /\ DOMAIN u = DOMAIN t \cup {k} /\ u[k].type = "ready" /\ Whole(u)
        /\ \A m \in DOMAIN t : SameNode(u[m], t[m]) /\ (Hangs(u, m) <=> Hangs(t, m))
    BY <1>4
  <2>5. Settled(s, u, C, f)
    BY <2>1, <2>3, <2>4, SettledKept
  <2>6. Alike(u, u)
    BY DEF Alike
  <2> QED
    BY <2>5, <2>6 DEF Laid
<1> QED
  BY <1>4, <1>7, <1>8, <1>9, <1>10, WholeIsWhole DEF Built, Whole

\* or is linked from it and names no parent, when no statement is left; the
\* tree is whole but for that parent.
Completed(t, k) ==
  \E g : /\ Whole(g) /\ DOMAIN g = DOMAIN t
         /\ \A n \in DOMAIN t : SameLinks(g[n], t[n]) /\ (Hangs(g, n) <=> Hangs(t, n) \/ n = k)
LinkedAt(t, f, k, r, u) ==
  /\ Completed(u, k) /\ KeepsOrder(t, u) /\ DOMAIN u = DOMAIN t \cup {k} /\ k \notin DOMAIN t /\ u[k] = r
  /\ \A m \in DOMAIN t : u[m].type = t[m].type

LEMMA ReadyLinked ==
  ASSUME NEW s, NEW t, NEW V, NEW C, NEW f, Moving(s, t, << >>, V, C, f, << >>),
         t[f].next = NoNode, NEW r \in Nodes(Len(t) + 1), LinksOf(r) = {}, r.parent = NoNode,
         r.next = NoNode, r.type = "ready", Single(r)
  PROVE  LET t1 == Append(t, r)
             u  == [t1 EXCEPT ![f].next = Len(t1)]
         IN  Len(t1) = Len(t) + 1 /\ Built(s, u) /\ LinkedAt(t, f, Fresh(t), r, u)
<1> DEFINE t1 == Append(t, r)
           k  == Fresh(t)
           u  == [t1 EXCEPT ![f].next = k]
           fr == [t1[f] EXCEPT !.next = k]
<1>1. /\ Built(s, t) /\ Whole(t) /\ Chain(t, C, f) /\ t[Root].wave = 0
      /\ \A l \in DOMAIN t : t[l].type = "load" /\ t[l].wave # 0 /\ Hangs(t, l) => l \in C
  BY MovedAll DEF Moving
<1>2. PlaysServed(s, t) /\ OneLoad(t)
  BY <1>1 DEF Built
<1>3. /\ f \in DOMAIN t /\ Hangs(t, f) /\ Links(t, f) = {} /\ f \in C /\ NoNode \notin C
  BY <1>1, ChainFacts DEF Chain
<1>4. /\ IsHeap(t) /\ Len(t) \in Nat /\ DOMAIN t = 1 .. Len(t) /\ k = Len(t) + 1
  BY <1>1, HeapFacts DEF Whole, Fresh
<1>5. /\ Whole(t1) /\ Len(t1) = Len(t) + 1 /\ DOMAIN t1 = DOMAIN t \cup {k} /\ k \notin DOMAIN t
      /\ t1[k] = r /\ (\A m \in DOMAIN t : t1[m] = t[m]) /\ Links(t1, k) = {}
      /\ \A m \in DOMAIN t : Links(t1, m) = Links(t, m) /\ (Hangs(t1, m) <=> Hangs(t, m))
  <2>1. k = Fresh(t)
    OBVIOUS
  <2> HIDE DEF k
  <2> QED
    BY <1>1, <2>1, Appended
<1> HIDE DEF t1
<1>6. k = Len(t1)
  BY <1>4, <1>5
<1> HIDE DEF k
<1>7. /\ fr \in Nodes(Len(t1)) /\ fr.next = k /\ fr.parent = t[f].parent /\ SameNode(fr, t[f])
  <2>1. t1[f] = t[f] /\ t1[f] \in Nodes(Len(t1)) /\ k \in 0 .. Len(t1)
    BY <1>3, <1>4, <1>5, <1>6, HeapFacts DEF Whole
  <2> QED
    BY <2>1 DEF Nodes, SameNode
<1>8. /\ u \in Seq(Nodes(Len(t1))) /\ Len(u) = Len(t1) /\ DOMAIN u = DOMAIN t \cup {k} /\ u[f] = fr
      /\ \A m \in DOMAIN u : m # f => u[m] = t1[m]
  <2>1. t1 \in Seq(Nodes(Len(t1))) /\ u = [t1 EXCEPT ![f] = fr] /\ Len(t1) \in Nat
    BY <1>3, <1>4, <1>5 DEF Whole, IsHeap
  <2> HIDE DEF u, fr
  <2> QED
    BY <1>3, <1>5, <1>7, <2>1
<1> HIDE DEF u, fr
<1>9. IsHeap(u)
  BY <1>4, <1>5, <1>8 DEF IsHeap
<1>10. f # k /\ k # NoNode /\ k # Root /\ u[k] = r
  <2>1. Root \in DOMAIN t
    BY <1>4 DEF IsHeap
  <2>2. f # k /\ k # Root
    BY <1>3, <1>5, <2>1
  <2>3. k # NoNode
    BY <1>4 DEF NoNode
  <2>4. u[k] = t1[k]
    BY <1>8, <2>2
  <2> QED
    BY <1>5, <2>2, <2>3, <2>4
<1>11. ASSUME NEW m \in DOMAIN t
       PROVE  /\ SameNode(u[m], t[m]) /\ u[m].parent = t[m].parent
              /\ m # f => u[m] = t[m] /\ Links(u, m) = Links(t, m)
  <2>1. CASE m = f
    BY <1>7, <1>8, <2>1
  <2>2. CASE m # f
    <3>1. u[m] = t[m]
      BY <1>5, <1>8, <2>2
    <3> QED
      BY <3>1 DEF Links, SameNode
  <2> QED
    BY <2>1, <2>2
<1>12. k \in Links(u, f) /\ u[f].next = k
  BY <1>7, <1>8, <1>10 DEF Links
<1>13. Links(u, f) \subseteq {k}
  <2>1. Single(t[f]) /\ t[f].type = "load"
    BY <1>1, <1>3, WholeFacts DEF Chain
  <2>2. fr.loop = t[f].loop /\ fr.branches = t[f].branches
    <3>1. t1[f] = t[f] /\ t1[f] \in Nodes(Len(t1))
      BY <1>3, <1>5, HeapFacts DEF Whole
    <3> QED
      BY <3>1 DEF fr, Nodes
  <2>3. fr.loop = NoNode /\ Range(fr.branches) = {}
    BY <2>1, <2>2 DEF Single, Range
  <2> QED
    BY <1>7, <1>8, <2>3 DEF Links
<1>14. ASSUME NEW m \in DOMAIN t PROVE Hangs(u, m) <=> Hangs(t, m)
  <2>0. t[m].parent # NoNode => t[m].parent \in DOMAIN t
    BY <1>4, HeapFacts DEF NoNode
  <2>1. m \notin Links(u, f) /\ m \notin Links(t, f)
    BY <1>3, <1>5, <1>13
  <2> QED
    BY <1>11, <2>0, <2>1 DEF Hangs
<1>15. ~Hangs(u, k)
  BY <1>10 DEF Hangs
<1>16. IsWhole(u)
  <2> SUFFICES ASSUME NEW n \in DOMAIN u, Hangs(u, n)
               PROVE  /\ u[n].parent # NoNode => Hangs(u, u[n].parent)
                      /\ HoldsItsLinks(u, n) \/ (u[n].next # NoNode /\ u[u[n].next].type = "ready"
                                                 /\ u[u[n].next].next = NoNode)
    BY DEF IsWhole
  <2>1. n \in DOMAIN t /\ Hangs(t, n)
    BY <1>8, <1>14, <1>15
  <2>2. u[n].parent # NoNode => Hangs(u, u[n].parent)
    <3>1. t[n].parent # NoNode => n # Root
      BY <1>1 DEF Whole
    <3>2. n # Root => t[n].parent \in DOMAIN t /\ Hangs(t, t[n].parent)
      BY <1>1, <2>1, WholeFacts
    <3> QED
      BY <1>11, <1>14, <2>1, <3>1, <3>2
  <2>3. CASE n = f
    BY <1>10, <1>12, <2>2, <2>3
  <2>4. CASE n # f
    <3>1. Single(u[n]) /\ Links(u, n) = Links(t, n)
      BY <1>1, <1>11, <2>1, <2>4, WholeFacts
    <3>2. \A c \in Links(u, n) : u[c].parent = n
      BY <1>1, <1>11, <2>1, <3>1, WholeFacts
    <3> QED
      BY <2>2, <3>1, <3>2, HoldsSplit
  <2> QED
    BY <2>3, <2>4
<1>17. ASSUME NEW m \in DOMAIN u, u[m].type # "ready" PROVE m \in DOMAIN t /\ SameNode(u[m], t[m])
  BY <1>8, <1>10, <1>11, <1>17
<1>18. PlaysServed(s, u)
  <2> SUFFICES ASSUME NEW n \in DOMAIN u, u[n].type = "play", Hangs(u, n), ~s[n].config.dummy
               PROVE  /\ u[n].loadRef # NoNode /\ u[u[n].loadRef].type = "load" /\ Hangs(u, u[n].loadRef)
                      /\ u[u[n].loadRef].wave = u[n].wave /\ u[u[n].loadRef].reg = u[n].reg
    BY DEF PlaysServed
  <2>1. n \in DOMAIN t /\ SameNode(u[n], t[n]) /\ Hangs(t, n) /\ t[n].type = "play"
    BY <1>14, <1>17 DEF SameNode
  <2> DEFINE l == t[n].loadRef
  <2>2. /\ l # NoNode /\ t[l].type = "load" /\ Hangs(t, l) /\ t[l].wave = t[n].wave
        /\ t[l].reg = t[n].reg
    BY <1>2, <2>1 DEF PlaysServed
  <2>3. l \in DOMAIN t
    <3>1. t[n] \in Nodes(Len(t))
      BY <1>4, <2>1, HeapFacts
    <3>2. l \in 0 .. Len(t)
      BY <3>1 DEF Nodes
    <3> QED
      BY <1>4, <2>2, <3>2 DEF NoNode
  <2> HIDE DEF l
  <2>4. SameNode(u[l], t[l]) /\ Hangs(u, l)
    BY <1>11, <1>14, <2>2, <2>3
  <2> QED
    BY <2>1, <2>2, <2>4 DEF SameNode, l
<1>19. OneLoad(u)
  <2> SUFFICES ASSUME NEW l \in DOMAIN u, u[l].type = "load", u[l].wave # 0, Hangs(u, l)
               PROVE  /\ u[u[l].parent].type = "load" /\ u[u[l].parent].next = l
                      /\ \A j \in DOMAIN u :
                            u[j].type = "load" /\ u[j].wave = u[l].wave /\ Hangs(u, j) => j = l
    BY DEF OneLoad
  <2>1. /\ l \in DOMAIN t /\ t[l].type = "load" /\ Hangs(t, l) /\ t[l].wave = u[l].wave
        /\ l \in C /\ l # Root
    BY <1>1, <1>14, <1>17 DEF SameNode
  <2> DEFINE p == t[l].parent
  <2>2. p \in C /\ p \in DOMAIN t /\ t[p].type = "load" /\ t[p].next = l
    BY <1>1, <2>1 DEF Chain
  <2>3. p # f
    BY <1>3, <2>1, <2>2
  <2>4. u[l].parent = p
    BY <1>11, <2>1
  <2> HIDE DEF p
  <2>5. u[p].type = "load" /\ u[p].next = l
    BY <1>11, <2>2, <2>3
  <2>6. ASSUME NEW j \in DOMAIN u, u[j].type = "load", u[j].wave = u[l].wave, Hangs(u, j)
        PROVE  j = l
    <3>1. j \in DOMAIN t /\ t[j].type = "load" /\ t[j].wave = t[l].wave /\ Hangs(t, j)
      BY <1>14, <1>17, <2>1, <2>6 DEF SameNode
    <3> QED
      BY <1>2, <2>1, <3>1 DEF OneLoad
  <2> QED
    BY <2>4, <2>5, <2>6
<1>20. u[Root].wave = 0
  <2>1. Root \in DOMAIN t
    BY <1>4, HeapFacts
  <2> QED
    BY <1>1, <1>11, <2>1 DEF SameNode
\* The tree is whole but for the parent of the new node.
<1>21. Laid(s, u) /\ Completed(u, k)
  <2> DEFINE gk == [r EXCEPT !.parent = f]
             g  == [u EXCEPT ![k].parent = f]
  <2>1. Len(u) = Len(t) + 1 /\ Len(t) + 1 \in Nat /\ DOMAIN u = DOMAIN t \cup {k} /\ u \in Seq(Nodes(Len(u)))
    BY <1>4, <1>5, <1>8
  <2>2. /\ gk \in Nodes(Len(u)) /\ gk.parent = f /\ gk.next = NoNode /\ gk.loop = r.loop
        /\ gk.branches = r.branches /\ gk.type = "ready" /\ gk.asmId = r.asmId /\ gk.wave = r.wave
        /\ gk.loadRef = r.loadRef /\ gk.reg = r.reg
    <3>1. f \in 0 .. Len(u)
      BY <1>3, <1>4, <2>1
    <3> QED
      BY <2>1, <3>1 DEF Nodes
  <2>3. /\ g \in Seq(Nodes(Len(u))) /\ Len(g) = Len(u) /\ DOMAIN g = DOMAIN u /\ g[k] = gk
        /\ \A m \in DOMAIN t : g[m] = u[m]
    <3>1. g = [u EXCEPT ![k] = gk] /\ k \in DOMAIN u /\ k \notin DOMAIN t
      BY <1>5, <1>10, <2>1
    <3> HIDE DEF g, gk
    <3> QED
      BY <2>1, <2>2, <3>1
  <2>4. LinksOf(gk) = {} /\ Single(gk)
    BY <2>2 DEF LinksOf, Single
  <2> HIDE DEF g, gk
  <2>5. IsHeap(g)
    BY <1>9, <2>3 DEF IsHeap
  <2>6. /\ \A m \in DOMAIN t : Links(g, m) = Links(u, m)
        /\ Links(g, k) = {}
    BY <2>3, <2>4, HoldsSplit
  <2>7. ASSUME NEW m \in DOMAIN t PROVE Hangs(g, m) <=> Hangs(t, m)
    <3>1. t[m].parent # NoNode => t[m].parent \in DOMAIN t
      BY <1>4, HeapFacts DEF NoNode
    <3>2. g[m].parent = t[m].parent /\ u[m].parent = t[m].parent
      BY <1>11, <2>3
    <3>3. Hangs(g, m) <=> Hangs(u, m)
      BY <2>6, <3>1, <3>2 DEF Hangs
    <3> QED
      BY <1>14, <3>3
  <2>8. Hangs(g, k) /\ Links(g, f) = {k} /\ g[f].next = k /\ f # NoNode
    BY <1>3, <1>12, <1>13, <2>2, <2>3, <2>6 DEF Hangs
  <2>9. \A m \in DOMAIN t : m # f => Links(g, m) = Links(t, m)
    BY <1>11, <2>6
  <2>10. Ranked(g)
    <3>1. PICK q \in [DOMAIN t -> Nat] : Down(t, q)
      BY <1>1 DEF Whole, Ranked
    <3> DEFINE q2 == [m \in DOMAIN g |-> IF m = k THEN q[f] + 1 ELSE q[m]]
    <3>2. q2 \in [DOMAIN g -> Nat] /\ q2[k] = q[f] + 1 /\ \A m \in DOMAIN t : q2[m] = q[m]
      BY <1>3, <1>5, <2>1, <2>3
    <3> HIDE DEF q2
    <3>3. ASSUME NEW m \in DOMAIN g, NEW c \in Links(g, m) PROVE q2[m] < q2[c]
      <4>1. CASE m = k
        BY <2>6, <3>3, <4>1
      <4>2. CASE m = f
        <5>1. c = k /\ q2[f] = q[f] /\ q[f] \in Nat
          BY <1>3, <2>8, <3>2, <3>3, <4>2
        <5> QED
          BY <3>2, <4>2, <5>1
      <4>3. CASE m # k /\ m # f
        <5>1. m \in DOMAIN t /\ c \in Links(t, m) /\ c \in DOMAIN t
          BY <1>4, <2>1, <2>3, <2>9, <3>3, <4>3, HeapFacts
        <5>2. q[m] < q[c]
          BY <3>1, <5>1 DEF Down
        <5> QED
          BY <3>2, <5>1, <5>2
      <4> QED
        BY <4>1, <4>2, <4>3
    <3> QED
      BY <3>2, <3>3 DEF Ranked, Down
  <2>11. Whole(g)
    <3>1. g[Root].parent = NoNode
      <4>1. Root \in DOMAIN t
        BY <1>4, HeapFacts
      <4> QED
        BY <1>1, <1>11, <2>3, <4>1 DEF Whole
    <3>2. ASSUME NEW n \in DOMAIN g, Hangs(g, n)
          PROVE  HoldsItsLinks(g, n) /\ (n # Root => Hangs(g, g[n].parent))
      <4>1. CASE n = k
        <5>1. HoldsItsLinks(g, k)
          BY <2>3, <2>4, <2>6, HoldsSplit
        <5> QED
          BY <1>3, <2>2, <2>3, <2>7, <4>1, <5>1
      <4>2. CASE n # k
        <5>1. n \in DOMAIN t /\ Hangs(t, n)
          BY <2>1, <2>3, <2>7, <3>2, <4>2
        <5>2. n # Root => Hangs(g, g[n].parent)
          <6>1. n # Root => t[n].parent \in DOMAIN t /\ Hangs(t, t[n].parent)
            BY <1>1, <5>1, WholeFacts
          <6> QED
            BY <1>11, <2>3, <2>7, <5>1, <6>1
        <5>3. CASE n = f
          <6>1. Single(g[f])
            <7>1. Single(t[f]) /\ t[f].type = "load"
              BY <1>1, <1>3, WholeFacts DEF Chain
            <7>2. /\ t1[f] = t[f] /\ t1[f] \in Nodes(Len(t1))
              BY <1>3, <1>5, HeapFacts DEF Whole
            <7>3. /\ fr.loop = t[f].loop /\ fr.branches = t[f].branches /\ fr.type = t[f].type
              BY <7>2 DEF fr, Nodes
            <7>4. g[f] = fr
              BY <1>3, <1>8, <2>3
            <7> QED
              BY <1>7, <1>10, <7>1, <7>3, <7>4 DEF Single, Range
          <6>2. \A c \in Links(g, f) : g[c].parent = f
            BY <2>2, <2>3, <2>8
          <6> QED
            BY <5>2, <5>3, <6>1, <6>2, HoldsSplit
        <5>4. CASE n # f
          <6>1. g[n] = t[n] /\ Single(t[n]) /\ Links(g, n) = Links(t, n)
            BY <1>1, <1>11, <2>3, <2>9, <5>1, <5>4, WholeFacts
          <6>2. \A c \in Links(t, n) : c \in DOMAIN t /\ t[c].parent = n
            BY <1>1, <5>1, WholeFacts
          <6>3. \A c \in Links(g, n) : g[c].parent = n
            BY <1>11, <2>3, <6>1, <6>2
          <6> QED
            BY <5>2, <6>1, <6>3, HoldsSplit
        <5> QED
          BY <5>3, <5>4
      <4> QED
        BY <4>1, <4>2
    <3> QED
      BY <2>5, <2>10, <3>1, <3>2 DEF Whole
  <2>12. Settled(s, g, C, f)
    <3>1. Settled(s, t, C, f)
      BY MovedAll
    <3>2. /\ \A m \in DOMAIN t : SameNode(g[m], t[m]) /\ (Hangs(g, m) <=> Hangs(t, m))
          /\ k \notin DOMAIN t /\ DOMAIN g = DOMAIN t \cup {k} /\ g[k].type = "ready"
      BY <1>5, <1>11, <2>1, <2>2, <2>3, <2>7
    <3>3. C \subseteq DOMAIN t
      BY <1>1 DEF Chain
    <3>4. /\ \A c \in C : g[c].parent = t[c].parent /\ (c # f => g[c].next = t[c].next)
          /\ g[f].next \notin C
      BY <1>5, <1>11, <2>3, <2>8, <3>3
    <3> QED
      BY <2>11, <3>1, <3>2, <3>4, SettledKept
  <2>13. Alike(g, u)
    <3>1. ASSUME NEW n \in DOMAIN g
          PROVE  /\ u[n].type = g[n].type /\ u[n].asmId = g[n].asmId /\ u[n].wave = g[n].wave
                 /\ u[n].next = g[n].next /\ u[n].branches = g[n].branches /\ u[n].loop = g[n].loop
                 /\ u[n].loadRef = g[n].loadRef /\ u[n].reg = g[n].reg
                 /\ g[n].type = "play" => u[n].config.dummy = g[n].config.dummy
      <4>1. CASE n = k
        BY <1>10, <2>2, <2>3, <4>1
      <4>2. CASE n # k
        BY <2>1, <2>3, <4>2
      <4> QED
        BY <4>1, <4>2
    <3> QED
      BY <2>3, <3>1 DEF Alike
  <2>14. Completed(u, k)
    <3>1. \A n \in DOMAIN u : SameLinks(g[n], u[n])
      BY <2>3, <2>13 DEF Alike, SameLinks
    <3>2. ASSUME NEW n \in DOMAIN u PROVE Hangs(g, n) <=> Hangs(u, n) \/ n = k
      <4>1. n = k \/ n \in DOMAIN t
        BY <2>1
      <4> QED
        BY <1>5, <1>14, <1>15, <2>7, <2>8, <4>1
    <3> QED
      BY <2>3, <2>11, <3>1, <3>2 DEF Completed
  <2> QED
    BY <2>12, <2>13, <2>14 DEF Laid
<1>22. Built(s, u)
  BY <1>9, <1>16, <1>18, <1>19, <1>20, <1>21 DEF Built
<1>23. LinkedAt(t, f, k, r, u)
  <2>1. /\ DOMAIN u = DOMAIN t \cup {k} /\ k \notin DOMAIN t /\ k \in Nat
        /\ \A m \in DOMAIN t : u[m].type = t[m].type
    BY <1>4, <1>5, <1>8, <1>11 DEF SameNode
  <2>2. fr.type = t[f].type /\ fr.loop = t[f].loop /\ fr.branches = t[f].branches
    <3>1. t1[f] = t[f] /\ t1[f] \in Nodes(Len(t1))
      BY <1>3, <1>5, HeapFacts DEF Whole
    <3> QED
      BY <3>1 DEF fr, Nodes
  <2>3. r.type # "play" /\ r.branches = << >> /\ r.loop = NoNode
    BY NoLinks
  <2>4. \A m \in DOMAIN t : m # f => u[m] = t[m]
    BY <1>11
  <2>5. Follows(t, f, k, u)
    BY <1>3, <1>4, <1>8, <1>10, <1>12, <2>1, <2>2, <2>3, <2>4 DEF Follows
  <2>6. KeepsOrder(t, u)
    BY <2>5, LinkedOrder
  <2> QED
    BY <1>10, <1>21, <2>1, <2>6 DEF LinkedAt
<1> QED
  BY <1>5, <1>6, <1>22, <1>23 DEF u, t1, k

LEMMA ReadyPlaced ==
  ASSUME NEW V, NEW C, Moving(src, h, << >>, V, C, front, << >>), PlaceReady
  PROVE  Built(src, h') /\ front \in DOMAIN h'
<1> DEFINE r == NewNode("ready", h[front].asmId)
           x == h[front].next
           t == Append(h, r)
<1>1. /\ h' = IF ~AwgReady THEN h
              ELSE IF x # NoNode THEN InsertBefore(t, x, Len(t)) ELSE [t EXCEPT ![front].next = Len(t)]
  BY DEF PlaceReady
<1>2. /\ Built(src, h) /\ Whole(h) /\ front \in DOMAIN h /\ Hangs(h, front)
      /\ Len(h) \in Nat /\ DOMAIN h = 1 .. Len(h)
  <2>1. Whole(h) /\ Chain(h, C, front)
    BY DEF Moving
  <2>2. front \in DOMAIN h /\ Hangs(h, front)
    BY <2>1, ChainFacts DEF Chain
  <2>3. Len(h) \in Nat /\ DOMAIN h = 1 .. Len(h)
    BY <2>1, HeapFacts DEF Whole
  <2>4. Built(src, h)
    BY MovedAll
  <2> QED
    BY <2>1, <2>2, <2>3, <2>4
<1>3. /\ r \in Nodes(Len(h) + 1) /\ r.type = "ready" /\ r.next = NoNode /\ r.parent = NoNode
      /\ LinksOf(r) = {} /\ Single(r)
  <2>1. h[front] \in Nodes(Len(h))
    BY <1>2, HeapFacts DEF Whole
  <2>2. h[front].asmId \in Nat /\ Len(h) + 1 \in Nat
    BY <1>2, <2>1 DEF Nodes
  <2> QED
    BY <2>2, NewNodeFacts
<1> HIDE DEF r
<1>4. Len(t) = Fresh(h)
  BY <1>2, <1>3 DEF Fresh
<1>5. CASE ~AwgReady
  BY <1>1, <1>2, <1>5
<1>6. CASE AwgReady /\ x # NoNode
  <2>1. NewFront(h, front, x, Fresh(h), r, InsertBefore(t, x, Fresh(h)))
    BY <1>2, <1>3, <1>6, FrontInserted
  <2>2. h' = InsertBefore(t, x, Fresh(h))
    BY <1>1, <1>4, <1>6
  <2> HIDE DEF t
  <2>3. NewFront(h, front, x, Fresh(h), r, h')
    BY <2>1, <2>2
  <2>4. Built(src, h')
    BY <1>3, <2>3, ReadyInserted
  <2> QED
    BY <1>2, <2>3, <2>4 DEF NewFront
<1>7. CASE AwgReady /\ x = NoNode
  <2>1. Len(t) = Len(h) + 1 /\ Built(src, [t EXCEPT ![front].next = Len(t)])
    BY <1>3, <1>7, ReadyLinked
  <2>2. h' = [t EXCEPT ![front].next = Len(t)]
    BY <1>1, <1>7
  <2>3. front \in DOMAIN t
    BY <1>2, <2>1
  <2>4. DOMAIN h' = DOMAIN t
    BY <2>2
  <2> QED
    BY <2>1, <2>2, <2>3, <2>4
<1> QED
  BY <1>5, <1>6, <1>7

\* What the later passes leave alone.
LEMMA FieldsKept ==
  ASSUME NEW k \in Nat, NEW a \in Nodes(k), NEW b \in Nodes(k),
         [a EXCEPT !.config = ZeroConfig, !.cur = ZeroConfig, !.rate = -1, !.precomp = 0]
         = [b EXCEPT !.config = ZeroConfig, !.cur = ZeroConfig, !.rate = -1, !.precomp = 0]
  PROVE  /\ a.type = b.type /\ a.wave = b.wave /\ a.loadRef = b.loadRef /\ a.reg = b.reg
         /\ a.asmId = b.asmId
         /\ a.next = b.next /\ a.loop = b.loop /\ a.branches = b.branches /\ a.parent = b.parent
<1> DEFINE c == [a EXCEPT !.config = ZeroConfig, !.cur = ZeroConfig, !.rate = -1, !.precomp = 0]
           d == [b EXCEPT !.config = ZeroConfig, !.cur = ZeroConfig, !.rate = -1, !.precomp = 0]
<1>1. /\ c.type = a.type /\ c.wave = a.wave /\ c.loadRef = a.loadRef /\ c.reg = a.reg
      /\ c.asmId = a.asmId
      /\ c.next = a.next /\ c.loop = a.loop /\ c.branches = a.branches /\ c.parent = a.parent
  BY DEF Nodes
<1>2. /\ d.type = b.type /\ d.wave = b.wave /\ d.loadRef = b.loadRef /\ d.reg = b.reg
      /\ d.asmId = b.asmId
      /\ d.next = b.next /\ d.loop = b.loop /\ d.branches = b.branches /\ d.parent = b.parent
  BY DEF Nodes
<1>3. c = d
  OBVIOUS
<1> HIDE DEF c, d
<1> QED
  BY <1>1, <1>2, <1>3

\* No pass after them touches a link.
LEMMA LinksConfigured ==
  ASSUME IsHeap(h), Configure
  PROVE  /\ DOMAIN h' = DOMAIN h /\ IsHeap(h')
         /\ \A n \in DOMAIN h :
               /\ h'[n].type = h[n].type /\ h'[n].wave = h[n].wave /\ h'[n].loadRef = h[n].loadRef
               /\ h'[n].asmId = h[n].asmId
               /\ h'[n].reg = h[n].reg /\ h'[n].next = h[n].next /\ h'[n].loop = h[n].loop
               /\ h'[n].branches = h[n].branches /\ h'[n].parent = h[n].parent
<1> DEFINE u == h'
<1>1. u \in Seq(Nodes(Len(h))) /\ Len(u) = Len(h) /\ Unconfigured(u) = Unconfigured(h)
  BY DEF Configure
<1>2. IsHeap(h)
  OBVIOUS
<1> HIDE DEF u
<1>3. Len(h) \in Nat /\ DOMAIN h = 1 .. Len(h) /\ DOMAIN u = 1 .. Len(h) /\ Root \in DOMAIN h
  BY <1>1, <1>2, HeapFacts
<1>4. IsHeap(u)
  BY <1>1, <1>3 DEF IsHeap
<1>5. ASSUME NEW n \in DOMAIN h
      PROVE  /\ u[n].type = h[n].type /\ u[n].wave = h[n].wave /\ u[n].loadRef = h[n].loadRef
             /\ u[n].asmId = h[n].asmId
             /\ u[n].reg = h[n].reg /\ u[n].next = h[n].next /\ u[n].loop = h[n].loop
             /\ u[n].branches = h[n].branches /\ u[n].parent = h[n].parent
  <2> DEFINE U == Unconfigured(u)
             H == Unconfigured(h)
  <2>1. U[n] = [u[n] EXCEPT !.config = ZeroConfig, !.cur = ZeroConfig, !.rate = -1, !.precomp = 0]
    BY <1>3 DEF Unconfigured
  <2>2. H[n] = [h[n] EXCEPT !.config = ZeroConfig, !.cur = ZeroConfig, !.rate = -1, !.precomp = 0]
    BY <1>3 DEF Unconfigured
  <2>3. u[n] \in Nodes(Len(h)) /\ h[n] \in Nodes(Len(h))
    <3>1. h[n] \in Nodes(Len(h))
      BY <1>2, HeapFacts
    <3> QED
      BY <1>1, <1>3, <3>1
  <2>4. U[n] = H[n]
    BY <1>1
  <2> HIDE DEF U, H
  <2>5. [u[n] EXCEPT !.config = ZeroConfig, !.cur = ZeroConfig, !.rate = -1, !.precomp = 0]
        = [h[n] EXCEPT !.config = ZeroConfig, !.cur = ZeroConfig, !.rate = -1, !.precomp = 0]
    BY <2>1, <2>2, <2>4
  <2> DEFINE a == u[n]
             b == h[n]
  <2>6. /\ a \in Nodes(Len(h)) /\ b \in Nodes(Len(h))
        /\ [a EXCEPT !.config = ZeroConfig, !.cur = ZeroConfig, !.rate = -1, !.precomp = 0]
           = [b EXCEPT !.config = ZeroConfig, !.cur = ZeroConfig, !.rate = -1, !.precomp = 0]
    BY <2>3, <2>5
  <2>7. /\ a.type = b.type /\ a.wave = b.wave /\ a.loadRef = b.loadRef /\ a.reg = b.reg
        /\ a.asmId = b.asmId
        /\ a.next = b.next /\ a.loop = b.loop /\ a.branches = b.branches /\ a.parent = b.parent
    <3> HIDE DEF a, b
    <3> QED
      BY <1>3, <2>6, FieldsKept
  <2> QED
    BY <2>7
<1> QED
  BY <1>3, <1>4, <1>5 DEF u

LEMMA Configured ==
  ASSUME Built(src, h), Configure
  PROVE  Built(src, h') /\ DOMAIN h' = DOMAIN h
<1> DEFINE u == h'
<1>1. /\ u \in Seq(Nodes(Len(h))) /\ Len(u) = Len(h) /\ Unconfigured(u) = Unconfigured(h)
      /\ \A n \in DOMAIN h : h[n].type = "play" => u[n].config.dummy = h[n].config.dummy
  BY DEF Configure
<1>2. /\ IsHeap(h) /\ IsWhole(h) /\ PlaysServed(src, h) /\ OneLoad(h) /\ h[Root].wave = 0
      /\ Laid(src, h)
  BY DEF Built
<1> HIDE DEF u
<1>3. Len(h) \in Nat /\ DOMAIN h = 1 .. Len(h) /\ DOMAIN u = 1 .. Len(h) /\ Root \in DOMAIN h
  BY <1>1, <1>2, HeapFacts
<1>4. IsHeap(u)
  BY <1>2, LinksConfigured DEF u
<1>5. ASSUME NEW n \in DOMAIN h
      PROVE  /\ u[n].type = h[n].type /\ u[n].wave = h[n].wave /\ u[n].loadRef = h[n].loadRef
             /\ u[n].asmId = h[n].asmId
             /\ u[n].reg = h[n].reg /\ u[n].next = h[n].next /\ u[n].loop = h[n].loop
             /\ u[n].branches = h[n].branches /\ u[n].parent = h[n].parent
  BY <1>2, LinksConfigured DEF u
<1>6. ASSUME NEW n \in DOMAIN h
      PROVE  /\ Links(u, n) = Links(h, n) /\ Links(h, n) \subseteq DOMAIN h
             /\ h[n].parent # NoNode => h[n].parent \in DOMAIN h
             /\ h[n].next # NoNode => h[n].next \in DOMAIN h
             /\ h[n].loadRef # NoNode => h[n].loadRef \in DOMAIN h
  <2>1. h[n] \in Nodes(Len(h)) /\ Links(h, n) \subseteq DOMAIN h
    BY <1>2, HeapFacts
  <2>2. h[n].parent \in 0 .. Len(h) /\ h[n].next \in 0 .. Len(h) /\ h[n].loadRef \in 0 .. Len(h)
    BY <2>1 DEF Nodes
  <2>3. Links(u, n) = Links(h, n)
    BY <1>5 DEF Links
  <2> QED
    BY <1>3, <2>1, <2>2, <2>3 DEF NoNode
<1>7. \A n \in DOMAIN h : Hangs(u, n) <=> Hangs(h, n)
  BY <1>5, <1>6 DEF Hangs
<1>8. IsWhole(u)
  <2> SUFFICES ASSUME NEW n \in DOMAIN h, Hangs(h, n)
               PROVE  /\ u[n].parent # NoNode => Hangs(u, u[n].parent)
                      /\ HoldsItsLinks(u, n) \/ (u[n].next # NoNode /\ u[u[n].next].type = "ready"
                                                                    /\ u[u[n].next].next = NoNode)
    BY <1>3, <1>7 DEF IsWhole
  <2>1. u[n].parent # NoNode => Hangs(u, u[n].parent)
    BY <1>2, <1>5, <1>6, <1>7 DEF IsWhole
  <2>2. HoldsItsLinks(h, n) => HoldsItsLinks(u, n)
    <3>1. (\A c \in Links(h, n) : h[c].parent = n) => \A c \in Links(u, n) : u[c].parent = n
      BY <1>5, <1>6
    <3>2. Single(h[n]) => Single(u[n])
      <4>1. u[n].type = h[n].type /\ u[n].next = h[n].next /\ u[n].loop = h[n].loop
            /\ u[n].branches = h[n].branches
        BY <1>5
      <4> QED
        BY <4>1 DEF Single
    <3> QED
      BY <3>1, <3>2, HoldsSplit
  <2>3. h[n].next # NoNode /\ h[h[n].next].type = "ready" /\ h[h[n].next].next = NoNode
        => u[n].next # NoNode /\ u[u[n].next].type = "ready" /\ u[u[n].next].next = NoNode
    BY <1>5, <1>6
  <2> QED
    BY <1>2, <2>1, <2>2, <2>3 DEF IsWhole
<1>9. PlaysServed(src, u)
  <2> SUFFICES ASSUME NEW n \in DOMAIN h, h[n].type = "play", Hangs(h, n), ~src[n].config.dummy
               PROVE  /\ u[n].loadRef # NoNode /\ u[u[n].loadRef].type = "load" /\ Hangs(u, u[n].loadRef)
                      /\ u[u[n].loadRef].wave = u[n].wave /\ u[u[n].loadRef].reg = u[n].reg
    BY <1>3, <1>5, <1>7 DEF PlaysServed
  <2>1. /\ h[n].loadRef # NoNode /\ h[h[n].loadRef].type = "load" /\ Hangs(h, h[n].loadRef)
        /\ h[h[n].loadRef].wave = h[n].wave /\ h[h[n].loadRef].reg = h[n].reg
    BY <1>2 DEF PlaysServed
  <2> QED
    BY <1>5, <1>6, <1>7, <2>1
<1>10. OneLoad(u)
  <2> SUFFICES ASSUME NEW l \in DOMAIN h, h[l].type = "load", h[l].wave # 0, Hangs(h, l)
               PROVE  /\ u[u[l].parent].type = "load" /\ u[u[l].parent].next = l
                      /\ \A k \in DOMAIN u :
                            u[k].type = "load" /\ u[k].wave = u[l].wave /\ Hangs(u, k) => k = l
    BY <1>3, <1>5, <1>7 DEF OneLoad
  <2>1. h[l].parent # NoNode
    BY <1>2 DEF Hangs
  <2>2. h[l].parent \in DOMAIN h /\ h[h[l].parent].type = "load" /\ h[h[l].parent].next = l
    BY <1>2, <1>6, <2>1 DEF OneLoad
  <2>3. u[u[l].parent].type = "load" /\ u[u[l].parent].next = l
    BY <1>5, <2>2
  <2>4. ASSUME NEW k \in DOMAIN u, u[k].type = "load", u[k].wave = u[l].wave, Hangs(u, k)
        PROVE  k = l
    <3>1. k \in DOMAIN h /\ h[k].type = "load" /\ h[k].wave = h[l].wave /\ Hangs(h, k)
      BY <1>3, <1>5, <1>7, <2>4
    <3> QED
      BY <1>2, <3>1 DEF OneLoad
  <2> QED
    BY <2>3, <2>4
<1>11. u[Root].wave = 0
  BY <1>2, <1>3, <1>5
<1>12. Laid(src, u)
  <2>1. PICK g, C, f : Settled(src, g, C, f) /\ Alike(g, h)
    BY <1>2 DEF Laid
  <2>2. Alike(g, u)
    BY <1>1, <1>3, <1>5, <2>1 DEF Alike
  <2> QED
    BY <2>1, <2>2 DEF Laid
<1> QED
  BY <1>3, <1>4, <1>8, <1>9, <1>10, <1>11, <1>12 DEF Built, u

----------------------------------------------------------------------------
(* The tree as it is handed over.                                          *)

LEMMA ProgramIsWhole ==
  ASSUME NEW t, IsProgram(t)
  PROVE  Linking(t, t, <<Root>>, {}, << >>)
<1>1. /\ IsHeap(t) /\ t[Root].type = "load" /\ t[Root].wave = 0 /\ t[Root].parent = NoNode
      /\ \A n \in DOMAIN t :
            /\ HoldsItsLinks(t, n) /\ t[n].loadRef = NoNode /\ t[n].play = << >>
            /\ \A c \in Links(t, n) : c > n
            /\ n # Root => t[n].type \notin {"load", "ready"} /\ Hangs(t, n)
  BY DEF IsProgram, IsHeap
<1>2. /\ Len(t) \in Nat /\ DOMAIN t = 1 .. Len(t) /\ Root \in DOMAIN t
      /\ \A n \in DOMAIN t : Links(t, n) \subseteq DOMAIN t /\ t[n].parent \in 0 .. Len(t)
  BY <1>1, HeapFacts
<1>3. Ranked(t)
  <2> DEFINE r == [n \in DOMAIN t |-> n]
  <2>1. r \in [DOMAIN t -> Nat] /\ \A n \in DOMAIN t : r[n] = n
    BY <1>2
  <2> HIDE DEF r
  <2>2. Down(t, r)
    BY <1>1, <1>2, <2>1 DEF Down
  <2> QED
    BY <2>1, <2>2 DEF Ranked
<1>4. Whole(t)
  <2>1. ASSUME NEW n \in DOMAIN t, n # Root PROVE Hangs(t, t[n].parent)
    <3>1. t[n].parent \in DOMAIN t
      BY <1>1, <1>2, <2>1 DEF Hangs, NoNode
    <3> QED
      BY <1>1, <3>1 DEF Hangs
  <2> QED
    BY <1>1, <1>3, <2>1 DEF Whole
<1>5. /\ <<Root>> \in Seq(DOMAIN t) /\ IsInjective(<<Root>>) /\ Range(<<Root>>) = {Root}
      /\ Range(<< >>) = {} /\ << >> \in Seq(Nat) /\ IsInjective(<< >>)
  BY <1>2 DEF IsInjective, Range
<1>6. Hangs(t, Root)
  BY DEF Hangs
<1>7. Walks(t, <<Root>>, {})
  BY <1>5, <1>6 DEF Walks
<1>8. Served(t) /\ FromSource(t, t)
  BY <1>1, <1>2 DEF Served, FromSource, Stays, Hangs
<1>9. Serves(t) /\ Ahead(t, << >>)
  BY <1>1, <1>5 DEF Serves, Ahead
<1> QED
  BY <1>1, <1>4, <1>5, <1>7, <1>8, <1>9 DEF Linking, Waves

----------------------------------------------------------------------------
(* The invariant: what each pass keeps, and what it leaves to the next.    *)

Preparing == /\ front = Root /\ todo = << >>
             /\ \E V : Linking(src, h, work, V, used) /\ HaveLoads(h, V)
MovingOn == \E V, C : Moving(src, h, work, V, C, front, todo)
Done == Built(src, h) /\ front \in DOMAIN h /\ work = << >> /\ todo = << >>

TreeInv ==
  /\ src \in Sources /\ Waves(used)
  /\ phase = "prepare" => Preparing
  /\ phase \in {"move", "ready"} => MovingOn
  /\ phase = "ready" => work = << >> /\ todo = << >>
  /\ phase \notin Rewiring => Done

LEMMA TreeInvStarts == TreeInit => TreeInv
<1> SUFFICES ASSUME TreeInit PROVE TreeInv
  OBVIOUS
<1>1. src \in Sources /\ h = src /\ phase = "prepare" /\ work = <<Root>> /\ todo = << >>
      /\ used = << >> /\ front = Root
  BY DEF TreeInit
<1>2. Linking(src, h, work, {}, used)
  BY <1>1, TreeAssumption, ProgramIsWhole
<1>3. HaveLoads(h, {})
  BY DEF HaveLoads
<1>4. Waves(used)
  BY <1>2 DEF Linking
<1> QED
  BY <1>1, <1>2, <1>3, <1>4 DEF TreeInv, Preparing, Rewiring

LEMMA TreeInvKept == TreeInv /\ [TreePasses \/ Configure]_tree => TreeInv'
<1> SUFFICES ASSUME TreeInv, [TreePasses \/ Configure]_tree PROVE TreeInv'
  OBVIOUS
<1>0. src \in Sources /\ Waves(used)
  BY DEF TreeInv
<1>1. CASE PrepareTree
  <2>1. phase = "prepare" /\ phase' = phase /\ src' = src /\ todo' = todo /\ front' = front
    BY <1>1 DEF PrepareTree
  <2>2. PICK V : Linking(src, h, work, V, used) /\ HaveLoads(h, V)
    BY <2>1 DEF TreeInv, Preparing
  <2>3. PICK V2 : Linking(src, h', work', V2, used') /\ HaveLoads(h', V2)
    BY <1>1, <2>2, PrepareRound
  <2>4. Waves(used')
    BY <2>3 DEF Linking
  <2>5. Preparing'
    BY <2>1, <2>3 DEF TreeInv, Preparing
  <2> QED
    BY <1>0, <2>1, <2>4, <2>5 DEF TreeInv, Rewiring
<1>2. CASE EndPrepare
  <2>1. /\ phase = "prepare" /\ phase' = "move" /\ src' = src /\ work = << >> /\ h' = h
        /\ work' = work /\ used' = used /\ front' = front
        /\ todo' = IF h[Root].next = NoNode THEN << >> ELSE used
    BY <1>2 DEF EndPrepare
  <2>2. PICK V : Linking(src, h, work, V, used) /\ HaveLoads(h, V)
    BY <2>1 DEF TreeInv, Preparing
  <2>3. Moving(src, h, << >>, V, {Root}, Root, IF h[Root].next = NoNode THEN << >> ELSE used)
    BY <2>1, <2>2, MovingStarts
  <2>4. front = Root
    BY <2>1 DEF TreeInv, Preparing
  <2>5. MovingOn'
    BY <2>1, <2>3, <2>4 DEF MovingOn
  <2> QED
    BY <1>0, <2>1, <2>5 DEF TreeInv, Rewiring
<1>3. CASE MoveLoads
  <2>1. phase = "move" /\ phase' = phase /\ src' = src /\ used' = used
    BY <1>3 DEF MoveLoads
  <2>2. PICK V, C : Moving(src, h, work, V, C, front, todo)
    BY <2>1 DEF TreeInv, MovingOn
  <2>3. \E V2, C2 : Moving(src, h', work', V2, C2, front', todo')
    BY <1>3, <2>2, MovingNext
  <2>4. MovingOn'
    BY <2>1, <2>3 DEF MovingOn
  <2> QED
    BY <1>0, <2>1, <2>4 DEF TreeInv, Rewiring
<1>4. CASE MergeLoads
  <2>1. phase = "move" /\ phase' = phase /\ src' = src /\ used' = used /\ todo' = todo /\ front' = front
    BY <1>4 DEF MergeLoads
  <2>2. PICK V, C : Moving(src, h, work, V, C, front, todo)
    BY <2>1 DEF TreeInv, MovingOn
  <2>3. \E V2 : Moving(src, h', work', V2, C, front, todo)
    BY <1>4, <2>2, MovingRound
  <2>4. MovingOn'
    BY <2>1, <2>3 DEF MovingOn
  <2> QED
    BY <1>0, <2>1, <2>4 DEF TreeInv, Rewiring
<1>5. CASE EndMove
  <2>1. /\ phase = "move" /\ phase' = "ready" /\ work = << >> /\ todo = << >>
        /\ UNCHANGED <<src, h, work, todo, used, front>>
    BY <1>5 DEF EndMove
  <2>2. MovingOn'
    BY <2>1 DEF TreeInv, MovingOn
  <2> QED
    BY <1>0, <2>1, <2>2 DEF TreeInv, Rewiring
<1>6. CASE PlaceReady
  <2>1. phase = "ready" /\ phase' = "cwvf" /\ UNCHANGED <<src, work, todo, used, front>>
    BY <1>6 DEF PlaceReady
  <2>2. work = << >> /\ todo = << >> /\ MovingOn
    BY <2>1 DEF TreeInv
  <2>3. PICK V, C : Moving(src, h, work, V, C, front, todo)
    BY <2>2 DEF MovingOn
  <2>4. Built(src, h') /\ front \in DOMAIN h'
    BY <1>6, <2>2, <2>3, ReadyPlaced
  <2>5. Done'
    BY <2>1, <2>2, <2>4 DEF Done
  <2> QED
    BY <1>0, <2>1, <2>5 DEF TreeInv, Rewiring
<1>7. CASE Configure
  <2>1. /\ phase \notin Rewiring /\ phase' \notin Rewiring
        /\ UNCHANGED <<src, work, todo, used, front>>
    BY <1>7 DEF Configure
  <2>2. Done
    BY <2>1 DEF TreeInv
  <2>3. Built(src, h') /\ DOMAIN h' = DOMAIN h
    BY <1>7, <2>2, Configured DEF Done
  <2>4. Done'
    BY <2>1, <2>2, <2>3 DEF Done
  <2> QED
    BY <1>0, <2>1, <2>4 DEF TreeInv, Rewiring
<1>8. CASE UNCHANGED tree
  <2>1. UNCHANGED <<src, h, phase, work, todo, used, front>>
    BY <1>8 DEF tree
  <2> QED
    BY <2>1 DEF TreeInv, Preparing, MovingOn, Done, Rewiring
<1> QED
  BY <1>1, <1>2, <1>3, <1>4, <1>5, <1>6, <1>7, <1>8 DEF TreePasses

LEMMA TreeInvHolds == TreeSpec => []TreeInv
<1>1. TreeInit => TreeInv
  BY TreeInvStarts
<1>2. TreeInv /\ [TreePasses \/ Configure]_tree => TreeInv'
  BY TreeInvKept
<1> QED
  BY <1>1, <1>2, PTL DEF TreeSpec, OnlyPassesRewire

LEMMA TreeInvTyped == TreeInv => TreeTypeOK
<1> SUFFICES ASSUME TreeInv PROVE TreeTypeOK
  OBVIOUS
<1>0. used \in Seq(Nat) /\ IsInjective(used)
  BY DEF TreeInv, Waves
<1>1. CASE phase = "prepare"
  <2>1. PICK V : Linking(src, h, work, V, used)
    BY <1>1 DEF TreeInv, Preparing
  <2>2. IsHeap(h) /\ work \in Seq(DOMAIN h)
    BY <2>1 DEF Linking, Whole, Walks
  <2>3. front = Root /\ todo = << >>
    BY <1>1 DEF TreeInv, Preparing
  <2> QED
    BY <1>0, <2>2, <2>3 DEF TreeTypeOK, IsHeap
<1>2. CASE phase \in {"move", "ready"}
  <2>1. PICK V, C : Moving(src, h, work, V, C, front, todo)
    BY <1>2 DEF TreeInv, MovingOn
  <2>2. IsHeap(h) /\ work \in Seq(DOMAIN h) /\ front \in DOMAIN h /\ todo \in Seq(Nat)
    BY <2>1 DEF Moving, Whole, Walks, Chain, Waves
  <2> QED
    BY <1>0, <2>2 DEF TreeTypeOK, IsHeap
<1>3. CASE phase \notin Rewiring
  <2>1. Done
    BY <1>3 DEF TreeInv
  <2> QED
    BY <1>0, <2>1 DEF TreeTypeOK, Done, Built, IsHeap
<1> QED
  BY <1>1, <1>2, <1>3 DEF Rewiring

LEMMA TreeInvWhole == TreeInv => TreeIsWhole
<1> SUFFICES ASSUME TreeInv PROVE TreeIsWhole
  OBVIOUS
<1>1. IsWhole(h)
  <2>1. CASE phase = "prepare"
    BY <2>1, WholeIsWhole DEF TreeInv, Preparing, Linking
  <2>2. CASE phase \in {"move", "ready"}
    BY <2>2, WholeIsWhole DEF TreeInv, MovingOn, Moving
  <2>3. CASE phase \notin Rewiring
    BY <2>3 DEF TreeInv, Done, Built
  <2> QED
    BY <2>1, <2>2, <2>3 DEF Rewiring
<1> QED
  BY <1>1 DEF TreeIsWhole, IsWhole, IsLoneReady

LEMMA TreeInvLoads == TreeInv => LoadsInFront
<1> SUFFICES ASSUME TreeInv, phase \notin {"prepare", "move"} PROVE PlaysServed(src, h) /\ OneLoad(h)
  BY DEF LoadsInFront, PlaysServed, OneLoad
<1>1. CASE phase = "ready"
  <2>1. work = << >> /\ todo = << >> /\ MovingOn
    BY <1>1 DEF TreeInv
  <2>2. PICK V, C : Moving(src, h, work, V, C, front, todo)
    BY <2>1 DEF MovingOn
  <2>3. Built(src, h)
    BY <2>1, <2>2, MovedAll
  <2> QED
    BY <2>3 DEF Built
<1>2. CASE phase \notin Rewiring
  BY <1>2 DEF TreeInv, Done, Built
<1> QED
  BY <1>1, <1>2 DEF Rewiring

----------------------------------------------------------------------------
(* The order of the plays.                                                 *)

NoReady(t) == \A n \in DOMAIN t : t[n].type # "ready"
LoneReady(t, k) == \A n \in DOMAIN t : t[n].type = "ready" /\ t[n].next = NoNode <=> n = k

\* The lists of plays are kept, and what has no parent and is in the tree is the
\* AwgReady node, which is made last.
OrderInv ==
  /\ KeepsOrder(src, h)
  /\ phase \in Rewiring => NoReady(h)
  /\ phase \notin Rewiring => \E k : Completed(h, k) /\ LoneReady(h, k)

LEMMA SameTree ==
  ASSUME NEW t
  PROVE  KeepsOrder(t, t)
<1>1. \A n \in DOMAIN t : SameLinks(t[n], t[n])
  BY DEF SameLinks
<1> QED
  BY <1>1, SameOrder

LEMMA WholeCompleted ==
  ASSUME NEW t, Whole(t), NoReady(t)
  PROVE  Completed(t, NoNode) /\ LoneReady(t, NoNode)
<1>1. NoNode \notin DOMAIN t
  BY HeapFacts DEF Whole, NoNode
<1>2. \A n \in DOMAIN t : SameLinks(t[n], t[n]) /\ (Hangs(t, n) <=> Hangs(t, n) \/ n = NoNode)
  BY <1>1 DEF SameLinks
<1> QED
  BY <1>1, <1>2 DEF Completed, LoneReady, NoReady

LEMMA PrepareOrder ==
  ASSUME NEW V, Linking(src, h, work, V, used), PrepareTree, NoReady(h)
  PROVE  KeepsOrder(h, h') /\ NoReady(h')
<1> DEFINE n == Top(work)
<1>0. work # << >> /\ Whole(h) /\ h[Root].type = "load"
  BY DEF PrepareTree, Linking
<1>1. n \in DOMAIN h /\ Hangs(h, n)
  BY <1>0, LinkingVisit
<1>2. CASE h' = h
  BY <1>2, SameTree
<1>3. CASE h[n].type = "play" /\ h' # h
  <2>1. h' = LinkLoad(h, n)
    BY <1>3 DEF PrepareTree
  <2> HIDE DEF n
  <2>2. h[n].loadRef = NoNode /\ ~h[n].config.dummy /\ n # Root
    BY <1>0, <1>3, <2>1 DEF LinkLoad
  <2>3. Loaded(h, n, h', Fresh(h)) /\ KeepsOrder(h, h')
    BY <1>0, <1>1, <2>1, <2>2, LoadLinked
  <2>4. NoReady(h')
    BY <2>3 DEF NoReady, Loaded, SameNode
  <2> QED
    BY <2>3, <2>4
<1>4. CASE h[n].type = "branch"
  <2>1. h' = RemoveBranches(h, n)
    BY <1>4 DEF PrepareTree
  <2> HIDE DEF n
  <2>2. Pruned(h, n, h')
    <3>1. n # Root
      BY <1>0, <1>4
    <3> QED
      BY <1>0, <1>1, <1>4, <2>1, <3>1, BranchesPruned
  <2> QED
    BY <2>2 DEF NoReady, Pruned, SameNode
<1>5. CASE h[n].type = "setvar"
  <2>1. h' = ExpandSetVar(h, n)
    BY <1>5 DEF PrepareTree
  <2> HIDE DEF n
  <2>2. SetVarsAdded(h, h')
    BY <1>0, <1>1, <2>1, SetVarExpanded
  <2> QED
    BY <2>2 DEF NoReady, SetVarsAdded, SameNode
<1>6. CASE h[n].type \notin {"play", "branch", "setvar"}
  <2>1. h' = h
    BY <1>6 DEF PrepareTree
  <2> QED
    BY <1>2, <2>1
<1> QED
  BY <1>2, <1>3, <1>4, <1>5, <1>6

LEMMA MergeOrder ==
  ASSUME NEW V, NEW C, Moving(src, h, work, V, C, front, todo), MergeLoads, NoReady(h)
  PROVE  KeepsOrder(h, h') /\ NoReady(h')
<1> DEFINE n == Top(work)
<1>1. /\ work # << >>
      /\ h' = IF h[n].type = "load" /\ h[n].wave = h[front].wave THEN TakeOver(h, front, n) ELSE h
  BY DEF MergeLoads
<1>2. n \in DOMAIN h /\ Hangs(h, n) /\ n \notin V
  BY <1>1, MovingVisit
<1>3. Whole(h) /\ n # Root /\ front \in DOMAIN h
  BY <1>2 DEF Moving, Chain
<1> HIDE DEF n
<1>4. CASE h[n].type = "load" /\ h[n].wave = h[front].wave
  <2>1. Merged(h, front, n, h', h[n].parent, h[n].next)
    BY <1>1, <1>2, <1>3, <1>4, TakenOver
  <2> QED
    BY <2>1 DEF NoReady, Merged
<1>5. CASE ~(h[n].type = "load" /\ h[n].wave = h[front].wave)
  BY <1>1, <1>5, SameTree
<1> QED
  BY <1>4, <1>5

LEMMA MoveOrder ==
  ASSUME NEW V, NEW C, Moving(src, h, work, V, C, front, todo), MoveLoads, NoReady(h)
  PROVE  KeepsOrder(h, h') /\ NoReady(h')
<1>1. PICK r, x, k : NewFront(h, front, x, k, r, h') /\ r.type = "load"
  BY MovingNext
<1> QED
  BY <1>1 DEF NewFront, NoReady, SameNode

LEMMA ReadyOrder ==
  ASSUME NEW V, NEW C, Moving(src, h, << >>, V, C, front, << >>), PlaceReady, NoReady(h)
  PROVE  KeepsOrder(h, h') /\ \E k : Completed(h', k) /\ LoneReady(h', k)
<1> DEFINE r == NewNode("ready", h[front].asmId)
           x == h[front].next
           t == Append(h, r)
<1>1. /\ h' = IF ~AwgReady THEN h
              ELSE IF x # NoNode THEN InsertBefore(t, x, Len(t)) ELSE [t EXCEPT ![front].next = Len(t)]
  BY DEF PlaceReady
<1>2. /\ Whole(h) /\ front \in DOMAIN h /\ Hangs(h, front)
      /\ Len(h) \in Nat /\ DOMAIN h = 1 .. Len(h)
  <2>1. Whole(h) /\ Chain(h, C, front)
    BY DEF Moving
  <2>2. front \in DOMAIN h /\ Hangs(h, front)
    BY <2>1, ChainFacts DEF Chain
  <2>3. Len(h) \in Nat /\ DOMAIN h = 1 .. Len(h)
    BY <2>1, HeapFacts DEF Whole
  <2> QED
    BY <2>1, <2>2, <2>3
<1>3. /\ r \in Nodes(Len(h) + 1) /\ r.type = "ready" /\ r.next = NoNode /\ r.parent = NoNode
      /\ LinksOf(r) = {} /\ Single(r)
  <2>1. h[front] \in Nodes(Len(h))
    BY <1>2, HeapFacts DEF Whole
  <2>2. h[front].asmId \in Nat /\ Len(h) + 1 \in Nat
    BY <1>2, <2>1 DEF Nodes
  <2> QED
    BY <2>2, NewNodeFacts
<1> HIDE DEF r
<1>4. Len(t) = Fresh(h)
  BY <1>2, <1>3 DEF Fresh
<1>5. CASE ~AwgReady
  BY <1>1, <1>2, <1>5, SameTree, WholeCompleted
<1>6. CASE AwgReady /\ x # NoNode
  <2>1. NewFront(h, front, x, Fresh(h), r, InsertBefore(t, x, Fresh(h)))
    BY <1>2, <1>3, <1>6, FrontInserted
  <2>2. h' = InsertBefore(t, x, Fresh(h))
    BY <1>1, <1>4, <1>6
  <2> DEFINE k == Fresh(h)
  <2>3. NewFront(h, front, x, k, r, h')
    BY <2>1, <2>2
  <2> HIDE DEF k, x
  <2>4. KeepsOrder(h, h') /\ Whole(h')
    BY <1>3, <2>3 DEF NewFront
  <2>5. NoNode \notin DOMAIN h'
    BY <2>4, HeapFacts DEF Whole, NoNode
  <2>6. ASSUME NEW n \in DOMAIN h' PROVE ~(h'[n].type = "ready" /\ h'[n].next = NoNode)
    BY <1>6, <2>3 DEF NewFront, NoReady, SameNode
  <2>7. \A n \in DOMAIN h' : SameLinks(h'[n], h'[n]) /\ (Hangs(h', n) <=> Hangs(h', n) \/ n = NoNode)
    BY <2>5 DEF SameLinks
  <2>8. Completed(h', NoNode)
    BY <2>4, <2>7 DEF Completed
  <2>9. LoneReady(h', NoNode)
    BY <2>5, <2>6 DEF LoneReady
  <2> QED
    BY <2>4, <2>8, <2>9
<1>7. CASE AwgReady /\ x = NoNode
  <2>1. h' = [t EXCEPT ![front].next = Len(t)]
    BY <1>1, <1>7
  <2>2. LinkedAt(h, front, Fresh(h), r, [t EXCEPT ![front].next = Len(t)])
    BY <1>3, <1>7, ReadyLinked
  <2> DEFINE k == Fresh(h)
  <2>3. LinkedAt(h, front, k, r, h')
    BY <2>1, <2>2
  <2> HIDE DEF k
  <2>4. KeepsOrder(h, h') /\ Completed(h', k)
    BY <2>3 DEF LinkedAt
  <2>5. LoneReady(h', k)
    BY <1>3, <2>3 DEF LinkedAt, LoneReady, NoReady
  <2> QED
    BY <2>4, <2>5
<1> QED
  BY <1>5, <1>6, <1>7

LEMMA ConfigureOrder ==
  ASSUME IsHeap(h), Configure, NEW k, Completed(h, k), LoneReady(h, k)
  PROVE  KeepsOrder(h, h') /\ Completed(h', k) /\ LoneReady(h', k)
<1>1. /\ DOMAIN h' = DOMAIN h
      /\ \A n \in DOMAIN h :
            /\ h'[n].type = h[n].type /\ h'[n].next = h[n].next /\ h'[n].loop = h[n].loop
            /\ h'[n].branches = h[n].branches /\ h'[n].parent = h[n].parent
  BY LinksConfigured
<1>2. \A n \in DOMAIN h : SameLinks(h'[n], h[n])
  BY <1>1 DEF SameLinks
<1>3. KeepsOrder(h, h')
  BY <1>1, <1>2, SameOrder
<1>4. LoneReady(h', k)
  BY <1>1 DEF LoneReady
<1>5. ASSUME NEW n \in DOMAIN h PROVE Hangs(h', n) <=> Hangs(h, n)
  <2>1. \A p \in DOMAIN h : Links(h', p) = Links(h, p)
    BY <1>1 DEF Links
  <2>2. h[n].parent # NoNode => h[n].parent \in DOMAIN h
    BY <1>1, HeapFacts DEF NoNode
  <2> QED
    BY <1>1, <2>1, <2>2 DEF Hangs
<1>6. PICK g : /\ Whole(g) /\ DOMAIN g = DOMAIN h
               /\ \A n \in DOMAIN h : SameLinks(g[n], h[n]) /\ (Hangs(g, n) <=> Hangs(h, n) \/ n = k)
  BY DEF Completed
<1>7. \A n \in DOMAIN h' : SameLinks(g[n], h'[n]) /\ (Hangs(g, n) <=> Hangs(h', n) \/ n = k)
  BY <1>1, <1>2, <1>5, <1>6 DEF SameLinks
<1>8. Completed(h', k)
  BY <1>1, <1>6, <1>7 DEF Completed
<1> QED
  BY <1>3, <1>4, <1>8

LEMMA OrderInvStarts == TreeInit => OrderInv
<1> SUFFICES ASSUME TreeInit PROVE OrderInv
  OBVIOUS
<1>1. h = src /\ phase = "prepare" /\ IsProgram(src)
  BY TreeAssumption DEF TreeInit
<1>2. NoReady(h)
  BY <1>1 DEF IsProgram, NoReady
<1>3. KeepsOrder(src, h)
  BY <1>1, SameTree
<1> QED
  BY <1>1, <1>2, <1>3 DEF OrderInv, Rewiring

LEMMA OrderInvKept == TreeInv /\ OrderInv /\ [TreePasses \/ Configure]_tree => OrderInv'
<1> SUFFICES ASSUME TreeInv, OrderInv, [TreePasses \/ Configure]_tree PROVE OrderInv'
  OBVIOUS
<1>0. KeepsOrder(src, h)
  BY DEF OrderInv
<1>1. CASE PrepareTree
  <2>1. phase = "prepare" /\ phase' = phase /\ src' = src
    BY <1>1 DEF PrepareTree
  <2>2. PICK V : Linking(src, h, work, V, used)
    BY <2>1 DEF TreeInv, Preparing
  <2>3. NoReady(h)
    BY <2>1 DEF OrderInv, Rewiring
  <2>4. KeepsOrder(h, h') /\ NoReady(h')
    BY <1>1, <2>2, <2>3, PrepareOrder
  <2>5. KeepsOrder(src, h')
    BY <1>0, <2>4, OrderKeptOn
  <2> QED
    BY <2>1, <2>4, <2>5 DEF OrderInv, Rewiring
<1>2. CASE EndPrepare \/ EndMove
  <2>1. phase \in Rewiring /\ phase' \in Rewiring /\ src' = src /\ h' = h
    BY <1>2 DEF EndPrepare, EndMove, Rewiring
  <2> QED
    BY <2>1 DEF OrderInv
<1>3. CASE MoveLoads \/ MergeLoads
  <2>1. phase = "move" /\ phase' = phase /\ src' = src
    BY <1>3 DEF MoveLoads, MergeLoads
  <2>2. PICK V, C : Moving(src, h, work, V, C, front, todo)
    BY <2>1 DEF TreeInv, MovingOn
  <2>3. NoReady(h)
    BY <2>1 DEF OrderInv, Rewiring
  <2>4. KeepsOrder(h, h') /\ NoReady(h')
    BY <1>3, <2>2, <2>3, MoveOrder, MergeOrder
  <2>5. KeepsOrder(src, h')
    BY <1>0, <2>4, OrderKeptOn
  <2> QED
    BY <2>1, <2>4, <2>5 DEF OrderInv, Rewiring
<1>4. CASE PlaceReady
  <2>1. phase = "ready" /\ phase' = "cwvf" /\ src' = src
    BY <1>4 DEF PlaceReady
  <2>2. work = << >> /\ todo = << >> /\ MovingOn
    BY <2>1 DEF TreeInv
  <2>3. PICK V, C : Moving(src, h, << >>, V, C, front, << >>)
    BY <2>2 DEF MovingOn
  <2>4. NoReady(h)
    BY <2>1 DEF OrderInv, Rewiring
  <2>5. KeepsOrder(h, h') /\ \E k : Completed(h', k) /\ LoneReady(h', k)
    BY <1>4, <2>3, <2>4, ReadyOrder
  <2>6. KeepsOrder(src, h')
    BY <1>0, <2>5, OrderKeptOn
  <2> QED
    BY <2>1, <2>5, <2>6 DEF OrderInv, Rewiring
<1>5. CASE Configure
  <2>1. phase \notin Rewiring /\ phase' \notin Rewiring /\ src' = src
    BY <1>5 DEF Configure
  <2>2. IsHeap(h)
    BY <2>1 DEF TreeInv, Done, Built
  <2>3. PICK k : Completed(h, k) /\ LoneReady(h, k)
    BY <2>1 DEF OrderInv
  <2>4. KeepsOrder(h, h') /\ Completed(h', k) /\ LoneReady(h', k)
    BY <1>5, <2>2, <2>3, ConfigureOrder
  <2>5. KeepsOrder(src, h')
    BY <1>0, <2>4, OrderKeptOn
  <2> QED
    BY <2>1, <2>4, <2>5 DEF OrderInv
<1>6. CASE UNCHANGED tree
  <2>1. phase' = phase /\ src' = src /\ h' = h
    BY <1>6 DEF tree
  <2> QED
    BY <2>1 DEF OrderInv
<1> QED
  BY <1>1, <1>2, <1>3, <1>4, <1>5, <1>6 DEF TreePasses

\* In a tree that is whole, what hangs from its parent is what is visited.
LEMMA NodesVisited ==
  ASSUME NEW t, Whole(t)
  PROVE  NodesOf(t, Root) = InTree(t)
<1> DEFINE own == [n \in DOMAIN t |-> <<n>>]
<1>1. /\ IsHeap(t) /\ Ranked(t) /\ Root \in DOMAIN t
      /\ \A n \in DOMAIN t : Links(t, n) \subseteq DOMAIN t /\ t[n].branches \in Seq(0 .. Len(t))
  BY HeapFacts DEF Whole
<1>2. \A n \in DOMAIN t : own[n] \in Seq(DOMAIN t) /\ Range(own[n]) = {n}
  BY DEF Range
<1> HIDE DEF own
<1>3. PICK g \in [DOMAIN t -> Seq(DOMAIN t)] : Lists(t, own, g)
  BY <1>1, <1>2, ListsExist
<1>4. NodesOf(t, Root) = Range(g[Root])
  BY <1>1, <1>3, VisitsListed DEF NodesOf, Walk, own
<1>5. ASSUME NEW n \in DOMAIN t
      PROVE  Range(g[n]) = {n} \cup UNION {Range(g[c]) : c \in Links(t, n)}
  <2>1. g[n] = Entry(g, own[n], t[n]) /\ Links(t, n) = LinksOf(t[n])
    BY <1>3, HoldsSplit DEF Lists
  <2>2. \A c \in LinksOf(t[n]) : g[c] \in Seq(DOMAIN t)
    BY <1>1, <1>3, <2>1
  <2>3. Range(Entry(g, own[n], t[n])) = Range(own[n]) \cup UNION {Range(g[c]) : c \in LinksOf(t[n])}
    <3> DEFINE o == own[n]
               r == t[n]
               S == DOMAIN t
               X == 0 .. Len(t)
    <3>1. o \in Seq(S) /\ r.branches \in Seq(X) /\ \A c \in LinksOf(r) : g[c] \in Seq(S)
      BY <1>1, <1>2, <2>2
    <3> HIDE DEF o, r, S, X
    <3>2. Range(Entry(g, o, r)) = Range(o) \cup Gathered(g, r)
      BY <3>1, EntryFacts
    <3> QED
      BY <3>2 DEF o, r, Gathered
  <2> QED
    BY <1>2, <2>1, <2>3
<1>6. ASSUME NEW n \in InTree(t) PROVE Range(g[n]) \subseteq InTree(t)
  <2> DEFINE W == {m \in InTree(t) : ~(Range(g[m]) \subseteq InTree(t))}
  <2> SUFFICES ASSUME W # {} PROVE FALSE
    BY <1>6
  <2>1. W \in SUBSET DOMAIN t
    BY DEF InTree
  <2>2. PICK m \in W : \A c \in Links(t, m) : c \notin W
    BY <1>1, <2>1, Lowest
  <2>3. m \in DOMAIN t /\ Hangs(t, m)
    BY <2>2 DEF InTree
  <2>4. \A c \in Links(t, m) : c \in InTree(t)
    BY <2>3, WholeFacts DEF InTree
  <2>5. \A c \in Links(t, m) : Range(g[c]) \subseteq InTree(t)
    BY <2>2, <2>4
  <2> QED
    BY <1>5, <2>2, <2>3, <2>5
<1>7. \A n \in DOMAIN t : \A m \in Range(g[n]) : m \in DOMAIN t /\ Links(t, m) \subseteq Range(g[n])
  <2> DEFINE Good(n) == \A m \in Range(g[n]) : m \in DOMAIN t /\ Links(t, m) \subseteq Range(g[n])
             W == {n \in DOMAIN t : ~Good(n)}
  <2> SUFFICES ASSUME W # {} PROVE FALSE
    OBVIOUS
  <2> HIDE DEF Good
  <2>1. PICK n \in W : \A c \in Links(t, n) : c \notin W
    BY <1>1, Lowest
  <2>2. ASSUME NEW c \in Links(t, n) PROVE c \in DOMAIN t /\ Good(c) /\ Range(g[c]) \subseteq Range(g[n])
    BY <1>1, <1>5, <2>1, <2>2
  <2>3. ASSUME NEW m \in Range(g[n]) PROVE m \in DOMAIN t /\ Links(t, m) \subseteq Range(g[n])
    <3>1. CASE m = n
      <4>1. \A c \in Links(t, n) : c \in Range(g[c])
        BY <1>5, <2>2
      <4> QED
        BY <2>1, <2>2, <3>1, <4>1
    <3>2. CASE m # n
      <4>1. PICK c \in Links(t, n) : m \in Range(g[c])
        BY <1>5, <2>1, <2>3, <3>2
      <4>2. m \in DOMAIN t /\ Links(t, m) \subseteq Range(g[c])
        BY <2>2, <4>1 DEF Good
      <4> QED
        BY <2>2, <4>2
    <3> QED
      BY <3>1, <3>2
  <2> QED
    BY <2>1, <2>3 DEF Good
<1>8. InTree(t) \subseteq Range(g[Root])
  <2> DEFINE W == InTree(t) \ Range(g[Root])
  <2> SUFFICES ASSUME W # {} PROVE FALSE
    OBVIOUS
  <2>1. W \in SUBSET DOMAIN t
    BY DEF InTree
  <2>2. PICK n \in W : \A p \in DOMAIN t : n \in Links(t, p) => p \notin W
    BY <1>1, <2>1, Highest
  <2>3. n \in DOMAIN t /\ Hangs(t, n) /\ n # Root
    BY <1>1, <1>5, <2>2 DEF InTree
  <2> DEFINE p == t[n].parent
  <2>4. p \in DOMAIN t /\ Hangs(t, p) /\ n \in Links(t, p)
    BY <2>3, WholeFacts
  <2>5. p \in Range(g[Root])
    BY <2>2, <2>4 DEF InTree
  <2>6. Links(t, p) \subseteq Range(g[Root])
    BY <1>1, <1>7, <2>5
  <2> QED
    BY <2>2, <2>4, <2>6
<1>9. Root \in InTree(t)
  BY <1>1 DEF InTree, Hangs
<1> QED
  BY <1>4, <1>6, <1>8, <1>9

\* A node that has no parent, but is linked, is visited too.
LEMMA CompletedVisited ==
  ASSUME NEW t, IsHeap(t), NEW k, Completed(t, k)
  PROVE  Ranked(t) /\ NodesOf(t, Root) = {n \in DOMAIN t : Hangs(t, n) \/ n = k}
<1>1. PICK g : /\ Whole(g) /\ DOMAIN g = DOMAIN t
               /\ \A n \in DOMAIN t : SameLinks(g[n], t[n]) /\ (Hangs(g, n) <=> Hangs(t, n) \/ n = k)
  BY DEF Completed
<1>2. \A n \in DOMAIN t : Links(t, n) = Links(g, n)
  BY <1>1 DEF Links, SameLinks
<1>3. IsHeap(g) /\ Ranked(g)
  BY <1>1 DEF Whole
<1>4. Ranked(t)
  BY <1>1, <1>2, <1>3 DEF Ranked, Down
<1> DEFINE own == [n \in DOMAIN t |-> <<n>>]
<1>5. \A n \in DOMAIN t : own[n] \in Seq(DOMAIN t)
  OBVIOUS
<1>6. own = [n \in DOMAIN g |-> <<n>>]
  BY <1>1
<1>7. NodesOf(t, Root) = Range(Visits(t, own, Root)) /\ NodesOf(g, Root) = Range(Visits(g, own, Root))
  BY <1>6 DEF NodesOf, Walk
<1> HIDE DEF own
<1>8. PICK l \in [DOMAIN t -> Seq(DOMAIN t)] : Lists(t, own, l)
  BY <1>4, <1>5, ListsExist
<1>9. Lists(g, own, l)
  <2>1. \A n \in DOMAIN t : Entry(l, own[n], g[n]) = Entry(l, own[n], t[n])
    BY <1>1, EntryOfSame
  <2>2. l = [n \in DOMAIN t |-> Entry(l, own[n], t[n])]
    BY <1>8 DEF Lists
  <2>3. l = [n \in DOMAIN g |-> Entry(l, own[n], g[n])]
    BY <1>1, <2>1, <2>2
  <2> QED
    BY <2>3 DEF Lists
<1>10. Visits(t, own, Root) = Visits(g, own, Root)
  <2>1. Visits(t, own, Root) = l[Root]
    BY <1>4, <1>8, VisitsListed
  <2>2. Visits(g, own, Root) = l[Root]
    BY <1>3, <1>9, VisitsListed
  <2> QED
    BY <2>1, <2>2
<1>11. NodesOf(g, Root) = InTree(g)
  BY <1>1, NodesVisited
<1> QED
  BY <1>1, <1>4, <1>7, <1>10, <1>11 DEF InTree

LEMMA OrderInvPlays == TreeInv /\ OrderInv => PlaysAreKept
<1> SUFFICES ASSUME TreeInv, OrderInv PROVE PlaysAreKept
  OBVIOUS
<1>1. Whole(src)
  <2>1. IsProgram(src)
    BY TreeAssumption DEF TreeInv
  <2> QED
    BY <2>1, ProgramIsWhole DEF Linking
<1>2. IsHeap(src) /\ Ranked(src) /\ Root \in DOMAIN src /\ DOMAIN src \subseteq Nat
  BY <1>1, HeapFacts DEF Whole
<1>3. IsHeap(h) /\ \E k : Completed(h, k) /\ LoneReady(h, k)
  <2>1. CASE phase \in Rewiring
    <3>1. Whole(h)
      BY <2>1 DEF TreeInv, Preparing, MovingOn, Linking, Moving, Rewiring
    <3>2. NoReady(h)
      BY <2>1 DEF OrderInv
    <3> QED
      BY <3>1, <3>2, WholeCompleted DEF Whole
  <2>2. CASE phase \notin Rewiring
    BY <2>2 DEF TreeInv, Done, Built, OrderInv
  <2> QED
    BY <2>1, <2>2
<1>4. PICK k : Completed(h, k) /\ LoneReady(h, k)
  BY <1>3
<1>5. Ranked(h) /\ NodesOf(h, Root) = {n \in DOMAIN h : Hangs(h, n) \/ n = k}
  BY <1>3, <1>4, CompletedVisited
<1>6. NodesOf(h, Root) = {n \in DOMAIN h : Hangs(h, n) \/ IsLoneReady(n)}
  BY <1>4, <1>5 DEF LoneReady, IsLoneReady
<1>7. PICK g \in [DOMAIN src -> Seq(Nat)] : Lists(src, Plays(src), g)
  <2> DEFINE own == Plays(src)
  <2>1. \A n \in DOMAIN src : own[n] \in Seq(Nat)
    BY <1>2 DEF Plays
  <2> HIDE DEF own
  <2>2. \E g \in [DOMAIN src -> Seq(Nat)] : Lists(src, own, g)
    BY <1>2, <2>1, ListsExist
  <2> QED
    BY <2>2 DEF own
<1>8. PICK f : OrderOf(h, f) /\ \A n \in DOMAIN src : f[n] = g[n]
  BY <1>7 DEF OrderInv, KeepsOrder, OrderOf
<1>9. Visits(src, Plays(src), Root) = g[Root]
  BY <1>2, <1>7, VisitsListed
<1>10. Visits(h, Plays(h), Root) = f[Root]
  BY <1>3, <1>5, <1>8, VisitsListed DEF OrderOf
<1>11. PlaysIn(h) = Visits(h, Plays(h), Root) /\ PlaysIn(src) = Visits(src, Plays(src), Root)
  BY DEF PlaysIn, Plays
<1>12. PlaysIn(h) = PlaysIn(src)
  BY <1>2, <1>8, <1>9, <1>10, <1>11
<1> QED
  BY <1>6, <1>12 DEF PlaysAreKept

LEMMA OrderInvHolds == TreeSpec => []OrderInv
<1>1. TreeInit => OrderInv
  BY OrderInvStarts
<1>2. TreeInv /\ OrderInv /\ [TreePasses \/ Configure]_tree => OrderInv'
  BY OrderInvKept
<1> QED
  BY <1>1, <1>2, TreeInvHolds, PTL DEF TreeSpec, OnlyPassesRewire

----------------------------------------------------------------------------
(* Node::swap, on a program as it is handed over.                          *)

\* The recursion that climbs from loops and branches.
Ups(t, k, g) ==
  g = [n \in 1 .. k |-> IF t[n].type \in {"loop", "branch"} /\ t[n].parent # NoNode
                        THEN g[t[n].parent] ELSE n]

\* A node names a node before it as its parent.
ParentsBefore(t) == \A n \in DOMAIN t : t[n].parent # NoNode => t[n].parent \in 1 .. n - 1

LEMMA UpsExists ==
  ASSUME NEW t, NEW l \in Nat, DOMAIN t = 1 .. l, ParentsBefore(t), NEW k \in 0 .. l
  PROVE  \E g : Ups(t, k, g)
<1> DEFINE W == {m \in 0 .. l : ~\E g : Ups(t, m, g)}
<1> SUFFICES ASSUME W # {} PROVE FALSE
  OBVIOUS
<1>1. PICK m \in W : \A j \in W : m <= j
  BY LeastElement, W \in SUBSET Nat
<1>2. CASE m = 0
  <2> DEFINE g == [n \in 1 .. 0 |-> n]
  <2>1. Ups(t, 0, g)
    BY DEF Ups
  <2> QED
    BY <1>1, <1>2, <2>1
<1>3. CASE m # 0
  <2>1. m - 1 \in 0 .. l /\ m - 1 \notin W /\ m \in 1 .. l
    BY <1>1, <1>3
  <2>2. PICK g : Ups(t, m - 1, g)
    BY <2>1
  <2> DEFINE top == IF t[m].type \in {"loop", "branch"} /\ t[m].parent # NoNode
                    THEN g[t[m].parent] ELSE m
             f == [n \in 1 .. m |-> IF n = m THEN top ELSE g[n]]
  <2>3. \A n \in 1 .. m - 1 : f[n] = g[n] /\ n # m
    BY <2>1
  <2>4. f[m] = top /\ DOMAIN f = 1 .. m
    BY <2>1
  <2>5. f = [n \in 1 .. m |-> f[n]]
    OBVIOUS
  <2> HIDE DEF f
  <2>6. ASSUME NEW n \in 1 .. m
        PROVE  f[n] = IF t[n].type \in {"loop", "branch"} /\ t[n].parent # NoNode
                      THEN f[t[n].parent] ELSE n
    <3>1. t[n].parent # NoNode => t[n].parent \in 1 .. n - 1
      BY <2>1, <2>6 DEF ParentsBefore
    <3>2. CASE n = m
      <4>1. t[m].parent # NoNode => f[t[m].parent] = g[t[m].parent]
        BY <2>3, <3>1, <3>2
      <4> QED
        BY <2>4, <3>2, <4>1
    <3>3. CASE n # m
      <4>1. n \in 1 .. m - 1 /\ f[n] = g[n]
        BY <2>1, <2>3, <3>3
      <4>2. g[n] = IF t[n].type \in {"loop", "branch"} /\ t[n].parent # NoNode
                   THEN g[t[n].parent] ELSE n
        BY <2>2, <4>1 DEF Ups
      <4>3. t[n].parent # NoNode => f[t[n].parent] = g[t[n].parent]
        BY <2>1, <2>3, <3>1, <4>1
      <4> QED
        BY <4>1, <4>2, <4>3
    <3> QED
      BY <3>2, <3>3
  <2>7. Ups(t, m, f)
    BY <2>5, <2>6 DEF Ups
  <2> QED
    BY <1>1, <2>7
<1> QED
  BY <1>2, <1>3

LEMMA SwapAncestorFacts ==
  ASSUME NEW t, NEW l \in Nat, DOMAIN t = 1 .. l, ParentsBefore(t), NEW a \in DOMAIN t
  PROVE  SwapAncestor(t, a) \in DOMAIN t
<1> DEFINE g == CHOOSE f : Ups(t, l, f)
<1>1. Ups(t, l, g)
  <2>1. l \in 0 .. l
    OBVIOUS
  <2> QED
    BY <2>1, UpsExists
<1>2. SwapAncestor(t, a) = g[a]
  BY DEF SwapAncestor, Ups
<1> HIDE DEF g
<1>3. \A n \in 1 .. l : g[n] \in 1 .. l
  <2> DEFINE W == {n \in 1 .. l : g[n] \notin 1 .. l}
  <2> SUFFICES ASSUME W # {} PROVE FALSE
    OBVIOUS
  <2>1. PICK n \in W : \A j \in W : n <= j
    BY LeastElement, W \in SUBSET Nat
  <2>2. g[n] = IF t[n].type \in {"loop", "branch"} /\ t[n].parent # NoNode
               THEN g[t[n].parent] ELSE n
    BY <1>1, <2>1 DEF Ups
  <2>3. t[n].parent # NoNode => t[n].parent \in 1 .. n - 1
    BY <2>1 DEF ParentsBefore
  <2> QED
    BY <2>1, <2>2, <2>3
<1> QED
  BY <1>2, <1>3

\* Node::updateParent on the `next' of a node, a null one included.
LEMMA NextReplaced ==
  ASSUME NEW t, IsHeap(t), NEW b \in DOMAIN t, Single(t[b]), NEW new \in DOMAIN t,
         new \notin Links(t, b), new # b
  PROVE  LET u == UpdateParent(t, b, t[b].next, new)
         IN  /\ IsHeap(u) /\ Len(u) = Len(t) /\ DOMAIN u = DOMAIN t
             /\ Links(u, b) = (Links(t, b) \ {t[b].next}) \cup {new} /\ Single(u[b])
             /\ u[b].next = new
             /\ \A n \in DOMAIN t :
                   /\ u[n].parent = IF n = new THEN b ELSE t[n].parent
                   /\ n # b => Links(u, n) = Links(t, n) /\ (Single(t[n]) => Single(u[n]))
<1> DEFINE x == t[b].next
           u == UpdateParent(t, b, x, new)
           r == [t[b] EXCEPT !.next = new]
           v == [t EXCEPT ![b] = r]
           q == [v[new] EXCEPT !.parent = b]
<1>0. /\ Len(t) \in Nat /\ DOMAIN t = 1 .. Len(t) /\ Root \in DOMAIN t
      /\ \A n \in DOMAIN t : t[n] \in Nodes(Len(t))
  BY HeapFacts
<1>1. b # NoNode /\ new # NoNode /\ new \in 0 .. Len(t) /\ b \in 0 .. Len(t)
  BY <1>0 DEF NoNode
<1>2. /\ r \in Nodes(Len(t)) /\ r.next = new /\ r.loop = t[b].loop /\ r.branches = t[b].branches
      /\ r.parent = t[b].parent /\ r.type = t[b].type
  <2>1. t[b] \in Nodes(Len(t))
    BY <1>0
  <2> QED
    BY <1>1, <2>1 DEF Nodes
<1>3. Relink(t[b], x, new) = r
  BY DEF Relink
<1> HIDE DEF r
<1>4. /\ v \in Seq(Nodes(Len(t))) /\ Len(v) = Len(t) /\ DOMAIN v = DOMAIN t /\ v[b] = r
      /\ \A n \in DOMAIN t : n # b => v[n] = t[n]
  BY <1>0, <1>2 DEF IsHeap
<1> HIDE DEF v
<1>5. u = [v EXCEPT ![new] = q]
  <2>1. u = [v EXCEPT ![new].parent = b]
    BY <1>1, <1>3 DEF UpdateParent, v
  <2> QED
    BY <1>4, <2>1
<1>6. /\ q \in Nodes(Len(t)) /\ q.parent = b /\ q.next = t[new].next /\ q.loop = t[new].loop
      /\ q.branches = t[new].branches /\ q.type = t[new].type
  <2>1. v[new] = t[new] /\ t[new] \in Nodes(Len(t))
    BY <1>0, <1>4
  <2> QED
    BY <1>1, <2>1 DEF Nodes
<1> HIDE DEF q, u
<1>7. /\ u \in Seq(Nodes(Len(t))) /\ Len(u) = Len(t) /\ DOMAIN u = DOMAIN t /\ u[new] = q /\ u[b] = r
      /\ \A n \in DOMAIN t : n # b /\ n # new => u[n] = t[n]
  BY <1>4, <1>5, <1>6
<1>8. IsHeap(u)
  BY <1>0, <1>7 DEF IsHeap
<1>9. ASSUME NEW n \in DOMAIN t
      PROVE  /\ u[n].parent = IF n = new THEN b ELSE t[n].parent
             /\ n # b => Links(u, n) = Links(t, n) /\ (Single(t[n]) => Single(u[n]))
  <2>1. CASE n = b
    BY <1>2, <1>7, <2>1
  <2>2. CASE n = new
    BY <1>6, <1>7, <2>2 DEF Links, Single
  <2>3. CASE n # b /\ n # new
    BY <1>7, <2>3 DEF Links
  <2> QED
    BY <2>1, <2>2, <2>3
<1>10. Links(u, b) = (Links(t, b) \ {x}) \cup {new} /\ Single(u[b]) /\ u[b].next = new
  <2>1. /\ u[b].next = new /\ u[b].loop = t[b].loop /\ u[b].branches = t[b].branches
        /\ u[b].type = t[b].type
    BY <1>2, <1>7
  <2>2. x # NoNode => x # t[b].loop /\ x \notin Range(t[b].branches)
    BY DEF Single
  <2>3. new # t[b].loop /\ new \notin Range(t[b].branches)
    BY <1>1 DEF Links
  <2> HIDE DEF x
  <2>4. Links(t, b) = ({x, t[b].loop} \cup Range(t[b].branches)) \ {NoNode}
    BY DEF Links, x
  <2>5. Links(u, b) = ({new, t[b].loop} \cup Range(t[b].branches)) \ {NoNode}
    BY <2>1 DEF Links
  <2>6. Single(u[b])
    BY <2>1, <2>3 DEF Single
  <2> QED
    BY <1>1, <2>1, <2>2, <2>4, <2>5, <2>6
<1> QED
  BY <1>7, <1>8, <1>9, <1>10 DEF u, x

\* The asm id goes to b; no link does.
Labelled(t, w) ==
  /\ IsHeap(w) /\ Len(w) = Len(t) /\ DOMAIN w = DOMAIN t
  /\ \A n \in DOMAIN t :
        /\ w[n].parent = t[n].parent /\ w[n].next = t[n].next /\ Links(w, n) = Links(t, n)
        /\ Single(t[n]) => Single(w[n])

LEMMA SwapLabelled ==
  ASSUME NEW t, IsHeap(t), NEW a \in DOMAIN t, NEW b \in DOMAIN t, ParentsBefore(t),
         NEW w, w = t \/ w = [t EXCEPT ![b].asmId = t[SwapAncestor(t, a)].asmId]
  PROVE  Labelled(t, w)
<1> DEFINE id == t[SwapAncestor(t, a)].asmId
           r  == [t[b] EXCEPT !.asmId = id]
           u  == [t EXCEPT ![b].asmId = id]
<1>1. /\ Len(t) \in Nat /\ DOMAIN t = 1 .. Len(t) /\ Root \in DOMAIN t
      /\ \A n \in DOMAIN t : t[n] \in Nodes(Len(t))
  BY HeapFacts
<1>2. id \in Nat
  <2>1. SwapAncestor(t, a) \in DOMAIN t
    BY <1>1, SwapAncestorFacts
  <2>2. t[SwapAncestor(t, a)] \in Nodes(Len(t))
    BY <1>1, <2>1
  <2> QED
    BY <2>2 DEF Nodes
<1> HIDE DEF id
<1>3. /\ r \in Nodes(Len(t)) /\ r.type = t[b].type /\ r.parent = t[b].parent
      /\ r.next = t[b].next /\ r.loop = t[b].loop /\ r.branches = t[b].branches
  <2>1. t[b] \in Nodes(Len(t))
    BY <1>1
  <2> QED
    BY <1>2, <2>1 DEF Nodes
<1>4. u = [t EXCEPT ![b] = r]
  BY <1>1
<1> HIDE DEF r, u
<1>5. /\ u \in Seq(Nodes(Len(t))) /\ Len(u) = Len(t) /\ DOMAIN u = DOMAIN t /\ u[b] = r
      /\ \A n \in DOMAIN t : n # b => u[n] = t[n]
  BY <1>1, <1>3, <1>4 DEF IsHeap
<1>6. IsHeap(u)
  BY <1>1, <1>5 DEF IsHeap
<1>7. ASSUME NEW n \in DOMAIN t
      PROVE  /\ u[n].parent = t[n].parent /\ u[n].next = t[n].next /\ Links(u, n) = Links(t, n)
             /\ Single(t[n]) => Single(u[n])
  <2>1. CASE n = b
    BY <1>3, <1>5, <2>1 DEF Links, Single
  <2>2. CASE n # b
    BY <1>5, <2>2 DEF Links
  <2> QED
    BY <2>1, <2>2
<1>8. w = t \/ w = u
  BY DEF u, id
<1> QED
  BY <1>1, <1>5, <1>6, <1>7, <1>8 DEF Labelled

\* What the exchange of a node and its child makes of a program.
Exchanged(t, a, b, u) ==
  /\ DOMAIN u = DOMAIN t /\ u[b].parent = t[a].parent /\ u[b].next = a /\ u[a].parent = b
  /\ \A n \in DOMAIN t : /\ n \notin {a, b, t[b].next} => u[n].parent = t[n].parent
                         /\ n = t[b].next => u[n].parent = a
                         /\ HoldsItsLinks(u, n) /\ Hangs(u, n)

LEMMA Swapped ==
  ASSUME NEW t, IsProgram(t), NEW a \in DOMAIN t, NEW b \in DOMAIN t, t[b].parent = a,
         t[a].parent # NoNode
  PROVE  Exchanged(t, a, b, Swap(t, a, b))
<1> DEFINE p  == t[a].parent
           x  == t[b].next
           id == t[SwapAncestor(t, a)].asmId
           t0 == IF id > 0 THEN [t EXCEPT ![b].asmId = id] ELSE t
           t1 == UpdateParent(t0, p, a, b)
           t2 == UpdateParent(t1, b, x, a)
           u  == UpdateParent(t2, a, b, x)
<1>1. /\ IsHeap(t) /\ t[Root].parent = NoNode
      /\ \A n \in DOMAIN t : /\ HoldsItsLinks(t, n) /\ (\A c \in Links(t, n) : c > n)
                             /\ n # Root => Hangs(t, n)
  BY DEF IsProgram, IsHeap
<1>2. /\ Len(t) \in Nat /\ DOMAIN t = 1 .. Len(t) /\ Root \in DOMAIN t
      /\ \A n \in DOMAIN t : /\ Links(t, n) \subseteq DOMAIN t /\ t[n].parent \in 0 .. Len(t)
                             /\ t[n].next \in 0 .. Len(t)
  BY <1>1, HeapFacts
<1>3. \A n \in DOMAIN t : Single(t[n]) /\ \A c \in Links(t, n) : t[c].parent = n
  BY <1>1, HoldsSplit
<1>4. ASSUME NEW n \in DOMAIN t, n # Root
      PROVE  /\ t[n].parent \in DOMAIN t /\ n \in Links(t, t[n].parent)
             /\ t[n].parent < n
  <2>1. t[n].parent # NoNode /\ n \in Links(t, t[n].parent)
    BY <1>1, <1>4 DEF Hangs
  <2>2. t[n].parent \in DOMAIN t
    BY <1>2, <2>1 DEF NoNode
  <2> QED
    BY <1>1, <1>2, <2>1, <2>2
<1>5. ParentsBefore(t)
  <2> SUFFICES ASSUME NEW n \in DOMAIN t, t[n].parent # NoNode PROVE t[n].parent \in 1 .. n - 1
    BY DEF ParentsBefore
  <2>1. n # Root
    BY <1>1
  <2> QED
    BY <1>2, <1>4, <2>1
<1>6. /\ a # Root /\ b # Root /\ p \in DOMAIN t /\ a \in Links(t, p) /\ b \in Links(t, a)
      /\ p < a /\ a < b
  BY <1>1, <1>2, <1>4 DEF NoNode, Root
<1>7. x # NoNode => x \in DOMAIN t /\ x \in Links(t, b) /\ x > b /\ t[x].parent = b
  <2>1. x # NoNode => x \in Links(t, b)
    BY DEF Links
  <2> QED
    BY <1>1, <1>2, <1>3, <2>1
<1>8. x \in 0 .. Len(t) /\ NoNode \notin DOMAIN t
  BY <1>2 DEF NoNode
<1>9. /\ IsHeap(t0) /\ Len(t0) = Len(t) /\ DOMAIN t0 = DOMAIN t
      /\ \A n \in DOMAIN t : /\ t0[n].parent = t[n].parent /\ t0[n].next = t[n].next
                             /\ Links(t0, n) = Links(t, n) /\ Single(t0[n])
  <2>1. Labelled(t, t0)
    <3>1. t0 = t \/ t0 = [t EXCEPT ![b].asmId = t[SwapAncestor(t, a)].asmId]
      OBVIOUS
    <3> HIDE DEF t0
    <3> QED
      BY <1>1, <1>5, <3>1, SwapLabelled
  <2> HIDE DEF t0
  <2> QED
    BY <1>3, <2>1 DEF Labelled
<1>10. Swap(t, a, b) = u
  <2>1. t0[a].parent = p /\ t0[b].next = x
    BY <1>9
  <2> QED
    BY <2>1 DEF Swap
<1> HIDE DEF t0, p, x
<1>11. b \notin Links(t, p) /\ a \notin Links(t, b) /\ x \notin Links(t, a) /\ p # a /\ p # b /\ a # b
  <2>1. p # a /\ p # b /\ a # b
    BY <1>2, <1>6
  <2>2. t[b].parent # p /\ t[a].parent # b
    BY <2>1 DEF p
  <2>3. x \notin Links(t, a)
    BY <1>2, <1>3, <1>7, <1>8, <2>1
  <2> QED
    BY <1>3, <1>6, <2>1, <2>2, <2>3
<1>12. /\ IsHeap(t1) /\ Len(t1) = Len(t) /\ DOMAIN t1 = DOMAIN t
       /\ Links(t1, p) = (Links(t, p) \ {a}) \cup {b} /\ Single(t1[p])
       /\ \A n \in DOMAIN t :
             /\ t1[n].parent = IF n = b THEN p ELSE t[n].parent
             /\ n # p => /\ Links(t1, n) = Links(t, n) /\ Single(t1[n]) /\ t1[n].next = t[n].next
  <2>1. a \in Links(t0, p) /\ b \notin Links(t0, p) /\ b \in 0 .. Len(t0) /\ Single(t0[p])
    BY <1>2, <1>6, <1>9, <1>11
  <2>2. /\ IsHeap(t1) /\ Len(t1) = Len(t0) /\ DOMAIN t1 = DOMAIN t0
        /\ Links(t1, p) = (Links(t0, p) \ {a}) \cup ({b} \ {NoNode}) /\ Single(t1[p])
        /\ \A n \in DOMAIN t0 :
             /\ t1[n].parent = IF n = b THEN p ELSE t0[n].parent
             /\ n # p => /\ Links(t1, n) = Links(t0, n) /\ (Single(t0[n]) => Single(t1[n]))
                         /\ t1[n].next = t0[n].next
    BY <1>6, <1>9, <2>1, Relinked
  <2> HIDE DEF t1
  <2> QED
    BY <1>6, <1>8, <1>9, <2>2
<1> HIDE DEF t1
<1>13. /\ IsHeap(t2) /\ Len(t2) = Len(t) /\ DOMAIN t2 = DOMAIN t
       /\ Links(t2, b) = (Links(t, b) \ {x}) \cup {a} /\ Single(t2[b]) /\ t2[b].next = a
       /\ \A n \in DOMAIN t :
             /\ t2[n].parent = IF n = a THEN b ELSE t1[n].parent
             /\ n # b => Links(t2, n) = Links(t1, n) /\ Single(t2[n])
  <2>1. t1[b].next = x /\ Single(t1[b]) /\ Links(t1, b) = Links(t, b)
    BY <1>11, <1>12 DEF x
  <2>2. \A n \in DOMAIN t : Single(t1[n])
    BY <1>12
  <2>3. /\ IsHeap(t2) /\ Len(t2) = Len(t1) /\ DOMAIN t2 = DOMAIN t1
        /\ Links(t2, b) = (Links(t1, b) \ {x}) \cup {a} /\ Single(t2[b]) /\ t2[b].next = a
        /\ \A n \in DOMAIN t1 :
              /\ t2[n].parent = IF n = a THEN b ELSE t1[n].parent
              /\ n # b => Links(t2, n) = Links(t1, n) /\ (Single(t1[n]) => Single(t2[n]))
    BY <1>11, <1>12, <2>1, NextReplaced
  <2> HIDE DEF t2
  <2> QED
    BY <1>12, <2>1, <2>2, <2>3
<1> HIDE DEF t2
<1>14. /\ DOMAIN u = DOMAIN t /\ u[b].next = a
       /\ Links(u, a) = (Links(t, a) \ {b}) \cup ({x} \ {NoNode}) /\ Single(u[a])
       /\ \A n \in DOMAIN t :
             /\ u[n].parent = IF n = x THEN a ELSE t2[n].parent
             /\ n # a => Links(u, n) = Links(t2, n) /\ Single(u[n])
  <2>1. Links(t2, a) = Links(t, a) /\ Single(t2[a])
    BY <1>11, <1>12, <1>13
  <2>2. \A n \in DOMAIN t : Single(t2[n])
    BY <1>13
  <2>3. /\ DOMAIN u = DOMAIN t2
        /\ Links(u, a) = (Links(t2, a) \ {b}) \cup ({x} \ {NoNode}) /\ Single(u[a])
        /\ \A n \in DOMAIN t2 :
              /\ u[n].parent = IF n = x THEN a ELSE t2[n].parent
              /\ n # a => /\ Links(u, n) = Links(t2, n) /\ (Single(t2[n]) => Single(u[n]))
                          /\ u[n].next = t2[n].next
    BY <1>6, <1>8, <1>11, <1>13, <2>1, Relinked
  <2> HIDE DEF u
  <2> QED
    BY <1>11, <1>13, <2>1, <2>2, <2>3
<1> HIDE DEF u
<1>15. x # a /\ x # b /\ x # p
  BY <1>2, <1>6, <1>7, <1>8
<1>16. ASSUME NEW n \in DOMAIN t
       PROVE  u[n].parent = IF n = b THEN p ELSE IF n = a THEN b ELSE IF n = x THEN a ELSE t[n].parent
  BY <1>11, <1>12, <1>13, <1>14, <1>15
<1>17. /\ Links(u, p) = (Links(t, p) \ {a}) \cup {b}
       /\ Links(u, b) = (Links(t, b) \ {x}) \cup {a}
       /\ \A n \in DOMAIN t : n \notin {p, a, b} => Links(u, n) = Links(t, n)
       /\ \A n \in DOMAIN t : Single(u[n])
  BY <1>6, <1>11, <1>12, <1>13, <1>14
<1>18. ASSUME NEW n \in DOMAIN t PROVE HoldsItsLinks(u, n)
  <2> SUFFICES ASSUME NEW c \in Links(u, n) PROVE u[c].parent = n
    BY <1>17, HoldsSplit
  <2>1. \A c2 \in Links(t, n) : c2 \in DOMAIN t /\ t[c2].parent = n
    BY <1>2, <1>3
  <2>2. t[b].parent = a /\ t[a].parent = p /\ (x # NoNode => t[x].parent = b)
    BY <1>7 DEF p
  <2>3. CASE n = p
    <3>1. CASE c = b
      BY <1>16, <2>3, <3>1
    <3>2. CASE c # b
      <4>1. c \in DOMAIN t /\ t[c].parent = p /\ c # a
        BY <1>17, <2>1, <2>3, <3>2
      <4>2. c # x
        BY <1>8, <1>11, <2>2, <4>1
      <4> QED
        BY <1>16, <2>3, <3>2, <4>1, <4>2
    <3> QED
      BY <3>1, <3>2
  <2>4. CASE n = a
    BY <1>6, <1>7, <1>11, <1>14, <1>15, <1>16, <2>1, <2>2, <2>4
  <2>5. CASE n = b
    BY <1>6, <1>11, <1>15, <1>16, <1>17, <2>1, <2>2, <2>5
  <2>6. CASE n \notin {p, a, b}
    <3>1. c \in DOMAIN t /\ t[c].parent = n
      BY <1>17, <2>1, <2>6
    <3>2. c # a /\ c # b /\ c # x
      BY <1>8, <2>2, <2>6, <3>1
    <3> QED
      BY <1>16, <3>1, <3>2
  <2> QED
    BY <2>3, <2>4, <2>5, <2>6
<1>19. ASSUME NEW n \in DOMAIN t PROVE Hangs(u, n)
  <2>1. CASE n = Root
    BY <2>1 DEF Hangs
  <2>2. CASE n # Root
    <3>1. /\ t[n].parent \in DOMAIN t /\ n \in Links(t, t[n].parent)
      BY <1>4, <2>2
    <3>2. u[n].parent \in DOMAIN t /\ n \in Links(u, u[n].parent)
      <4>1. CASE n = b
        BY <1>6, <1>16, <1>17, <4>1
      <4>2. CASE n = a
        BY <1>6, <1>11, <1>16, <1>17, <4>2
      <4>3. CASE n = x
        BY <1>6, <1>8, <1>14, <1>15, <1>16, <4>3
      <4>4. CASE n \notin {a, b, x}
        <5> DEFINE q == t[n].parent
        <5>1. u[n].parent = q /\ q \in DOMAIN t /\ n \in Links(t, q)
          BY <1>16, <3>1, <4>4
        <5> HIDE DEF q
        <5>2. n \in Links(u, q)
          BY <1>14, <1>17, <4>4, <5>1
        <5> QED
          BY <5>1, <5>2
      <4> QED
        BY <4>1, <4>2, <4>3, <4>4
    <3> QED
      BY <1>8, <3>2 DEF Hangs
  <2> QED
    BY <2>1, <2>2
<1>20. Exchanged(t, a, b, u)
  <2>1. DOMAIN u = DOMAIN t /\ u[b].parent = t[a].parent /\ u[b].next = a /\ u[a].parent = b
    BY <1>11, <1>14, <1>16 DEF p
  <2>2. ASSUME NEW n \in DOMAIN t
        PROVE  /\ n \notin {a, b, t[b].next} => u[n].parent = t[n].parent
               /\ n = t[b].next => u[n].parent = a
    BY <1>15, <1>16 DEF x
  <2> QED
    BY <1>18, <1>19, <2>1, <2>2 DEF Exchanged
<1> QED
  BY <1>10, <1>20

LEMMA TreeInvSwap == TreeInv => SwapExchanges
<1> SUFFICES ASSUME TreeInv, NEW b \in DOMAIN src, src[b].parent # NoNode,
                    src[src[b].parent].parent # NoNode
             PROVE  LET a == src[b].parent
                        t == Swap(src, a, b)
                    IN  /\ t[b].parent = src[a].parent /\ t[b].next = a /\ t[a].parent = b
                        /\ \A n \in DOMAIN t :
                              /\ n \notin {a, b, src[b].next} => t[n].parent = src[n].parent
                              /\ n = src[b].next => t[n].parent = a
                              /\ HoldsItsLinks(t, n) /\ Hangs(t, n)
  BY Zenon DEF SwapExchanges
<1> DEFINE a == src[b].parent
           t == Swap(src, a, b)
<1>1. IsProgram(src)
  BY TreeAssumption DEF TreeInv
<1>2. a \in DOMAIN src
  <2>1. IsHeap(src)
    BY <1>1 DEF IsProgram, IsHeap
  <2>2. DOMAIN src = 1 .. Len(src) /\ Len(src) \in Nat /\ a \in 0 .. Len(src)
    BY <2>1, HeapFacts
  <2> QED
    BY <2>2 DEF NoNode
<1>3. Exchanged(src, a, b, t)
  BY <1>1, <1>2, Swapped
<1> HIDE DEF t
<1> QED
  BY <1>3 DEF Exchanged, t

----------------------------------------------------------------------------
(* The walks of allocate and of fillInPlaceholders go depth first.         *)

LEMMA ReverseFacts ==
  ASSUME NEW S, NEW s \in Seq(S)
  PROVE  /\ Reverse(s) \in Seq(S) /\ Range(Reverse(s)) = Range(s)
         /\ IsInjective(s) => IsInjective(Reverse(s))
<1> DEFINE n == Len(s)
           u == Reverse(s)
<1>1. n \in Nat /\ DOMAIN s = 1 .. n /\ \A i \in 1 .. n : s[i] \in S
  OBVIOUS
<1>2. u = [i \in 1 .. n |-> s[(n - i) + 1]]
  BY DEF Reverse
<1> HIDE DEF n, u
<1>3. DOMAIN u = 1 .. n /\ \A i \in 1 .. n : u[i] = s[(n - i) + 1] /\ (n - i) + 1 \in 1 .. n
  BY <1>1, <1>2
<1>4. u \in Seq(S)
  <2>1. u \in [1 .. n -> S]
    BY <1>1, <1>2, <1>3
  <2> QED
    BY <1>1, <2>1
<1>5. Range(u) = Range(s)
  <2>1. \A x \in Range(u) : x \in Range(s)
    BY <1>1, <1>3 DEF Range
  <2>2. ASSUME NEW j \in 1 .. n PROVE s[j] \in Range(u)
    <3>1. (n - j) + 1 \in 1 .. n /\ (n - ((n - j) + 1)) + 1 = j
      BY <1>1
    <3>2. u[(n - j) + 1] = s[j]
      BY <1>3, <3>1
    <3> QED
      BY <1>3, <3>1, <3>2 DEF Range
  <2>3. \A x \in Range(s) : x \in Range(u)
    BY <1>1, <2>2 DEF Range
  <2> QED
    BY <2>1, <2>3
<1>6. ASSUME IsInjective(s), NEW i \in 1 .. n, NEW j \in 1 .. n, u[i] = u[j] PROVE i = j
  <2>1. (n - i) + 1 = (n - j) + 1
    <3>1. s[(n - i) + 1] = s[(n - j) + 1] /\ (n - i) + 1 \in DOMAIN s /\ (n - j) + 1 \in DOMAIN s
      BY <1>1, <1>3, <1>6
    <3> QED
      BY <1>6, <3>1 DEF IsInjective
  <2> QED
    BY <1>1, <2>1
<1> QED
  BY <1>3, <1>4, <1>5, <1>6 DEF IsInjective, u

LEMMA NothingIn ==
  ASSUME NEW S, NEW s \in Seq(S), Range(s) = {}
  PROVE  s = << >>
<1>1. DOMAIN s = 1 .. Len(s) /\ Len(s) \in Nat
  OBVIOUS
<1>2. DOMAIN s = {}
  BY DEF Range
<1>3. Len(s) = 0
  BY <1>1, <1>2
<1> QED
  BY <1>3

\* The stack with the nodes n links to, the first branch on top.
Deep(t, b, n) ==
  PushNode(PushNode(b, t[n].next), t[n].loop) \o Reverse(Bodies(t[n].branches))

LEMMA DeepFacts ==
  ASSUME NEW t, Whole(t), NEW n \in DOMAIN t, Hangs(t, n),
         NEW b \in Seq(DOMAIN t), IsInjective(b), Range(b) \cap Links(t, n) = {}
  PROVE  /\ Deep(t, b, n) \in Seq(DOMAIN t) /\ IsInjective(Deep(t, b, n))
         /\ Range(Deep(t, b, n)) = Range(b) \cup Links(t, n)
         /\ t[n].type = "load" => Deep(t, b, n) = PushNode(b, t[n].next)
<1> DEFINE S  == DOMAIN t
           r  == t[n]
           c  == PushNode(b, r.next)
           d  == PushNode(c, r.loop)
           bo == Bodies(r.branches)
           re == Reverse(bo)
<1>1. /\ Len(t) \in Nat /\ S = 1 .. Len(t) /\ r.next \in 0 .. Len(t) /\ r.loop \in 0 .. Len(t)
      /\ r.branches \in Seq(0 .. Len(t))
  BY HeapFacts DEF Whole
<1>2. Single(r) /\ Links(t, n) = LinksOf(r)
  BY WholeFacts, HoldsSplit
<1>3. bo \in Seq(S) /\ Range(bo) = Range(r.branches) \ {NoNode} /\ IsInjective(bo)
  <2> HIDE DEF r
  <2>1. \A i, j \in DOMAIN r.branches : r.branches[i] = r.branches[j] /\ r.branches[i] # NoNode => i = j
    BY <1>2 DEF Single
  <2> QED
    BY <1>1, <2>1, BodiesFacts
<1>4. /\ c \in Seq(S) /\ Range(c) = Range(b) \cup ({r.next} \ {NoNode}) /\ IsInjective(c)
  <2>1. r.next # NoNode => r.next \in S /\ r.next \notin Range(b)
    BY <1>1, <1>2 DEF LinksOf, NoNode
  <2> QED
    BY <2>1, PushNodeFacts
<1> HIDE DEF r, c, bo, S
<1>5. re \in Seq(S) /\ Range(re) = Range(r.branches) \ {NoNode} /\ IsInjective(re)
  BY <1>3, ReverseFacts
<1>6. r.loop # NoNode => /\ r.loop \in S /\ r.loop \notin Range(c)
                         /\ r.type = "loop" /\ Range(r.branches) = {}
  <2> SUFFICES ASSUME r.loop # NoNode
               PROVE  /\ r.loop \in S /\ r.loop \notin Range(c)
                      /\ r.type = "loop" /\ Range(r.branches) = {}
    OBVIOUS
  <2>1. r.loop \in S /\ r.loop \notin Range(b) /\ r.type = "loop"
    BY <1>1, <1>2 DEF LinksOf, NoNode, Single, S
  <2>2. r.branches = << >> /\ r.loop # r.next
    BY <1>2, <2>1 DEF Single, NoNode
  <2>3. Range(r.branches) = {}
    BY <2>2 DEF Range
  <2> QED
    BY <1>4, <2>1, <2>2, <2>3
<1>7. d \in Seq(S) /\ Range(d) = Range(c) \cup ({r.loop} \ {NoNode}) /\ IsInjective(d)
  BY <1>4, <1>6, PushNodeFacts
<1> HIDE DEF re, d
<1>8. Range(d) \cap Range(re) = {}
  BY <1>2, <1>4, <1>5, <1>6, <1>7 DEF LinksOf, Single
<1>9. /\ d \o re \in Seq(S) /\ Range(d \o re) = Range(d) \cup Range(re) /\ IsInjective(d \o re)
  BY <1>5, <1>7, <1>8, ConcatFacts
<1>10. Deep(t, b, n) = d \o re
  BY DEF Deep, d, c, re, bo, r
<1>11. Range(d \o re) = Range(b) \cup LinksOf(r)
  BY <1>4, <1>5, <1>7, <1>9 DEF LinksOf
<1>12. ASSUME r.type = "load" PROVE d \o re = c
  <2>1. r.branches = << >> /\ r.loop = NoNode
    BY <1>2, <1>12 DEF Single
  <2>2. d = c
    BY <2>1 DEF d, PushNode
  <2>3. re = << >>
    <3>1. Range(re) = {}
      BY <1>5, <2>1 DEF Range
    <3> QED
      BY <1>5, <3>1, NothingIn
  <2> QED
    BY <1>4, <2>2, <2>3
<1> QED
  BY <1>2, <1>9, <1>10, <1>11, <1>12 DEF r, c, S

LEMMA VisitedDeep ==
  ASSUME NEW t, Whole(t), NEW w, NEW V, Walks(t, w, V), w # << >>
  PROVE  /\ Top(w) \in DOMAIN t /\ Hangs(t, Top(w)) /\ Top(w) \notin V
         /\ Walks(t, Deep(t, Below(w), Top(w)), V \cup {Top(w)})
         /\ Range(Deep(t, Below(w), Top(w))) = Range(Below(w)) \cup Links(t, Top(w))
         /\ Range(w) = Range(Below(w)) \cup {Top(w)}
         /\ t[Top(w)].type = "load" =>
               Deep(t, Below(w), Top(w)) = PushNode(Below(w), t[Top(w)].next)
<1> DEFINE n == Top(w)
           b == Below(w)
           s == Deep(t, b, n)
           q == Spread(t, b, n)
<1>1. /\ n \in DOMAIN t /\ Hangs(t, n) /\ n \notin V /\ b \in Seq(DOMAIN t) /\ IsInjective(b)
      /\ Range(b) \cap Links(t, n) = {} /\ Walks(t, q, V \cup {n})
  BY Visited
<1>2. Range(w) = Range(b) \cup {n}
  BY TopFacts DEF Walks
<1> HIDE DEF n, b
<1>3. Range(q) = Range(b) \cup Links(t, n)
  BY <1>1, SpreadFacts
<1>4. /\ s \in Seq(DOMAIN t) /\ IsInjective(s) /\ Range(s) = Range(b) \cup Links(t, n)
      /\ t[n].type = "load" => s = PushNode(b, t[n].next)
  BY <1>1, DeepFacts
<1> HIDE DEF s, q
<1>5. Walks(t, s, V \cup {n})
  BY <1>1, <1>3, <1>4 DEF Walks
<1> QED
  BY <1>1, <1>2, <1>4, <1>5 DEF n, b, s

\* The walk reaches the chain first: it has no node but one of the chain, or
\* it has been down the whole chain.
Visiting(t, C, w, V) ==
  /\ Walks(t, w, V) /\ Root \in V \cup Range(w)
  /\ C \subseteq V \/ \E c \in C : w = <<c>>

LEMMA VisitingStarts ==
  ASSUME NEW t, Whole(t), NEW C, NEW f, Chain(t, C, f)
  PROVE  Visiting(t, C, <<Root>>, {})
<1>1. Root \in DOMAIN t /\ Root \in C /\ Hangs(t, Root)
  BY DEF Chain, Hangs
<1>2. <<Root>> \in Seq(DOMAIN t) /\ IsInjective(<<Root>>) /\ Range(<<Root>>) = {Root}
  BY <1>1 DEF IsInjective, Range
<1>3. Walks(t, <<Root>>, {})
  BY <1>1, <1>2 DEF Walks
<1> QED
  BY <1>1, <1>2, <1>3 DEF Visiting

\* What hangs from visited nodes has been visited, when only f has more.
LEMMA ChainVisited ==
  ASSUME NEW t, Whole(t), NEW C, NEW f, Chain(t, C, f), NEW U, Root \in U, f \in U,
         \A c \in C \ {f} : c \in U => t[c].next \in U
  PROVE  C \subseteq U
<1>1. PICK r \in [DOMAIN t -> Nat] : Down(t, r)
  BY DEF Whole, Ranked
<1> DEFINE Missed == {c \in C : c \notin U}
           R == {r[c] : c \in Missed}
<1> SUFFICES ASSUME Missed # {} PROVE FALSE
  OBVIOUS
<1>2. R # {} /\ R \in SUBSET Nat
  BY DEF Chain
<1>3. PICK k \in R : \A j \in R : k <= j
  BY <1>2, LeastElement
<1>4. PICK c \in Missed : k = r[c]
  BY <1>3
<1>5. c \in DOMAIN t /\ c # Root /\ t[c].parent \in C /\ t[t[c].parent].next = c
  BY <1>4 DEF Chain
<1>6. t[c].parent \in DOMAIN t /\ c \in Links(t, t[c].parent)
  BY <1>5, ChainFacts DEF Chain, Links
<1>7. t[c].parent \notin U
  BY <1>4, <1>5 DEF Chain
<1>8. r[t[c].parent] < r[c] /\ r[c] \in Nat /\ r[t[c].parent] \in Nat
  BY <1>1, <1>5, <1>6 DEF Down
<1>9. r[t[c].parent] \in R
  BY <1>5, <1>7
<1>10. r[c] <= r[t[c].parent]
  BY <1>3, <1>4, <1>9
<1> QED
  BY <1>8, <1>10

LEMMA VisitingGoesOn ==
  ASSUME NEW t, Whole(t), NEW C, NEW f, Chain(t, C, f), NEW w, NEW V, Visiting(t, C, w, V), w # << >>
  PROVE  /\ Top(w) \in DOMAIN t /\ Hangs(t, Top(w)) /\ Top(w) \notin V
         /\ t[Top(w)].type # "load" => C \subseteq V
         /\ Visiting(t, C, Deep(t, Below(w), Top(w)), V \cup {Top(w)})
<1> DEFINE n == Top(w)
           s == Deep(t, Below(w), n)
<1>1. Walks(t, w, V) /\ Root \in V \cup Range(w) /\ (C \subseteq V \/ \E c \in C : w = <<c>>)
  BY DEF Visiting
<1>2. /\ n \in DOMAIN t /\ Hangs(t, n) /\ n \notin V /\ Walks(t, s, V \cup {n})
      /\ Range(s) = Range(Below(w)) \cup Links(t, n) /\ Range(w) = Range(Below(w)) \cup {n}
      /\ t[n].type = "load" => s = PushNode(Below(w), t[n].next)
  BY <1>1, VisitedDeep
<1> HIDE DEF s
<1>3. Root \in V \cup {n} \cup Range(s)
  BY <1>1, <1>2
<1>4. CASE C \subseteq V
  <2>1. C \subseteq V \cup {n}
    BY <1>4
  <2> HIDE DEF n
  <2>2. Visiting(t, C, s, V \cup {n})
    BY <1>2, <1>3, <2>1 DEF Visiting
  <2> QED
    BY <1>2, <1>4, <2>2 DEF s, n
<1>5. ASSUME NEW c \in C, w = <<c>>
      PROVE  t[n].type = "load" /\ Visiting(t, C, s, V \cup {n})
  <2>1. n = c /\ Below(w) = << >>
    BY <1>5 DEF Top, Below
  <2>2. t[n].type = "load" /\ Links(t, n) = {t[n].next} \ {NoNode} /\ n # NoNode
    BY <2>1, ChainFacts DEF Chain
  <2>3. s = PushNode(<< >>, t[n].next)
    BY <1>2, <2>1, <2>2
  <2> HIDE DEF n
  <2>4. CASE n # f
    <3>1. t[n].next \in C /\ t[n].next # NoNode
      BY <2>1, <2>4, ChainFacts DEF Chain
    <3>2. s = <<t[n].next>>
      BY <2>3, <3>1 DEF PushNode
    <3> QED
      BY <1>2, <1>3, <2>2, <3>1, <3>2 DEF Visiting
  <2>5. CASE n = f
    <3>1. Root \in V \cup {f} /\ Range(w) = {f}
      BY <1>1, <1>5, <2>1, <2>5 DEF Range
    <3>2. ASSUME NEW d \in C \ {f}, d \in V PROVE t[d].next \in V \cup {f}
      <4>1. Hangs(t, d) /\ t[d].next \in Links(t, d)
        <5>1. t[d].next \in C
          BY DEF Chain
        <5> QED
          BY <5>1, ChainFacts
      <4> QED
        BY <1>1, <3>1, <3>2, <4>1 DEF Walks
    <3>3. C \subseteq V \cup {f}
      <4> DEFINE U == V \cup {f}
      <4>1. Root \in U /\ f \in U /\ \A d \in C \ {f} : d \in U => t[d].next \in U
        BY <3>1, <3>2
      <4> HIDE DEF U
      <4>2. C \subseteq U
        BY <4>1, ChainVisited
      <4> QED
        BY <4>2 DEF U
    <3> QED
      BY <1>2, <1>3, <2>2, <2>5, <3>3 DEF Visiting
  <2> QED
    BY <2>4, <2>5
<1> QED
  BY <1>1, <1>2, <1>4, <1>5 DEF s

LEMMA VisitedAll ==
  ASSUME NEW t, Whole(t), NEW C, NEW V, Visiting(t, C, << >>, V)
  PROVE  C \subseteq V /\ \A n \in DOMAIN t : Hangs(t, n) => n \in V
<1>1. Walks(t, << >>, V) /\ Root \in V \cup Range(<< >>) /\ (C \subseteq V \/ \E c \in C : << >> = <<c>>)
  BY DEF Visiting
<1>2. Root \in V
  BY <1>1 DEF Range
<1>3. \A c \in C : << >> # <<c>>
  OBVIOUS
<1> QED
  BY <1>1, <1>2, <1>3, AllVisited

\* A play is a dummy or has a load, in the chain, of the wave it plays.
LEMMA PlayServed ==
  ASSUME NEW s \in Sources, NEW g, NEW C, NEW f, Settled(s, g, C, f),
         NEW n \in DOMAIN g, Hangs(g, n), g[n].type = "play"
  PROVE  /\ n \in DOMAIN s /\ s[n].type = "play" /\ s[n].wave = g[n].wave /\ s[n].asmId = g[n].asmId
         /\ g[n].config.dummy <=> s[n].wave = 0
         /\ g[n].config.dummy => g[n].loadRef = NoNode
         /\ ~g[n].config.dummy => /\ g[n].loadRef \in C /\ g[n].loadRef # NoNode
                                  /\ g[g[n].loadRef].wave = g[n].wave
                                  /\ g[n].reg = g[n].loadRef
<1>1. /\ Whole(g) /\ Chain(g, C, f) /\ g[Root].wave = 0
      /\ Served(g) /\ FromSource(s, g) /\ HaveLoads(g, InTree(g))
      /\ \A l \in DOMAIN g : g[l].type = "load" /\ g[l].wave # 0 /\ Hangs(g, l) => l \in C
  BY DEF Settled
<1>2. n \in DOMAIN s /\ g[n].config = s[n].config /\ Stays(s, g, n)
  BY <1>1 DEF FromSource
<1>3. s[n].type = "play" /\ s[n].wave = g[n].wave /\ s[n].asmId = g[n].asmId
  BY <1>2 DEF Stays
<1>4. g[n].config.dummy <=> s[n].wave = 0
  BY <1>2, <1>3, PlanAssumption
<1>5. g[n].config.dummy => g[n].loadRef = NoNode
  BY <1>1 DEF Served
<1>6. ASSUME ~g[n].config.dummy
      PROVE  /\ g[n].loadRef \in C /\ g[n].loadRef # NoNode /\ g[g[n].loadRef].wave = g[n].wave
             /\ g[n].reg = g[n].loadRef
  <2> DEFINE l == g[n].loadRef
  <2>1. l # NoNode
    BY <1>1, <1>6 DEF HaveLoads, InTree
  <2>2. /\ l \in DOMAIN g /\ g[l].type = "load" /\ Hangs(g, l) /\ g[l].wave = g[n].wave
        /\ g[l].reg = g[n].reg
    BY <1>1, <2>1 DEF Served
  <2> HIDE DEF l
  <2>3. l \in C /\ l # Root
    BY <1>1, <1>3, <1>4, <1>6, <2>2
  <2>4. g[l].reg = l
    BY <1>1, <2>3 DEF Chain
  <2> QED
    BY <2>1, <2>2, <2>3, <2>4 DEF l
<1> QED
  BY <1>2, <1>3, <1>4, <1>5, <1>6

----------------------------------------------------------------------------
(* The commands at the placeholders.                                       *)

Words == {Word(c, r) : c \in Configs, r \in Int}
Commands == [op : {"cwvf"}, word : Words] \cup [op : {"load"}, reg : Nat, wave : Nat]
            \cup [op : {"wvf"}, reg : Nat] \cup [op : {"wvfs", "zero", "st"}]

\* A load puts the wave of node r into register r,
Loads(g, c) == \A x \in Range(c) : x.op = "load" => x.reg \in DOMAIN g /\ x.wave = g[x.reg].wave
HasLoad(c, r) == \E x \in Range(c) : x.op = "load" /\ x.reg = r
\* and a play plays once.
NeverPlays(c) == \A x \in Range(c) : x.op # "wvf"
PlaysOnce(c, r) ==
  \E i \in DOMAIN c : /\ c[i].op = "wvf" /\ c[i].reg = r
                      /\ \A j \in DOMAIN c : c[j].op = "wvf" => j = i

LEMMA CommandsJoined ==
  ASSUME NEW c \in Seq(Commands), NEW d \in Seq(Commands), NEW g
  PROVE  /\ c \o d \in Seq(Commands)
         /\ Loads(g, c) /\ Loads(g, d) => Loads(g, c \o d)
         /\ \A r : HasLoad(c, r) \/ HasLoad(d, r) => HasLoad(c \o d, r)
         /\ NeverPlays(c) /\ NeverPlays(d) => NeverPlays(c \o d)
         /\ \A r : NeverPlays(c) /\ PlaysOnce(d, r) => PlaysOnce(c \o d, r)
         /\ \A r : PlaysOnce(c, r) /\ NeverPlays(d) => PlaysOnce(c \o d, r)
<1> DEFINE u == c \o d
<1>1. u \in Seq(Commands) /\ Range(u) = Range(c) \cup Range(d)
  BY ConcatFacts
<1>2. /\ Len(u) = Len(c) + Len(d) /\ DOMAIN u = 1 .. Len(c) + Len(d)
      /\ DOMAIN c = 1 .. Len(c) /\ DOMAIN d = 1 .. Len(d) /\ Len(c) \in Nat /\ Len(d) \in Nat
      /\ \A i \in 1 .. Len(u) : u[i] = IF i <= Len(c) THEN c[i] ELSE d[i - Len(c)]
  OBVIOUS
<1> HIDE DEF u
<1>3. \A i \in DOMAIN c : i \in DOMAIN u /\ u[i] = c[i]
  BY <1>2
<1>4. \A i \in DOMAIN d : i + Len(c) \in DOMAIN u /\ u[i + Len(c)] = d[i]
  BY <1>2
<1>5. \A i \in DOMAIN u : \/ i \in DOMAIN c /\ u[i] = c[i]
                          \/ i - Len(c) \in DOMAIN d /\ u[i] = d[i - Len(c)] /\ i = (i - Len(c)) + Len(c)
  BY <1>2
<1>6. ASSUME NEW r, NeverPlays(c), PlaysOnce(d, r) PROVE PlaysOnce(u, r)
  <2>1. PICK i \in DOMAIN d : /\ d[i].op = "wvf" /\ d[i].reg = r
                              /\ \A j \in DOMAIN d : d[j].op = "wvf" => j = i
    BY <1>6 DEF PlaysOnce
  <2>2. i + Len(c) \in DOMAIN u /\ u[i + Len(c)] = d[i]
    BY <1>4
  <2>3. ASSUME NEW j \in DOMAIN u, u[j].op = "wvf" PROVE j = i + Len(c)
    <3>1. ~(j \in DOMAIN c /\ u[j] = c[j])
      BY <1>6, <2>3 DEF NeverPlays, Range
    <3>2. j - Len(c) \in DOMAIN d /\ u[j] = d[j - Len(c)] /\ j = (j - Len(c)) + Len(c)
      BY <1>5, <3>1
    <3> QED
      BY <2>1, <2>3, <3>2
  <2> QED
    BY <2>1, <2>2, <2>3 DEF PlaysOnce
<1>7. ASSUME NEW r, PlaysOnce(c, r), NeverPlays(d) PROVE PlaysOnce(u, r)
  <2>1. PICK i \in DOMAIN c : /\ c[i].op = "wvf" /\ c[i].reg = r
                              /\ \A j \in DOMAIN c : c[j].op = "wvf" => j = i
    BY <1>7 DEF PlaysOnce
  <2>2. i \in DOMAIN u /\ u[i] = c[i]
    BY <1>3
  <2>3. ASSUME NEW j \in DOMAIN u, u[j].op = "wvf" PROVE j = i
    <3>1. ~(j - Len(c) \in DOMAIN d /\ u[j] = d[j - Len(c)])
      BY <1>7, <2>3 DEF NeverPlays, Range
    <3>2. j \in DOMAIN c /\ u[j] = c[j]
      BY <1>5, <3>1
    <3> QED
      BY <2>1, <2>3, <3>2
  <2> QED
    BY <2>1, <2>2, <2>3 DEF PlaysOnce
<1>8. NeverPlays(c) /\ NeverPlays(d) => NeverPlays(u)
  BY <1>1 DEF NeverPlays
<1>9. Loads(g, c) /\ Loads(g, d) => Loads(g, u)
  BY <1>1 DEF Loads
<1>10. \A r : HasLoad(c, r) \/ HasLoad(d, r) => HasLoad(u, r)
  BY <1>1 DEF HasLoad
<1> QED
  BY <1>1, <1>6, <1>7, <1>8, <1>9, <1>10 DEF u

\* A single command, and none.
LEMMA CommandAlone ==
  ASSUME NEW x \in Commands, NEW g
  PROVE  /\ <<x>> \in Seq(Commands)
         /\ Loads(g, <<x>>) <=> (x.op = "load" => x.reg \in DOMAIN g /\ x.wave = g[x.reg].wave)
         /\ \A r : HasLoad(<<x>>, r) <=> x.op = "load" /\ x.reg = r
         /\ NeverPlays(<<x>>) <=> x.op # "wvf"
         /\ \A r : PlaysOnce(<<x>>, r) <=> x.op = "wvf" /\ x.reg = r
<1>1. Range(<<x>>) = {x} /\ DOMAIN <<x>> = {1} /\ <<x>>[1] = x /\ <<x>> \in Seq(Commands)
  BY DEF Range
<1> DEFINE u == <<x>>
<1>2. Range(u) = {x} /\ DOMAIN u = {1} /\ u[1] = x /\ u \in Seq(Commands)
  BY <1>1
<1> HIDE DEF u
<1>3. Loads(g, u) <=> (x.op = "load" => x.reg \in DOMAIN g /\ x.wave = g[x.reg].wave)
  BY <1>2 DEF Loads
<1>4. \A r : HasLoad(u, r) <=> x.op = "load" /\ x.reg = r
  BY <1>2 DEF HasLoad
<1>5. NeverPlays(u) <=> x.op # "wvf"
  BY <1>2 DEF NeverPlays
<1>6. \A r : PlaysOnce(u, r) <=> x.op = "wvf" /\ x.reg = r
  BY <1>2 DEF PlaysOnce
<1> QED
  BY <1>2, <1>3, <1>4, <1>5, <1>6 DEF u

LEMMA NoCommands ==
  ASSUME NEW g
  PROVE  << >> \in Seq(Commands) /\ Loads(g, << >>) /\ NeverPlays(<< >>)
BY DEF Loads, NeverPlays, Range

\* What the walk inserts for node n.
Brings(g, n, c) ==
  /\ c \in Seq(Commands) /\ Loads(g, c)
  /\ g[n].type # "play" => NeverPlays(c)
  /\ g[n].type = "play" /\ g[n].wave # 0 => PlaysOnce(c, g[n].reg)
  /\ g[n].type = "load" /\ g[n].wave # 0 => HasLoad(c, n)

LEMMA CommandsBrought ==
  ASSUME NEW s \in Sources, NEW g, NEW C, NEW f, Settled(s, g, C, f), Alike(g, h), IsHeap(h),
         NEW n \in DOMAIN g, Hangs(g, n), \A c \in C : g[c].wave # 0 => c \in ptr,
         NEW settings \in SettingsOf(h)
  PROVE  /\ settings \in Seq(Commands) /\ WaveCommands(n) \in Seq(Commands)
         /\ Brings(g, n, settings \o WaveCommands(n))
<1> DEFINE node == h[n]
           w == WaveCommands(n)
<1>1. /\ DOMAIN h = DOMAIN g /\ \A m \in DOMAIN h : h[m] \in Nodes(Len(h))
      /\ h[n].type = g[n].type /\ h[n].wave = g[n].wave /\ h[n].loadRef = g[n].loadRef
      /\ h[n].reg = g[n].reg /\ (g[n].type = "play" => h[n].config.dummy = g[n].config.dummy)
  BY HeapFacts DEF Alike
<1>2. settings \in Seq(Commands) /\ Loads(g, settings) /\ NeverPlays(settings)
  <2>1. CASE settings = << >>
    BY <2>1, NoCommands
  <2>2. ASSUME NEW m \in DOMAIN h, settings = <<Cwvf(m)>>
        PROVE  settings \in Seq(Commands) /\ Loads(g, settings) /\ NeverPlays(settings)
    <3>1. h[m].config \in Configs /\ h[m].rate \in Int
      BY <1>1 DEF Nodes
    <3>2. Word(h[m].config, h[m].rate) \in Words
      BY <3>1 DEF Words
    <3>3. Cwvf(m) \in Commands /\ Cwvf(m).op = "cwvf"
      BY <3>2 DEF Cwvf, Commands
    <3> QED
      BY <2>2, <3>3, CommandAlone
  <2> QED
    BY <2>1, <2>2 DEF SettingsOf
<1>3. node.wave \in Nat /\ node.reg \in Nat
  BY <1>1 DEF Nodes
<1>4. CASE node.type = "load" /\ node.wave # 0
  <2> DEFINE x == [op |-> "load", reg |-> node.reg, wave |-> node.wave]
  <2>1. w = <<x>>
    BY <1>4 DEF WaveCommands
  <2>2. x \in Commands /\ x.op = "load" /\ x.reg = node.reg /\ x.wave = node.wave
    BY <1>3 DEF Commands
  <2>3. node.reg = n
    <3>1. n \in C /\ n # Root
      BY <1>1, <1>4 DEF Settled
    <3> QED
      BY <1>1, <3>1 DEF Settled, Chain
  <2> HIDE DEF x, node, w
  <2>4. w \in Seq(Commands) /\ Loads(g, w) /\ HasLoad(w, n) /\ NeverPlays(w)
    <3>1. x.reg \in DOMAIN g /\ x.wave = g[x.reg].wave /\ x.op # "wvf"
      BY <1>1, <2>2, <2>3 DEF node
    <3> QED
      BY <2>1, <2>2, <2>3, <3>1, CommandAlone
  <2>5. g[n].type = "load"
    BY <1>1, <1>4 DEF node
  <2> QED
    BY <1>2, <2>4, <2>5, CommandsJoined DEF Brings, w
<1>5. CASE node.type = "play" /\ node.loadRef \in ptr
  <2> DEFINE x == [op |-> "wvf", reg |-> node.reg]
  <2>1. w = <<x>>
    BY <1>5 DEF WaveCommands
  <2>2. x \in Commands /\ x.op = "wvf" /\ x.reg = node.reg
    BY <1>3 DEF Commands
  <2> HIDE DEF x, w
  <2>3. w \in Seq(Commands) /\ Loads(g, w) /\ PlaysOnce(w, node.reg)
    BY <2>1, <2>2, CommandAlone
  <2>4. PlaysOnce(settings \o w, node.reg)
    BY <1>2, <2>3, CommandsJoined
  <2> QED
    BY <1>1, <1>2, <1>5, <2>3, <2>4, CommandsJoined DEF Brings, w
<1>6. CASE node.type = "play" /\ node.loadRef \notin ptr
  <2>1. g[n].wave = 0 /\ node.config.dummy
    <3>0. g[n].type = "play"
      BY <1>1, <1>6
    <3>1. /\ s[n].wave = g[n].wave /\ (g[n].config.dummy <=> s[n].wave = 0)
          /\ ~g[n].config.dummy => g[n].loadRef \in C /\ g[g[n].loadRef].wave = g[n].wave
      BY <3>0, PlayServed, Zenon
    <3> QED
      BY <1>1, <1>6, <3>1
  <2> DEFINE x == [op |-> IF IsQuiet(node.config, node.rate) THEN "wvfs" ELSE "zero"]
  <2>2. w = <<x>>
    BY <1>6, <2>1 DEF WaveCommands
  <2>3. x \in Commands /\ x.op \notin {"load", "wvf"}
    <3>1. CASE IsQuiet(node.config, node.rate)
      BY <3>1 DEF Commands
    <3>2. CASE ~IsQuiet(node.config, node.rate)
      BY <3>2 DEF Commands
    <3> QED
      BY <3>1, <3>2
  <2> HIDE DEF x, w
  <2>4. w \in Seq(Commands) /\ Loads(g, w)
    BY <2>2, <2>3, CommandAlone
  <2> QED
    BY <1>1, <1>2, <1>6, <2>1, <2>4, CommandsJoined DEF Brings, w
<1>7. CASE node.type # "play" /\ ~(node.type = "load" /\ node.wave # 0)
  <2>1. w = << >> \/ w = <<[op |-> "st"]>>
    BY <1>7 DEF WaveCommands
  <2>2. [op |-> "st"] \in Commands /\ [op |-> "st"].op = "st"
    BY DEF Commands
  <2> HIDE DEF w
  <2>3. w \in Seq(Commands) /\ Loads(g, w) /\ NeverPlays(w)
    <3>1. CASE w = << >>
      BY <3>1, NoCommands
    <3>2. CASE w = <<[op |-> "st"]>>
      BY <2>2, <3>2, CommandAlone
    <3> QED
      BY <2>1, <3>1, <3>2
  <2> QED
    BY <1>1, <1>2, <1>7, <2>3, CommandsJoined DEF Brings, w
<1> QED
  BY <1>4, <1>5, <1>6, <1>7

\* After the nodes V: the code of every play still to come has no play in it,
\* that of one visited plays once, and the loads visited are at the root.
Placed(s, g, C, V, k) ==
  /\ DOMAIN k = {s[n].asmId : n \in DOMAIN s}
  /\ \A a \in DOMAIN k : k[a] \in Seq(Commands) /\ Loads(g, k[a])
  /\ \A n \in DOMAIN s : s[n].type = "play" /\ s[n].wave # 0 =>
        IF n \in V THEN PlaysOnce(k[s[n].asmId], g[n].reg) ELSE NeverPlays(k[s[n].asmId])
  /\ \A l \in C : l \in V /\ g[l].wave # 0 => HasLoad(k[s[Root].asmId], l)

LEMMA NothingPlaced ==
  ASSUME NEW s, NEW g, NEW C
  PROVE  Placed(s, g, C, {}, [i \in {s[n].asmId : n \in DOMAIN s} |-> << >>])
<1> DEFINE k == [i \in {s[n].asmId : n \in DOMAIN s} |-> << >>]
<1>1. DOMAIN k = {s[n].asmId : n \in DOMAIN s} /\ \A a \in DOMAIN k : k[a] = << >>
  OBVIOUS
<1> HIDE DEF k
<1>2. \A n \in DOMAIN s : s[n].asmId \in DOMAIN k
  BY <1>1
<1>3. Placed(s, g, C, {}, k)
  BY <1>1, <1>2, NoCommands DEF Placed
<1> QED
  BY <1>3 DEF k

LEMMA PlacedMore ==
  ASSUME NEW s \in Sources, NEW g, NEW C, NEW f, Settled(s, g, C, f),
         NEW V, NEW k, Placed(s, g, C, V, k),
         NEW n \in DOMAIN g, Hangs(g, n), n \notin V, NEW c, Brings(g, n, c)
  PROVE  Placed(s, g, C, V \cup {n}, [k EXCEPT ![g[n].asmId] = @ \o c])
<1> DEFINE a == g[n].asmId
           u == [k EXCEPT ![a] = @ \o c]
<1>1. /\ DOMAIN k = {s[m].asmId : m \in DOMAIN s}
      /\ \A i \in DOMAIN k : k[i] \in Seq(Commands) /\ Loads(g, k[i])
      /\ \A m \in DOMAIN s : s[m].type = "play" /\ s[m].wave # 0 =>
            IF m \in V THEN PlaysOnce(k[s[m].asmId], g[m].reg) ELSE NeverPlays(k[s[m].asmId])
      /\ \A l \in C : l \in V /\ g[l].wave # 0 => HasLoad(k[s[Root].asmId], l)
  BY DEF Placed
<1>2. /\ c \in Seq(Commands) /\ Loads(g, c)
      /\ g[n].type # "play" => NeverPlays(c)
      /\ g[n].type = "play" /\ g[n].wave # 0 => PlaysOnce(c, g[n].reg)
      /\ g[n].type = "load" /\ g[n].wave # 0 => HasLoad(c, n)
  BY DEF Brings
<1>3. /\ DOMAIN u = DOMAIN k
      /\ a \in DOMAIN k => u[a] = k[a] \o c
      /\ \A i \in DOMAIN k : i # a => u[i] = k[i]
  OBVIOUS
<1>4. FromSource(s, g) /\ Chain(g, C, f) /\ Root \in DOMAIN s
  <2>1. IsProgram(s)
    BY TreeAssumption
  <2> QED
    BY <2>1 DEF Settled, IsProgram
<1>5. g[Root].asmId = s[Root].asmId
  BY <1>4 DEF FromSource, Stays
<1>6. g[n].type = "play" => n \in DOMAIN s /\ s[n].asmId = a /\ s[n].wave = g[n].wave
  BY PlayServed
<1> HIDE DEF u, a
<1>7. a \in DOMAIN k => /\ k[a] \o c \in Seq(Commands) /\ Loads(g, k[a] \o c)
                        /\ \A r : HasLoad(k[a], r) \/ HasLoad(c, r) => HasLoad(k[a] \o c, r)
                        /\ NeverPlays(k[a]) /\ NeverPlays(c) => NeverPlays(k[a] \o c)
                        /\ \A r : NeverPlays(k[a]) /\ PlaysOnce(c, r) => PlaysOnce(k[a] \o c, r)
                        /\ \A r : PlaysOnce(k[a], r) /\ NeverPlays(c) => PlaysOnce(k[a] \o c, r)
  BY <1>1, <1>2, CommandsJoined
<1>8. \A i \in DOMAIN u : u[i] \in Seq(Commands) /\ Loads(g, u[i])
  BY <1>1, <1>3, <1>7
<1>9. ASSUME NEW m \in DOMAIN s, s[m].type = "play", s[m].wave # 0
      PROVE  IF m \in V \cup {n} THEN PlaysOnce(u[s[m].asmId], g[m].reg)
                                 ELSE NeverPlays(u[s[m].asmId])
  <2>1. s[m].asmId \in DOMAIN k
    BY <1>1
  <2>2. CASE m = n
    <3>1. g[n].type = "play" /\ g[n].wave # 0
      BY <1>4, <1>9, <2>2 DEF FromSource, Stays
    <3>2. s[m].asmId = a /\ NeverPlays(k[a]) /\ PlaysOnce(c, g[n].reg)
      BY <1>1, <1>2, <1>6, <1>9, <2>2, <3>1
    <3> QED
      BY <1>3, <1>7, <2>1, <2>2, <3>2
  <2>3. CASE m # n /\ s[m].asmId # a
    BY <1>1, <1>3, <1>9, <2>1, <2>3
  <2>4. CASE m # n /\ s[m].asmId = a
    <3>1. g[n].type # "play"
      BY <1>6, <1>9, <2>4, PlanAssumption
    <3>2. NeverPlays(c)
      BY <1>2, <3>1
    <3> QED
      BY <1>1, <1>3, <1>7, <1>9, <2>1, <2>4, <3>2
  <2> QED
    BY <2>2, <2>3, <2>4
<1>10. ASSUME NEW l \in C, l \in V \cup {n}, g[l].wave # 0 PROVE HasLoad(u[s[Root].asmId], l)
  <2>1. s[Root].asmId \in DOMAIN k /\ g[l].asmId = s[Root].asmId /\ g[l].type = "load"
    BY <1>1, <1>4, <1>5 DEF Chain
  <2>2. CASE l = n
    BY <1>2, <1>3, <1>7, <1>10, <2>1, <2>2 DEF a
  <2>3. CASE l # n
    <3>1. HasLoad(k[s[Root].asmId], l)
      BY <1>1, <1>10, <2>3
    <3> QED
      BY <1>3, <1>7, <2>1, <3>1
  <2> QED
    BY <2>2, <2>3
<1> QED
  BY <1>1, <1>3, <1>8, <1>9, <1>10 DEF Placed, u, a

----------------------------------------------------------------------------
(* The registers while the program runs.                                   *)

Holds(g, r) == \A i \in DOMAIN r : r[i] = g[i].wave

LEMMA AfterLoadsFacts ==
  ASSUME NEW g, Holds(g, loaded), NEW c \in Seq(Commands), Loads(g, c)
  PROVE  /\ Holds(g, AfterLoads(c)) /\ DOMAIN loaded \subseteq DOMAIN AfterLoads(c)
         /\ \A r : HasLoad(c, r) => r \in DOMAIN AfterLoads(c)
<1> DEFINE loads == {i \in DOMAIN c : c[i].op = "load"}
           Into(r) == {i \in loads : c[i].reg = r}
           Latest(r) == CHOOSE i \in Into(r) : \A j \in Into(r) : j <= i
           D == DOMAIN loaded \cup {c[i].reg : i \in loads}
           u == AfterLoads(c)
<1>1. u = [r \in D |-> IF Into(r) = {} THEN loaded[r] ELSE c[Latest(r)].wave]
  BY DEF AfterLoads
<1>2. DOMAIN c = 1 .. Len(c) /\ Len(c) \in Nat
  OBVIOUS
<1> HIDE DEF u
<1>3. ASSUME NEW r \in D PROVE u[r] = g[r].wave
  <2>1. CASE Into(r) = {}
    <3>1. r \in DOMAIN loaded
      BY <2>1
    <3>2. u[r] = loaded[r]
      BY <1>1, <2>1
    <3> QED
      BY <3>1, <3>2 DEF Holds
  <2>2. CASE Into(r) # {}
    <3>1. \E i \in Into(r) : \A j \in Into(r) : j <= i
      <4>1. Into(r) \in SUBSET Nat /\ \A i \in Into(r) : i <= Len(c)
        BY <1>2
      <4> HIDE DEF Into
      <4> QED
        BY <1>2, <2>2, <4>1, GreatestElement
    <3>2. Latest(r) \in Into(r)
      <4> HIDE DEF Into
      <4> QED
        BY <3>1
    <3>3. u[r] = c[Latest(r)].wave
      <4> HIDE DEF Into, Latest, D
      <4> QED
        BY <1>1, <2>2
    <3> HIDE DEF Latest
    <3>4. Latest(r) \in DOMAIN c /\ c[Latest(r)].op = "load" /\ c[Latest(r)].reg = r
      BY <3>2
    <3>5. c[Latest(r)] \in Range(c)
      BY <3>4 DEF Range
    <3> QED
      BY <3>3, <3>4, <3>5 DEF Loads
  <2> QED
    BY <2>1, <2>2
<1>4. DOMAIN u = D
  <2> HIDE DEF D, Into, Latest
  <2> QED
    BY <1>1
<1>5. ASSUME NEW r, HasLoad(c, r) PROVE r \in D
  BY <1>5 DEF HasLoad, Range
<1> QED
  BY <1>3, <1>4, <1>5 DEF Holds, u

----------------------------------------------------------------------------
(* The invariant of the plan.                                              *)

Unplaced == code = [i \in {src[n].asmId : n \in DOMAIN src} |-> << >>]
Unrun == at = NoNode /\ rest = << >> /\ loaded = << >>

\* A load of the chain that was visited has its memory,
Allocating ==
  /\ Unplaced /\ Unrun
  /\ \E g, C, f, V : /\ Settled(src, g, C, f) /\ Alike(g, h) /\ Visiting(g, C, due, V)
                     /\ \A c \in C : c \in V /\ g[c].wave # 0 => c \in ptr
\* then every load of it has,
Emitting ==
  /\ Unrun
  /\ \E g, C, f, V : /\ Settled(src, g, C, f) /\ Alike(g, h) /\ Visiting(g, C, due, V)
                     /\ \A c \in C : g[c].wave # 0 => c \in ptr
                     /\ Placed(src, g, C, V, code)
\* and the first statement of the program loads them all.
Running ==
  \E g, C, f :
     /\ Settled(src, g, C, f) /\ Placed(src, g, C, DOMAIN g, code)
     /\ rest \in Seq(DOMAIN src) /\ Holds(g, loaded)
     /\ at = NoNode => rest = <<Root>>
     /\ at # NoNode => at \in DOMAIN src /\ \A c \in C : g[c].wave # 0 => c \in DOMAIN loaded

PlanInv ==
  /\ TreeInv
  /\ phase \in Rewiring \cup {"cwvf"} => Unplaced /\ Unrun
  /\ phase = "allocate" => Allocating
  /\ phase = "emit" => Emitting
  /\ phase = "run" => Running
  /\ phase # "missing"

LEMMA PlanInvStarts == PlanInit => PlanInv
<1> SUFFICES ASSUME PlanInit PROVE PlanInv
  OBVIOUS
<1>1. TreeInit /\ Unplaced /\ Unrun
  BY DEF PlanInit, Unplaced, Unrun
<1>2. TreeInv
  BY <1>1, TreeInvStarts
<1>3. phase = "prepare"
  BY <1>1 DEF TreeInit
<1> QED
  BY <1>1, <1>2, <1>3 DEF PlanInv

\* To the tree, every step is a pass that rewires it or leaves it as linked.
LEMMA PlansStepTree == TreeInv /\ [PlanNext]_plan => [TreePasses \/ Configure]_tree
<1> SUFFICES ASSUME TreeInv, [PlanNext]_plan PROVE [TreePasses \/ Configure]_tree
  OBVIOUS
<1>1. ASSUME phase \notin Rewiring, phase' \notin Rewiring,
             UNCHANGED <<src, h, work, todo, used, front>>
      PROVE  Configure
  <2>1. IsHeap(h)
    BY <1>1 DEF TreeInv, Done, Built
  <2> QED
    BY <1>1, <2>1 DEF Configure, IsHeap
<1>2. CASE TreePasses /\ UNCHANGED <<commands, program>>
  BY <1>2
<1>3. CASE Optimized
  BY <1>3 DEF Optimized
<1>4. CASE Allocate
  <2>1. /\ phase = "allocate" /\ (phase' = "missing" \/ phase' = phase)
        /\ UNCHANGED <<src, h, work, todo, used, front>>
    BY <1>4 DEF Allocate
  <2> QED
    BY <1>1, <2>1 DEF Rewiring
<1>5. CASE EndAllocate
  BY <1>1, <1>5 DEF EndAllocate, Rewiring
<1>6. CASE \E settings \in SettingsOf(h) : Emit(settings)
  BY <1>6 DEF Emit
<1>7. CASE EndEmit
  BY <1>1, <1>7 DEF EndEmit, Rewiring
<1>8. CASE RunStatement \/ (\E b \in 0 .. Len(src) : RunBranch(b)) \/ RunBody \/ RunPast
  BY <1>8 DEF RunStatement, RunBranch, RunBody, RunPast
<1>9. CASE UNCHANGED plan
  BY <1>9 DEF plan
<1>10. CASE EndOptimized
  BY <1>1, <1>10 DEF EndOptimized, Rewiring
<1> QED
  BY <1>2, <1>3, <1>4, <1>5, <1>6, <1>7, <1>8, <1>9, <1>10 DEF PlanNext

LEMMA PassPhases ==
  ASSUME TreePasses
  PROVE  phase \in Rewiring /\ phase' \in Rewiring \cup {"cwvf"} /\ src' = src
BY DEF TreePasses, PrepareTree, EndPrepare, MoveLoads, MergeLoads, EndMove, PlaceReady, Rewiring

\* The stack of statements holds statements.
LEMMA StatementsFollow ==
  ASSUME src \in Sources, rest \in Seq(DOMAIN src), rest # << >>
  PROVE  /\ Top(rest) \in DOMAIN src /\ After(Top(rest)) \in Seq(DOMAIN src)
         /\ \A b \in 0 .. Len(src) : PushNode(After(Top(rest)), b) \in Seq(DOMAIN src)
         /\ src[Top(rest)].loop # NoNode => Append(rest, src[Top(rest)].loop) \in Seq(DOMAIN src)
<1> DEFINE n == Top(rest)
           S == DOMAIN src
<1>1. IsHeap(src)
  BY TreeAssumption DEF IsProgram, IsHeap
<1>2. n \in S /\ Below(rest) \in Seq(S)
  BY TopFacts
<1>3. /\ S = 1 .. Len(src) /\ Len(src) \in Nat
      /\ src[n].next \in 0 .. Len(src) /\ src[n].loop \in 0 .. Len(src)
  BY <1>1, <1>2, HeapFacts
<1> HIDE DEF n, S
<1>4. ASSUME NEW q \in Seq(S), NEW b \in 0 .. Len(src) PROVE PushNode(q, b) \in Seq(S)
  <2>1. CASE b = NoNode
    BY <2>1 DEF PushNode
  <2>2. CASE b # NoNode
    <3>1. b \in S
      BY <1>3, <2>2 DEF NoNode
    <3> QED
      BY <2>2, <3>1 DEF PushNode
  <2> QED
    BY <2>1, <2>2
<1>5. After(n) \in Seq(S)
  BY <1>2, <1>3, <1>4 DEF After
<1>6. src[n].loop # NoNode => Append(rest, src[n].loop) \in Seq(S)
  <2>1. src[n].loop # NoNode => src[n].loop \in S
    BY <1>3 DEF NoNode
  <2>2. rest \in Seq(S)
    BY DEF S
  <2> QED
    BY <2>1, <2>2
<1> QED
  BY <1>2, <1>4, <1>5, <1>6 DEF n, S

LEMMA RunsOn ==
  ASSUME src \in Sources, Running, rest # << >>, RunPlaceholder(Top(rest)), rest' \in Seq(DOMAIN src),
         UNCHANGED <<tree, commands>>
  PROVE  Running'
<1>1. PICK g, C, f :
        /\ Settled(src, g, C, f) /\ Placed(src, g, C, DOMAIN g, code)
        /\ rest \in Seq(DOMAIN src) /\ Holds(g, loaded)
        /\ at = NoNode => rest = <<Root>>
        /\ at # NoNode => at \in DOMAIN src /\ \A c \in C : g[c].wave # 0 => c \in DOMAIN loaded
  BY DEF Running
<1> DEFINE n == Top(rest)
           k == code[src[n].asmId]
<1>2. src' = src /\ code' = code /\ at' = n /\ loaded' = AfterLoads(k)
  BY DEF RunPlaceholder, tree, commands
<1>3. n \in DOMAIN src
  BY <1>1, StatementsFollow
<1>4. n # NoNode
  <2>1. IsHeap(src)
    BY TreeAssumption DEF IsProgram, IsHeap
  <2> QED
    BY <1>3, <2>1, HeapFacts DEF NoNode
<1>5. k \in Seq(Commands) /\ Loads(g, k)
  BY <1>1, <1>3 DEF Placed
<1>6. /\ Holds(g, AfterLoads(k)) /\ DOMAIN loaded \subseteq DOMAIN AfterLoads(k)
      /\ \A r : HasLoad(k, r) => r \in DOMAIN AfterLoads(k)
  BY <1>1, <1>5, AfterLoadsFacts
<1>7. ASSUME NEW c \in C, g[c].wave # 0 PROVE c \in DOMAIN AfterLoads(k)
  <2>1. CASE at # NoNode
    BY <1>1, <1>6, <1>7, <2>1
  <2>2. CASE at = NoNode
    <3>1. n = Root
      <4>1. rest = <<Root>>
        BY <1>1, <2>2
      <4> QED
        BY <4>1 DEF Top
    <3>2. c \in DOMAIN g
      BY <1>1 DEF Settled, Chain
    <3>3. HasLoad(code[src[Root].asmId], c)
      BY <1>1, <1>7, <3>2 DEF Placed
    <3> QED
      BY <1>6, <3>1, <3>3
  <2> QED
    BY <2>1, <2>2
<1> HIDE DEF n, k
<1>8. at' # NoNode /\ at' \in DOMAIN src /\ Holds(g, loaded')
      /\ \A c \in C : g[c].wave # 0 => c \in DOMAIN loaded'
  BY <1>2, <1>3, <1>4, <1>6, <1>7
<1> QED
  BY <1>1, <1>2, <1>8 DEF Running

\* A step of a walk, on the tree the invariant speaks of.
LEMMA DescendFacts ==
  ASSUME NEW g, Alike(g, h), NEW n \in DOMAIN g, NEW b
  PROVE  Descend(b, n) = Deep(g, b, n)
BY DEF Alike, Descend, Deep

LEMMA AllocateKept ==
  ASSUME src \in Sources, Allocating, Allocate
  PROVE  phase' = "allocate" /\ Allocating'
<1>1. /\ phase = "allocate" /\ due # << >>
      /\ LET n == Top(due)
         IN IF LacksLoad(n) THEN phase' = "missing" /\ UNCHANGED <<due, ptr>>
            ELSE /\ ptr' = IF h[n].type = "load" /\ h[n].wave # 0 THEN ptr \cup {n} ELSE ptr
                 /\ due' = Descend(Below(due), n)
                 /\ UNCHANGED phase
      /\ UNCHANGED <<src, h, code, at, rest, loaded>>
  BY DEF Allocate, program
<1>2. PICK g, C, f, V :
        /\ Settled(src, g, C, f) /\ Alike(g, h) /\ Visiting(g, C, due, V)
        /\ \A c \in C : c \in V /\ g[c].wave # 0 => c \in ptr
  BY DEF Allocating
<1> DEFINE n == Top(due)
           s == Deep(g, Below(due), n)
<1>3. Whole(g) /\ Chain(g, C, f) /\ g[Root].wave = 0
  BY <1>2 DEF Settled
<1>4. /\ n \in DOMAIN g /\ Hangs(g, n) /\ (g[n].type # "load" => C \subseteq V)
      /\ Visiting(g, C, s, V \cup {n})
  BY <1>1, <1>2, <1>3, VisitingGoesOn
<1>5. s = Descend(Below(due), n)
  BY <1>2, <1>4, DescendFacts
<1> HIDE DEF n, s
<1>6. /\ h[n].type = g[n].type /\ h[n].wave = g[n].wave /\ h[n].loadRef = g[n].loadRef
      /\ g[n].type = "play" => h[n].config.dummy = g[n].config.dummy
  BY <1>2, <1>4 DEF Alike
<1>7. ~LacksLoad(n)
  <2> SUFFICES ASSUME g[n].type = "play"
               PROVE  IF g[n].loadRef = NoNode THEN g[n].config.dummy ELSE g[n].loadRef \in ptr
    BY <1>6 DEF LacksLoad
  <2>1. /\ g[n].config.dummy <=> g[n].wave = 0
        /\ g[n].config.dummy => g[n].loadRef = NoNode
        /\ ~g[n].config.dummy => /\ g[n].loadRef \in C /\ g[n].loadRef # NoNode
                                 /\ g[g[n].loadRef].wave = g[n].wave
    BY <1>2, <1>4, PlayServed
  <2>2. C \subseteq V
    BY <1>4
  <2> QED
    BY <1>2, <2>1, <2>2
<1>8. /\ ptr' = IF h[n].type = "load" /\ h[n].wave # 0 THEN ptr \cup {n} ELSE ptr
      /\ due' = s /\ phase' = phase
  BY <1>1, <1>5, <1>7 DEF n
<1>9. ASSUME NEW c \in C, c \in V \cup {n}, g[c].wave # 0 PROVE c \in ptr'
  <2>1. g[c].type = "load"
    BY <1>3 DEF Chain
  <2> QED
    BY <1>2, <1>6, <1>8, <1>9, <2>1
<1>10. Unplaced' /\ Unrun'
  BY <1>1 DEF Allocating, Unplaced, Unrun
<1>11. Settled(src', g, C, f) /\ Alike(g, h') /\ Visiting(g, C, due', V \cup {n})
  BY <1>1, <1>2, <1>4, <1>8
<1> QED
  BY <1>1, <1>8, <1>9, <1>10, <1>11 DEF Allocating

LEMMA EmitKept ==
  ASSUME src \in Sources, IsHeap(h), Emitting, NEW settings \in SettingsOf(h), Emit(settings)
  PROVE  Emitting'
<1> DEFINE n == Top(due)
           c == settings \o WaveCommands(n)
<1>1. /\ due # << >> /\ UNCHANGED <<src, h, ptr, at, rest, loaded>>
      /\ code' = [code EXCEPT ![h[n].asmId] = (@ \o settings) \o WaveCommands(n)]
      /\ due' = Descend(Below(due), n)
  BY DEF Emit, tree, program
<1>2. PICK g, C, f, V :
        /\ Settled(src, g, C, f) /\ Alike(g, h) /\ Visiting(g, C, due, V)
        /\ \A i \in C : g[i].wave # 0 => i \in ptr
        /\ Placed(src, g, C, V, code)
  BY DEF Emitting
<1>3. Whole(g) /\ Chain(g, C, f)
  BY <1>2 DEF Settled
<1>4. /\ n \in DOMAIN g /\ Hangs(g, n) /\ n \notin V
      /\ Visiting(g, C, Deep(g, Below(due), n), V \cup {n})
  BY <1>1, <1>2, <1>3, VisitingGoesOn
<1>5. due' = Deep(g, Below(due), n)
  BY <1>1, <1>2, <1>4, DescendFacts
<1> HIDE DEF n
<1>6. Brings(g, n, c)
  BY <1>2, <1>4, CommandsBrought
<1>7. h[n].asmId = g[n].asmId
  BY <1>2, <1>4 DEF Alike
<1>8. settings \in Seq(Commands) /\ WaveCommands(n) \in Seq(Commands)
  BY <1>2, <1>4, CommandsBrought
<1>9. code' = [code EXCEPT ![g[n].asmId] = @ \o c]
  <2> DEFINE a == g[n].asmId
  <2>1. CASE a \in DOMAIN code
    <3>1. code[a] \in Seq(Commands)
      BY <1>2, <2>1 DEF Placed
    <3>2. (code[a] \o settings) \o WaveCommands(n) = code[a] \o c
      <4> DEFINE x == code[a]
                 z == WaveCommands(n)
      <4>1. x \in Seq(Commands) /\ settings \in Seq(Commands) /\ z \in Seq(Commands)
        BY <1>8, <3>1
      <4> HIDE DEF x, z
      <4>2. (x \o settings) \o z = x \o (settings \o z)
        BY <4>1, ConcatAssociative
      <4> QED
        BY <4>2 DEF x, z
    <3> HIDE DEF c, a
    <3> QED
      BY <1>1, <1>7, <3>2 DEF a
  <2>2. CASE a \notin DOMAIN code
    BY <1>1, <1>7, <2>2
  <2> QED
    BY <2>1, <2>2
<1> HIDE DEF c
<1>10. Placed(src, g, C, V \cup {n}, code')
  BY <1>2, <1>4, <1>6, <1>9, PlacedMore
<1>11. Settled(src', g, C, f) /\ Alike(g, h') /\ Visiting(g, C, due', V \cup {n})
       /\ Placed(src', g, C, V \cup {n}, code')
  BY <1>1, <1>2, <1>4, <1>5, <1>10
<1>12. \A i \in C : g[i].wave # 0 => i \in ptr'
  BY <1>1, <1>2
<1>13. Unrun'
  BY <1>1 DEF Emitting, Unrun
<1> QED
  BY <1>11, <1>12, <1>13 DEF Emitting

LEMMA EmitEnds ==
  ASSUME src \in Sources, Emitting, EndEmit
  PROVE  Running'
<1>1. due = << >> /\ rest' = <<Root>> /\ UNCHANGED <<src, code, at, loaded>>
  BY DEF EndEmit, commands
<1>2. PICK g, C, f, V :
        /\ Settled(src, g, C, f) /\ Visiting(g, C, due, V) /\ Placed(src, g, C, V, code)
  BY DEF Emitting
<1>3. Whole(g) /\ Chain(g, C, f) /\ FromSource(src, g)
  BY <1>2 DEF Settled
<1>4. C \subseteq V /\ \A n \in DOMAIN g : Hangs(g, n) => n \in V
  BY <1>1, <1>2, <1>3, VisitedAll
<1>5. \A n \in DOMAIN src : src[n].type = "play" => n \in V /\ n \in DOMAIN g
  BY <1>3, <1>4 DEF FromSource, Stays
<1>6. C \subseteq DOMAIN g
  BY <1>3 DEF Chain
<1>7. Placed(src, g, C, DOMAIN g, code)
  BY <1>2, <1>4, <1>5, <1>6 DEF Placed
<1>8. at = NoNode /\ loaded = << >>
  BY DEF Emitting, Unrun
<1>9. Holds(g, loaded)
  BY <1>8 DEF Holds
<1>10. Root \in DOMAIN src
  BY TreeAssumption DEF IsProgram
<1>11. rest' \in Seq(DOMAIN src')
  BY <1>1, <1>10
<1> QED
  BY <1>1, <1>2, <1>7, <1>8, <1>9, <1>11 DEF Running

LEMMA PlanInvKept == PlanInv /\ [PlanNext]_plan => PlanInv'
<1> SUFFICES ASSUME PlanInv, [PlanNext]_plan PROVE PlanInv'
  OBVIOUS
<1>0. TreeInv /\ src \in Sources
  BY DEF PlanInv, TreeInv
<1>1. TreeInv'
  BY <1>0, PlansStepTree, TreeInvKept
<1>2. CASE TreePasses /\ UNCHANGED <<commands, program>>
  <2>1. phase \in Rewiring /\ phase' \in Rewiring \cup {"cwvf"} /\ src' = src
    BY <1>2, PassPhases
  <2>2. Unplaced /\ Unrun
    BY <2>1 DEF PlanInv
  <2>3. Unplaced' /\ Unrun'
    BY <1>2, <2>1, <2>2 DEF Unplaced, Unrun, commands, program
  <2> QED
    BY <1>1, <2>1, <2>3 DEF PlanInv, Rewiring
<1>3. CASE Optimized
  <2>1. /\ phase = "cwvf" /\ phase' \in {"cwvf", "error"}
        /\ UNCHANGED <<ptr, code, at, rest, loaded>> /\ Configure
    BY <1>3 DEF Optimized, commands, program
  <2>2. src' = src
    BY <2>1 DEF Configure
  <2>3. Unplaced /\ Unrun
    BY <2>1 DEF PlanInv
  <2>4. Unplaced' /\ Unrun'
    BY <2>1, <2>2, <2>3 DEF Unplaced, Unrun
  <2> QED
    BY <1>1, <2>1, <2>4 DEF PlanInv, Rewiring
<1>4. CASE Allocate
  <2>1. phase = "allocate"
    BY <1>4 DEF Allocate
  <2>2. phase' = "allocate" /\ Allocating'
    BY <1>0, <1>4, <2>1, AllocateKept DEF PlanInv
  <2> QED
    BY <1>1, <2>2 DEF PlanInv, Rewiring
<1>5. CASE EndAllocate
  <2>1. /\ phase = "allocate" /\ phase' = "emit" /\ due = << >> /\ due' = <<Root>>
        /\ UNCHANGED <<src, h, ptr, code, at, rest, loaded>>
    BY <1>5 DEF EndAllocate, program
  <2>2. Allocating
    BY <2>1 DEF PlanInv
  <2>3. PICK g, C, f, V :
          /\ Settled(src, g, C, f) /\ Alike(g, h) /\ Visiting(g, C, due, V)
          /\ \A c \in C : c \in V /\ g[c].wave # 0 => c \in ptr
    BY <2>2 DEF Allocating
  <2>4. C \subseteq V
    BY <2>1, <2>3, VisitedAll DEF Settled
  <2>5. \A c \in C : g[c].wave # 0 => c \in ptr'
    BY <2>1, <2>3, <2>4
  <2>6. Visiting(g, C, due', {})
    BY <2>1, <2>3, VisitingStarts DEF Settled
  <2>7. Placed(src, g, C, {}, code)
    BY <2>2, NothingPlaced DEF Allocating, Unplaced
  <2>8. Settled(src', g, C, f) /\ Alike(g, h') /\ Placed(src', g, C, {}, code')
    BY <2>1, <2>3, <2>7
  <2>9. Unrun'
    BY <2>1, <2>2 DEF Allocating, Unrun
  <2>10. Emitting'
    BY <2>5, <2>6, <2>8, <2>9 DEF Emitting
  <2> QED
    BY <1>1, <2>1, <2>10 DEF PlanInv, Rewiring
<1>6. CASE \E settings \in SettingsOf(h) : Emit(settings)
  <2>1. PICK settings \in SettingsOf(h) : Emit(settings)
    BY <1>6
  <2>2. phase = "emit" /\ phase' = phase
    BY <2>1 DEF Emit, tree
  <2>3. Emitting /\ IsHeap(h)
    BY <1>0, <2>2 DEF PlanInv, TreeInv, Done, Built, Rewiring
  <2>4. Emitting'
    BY <1>0, <2>1, <2>3, EmitKept
  <2> QED
    BY <1>1, <2>2, <2>4 DEF PlanInv, Rewiring
<1>7. CASE EndEmit
  <2>1. phase = "emit" /\ phase' = "run"
    BY <1>7 DEF EndEmit
  <2>2. Running'
    BY <1>0, <1>7, <2>1, EmitEnds DEF PlanInv
  <2> QED
    BY <1>1, <2>1, <2>2 DEF PlanInv, Rewiring
<1>8. CASE RunStatement \/ (\E b \in 0 .. Len(src) : RunBranch(b)) \/ RunBody \/ RunPast
  <2>1. phase = "run" /\ phase' = phase /\ rest # << >> /\ UNCHANGED <<tree, commands>>
        /\ RunPlaceholder(Top(rest))
    BY <1>8 DEF RunStatement, RunBranch, RunBody, RunPast, tree
  <2>2. Running
    BY <2>1 DEF PlanInv
  <2>3. rest \in Seq(DOMAIN src)
    BY <2>2 DEF Running
  <2>4. /\ After(Top(rest)) \in Seq(DOMAIN src)
        /\ \A b \in 0 .. Len(src) : PushNode(After(Top(rest)), b) \in Seq(DOMAIN src)
        /\ src[Top(rest)].loop # NoNode => Append(rest, src[Top(rest)].loop) \in Seq(DOMAIN src)
    BY <1>0, <2>1, <2>3, StatementsFollow
  <2>5. rest' \in Seq(DOMAIN src)
    BY <1>8, <2>4 DEF RunStatement, RunBranch, RunBody, RunPast
  <2>6. Running'
    BY <1>0, <2>1, <2>2, <2>5, RunsOn
  <2> QED
    BY <1>1, <2>1, <2>6 DEF PlanInv, Rewiring
<1>9. CASE UNCHANGED plan
  <2>1. UNCHANGED <<src, h, phase, due, ptr, code, at, rest, loaded>>
    BY <1>9 DEF plan, tree, commands, program
  <2> QED
    BY <1>1, <2>1 DEF PlanInv, Unplaced, Unrun, Allocating, Emitting, Running
<1>10. CASE EndOptimized
  <2>1. /\ phase = "cwvf" /\ phase' = "allocate" /\ due' = <<Root>>
        /\ UNCHANGED <<src, h, ptr, code, at, rest, loaded>>
    BY <1>10 DEF EndOptimized, program
  <2>2. Unplaced /\ Unrun
    BY <2>1 DEF PlanInv
  <2>3. Unplaced' /\ Unrun'
    BY <2>1, <2>2 DEF Unplaced, Unrun
  <2>4. Laid(src', h')
    BY <1>1, <2>1 DEF TreeInv, Done, Built, Rewiring
  <2>5. PICK g, C, f : Settled(src', g, C, f) /\ Alike(g, h')
    BY <2>4 DEF Laid
  <2>6. Visiting(g, C, due', {})
    BY <2>1, <2>5, VisitingStarts DEF Settled
  <2>7. \A c \in C : c \in {} /\ g[c].wave # 0 => c \in ptr'
    OBVIOUS
  <2>8. Allocating'
    BY <2>3, <2>5, <2>6, <2>7 DEF Allocating
  <2> QED
    BY <1>1, <2>1, <2>8 DEF PlanInv, Rewiring
<1> QED
  BY <1>2, <1>3, <1>4, <1>5, <1>6, <1>7, <1>8, <1>9, <1>10 DEF PlanNext

LEMMA PlanInvHolds == PlanSpec => []PlanInv
<1>1. PlanInit => PlanInv
  BY PlanInvStarts
<1>2. PlanInv /\ [PlanNext]_plan => PlanInv'
  BY PlanInvKept
<1> QED
  BY <1>1, <1>2, PTL DEF PlanSpec, OnlyPlans

LEMMA PlanInvPlays == PlanInv => PlaysItsWave
<1> SUFFICES ASSUME PlanInv, AtPlay, src[at].wave # 0
             PROVE  \E i \in DOMAIN code[src[at].asmId] :
                      /\ code[src[at].asmId][i].op = "wvf"
                      /\ \A j \in DOMAIN code[src[at].asmId] : code[src[at].asmId][j].op = "wvf" => j = i
                      /\ code[src[at].asmId][i].reg \in DOMAIN loaded
                      /\ loaded[code[src[at].asmId][i].reg] = src[at].wave
  BY DEF PlaysItsWave, PlanInv
<1>0. src \in Sources /\ Running /\ at # NoNode /\ src[at].type = "play"
  BY DEF AtPlay, PlanInv, TreeInv
<1>1. PICK g, C, f :
        /\ Settled(src, g, C, f) /\ Placed(src, g, C, DOMAIN g, code) /\ Holds(g, loaded)
        /\ at \in DOMAIN src /\ \A c \in C : g[c].wave # 0 => c \in DOMAIN loaded
  BY <1>0 DEF Running
<1>2. at \in DOMAIN g /\ g[at].type = "play" /\ g[at].wave = src[at].wave /\ Hangs(g, at)
  BY <1>0, <1>1 DEF Settled, FromSource, Stays
<1>3. PlaysOnce(code[src[at].asmId], g[at].reg)
  BY <1>0, <1>1, <1>2 DEF Placed
<1>4. g[at].reg \in C /\ g[g[at].reg].wave = src[at].wave
  BY <1>0, <1>1, <1>2, PlayServed
<1>5. g[at].reg \in DOMAIN loaded /\ loaded[g[at].reg] = src[at].wave
  BY <1>1, <1>4 DEF Holds
<1>6. PICK i \in DOMAIN code[src[at].asmId] :
        /\ code[src[at].asmId][i].op = "wvf" /\ code[src[at].asmId][i].reg = g[at].reg
        /\ \A j \in DOMAIN code[src[at].asmId] : code[src[at].asmId][j].op = "wvf" => j = i
  BY <1>3 DEF PlaysOnce
<1> QED
  BY <1>5, <1>6

----------------------------------------------------------------------------
(* Trees that differ in configurations and rates only.                     *)

Blank(r) == [r EXCEPT !.config = ZeroConfig, !.cur = ZeroConfig, !.rate = -1, !.precomp = 0]
Filled(a, b) == Blank(a) = Blank(b) /\ (a.type = "play" => b.config.dummy = a.config.dummy)

\* What Configure allows.
Reconfigured(t, u) ==
  /\ u \in Seq(Nodes(Len(t))) /\ Len(u) = Len(t) /\ Unconfigured(u) = Unconfigured(t)
  /\ \A n \in DOMAIN t : t[n].type = "play" => u[n].config.dummy = t[n].config.dummy

LEMMA BlankFacts ==
  ASSUME NEW k \in Nat, NEW a \in Nodes(k), NEW b \in Nodes(k), Blank(a) = Blank(b)
  PROVE  a.type = b.type /\ a.next = b.next /\ a.loop = b.loop /\ a.branches = b.branches
<1>1. [a EXCEPT !.config = ZeroConfig, !.cur = ZeroConfig, !.rate = -1, !.precomp = 0]
      = [b EXCEPT !.config = ZeroConfig, !.cur = ZeroConfig, !.rate = -1, !.precomp = 0]
  BY DEF Blank
<1> QED
  BY <1>1, FieldsKept, ZenonT(60)

LEMMA ReconfiguredFacts ==
  ASSUME NEW t, IsHeap(t), NEW u, Reconfigured(t, u)
  PROVE  /\ IsHeap(u) /\ Len(u) = Len(t) /\ DOMAIN u = DOMAIN t
         /\ \A n \in DOMAIN t : /\ u[n].type = t[n].type /\ u[n].next = t[n].next
                                /\ u[n].loop = t[n].loop /\ u[n].branches = t[n].branches
<1>1. Len(t) \in Nat /\ DOMAIN t = 1 .. Len(t) /\ Root \in DOMAIN t
  BY HeapFacts
<1>2. u \in Seq(Nodes(Len(t))) /\ Len(u) = Len(t) /\ Unconfigured(u) = Unconfigured(t)
  BY DEF Reconfigured
<1>3. IsHeap(u) /\ DOMAIN u = DOMAIN t
  BY <1>1, <1>2 DEF IsHeap
<1>4. ASSUME NEW n \in DOMAIN t
      PROVE  /\ u[n].type = t[n].type /\ u[n].next = t[n].next
             /\ u[n].loop = t[n].loop /\ u[n].branches = t[n].branches
  <2> DEFINE a == u[n]
             b == t[n]
  <2>1. a \in Nodes(Len(t)) /\ b \in Nodes(Len(t))
    BY <1>1, <1>2, <1>3, HeapFacts
  <2>2. Unconfigured(u)[n] = Unconfigured(t)[n]
    BY <1>2
  <2>3. Blank(a) = Blank(b)
    BY <1>3, <2>2 DEF Unconfigured, Blank
  <2> HIDE DEF a, b
  <2>4. a.type = b.type /\ a.next = b.next /\ a.loop = b.loop /\ a.branches = b.branches
    BY <1>1, <2>1, <2>3, BlankFacts
  <2> QED
    BY <2>4 DEF a, b
<1> QED
  BY <1>2, <1>3, <1>4

LEMMA ReconfiguredTwice ==
  ASSUME NEW t, IsHeap(t), NEW u, Reconfigured(t, u), NEW v, Reconfigured(u, v)
  PROVE  Reconfigured(t, v)
<1>1. Len(u) = Len(t) /\ DOMAIN u = DOMAIN t /\ \A n \in DOMAIN t : u[n].type = t[n].type
  BY ReconfiguredFacts
<1> QED
  BY <1>1 DEF Reconfigured

\* One node is given other values.
LEMMA OneFilled ==
  ASSUME NEW t, IsHeap(t), NEW n \in DOMAIN t, NEW r \in Nodes(Len(t)), Filled(t[n], r),
         NEW u, u = [t EXCEPT ![n] = r]
  PROVE  Reconfigured(t, u)
<1>1. Len(t) \in Nat /\ DOMAIN t = 1 .. Len(t) /\ \A m \in DOMAIN t : t[m] \in Nodes(Len(t))
  BY HeapFacts
<1>2. t \in Seq(Nodes(Len(t)))
  BY DEF IsHeap
<1>3. u \in Seq(Nodes(Len(t))) /\ Len(u) = Len(t) /\ DOMAIN u = DOMAIN t
  BY <1>1, <1>2
<1>4. \A m \in DOMAIN t : u[m] = IF m = n THEN r ELSE t[m]
  BY <1>1
<1>5. \A m \in DOMAIN t : Blank(u[m]) = Blank(t[m])
  BY <1>4 DEF Filled
<1>6. Unconfigured(t) = [m \in DOMAIN t |-> Blank(t[m])] /\ Unconfigured(u) = [m \in DOMAIN t |-> Blank(u[m])]
  BY <1>3 DEF Unconfigured, Blank
<1>7. Unconfigured(u) = Unconfigured(t)
  BY <1>5, <1>6
<1>8. \A m \in DOMAIN t : t[m].type = "play" => u[m].config.dummy = t[m].config.dummy
  BY <1>4 DEF Filled
<1> QED
  BY <1>3, <1>7, <1>8 DEF Reconfigured

\* Each of the four fields.
LEMMA FieldFilled ==
  ASSUME NEW k \in Nat, NEW a \in Nodes(k), NEW c \in Configs, NEW x \in Int
  PROVE  /\ a.type # "play" \/ c.dummy = a.config.dummy =>
               [a EXCEPT !.config = c] \in Nodes(k) /\ Filled(a, [a EXCEPT !.config = c])
         /\ [a EXCEPT !.cur = c] \in Nodes(k) /\ Filled(a, [a EXCEPT !.cur = c])
         /\ [a EXCEPT !.rate = x] \in Nodes(k) /\ Filled(a, [a EXCEPT !.rate = x])
         /\ [a EXCEPT !.precomp = x] \in Nodes(k) /\ Filled(a, [a EXCEPT !.precomp = x])
<1>1. ASSUME a.type # "play" \/ c.dummy = a.config.dummy
      PROVE  [a EXCEPT !.config = c] \in Nodes(k) /\ Filled(a, [a EXCEPT !.config = c])
  <2>1. [a EXCEPT !.config = c] \in Nodes(k)
    BY DEF Nodes
  <2>2. Filled(a, [a EXCEPT !.config = c])
    BY <1>1 DEF Nodes, Filled, Blank
  <2> QED
    BY <2>1, <2>2
<1>2. [a EXCEPT !.cur = c] \in Nodes(k) /\ Filled(a, [a EXCEPT !.cur = c])
  <2>1. [a EXCEPT !.cur = c] \in Nodes(k)
    BY DEF Nodes
  <2>2. Filled(a, [a EXCEPT !.cur = c])
    BY DEF Nodes, Filled, Blank
  <2> QED
    BY <2>1, <2>2
<1>3. [a EXCEPT !.rate = x] \in Nodes(k) /\ Filled(a, [a EXCEPT !.rate = x])
  <2>1. [a EXCEPT !.rate = x] \in Nodes(k)
    BY DEF Nodes
  <2>2. Filled(a, [a EXCEPT !.rate = x])
    BY DEF Nodes, Filled, Blank
  <2> QED
    BY <2>1, <2>2
<1>4. [a EXCEPT !.precomp = x] \in Nodes(k) /\ Filled(a, [a EXCEPT !.precomp = x])
  <2>1. [a EXCEPT !.precomp = x] \in Nodes(k)
    BY DEF Nodes
  <2>2. Filled(a, [a EXCEPT !.precomp = x])
    BY DEF Nodes, Filled, Blank
  <2> QED
    BY <2>1, <2>2
<1> QED
  BY <1>1, <1>2, <1>3, <1>4

LEMMA HeapFilled ==
  ASSUME NEW t, IsHeap(t), NEW n \in DOMAIN t, NEW c \in Configs, NEW x \in Int
  PROVE  /\ t[n].type # "play" \/ c.dummy = t[n].config.dummy =>
               Reconfigured(t, [t EXCEPT ![n].config = c])
         /\ Reconfigured(t, [t EXCEPT ![n].cur = c])
         /\ Reconfigured(t, [t EXCEPT ![n].rate = x])
         /\ Reconfigured(t, [t EXCEPT ![n].precomp = x])
<1>1. Len(t) \in Nat /\ t[n] \in Nodes(Len(t))
  BY HeapFacts
<1>2. /\ [t EXCEPT ![n].config = c] = [t EXCEPT ![n] = [t[n] EXCEPT !.config = c]]
      /\ [t EXCEPT ![n].cur = c] = [t EXCEPT ![n] = [t[n] EXCEPT !.cur = c]]
      /\ [t EXCEPT ![n].rate = x] = [t EXCEPT ![n] = [t[n] EXCEPT !.rate = x]]
      /\ [t EXCEPT ![n].precomp = x] = [t EXCEPT ![n] = [t[n] EXCEPT !.precomp = x]]
  OBVIOUS
<1>3. ASSUME t[n].type # "play" \/ c.dummy = t[n].config.dummy
      PROVE  Reconfigured(t, [t EXCEPT ![n].config = c])
  <2>1. [t[n] EXCEPT !.config = c] \in Nodes(Len(t)) /\ Filled(t[n], [t[n] EXCEPT !.config = c])
    BY <1>1, <1>3, FieldFilled
  <2> QED
    BY <1>2, <2>1, OneFilled
<1>4. Reconfigured(t, [t EXCEPT ![n].cur = c])
  <2>1. [t[n] EXCEPT !.cur = c] \in Nodes(Len(t)) /\ Filled(t[n], [t[n] EXCEPT !.cur = c])
    BY <1>1, FieldFilled
  <2> QED
    BY <1>2, <2>1, OneFilled
<1>5. Reconfigured(t, [t EXCEPT ![n].rate = x])
  <2>1. [t[n] EXCEPT !.rate = x] \in Nodes(Len(t)) /\ Filled(t[n], [t[n] EXCEPT !.rate = x])
    BY <1>1, FieldFilled
  <2> QED
    BY <1>2, <2>1, OneFilled
<1>6. Reconfigured(t, [t EXCEPT ![n].precomp = x])
  <2>1. [t[n] EXCEPT !.precomp = x] \in Nodes(Len(t)) /\ Filled(t[n], [t[n] EXCEPT !.precomp = x])
    BY <1>1, FieldFilled
  <2> QED
    BY <1>2, <2>1, OneFilled
<1> QED
  BY <1>3, <1>4, <1>5, <1>6

----------------------------------------------------------------------------
(* The calls of optimizeCwvf.                                              *)

LEMMA BodiesTyped ==
  ASSUME NEW k \in Nat, NEW s \in Seq(0 .. k)
  PROVE  Bodies(s) \in Seq(1 .. k)
<1> DEFINE n == Len(s)
           g == CHOOSE f : Keeps(s, n, f)
<1>0. n \in Nat /\ DOMAIN s = 1 .. n /\ \A i \in 1 .. n : s[i] \in 0 .. k
  OBVIOUS
<1>1. Keeps(s, n, g)
  BY <1>0, KeepsExists
<1>2. Bodies(s) = g[n]
  BY DEF Bodies, Keeps
<1> HIDE DEF g, n
<1> DEFINE W == {i \in 0 .. n : g[i] \notin Seq(1 .. k)}
<1>3. W = {}
  <2> SUFFICES ASSUME W # {} PROVE FALSE
    OBVIOUS
  <2>1. PICK i \in W : \A j \in W : i <= j
    BY LeastElement, <1>0, W \in SUBSET Nat
  <2>2. g[i] = IF i = 0 THEN << >> ELSE IF s[i] = NoNode THEN g[i - 1] ELSE Append(g[i - 1], s[i])
    BY <1>1, <2>1 DEF Keeps
  <2>3. CASE i = 0
    <3>1. g[i] = << >>
      BY <2>2, <2>3
    <3>2. << >> \in Seq(1 .. k)
      OBVIOUS
    <3> QED
      BY <2>1, <3>1, <3>2
  <2>4. CASE i # 0
    <3>1. i - 1 \in 0 .. n /\ i \in 1 .. n /\ i - 1 < i
      BY <1>0, <2>1, <2>4
    <3>2. g[i - 1] \in Seq(1 .. k)
      BY <2>1, <3>1
    <3>3. s[i] # NoNode => s[i] \in 1 .. k
      BY <1>0, <3>1 DEF NoNode
    <3>4. CASE s[i] = NoNode
      BY <2>1, <2>2, <2>4, <3>2, <3>4
    <3>5. CASE s[i] # NoNode
      <4>1. Append(g[i - 1], s[i]) \in Seq(1 .. k)
        BY <3>2, <3>3, <3>5
      <4> QED
        BY <2>1, <2>2, <2>4, <3>5, <4>1
    <3> QED
      BY <3>4, <3>5
  <2> QED
    BY <2>3, <2>4
<1>4. n \in 0 .. n
  BY <1>0
<1> QED
  BY <1>2, <1>3, <1>4

\* The recursion of Node::last; to show that there is one, each node gets the
\* list of the ends of its chain.
Ends(t, f) == f = [n \in DOMAIN t |-> IF t[n].next = NoNode THEN n ELSE f[t[n].next]]

LEMMA EndsExist ==
  ASSUME NEW t, IsHeap(t), Ranked(t)
  PROVE  \E f : Ends(t, f)
<1> DEFINE Bare(r) == [r EXCEPT !.branches = << >>, !.loop = NoNode]
           u == [n \in DOMAIN t |-> Bare(t[n])]
           own == [n \in DOMAIN t |-> IF t[n].next = NoNode THEN <<n>> ELSE << >>]
<1>1. /\ Len(t) \in Nat /\ DOMAIN t = 1 .. Len(t) /\ Root \in DOMAIN t
      /\ \A n \in DOMAIN t : t[n] \in Nodes(Len(t)) /\ t[n].next \in 0 .. Len(t)
  BY HeapFacts
<1>2. ASSUME NEW k \in Nat, NEW r \in Nodes(k)
      PROVE  Bare(r) \in Nodes(k) /\ Bare(r).branches = << >> /\ Bare(r).loop = NoNode /\ Bare(r).next = r.next
  <2>1. << >> \in Seq(0 .. k) /\ NoNode \in 0 .. k
    BY DEF NoNode
  <2> DEFINE e == << >>
  <2>2. Bare(r) = [r EXCEPT !.branches = e, !.loop = NoNode] /\ e \in Seq(0 .. k)
    BY <2>1
  <2> HIDE DEF e
  <2>3. Bare(r) \in Nodes(k) /\ Bare(r).branches = e /\ Bare(r).loop = NoNode /\ Bare(r).next = r.next
    BY <2>1, <2>2 DEF Nodes
  <2> QED
    BY <2>3 DEF e
<1> HIDE DEF Bare
<1>3. \A n \in DOMAIN t : /\ u[n] \in Nodes(Len(t)) /\ u[n].branches = << >> /\ u[n].loop = NoNode
                          /\ u[n].next = t[n].next
  BY <1>1, <1>2
<1>4. DOMAIN u = DOMAIN t /\ u \in Seq(Nodes(Len(t))) /\ Len(u) = Len(t)
  BY <1>1, <1>3
<1> HIDE DEF u
<1>5. IsHeap(u)
  BY <1>1, <1>4 DEF IsHeap
<1>6. Ranked(u)
  <2>1. PICK r \in [DOMAIN t -> Nat] : Down(t, r)
    BY DEF Ranked
  <2>2. \A n \in DOMAIN t : Links(u, n) \subseteq Links(t, n)
    <3>1. Range(<< >>) = {}
      BY DEF Range
    <3> QED
      BY <1>3, <3>1 DEF Links
  <2>3. Down(u, r)
    BY <1>4, <2>1, <2>2 DEF Down
  <2> QED
    BY <1>4, <2>1, <2>3 DEF Ranked
<1>7. \A n \in DOMAIN t : own[n] \in Seq(DOMAIN t) /\ own[n] = IF t[n].next = NoNode THEN <<n>> ELSE << >>
  <2> SUFFICES ASSUME NEW n \in DOMAIN t PROVE own[n] \in Seq(DOMAIN t)
    OBVIOUS
  <2>1. <<n>> \in Seq(DOMAIN t) /\ << >> \in Seq(DOMAIN t)
    OBVIOUS
  <2> QED
    BY <2>1
<1> HIDE DEF own
<1>8. PICK g \in [DOMAIN u -> Seq(DOMAIN t)] : Lists(u, own, g)
  BY <1>4, <1>5, <1>6, <1>7, ListsExist
<1> DEFINE f == [n \in DOMAIN t |-> g[n][1]]
<1>9. ASSUME NEW n \in DOMAIN t
      PROVE  f[n] = IF t[n].next = NoNode THEN n ELSE f[t[n].next]
  <2>1. g[n] = Entry(g, own[n], u[n])
    BY <1>4, <1>8 DEF Lists
  <2>2. u[n].branches = << >> /\ u[n].loop = NoNode /\ u[n].next = t[n].next
    BY <1>3
  <2>3. t[n].next # NoNode => t[n].next \in DOMAIN t
    BY <1>1 DEF NoNode
  <2>4. Part(g, u[n].next) \in Seq(DOMAIN t)
    <3>1. << >> \in Seq(DOMAIN t)
      OBVIOUS
    <3>2. t[n].next # NoNode => g[t[n].next] \in Seq(DOMAIN t)
      BY <1>4, <1>8, <2>3
    <3> QED
      BY <2>2, <3>1, <3>2 DEF Part
  <2>5. Entry(g, << >>, u[n]) = Part(g, u[n].next)
    BY <2>2, <2>4, EntryOfNext
  <2>6. CASE t[n].next = NoNode
    <3>1. Part(g, u[n].next) = << >>
      BY <2>2, <2>6 DEF Part
    <3> DEFINE q == Flat(g, u[n].branches)
               p == Part(g, u[n].loop)
    <3>2. Entry(g, << >>, u[n]) = << >>
      BY <2>5, <3>1
    <3>3. q = << >> /\ p = << >>
      <4>1. [i \in DOMAIN << >> |-> Part(g, << >>[i])] = << >>
        OBVIOUS
      <4>2. Flat(g, << >>) = << >>
        BY <4>1 DEF Flat, FlattenSeq
      <4> QED
        BY <2>2, <4>2 DEF Part
    <3>4. own[n] = <<n>>
      BY <1>7, <2>6
    <3>5. g[n] = <<n>> \o q \o p \o Part(g, u[n].next)
      BY <2>1, <3>4 DEF Entry
    <3> HIDE DEF q, p
    <3>6. g[n] = <<n>>
      BY <3>1, <3>3, <3>5
    <3> QED
      BY <2>6, <3>6
  <2>7. CASE t[n].next # NoNode
    <3>1. g[n] = g[t[n].next]
      BY <1>7, <2>1, <2>2, <2>5, <2>7 DEF Part
    <3> QED
      BY <2>3, <2>7, <3>1
  <2> QED
    BY <2>6, <2>7
<1> HIDE DEF f
<1>10. f = [n \in DOMAIN t |-> f[n]]
  BY DEF f
<1>11. Ends(t, f)
  BY <1>9, <1>10 DEF Ends
<1> QED
  BY <1>11

LEMMA LastFacts ==
  ASSUME NEW t, IsHeap(t), Ranked(t), NEW n \in DOMAIN t
  PROVE  LastOf(t, n) \in DOMAIN t
<1> DEFINE f == CHOOSE g : Ends(t, g)
           W == {m \in DOMAIN t : f[m] \notin DOMAIN t}
<1>1. Ends(t, f)
  BY EndsExist
<1>2. LastOf(t, n) = f[n]
  BY DEF LastOf, Ends
<1> HIDE DEF f
<1>3. ASSUME NEW m \in W, \A c \in Links(t, m) : c \notin W PROVE FALSE
  <2>1. f[m] = IF t[m].next = NoNode THEN m ELSE f[t[m].next]
    BY <1>1 DEF Ends
  <2>2. t[m].next # NoNode => t[m].next \in Links(t, m) /\ t[m].next \in DOMAIN t
    BY HeapFacts DEF Links
  <2> QED
    BY <1>3, <2>1, <2>2
<1>4. W = {}
  <2>1. W \in SUBSET DOMAIN t
    OBVIOUS
  <2> HIDE DEF W
  <2> QED
    BY <1>3, <2>1, Lowest
<1> QED
  BY <1>2, <1>4

Carried == [cwvf : Configs, rate : Int, precomp : Int]
Calls(k) == [head : 1 .. k, n : 0 .. k, in : Carried, bodies : Seq(1 .. k), exp : Configs,
             pre : Int, first : BOOLEAN, same : BOOLEAN, samePre : BOOLEAN]
Globals(k) == [config : Configs, last : 0 .. k, valid : BOOLEAN]

\* Every call but the innermost is at a node.
Suspended(k) == {c \in Calls(k) : c.n # NoNode}
Stacked(s, k) ==
  /\ s \in Seq(Calls(k))
  /\ s # << >> => Below(s) \in Seq(Suspended(k))

LEMMA NodeFields ==
  ASSUME NEW t, IsHeap(t), NEW n \in DOMAIN t
  PROVE  /\ n \in 1 .. Len(t) /\ n # NoNode /\ t[n].config \in Configs /\ t[n].cur \in Configs
         /\ t[n].rate \in Int /\ t[n].precomp \in Int
         /\ t[n].next \in 0 .. Len(t) /\ (t[n].loop # NoNode => t[n].loop \in DOMAIN t)
<1>1. t[n] \in Nodes(Len(t)) /\ DOMAIN t = 1 .. Len(t) /\ Len(t) \in Nat
  BY HeapFacts
<1> QED
  BY <1>1 DEF Nodes, NoNode

LEMMA AtNodeTyped ==
  ASSUME NEW t, IsHeap(t), NEW m \in DOMAIN t, NEW n \in 0 .. Len(t), NEW x \in Carried
  PROVE  AtNode(t, m, n, x) \in Calls(Len(t)) /\ AtNode(t, m, n, x).n = n
<1> DEFINE b == IF n = NoNode THEN << >> ELSE Bodies(t[n].branches)
           k == Len(t)
<1>1. k \in Nat /\ DOMAIN t = 1 .. k /\ \A i \in DOMAIN t : t[i].branches \in Seq(0 .. k)
  BY HeapFacts
<1>2. b \in Seq(1 .. k)
  <2>1. CASE n = NoNode
    <3>1. << >> \in Seq(1 .. k)
      OBVIOUS
    <3> QED
      BY <2>1, <3>1
  <2>2. CASE n # NoNode
    <3>1. t[n].branches \in Seq(0 .. k)
      BY <1>1, <2>2 DEF NoNode
    <3> QED
      BY <1>1, <2>2, <3>1, BodiesTyped
  <2> QED
    BY <2>1, <2>2
<1>3. AtNode(t, m, n, x) = [head |-> m, n |-> n, in |-> x, bodies |-> b, exp |-> x.cwvf,
                            pre |-> x.precomp, first |-> TRUE, same |-> TRUE, samePre |-> TRUE]
  BY DEF AtNode
<1> HIDE DEF b
<1>4. x.cwvf \in Configs /\ x.precomp \in Int
  BY DEF Carried
<1> QED
  BY <1>1, <1>2, <1>3, <1>4 DEF Calls

LEMMA CalledTyped ==
  ASSUME NEW t, IsHeap(t), NEW n \in DOMAIN t
  PROVE  Called(t, n) \in Suspended(Len(t))
<1> DEFINE x == [cwvf |-> t[n].cur, rate |-> t[n].rate, precomp |-> t[n].precomp]
<1>1. x \in Carried
  BY NodeFields DEF Carried
<1>2. n \in 0 .. Len(t) /\ n # NoNode
  BY NodeFields, HeapFacts
<1>3. Called(t, n) = AtNode(t, n, n, x)
  BY DEF Called
<1> HIDE DEF x
<1> QED
  BY <1>1, <1>2, <1>3, AtNodeTyped DEF Suspended

\* The stack of calls: its top, and one more call.
LEMMA StackTop ==
  ASSUME NEW k, NEW s, Stacked(s, k), s # << >>
  PROVE  Top(s) \in Calls(k) /\ Below(s) \in Seq(Suspended(k))
BY TopFacts DEF Stacked

LEMMA StackMore ==
  ASSUME NEW k, NEW s \in Seq(Suspended(k)), NEW c \in Calls(k)
  PROVE  /\ Stacked(Append(s, c), k)
         /\ c.n # NoNode => Append(s, c) \in Seq(Suspended(k))
<1>1. Suspended(k) \subseteq Calls(k)
  BY DEF Suspended
<1>2. s \in Seq(Calls(k))
  BY <1>1
<1>3. Append(s, c) \in Seq(Calls(k)) /\ Append(s, c) # << >>
  BY <1>2
<1>4. Below(Append(s, c)) = s
  <2>1. Len(Append(s, c)) - 1 = Len(s) /\ Len(s) \in Nat
    BY <1>2
  <2>2. SubSeq(Append(s, c), 1, Len(s)) = s
    BY <1>2
  <2> QED
    BY <2>1, <2>2 DEF Below
<1>5. c.n # NoNode => c \in Suspended(k)
  BY DEF Suspended
<1> QED
  BY <1>3, <1>4, <1>5 DEF Stacked

\* The head of a chain is only given configurations.
LEMMA ChainEntered ==
  ASSUME NEW t, IsHeap(t), NEW n \in DOMAIN t, NEW x \in Carried
  PROVE  Reconfigured(t, EnterChain(t, n, x))
<1> DEFINE a == t[n]
           k == Len(t)
           rated == [a EXCEPT !.rate = x.rate]
           full  == [rated EXCEPT !.precomp = x.precomp]
           near == IF IsQuiet(full.config, x.rate) THEN x.cwvf ELSE full.config
           play == [full EXCEPT !.cur = near]
           bare  == [full EXCEPT !.config = x.cwvf, !.cur = x.cwvf]
           rate == [bare EXCEPT !.rate = a.rate]
           pre == [bare EXCEPT !.precomp = a.precomp]
           r == CASE a.type = "play" -> play
                  [] a.type = "rate" -> rate
                  [] a.type = "setprecomp" -> pre
                  [] OTHER -> bare
<1>1. k \in Nat /\ a \in Nodes(k)
  BY HeapFacts
<1>2. x.cwvf \in Configs /\ x.rate \in Int /\ x.precomp \in Int
  BY DEF Carried
<1>3. EnterChain(t, n, x) = [t EXCEPT ![n] = r]
  BY DEF EnterChain
<1>4. a.config \in Configs /\ a.rate \in Int /\ a.precomp \in Int
  BY <1>1 DEF Nodes
<1> HIDE DEF a, k
<1>5. r \in Nodes(k) /\ Filled(a, r)
  <2>1. full \in Nodes(k) /\ full.config = a.config
    BY <1>1, <1>2 DEF Nodes
  <2>2. near \in Configs
    <3> HIDE DEF full
    <3> QED
      BY <1>2, <1>4, <2>1
  <2>3. CASE a.type = "play"
    <3> HIDE DEF near
    <3>1. play \in Nodes(k) /\ Blank(a) = Blank(play) /\ play.config = a.config
      BY <1>1, <1>2, <2>2 DEF Nodes, Blank
    <3>2. r = play
      BY <2>3
    <3> HIDE DEF play, r
    <3> QED
      BY <3>1, <3>2 DEF Filled
  <2>4. /\ bare \in Nodes(k) /\ Blank(a) = Blank(bare)
        /\ rate \in Nodes(k) /\ Blank(a) = Blank(rate)
        /\ pre \in Nodes(k) /\ Blank(a) = Blank(pre)
    <3>1. bare \in Nodes(k) /\ Blank(a) = Blank(bare)
      BY <1>1, <1>2, <1>4 DEF Nodes, Blank
    <3>2. rate \in Nodes(k) /\ Blank(a) = Blank(rate)
      BY <1>1, <1>2, <1>4 DEF Nodes, Blank
    <3>3. pre \in Nodes(k) /\ Blank(a) = Blank(pre)
      BY <1>1, <1>2, <1>4 DEF Nodes, Blank
    <3> QED
      BY <3>1, <3>2, <3>3
  <2>5. CASE a.type # "play"
    <3>1. r = bare \/ r = rate \/ r = pre
      BY <2>5
    <3> HIDE DEF bare, rate, pre, r
    <3> QED
      BY <2>4, <2>5, <3>1 DEF Filled
  <2> QED
    BY <2>3, <2>5
<1> HIDE DEF r
<1> QED
  BY <1>3, <1>5, OneFilled DEF a, k

\* globalCwvf names a node by the time its configuration is valid.
GlobalOK(g, k) == g \in Globals(k) /\ (g.valid => g.last # NoNode)

Analysis ==
  /\ Stacked(calls, Len(h)) /\ GlobalOK(global, Len(h))
  /\ phase \in Rewiring => calls = << >> /\ global = NoGlobal

\* What a step of the analysis does to the tree.
Analyses == /\ phase = "cwvf" /\ phase' \in {"cwvf", "error"} /\ Reconfigured(h, h')
            /\ UNCHANGED <<src, work, todo, used, front, commands, program>>

LEMMA NoGlobalOK ==
  ASSUME NEW k \in Nat
  PROVE  GlobalOK(NoGlobal, k)
<1>1. ResetConfig \in Configs /\ NoNode \in 0 .. k
  BY DEF ResetConfig, Config, Configs, Unset, NoNode
<1> QED
  BY <1>1 DEF NoGlobal, GlobalOK, Globals

LEMMA GlobalKept ==
  ASSUME NEW t, IsHeap(t), NEW n \in DOMAIN t, NEW g, GlobalOK(g, Len(t))
  PROVE  GlobalOK(GlobalCwvf(g, t, n), Len(t))
<1> DEFINE a == t[n].config
           k == Len(t)
           new == [config |-> a, last |-> n, valid |-> TRUE]
           spoilt == [g EXCEPT !.valid = FALSE]
<1>1. a \in Configs /\ n \in 0 .. k /\ n # NoNode
  BY NodeFields, HeapFacts
<1>2. GlobalCwvf(g, t, n) = g \/ GlobalCwvf(g, t, n) = new \/ GlobalCwvf(g, t, n) = spoilt
  BY DEF GlobalCwvf
<1>3. GlobalOK(g, k)
  OBVIOUS
<1> HIDE DEF a, k
<1>4. GlobalOK(new, k)
  BY <1>1 DEF GlobalOK, Globals
<1>5. GlobalOK(spoilt, k)
  BY <1>3 DEF GlobalOK, Globals
<1> HIDE DEF new, spoilt
<1> QED
  BY <1>2, <1>3, <1>4, <1>5 DEF k

\* The innermost call, at its node.
LEMMA Innermost ==
  ASSUME IsHeap(h), Analysis, NEW types, Analysing(types)
  PROVE  /\ Top(calls) \in Suspended(Len(h)) /\ Below(calls) \in Seq(Suspended(Len(h)))
         /\ Top(calls).n \in DOMAIN h /\ h[Top(calls).n].type \in types
         /\ phase = "cwvf" /\ phase \notin Rewiring
<1>1. /\ phase = "cwvf" /\ calls # << >> /\ Top(calls).n # NoNode
      /\ h[Top(calls).n].type \in types
  BY DEF Analysing
<1>2. Top(calls) \in Calls(Len(h)) /\ Below(calls) \in Seq(Suspended(Len(h)))
  BY <1>1, StackTop DEF Analysis
<1>3. Top(calls).n \in 0 .. Len(h)
  BY <1>2 DEF Calls
<1>4. Top(calls).n \in DOMAIN h
  BY <1>1, <1>3, HeapFacts DEF NoNode
<1> QED
  BY <1>1, <1>2, <1>4 DEF Suspended, Rewiring

\* The call that has reached the end of its chain, and its caller.
LEMMA Outermost ==
  ASSUME IsHeap(h), Ranked(h), Analysis, NEW type, Returning(type)
  PROVE  /\ Top(Below(calls)) \in Suspended(Len(h)) /\ Below(Below(calls)) \in Seq(Suspended(Len(h)))
         /\ Top(Below(calls)).n \in DOMAIN h /\ h[Top(Below(calls)).n].type = type
         /\ LastOf(h, Top(calls).head) \in DOMAIN h
         /\ phase = "cwvf" /\ phase \notin Rewiring
<1> DEFINE s == Below(calls)
<1>1. phase = "cwvf" /\ Len(calls) > 1 /\ h[Top(s).n].type = type
  BY DEF Returning
<1>2. calls \in Seq(Calls(Len(h)))
  BY DEF Analysis, Stacked
<1>3. calls # << >>
  BY <1>1, <1>2
<1>4. Top(calls) \in Calls(Len(h)) /\ s \in Seq(Suspended(Len(h)))
  BY <1>3, StackTop DEF Analysis
<1>5. s # << >>
  <2>1. Len(s) = Len(calls) - 1 /\ Len(calls) \in Nat
    BY <1>1, <1>2, SubSeqProperties DEF Below
  <2> QED
    BY <1>1, <2>1
<1> HIDE DEF s
<1>6. Top(s) \in Suspended(Len(h)) /\ Below(s) \in Seq(Suspended(Len(h)))
  BY <1>4, <1>5, TopFacts
<1>7. Top(s).n \in DOMAIN h
  BY <1>6, HeapFacts DEF Suspended, Calls, NoNode
<1>8. Top(calls).head \in DOMAIN h
  BY <1>4, HeapFacts DEF Calls
<1>9. LastOf(h, Top(calls).head) \in DOMAIN h
  BY <1>8, LastFacts
<1> QED
  BY <1>1, <1>6, <1>7, <1>9 DEF s, Rewiring

LEMMA Advanced ==
  ASSUME NEW t, IsHeap(t), NEW c \in Suspended(Len(t)), NEW s \in Seq(Suspended(Len(t))),
         NEW x \in Carried, Advance(s, c, t, x)
  PROVE  Reconfigured(t, h') /\ Stacked(calls', Len(t))
<1> DEFINE n == c.n
           u == [t EXCEPT ![n].cur = x.cwvf]
           v == [u EXCEPT ![n].precomp = x.precomp]
<1>1. c \in Calls(Len(t)) /\ n \in 1 .. Len(t) /\ c.head \in 1 .. Len(t) /\ DOMAIN t = 1 .. Len(t)
  BY HeapFacts DEF Suspended, Calls, NoNode
<1>2. x.cwvf \in Configs /\ x.precomp \in Int
  BY DEF Carried
<1>3. h' = v
  BY DEF Advance
<1>4. calls' = Append(s, AtNode(t, c.head, t[n].next, x))
  BY DEF Advance
<1> HIDE DEF n
<1>5. Reconfigured(t, u)
  BY <1>1, <1>2, HeapFilled
<1>6. IsHeap(u) /\ DOMAIN u = DOMAIN t
  BY <1>5, ReconfiguredFacts
<1> HIDE DEF u
<1>7. Reconfigured(u, v)
  BY <1>1, <1>2, <1>6, HeapFilled
<1> HIDE DEF v
<1>8. Reconfigured(t, h')
  BY <1>3, <1>5, <1>7, ReconfiguredTwice
<1>9. t[n].next \in 0 .. Len(t)
  BY <1>1, NodeFields
<1>10. AtNode(t, c.head, t[n].next, x) \in Calls(Len(t))
  BY <1>1, <1>9, AtNodeTyped
<1> QED
  BY <1>4, <1>8, <1>10, StackMore

LEMMA Entered ==
  ASSUME NEW t, IsHeap(t), NEW c \in Suspended(Len(t)), NEW s \in Seq(Suspended(Len(t))),
         NEW b \in DOMAIN t, Enter(s, c, t, b)
  PROVE  Reconfigured(t, h') /\ Stacked(calls', Len(t))
<1>1. c \in Calls(Len(t)) /\ c.n # NoNode /\ c.in \in Carried
  BY DEF Suspended, Calls
<1>2. h' = EnterChain(t, b, c.in) /\ calls' = Append(Append(s, c), Called(h', b))
  BY DEF Enter
<1>3. Reconfigured(t, h')
  BY <1>1, <1>2, ChainEntered
<1>4. IsHeap(h') /\ Len(h') = Len(t) /\ b \in DOMAIN h'
  BY <1>3, ReconfiguredFacts
<1>5. Called(h', b) \in Suspended(Len(t))
  <2> DEFINE u == h'
  <2>1. IsHeap(u) /\ Len(u) = Len(t) /\ b \in DOMAIN u
    BY <1>4
  <2> HIDE DEF u
  <2>2. Called(u, b) \in Suspended(Len(t))
    BY <2>1, CalledTyped
  <2> QED
    BY <2>2 DEF u
<1>6. Append(s, c) \in Seq(Suspended(Len(t)))
  BY <1>1, StackMore
<1>7. Called(h', b) \in Calls(Len(t))
  BY <1>5 DEF Suspended
<1> QED
  BY <1>2, <1>3, <1>6, <1>7, StackMore

\* A step of the analysis keeps the stack of calls typed.
AnalysesOn == Analyses /\ Stacked(calls', Len(h)) /\ GlobalOK(global', Len(h))

\* A node gets a rate and a configuration, which for a play is no other dummy.
LEMMA Refilled ==
  ASSUME NEW t, IsHeap(t), NEW n \in DOMAIN t, NEW c \in Configs, NEW x \in Int,
         t[n].type # "play" \/ c.dummy = t[n].config.dummy
  PROVE  /\ Reconfigured(t, [t EXCEPT ![n].rate = x, ![n].config = c])
         /\ Reconfigured(t, [t EXCEPT ![n].config = c, ![n].rate = x])
<1> DEFINE u == [t EXCEPT ![n].rate = x]
           v == [t EXCEPT ![n].config = c]
<1>1. Reconfigured(t, u) /\ Reconfigured(t, v)
  BY HeapFilled
<1>2. u[n].config = t[n].config
  <2>1. t[n] \in Nodes(Len(t))
    BY HeapFacts
  <2>2. u[n] = [t[n] EXCEPT !.rate = x]
    OBVIOUS
  <2> QED
    BY <2>1, <2>2 DEF Nodes
<1> HIDE DEF u, v
<1>3. IsHeap(u) /\ IsHeap(v) /\ n \in DOMAIN u /\ n \in DOMAIN v
      /\ u[n].type = t[n].type /\ v[n].type = t[n].type
  BY <1>1, ReconfiguredFacts
<1>4. Reconfigured(u, [u EXCEPT ![n].config = c]) /\ Reconfigured(v, [v EXCEPT ![n].rate = x])
  BY <1>2, <1>3, HeapFilled
<1>5. Reconfigured(t, [u EXCEPT ![n].config = c]) /\ Reconfigured(t, [v EXCEPT ![n].rate = x])
  BY <1>1, <1>4, ReconfiguredTwice
<1> QED
  BY <1>5 DEF u, v

LEMMA AnalysePlayKept ==
  ASSUME IsHeap(h), Analysis, AnalysePlay
  PROVE  AnalysesOn
<1> DEFINE c     == Top(calls)
           own   == h[c.n].config
           cfg   == [own EXCEPT !.rate = IF @ = -1 THEN c.in.rate ELSE @, !.precomp = c.in.precomp]
           t     == [h EXCEPT ![c.n].rate = c.in.rate, ![c.n].config = cfg]
           out == IF IsQuiet(own, c.in.rate) THEN c.in ELSE [c.in EXCEPT !.cwvf = cfg]
<1>1. /\ Analysing({"play"}) /\ Advance(Below(calls), c, t, out)
      /\ global' = global \/ global' = GlobalCwvf(global, t, c.n)
      /\ UNCHANGED <<src, phase, work, todo, used, front, commands, program>>
  BY DEF AnalysePlay
<1>2. /\ c \in Suspended(Len(h)) /\ Below(calls) \in Seq(Suspended(Len(h))) /\ c.n \in DOMAIN h
      /\ phase = "cwvf"
  BY <1>1, Innermost
<1>3. c.in \in Carried
  BY <1>2 DEF Suspended, Calls
<1>4. own \in Configs /\ c.in.rate \in Int /\ c.in.precomp \in Int /\ c.in.cwvf \in Configs
  BY <1>2, <1>3, NodeFields DEF Carried
<1>5. cfg \in Configs /\ cfg.dummy = own.dummy
  <2> HIDE DEF own, c
  <2> QED
    BY <1>4 DEF Configs
<1>6. out \in Carried
  <2> HIDE DEF own, c, cfg
  <2> QED
    BY <1>3, <1>4, <1>5 DEF Carried
<1>7. Reconfigured(h, t)
  <2>1. cfg.dummy = h[c.n].config.dummy
    BY <1>5
  <2> HIDE DEF cfg, c, own
  <2> QED
    BY <1>2, <1>4, <1>5, <2>1, Refilled
<1> HIDE DEF t, out, cfg, own, c
<1>8. IsHeap(t) /\ Len(t) = Len(h) /\ DOMAIN t = DOMAIN h
  BY <1>7, ReconfiguredFacts
<1>9. Reconfigured(t, h') /\ Stacked(calls', Len(h))
  BY <1>1, <1>2, <1>6, <1>8, Advanced
<1>10. Reconfigured(h, h')
  BY <1>7, <1>9, ReconfiguredTwice
<1>11. GlobalOK(global', Len(h))
  BY <1>1, <1>2, <1>8, GlobalKept DEF Analysis
<1> QED
  BY <1>1, <1>2, <1>9, <1>10, <1>11 DEF AnalysesOn, Analyses

LEMMA AnalyseOtherKept ==
  ASSUME IsHeap(h), Analysis, AnalyseOther
  PROVE  AnalysesOn
<1> DEFINE c    == Top(calls)
           node == h[c.n]
           x    == IF node.type = "rate" THEN node.rate ELSE c.in.rate
           p    == IF node.type = "setprecomp" THEN node.precomp ELSE c.in.precomp
           t    == [h EXCEPT ![c.n].config = c.in.cwvf, ![c.n].rate = x]
           out  == [c.in EXCEPT !.rate = x, !.precomp = p]
           types == {"load", "setvar", "rate", "setprecomp", "ready"}
<1>1. Analysing(types) /\ UNCHANGED <<src, phase, work, todo, used, front, commands, program, global>>
  BY DEF AnalyseOther
<1>2. /\ c \in Suspended(Len(h)) /\ Below(calls) \in Seq(Suspended(Len(h))) /\ c.n \in DOMAIN h
      /\ phase = "cwvf" /\ node.type # "play"
  BY <1>1, Innermost
<1>3. c.in \in Carried
  BY <1>2 DEF Suspended, Calls
<1>4. /\ c.in.rate \in Int /\ c.in.precomp \in Int /\ c.in.cwvf \in Configs
      /\ node.rate \in Int /\ node.precomp \in Int
  BY <1>2, <1>3, NodeFields DEF Carried
<1>5. Advance(Below(calls), c, t, out)
  <2> DEFINE u == [h EXCEPT ![c.n].config = c.in.cwvf,
                            ![c.n].rate = IF node.type = "rate" THEN @ ELSE c.in.rate]
             o == [c.in EXCEPT !.rate = IF node.type = "rate" THEN node.rate ELSE @,
                               !.precomp = IF node.type = "setprecomp" THEN node.precomp ELSE @]
  <2>1. Advance(Below(calls), c, u, o)
    BY DEF AnalyseOther
  <2>2. o = out
    BY <1>3 DEF Carried
  <2>3. u = t
    <3>1. node \in Nodes(Len(h))
      BY <1>2, HeapFacts
    <3>2. u = [h EXCEPT ![c.n] = [node EXCEPT !.config = c.in.cwvf, !.rate = x]]
      BY <3>1 DEF Nodes
    <3> QED
      BY <3>1, <3>2 DEF Nodes
  <2> HIDE DEF u, o, t, out
  <2> QED
    BY <2>1, <2>2, <2>3
<1>6. x \in Int /\ p \in Int
  BY <1>4
<1>7. out \in Carried
  <2> HIDE DEF x, p, c
  <2> QED
    BY <1>3, <1>6 DEF Carried
<1>8. Reconfigured(h, t)
  <2>1. h[c.n].type # "play"
    BY <1>2
  <2> HIDE DEF x, c, node
  <2> QED
    BY <1>2, <1>4, <1>6, <2>1, Refilled
<1> HIDE DEF t, out, x, p, node, c
<1>9. IsHeap(t) /\ Len(t) = Len(h)
  BY <1>8, ReconfiguredFacts
<1>10. Reconfigured(t, h') /\ Stacked(calls', Len(h))
  BY <1>2, <1>5, <1>7, <1>9, Advanced
<1>11. Reconfigured(h, h')
  BY <1>8, <1>10, ReconfiguredTwice
<1> QED
  BY <1>1, <1>2, <1>10, <1>11 DEF AnalysesOn, Analyses, Analysis

LEMMA AnalyseLoopKept ==
  ASSUME IsHeap(h), Analysis, AnalyseLoop
  PROVE  AnalysesOn
<1> DEFINE c == Top(calls)
           n == c.n
           x == c.in
           t == [h EXCEPT ![n].config = x.cwvf, ![n].cur = x.cwvf, ![n].rate = x.rate, ![n].precomp = x.precomp]
           r == [h[n] EXCEPT !.config = x.cwvf, !.cur = x.cwvf, !.rate = x.rate, !.precomp = x.precomp]
           b == h[n].loop
<1>1. /\ Analysing({"loop"})
      /\ IF b = NoNode THEN Advance(Below(calls), c, t, x) ELSE Enter(Below(calls), c, t, b)
      /\ UNCHANGED <<src, phase, work, todo, used, front, commands, program, global>>
  BY DEF AnalyseLoop
<1>2. /\ c \in Suspended(Len(h)) /\ Below(calls) \in Seq(Suspended(Len(h))) /\ n \in DOMAIN h
      /\ phase = "cwvf" /\ h[n].type # "play"
  BY <1>1, Innermost
<1>3. x \in Carried
  BY <1>2 DEF Suspended, Calls
<1>4. x.rate \in Int /\ x.precomp \in Int /\ x.cwvf \in Configs
  BY <1>3 DEF Carried
<1>5. h[n] \in Nodes(Len(h)) /\ Len(h) \in Nat /\ (b # NoNode => b \in DOMAIN h)
  BY <1>2, HeapFacts, NodeFields
<1> HIDE DEF c, n, x, b
<1>6. r \in Nodes(Len(h)) /\ Blank(r) = Blank(h[n])
  <2> DEFINE a == h[n]
             k == Len(h)
  <2>1. a \in Nodes(k)
    BY <1>5
  <2> HIDE DEF a, k
  <2> DEFINE q == [a EXCEPT !.config = x.cwvf, !.cur = x.cwvf, !.rate = x.rate, !.precomp = x.precomp]
  <2>2. q \in Nodes(k)
    BY <1>4, <2>1 DEF Nodes
  <2>3. Blank(q) = Blank(a)
    BY <1>4, <2>1 DEF Nodes, Blank
  <2> QED
    BY <2>2, <2>3 DEF a, k
<1>7. t = [h EXCEPT ![n] = r]
  BY <1>2, <1>5 DEF Nodes
<1> HIDE DEF t, r
<1>8. Reconfigured(h, t)
  <2>1. Filled(h[n], r)
    BY <1>2, <1>6 DEF Filled
  <2> QED
    BY <1>2, <1>6, <1>7, <2>1, OneFilled
<1>9. IsHeap(t) /\ Len(t) = Len(h) /\ DOMAIN t = DOMAIN h
  BY <1>8, ReconfiguredFacts
<1>10. Reconfigured(t, h') /\ Stacked(calls', Len(h))
  <2>1. CASE b = NoNode
    <3>1. Advance(Below(calls), c, t, x)
      BY <1>1, <2>1
    <3> QED
      BY <1>2, <1>3, <1>9, <3>1, Advanced
  <2>2. CASE b # NoNode
    <3>1. Enter(Below(calls), c, t, b) /\ b \in DOMAIN t
      BY <1>1, <1>5, <1>9, <2>2
    <3> QED
      BY <1>2, <1>9, <3>1, Entered
  <2> QED
    BY <2>1, <2>2
<1>11. Reconfigured(h, h')
  BY <1>8, <1>10, ReconfiguredTwice
<1> QED
  BY <1>1, <1>2, <1>10, <1>11 DEF AnalysesOn, Analyses, Analysis

LEMMA EnterBodyKept ==
  ASSUME IsHeap(h), Analysis, EnterBody
  PROVE  AnalysesOn
<1> DEFINE c == Top(calls)
           d == [c EXCEPT !.bodies = Tail(@)]
           b == Head(c.bodies)
<1>1. /\ Analysing({"branch"}) /\ c.bodies # << >> /\ Enter(Below(calls), d, h, b)
      /\ UNCHANGED <<src, phase, work, todo, used, front, commands, program, global>>
  BY DEF EnterBody
<1>2. /\ c \in Suspended(Len(h)) /\ Below(calls) \in Seq(Suspended(Len(h))) /\ phase = "cwvf"
  BY <1>1, Innermost
<1> HIDE DEF c
<1>3. c.bodies \in Seq(1 .. Len(h))
  BY <1>2 DEF Suspended, Calls
<1>4. b \in DOMAIN h /\ Tail(c.bodies) \in Seq(1 .. Len(h))
  <2> DEFINE q == c.bodies
             N == 1 .. Len(h)
  <2>1. q \in Seq(N) /\ q # << >> /\ DOMAIN h = N
    BY <1>1, <1>3, HeapFacts
  <2> HIDE DEF q, N
  <2>2. Head(q) \in N /\ Tail(q) \in Seq(N)
    BY <2>1
  <2> QED
    BY <2>1, <2>2 DEF q, N
<1>5. d \in Suspended(Len(h))
  BY <1>2, <1>4 DEF Suspended, Calls
<1> HIDE DEF b, d
<1>6. Reconfigured(h, h') /\ Stacked(calls', Len(h))
  BY <1>1, <1>2, <1>4, <1>5, Entered
<1> QED
  BY <1>1, <1>2, <1>6 DEF AnalysesOn, Analyses, Analysis

LEMMA LeaveLoopKept ==
  ASSUME IsHeap(h), Ranked(h), Analysis, LeaveLoop
  PROVE  AnalysesOn
<1> DEFINE c    == Top(Below(calls))
           s    == Below(Below(calls))
           tail == h[LastOf(h, Top(calls).head)]
           t    == [h EXCEPT ![c.n].config = tail.config]
           x    == [cwvf |-> tail.config, rate |-> tail.rate, precomp |-> tail.precomp]
<1>1. /\ Returning("loop") /\ Advance(s, c, t, x)
      /\ UNCHANGED <<src, phase, work, todo, used, front, commands, program, global>>
  BY DEF LeaveLoop
<1>2. /\ c \in Suspended(Len(h)) /\ s \in Seq(Suspended(Len(h))) /\ c.n \in DOMAIN h
      /\ h[c.n].type # "play" /\ LastOf(h, Top(calls).head) \in DOMAIN h /\ phase = "cwvf"
  BY <1>1, Outermost
<1>3. tail.config \in Configs /\ tail.rate \in Int /\ tail.precomp \in Int
  BY <1>2, NodeFields
<1> HIDE DEF c, s, tail
<1>4. x \in Carried
  BY <1>3 DEF Carried
<1>5. Reconfigured(h, t)
  BY <1>2, <1>3, HeapFilled
<1> HIDE DEF t, x
<1>6. IsHeap(t) /\ Len(t) = Len(h)
  BY <1>5, ReconfiguredFacts
<1>7. Reconfigured(t, h') /\ Stacked(calls', Len(h))
  BY <1>1, <1>2, <1>4, <1>6, Advanced
<1>8. Reconfigured(h, h')
  BY <1>5, <1>7, ReconfiguredTwice
<1> QED
  BY <1>1, <1>2, <1>7, <1>8 DEF AnalysesOn, Analyses, Analysis

LEMMA LeaveBranchKept ==
  ASSUME IsHeap(h), Analysis, LeaveBranch
  PROVE  AnalysesOn
<1> DEFINE c    == Top(calls)
           cwvf == IF c.same THEN c.exp ELSE ResetConfig
           t    == [h EXCEPT ![c.n].rate = c.in.rate, ![c.n].config = cwvf]
           x    == [cwvf |-> cwvf, rate |-> c.in.rate, precomp |-> c.pre]
<1>1. /\ Analysing({"branch"})
      /\ \/ Advance(Below(calls), c, t, x) /\ phase' = phase
         \/ h' = t /\ phase' = "error" /\ calls' = calls
      /\ UNCHANGED <<src, work, todo, used, front, commands, program, global>>
  BY DEF LeaveBranch
<1>2. /\ c \in Suspended(Len(h)) /\ Below(calls) \in Seq(Suspended(Len(h))) /\ c.n \in DOMAIN h
      /\ h[c.n].type # "play" /\ phase = "cwvf"
  BY <1>1, Innermost
<1>3. c.in \in Carried /\ c.exp \in Configs /\ c.pre \in Int
  BY <1>2 DEF Suspended, Calls
<1>4. c.in.rate \in Int
  BY <1>3 DEF Carried
<1>5. cwvf \in Configs
  <2>1. ResetConfig \in Configs
    BY DEF ResetConfig, Config, Configs, Unset
  <2> QED
    BY <1>3, <2>1
<1> HIDE DEF c, cwvf
<1>6. x \in Carried
  BY <1>3, <1>4, <1>5 DEF Carried
<1>7. Reconfigured(h, t)
  BY <1>2, <1>4, <1>5, Refilled
<1> HIDE DEF t, x
<1>8. IsHeap(t) /\ Len(t) = Len(h)
  BY <1>7, ReconfiguredFacts
<1>9. Reconfigured(h, h') /\ Stacked(calls', Len(h))
  <2>1. CASE Advance(Below(calls), c, t, x)
    <3>1. Reconfigured(t, h') /\ Stacked(calls', Len(h))
      BY <1>2, <1>6, <1>8, <2>1, Advanced
    <3> QED
      BY <1>7, <3>1, ReconfiguredTwice
  <2>2. CASE h' = t /\ calls' = calls
    BY <1>7, <2>2 DEF Analysis
  <2> QED
    BY <1>1, <2>1, <2>2
<1> QED
  BY <1>1, <1>2, <1>9 DEF AnalysesOn, Analyses, Analysis

\* The steps that leave the plan as it is.
LEMMA LeaveBodyKept ==
  ASSUME IsHeap(h), Ranked(h), Analysis, LeaveBody
  PROVE  Stacked(calls', Len(h)) /\ UNCHANGED <<plan, global>> /\ phase = "cwvf"
<1> DEFINE c    == Top(Below(calls))
           s    == Below(Below(calls))
           tail == h[LastOf(h, Top(calls).head)]
           sure == c.first /\ ~SkipFlagOf(h, c.head, c.n)
           exp  == IF sure THEN tail.cur ELSE c.exp
           pre  == IF sure THEN tail.precomp ELSE c.pre
           met  == ~Differs(exp, tail.cur) /\ Differs(exp, ResetConfig)
           d    == [c EXCEPT !.exp = exp, !.pre = pre, !.first = FALSE, !.same = @ /\ met,
                             !.samePre = @ /\ pre = tail.precomp]
<1>1. Returning("branch") /\ calls' = Append(s, d) /\ UNCHANGED <<plan, global>>
  BY DEF LeaveBody
<1>2. /\ c \in Suspended(Len(h)) /\ s \in Seq(Suspended(Len(h)))
      /\ LastOf(h, Top(calls).head) \in DOMAIN h /\ phase = "cwvf"
  BY <1>1, Outermost
<1>3. tail.cur \in Configs /\ tail.precomp \in Int
  BY <1>2, NodeFields
<1>4. c \in Calls(Len(h))
  BY <1>2 DEF Suspended
<1>5. exp \in Configs /\ pre \in Int
  BY <1>3, <1>4 DEF Calls
<1>6. met \in BOOLEAN /\ (pre = tail.precomp) \in BOOLEAN /\ c.same \in BOOLEAN /\ c.samePre \in BOOLEAN
  <2>1. c.same \in BOOLEAN /\ c.samePre \in BOOLEAN
    BY <1>4 DEF Calls
  <2> HIDE DEF c, tail, pre, exp
  <2> QED
    BY <2>1
<1> HIDE DEF c, s, tail, exp, pre, met
<1>7. d \in Calls(Len(h))
  <2> DEFINE y == c.same /\ met
             z == c.samePre /\ pre = tail.precomp
  <2>1. y \in BOOLEAN /\ z \in BOOLEAN
    BY <1>6
  <2>2. d = [c EXCEPT !.exp = exp, !.pre = pre, !.first = FALSE, !.same = y, !.samePre = z]
    BY <1>4 DEF Calls
  <2> HIDE DEF y, z, d
  <2> QED
    BY <1>4, <1>5, <2>1, <2>2 DEF Calls
<1> HIDE DEF d
<1>8. Stacked(calls', Len(h))
  BY <1>1, <1>2, <1>7, StackMore
<1> QED
  BY <1>1, <1>2, <1>8

----------------------------------------------------------------------------
(* The planner implements the plan.                                        *)

\* optimizeCwvf gives the tree configurations, or has no effect on the plan.
LEMMA OptimizeKept ==
  ASSUME IsHeap(h), Ranked(h), Analysis, OptimizeCwvf
  PROVE  /\ Stacked(calls', Len(h)) /\ GlobalOK(global', Len(h)) /\ phase = "cwvf"
         /\ Analyses \/ EndOptimized \/ UNCHANGED plan
<1>1. CASE AnalysePlay \/ AnalyseOther \/ AnalyseLoop \/ EnterBody \/ LeaveLoop \/ LeaveBranch
  <2>1. AnalysesOn
    BY <1>1, AnalysePlayKept, AnalyseOtherKept, AnalyseLoopKept, EnterBodyKept, LeaveLoopKept, LeaveBranchKept
  <2> QED
    BY <2>1 DEF AnalysesOn, Analyses
<1>2. CASE LeaveBody
  BY <1>2, LeaveBodyKept DEF Analysis
<1>3. CASE StartCwvf
  <2>1. phase = "cwvf" /\ calls' = <<Called(h, Root)>> /\ UNCHANGED <<plan, global>>
    BY <1>3 DEF StartCwvf
  <2> DEFINE c == Called(h, Root)
             e == << >>
  <2>2. c \in Calls(Len(h)) /\ e \in Seq(Suspended(Len(h)))
    BY CalledTyped, HeapFacts DEF Suspended
  <2>3. <<c>> = Append(e, c)
    OBVIOUS
  <2> HIDE DEF c, e
  <2>4. Stacked(<<c>>, Len(h))
    BY <2>2, <2>3, StackMore
  <2> QED
    BY <2>1, <2>4 DEF Analysis, c
<1>4. CASE EndCwvf
  <2>1. phase = "cwvf" /\ calls' = << >> /\ global' = global /\ EndOptimized
    BY <1>4 DEF EndCwvf, EndOptimized
  <2>2. Stacked(<< >>, Len(h))
    <3>1. << >> \in Seq(Calls(Len(h)))
      OBVIOUS
    <3> QED
      BY <3>1 DEF Stacked
  <2> QED
    BY <2>1, <2>2 DEF Analysis
<1> QED
  BY <1>1, <1>2, <1>3, <1>4 DEF OptimizeCwvf

LEMMA AnalysesConfigure ==
  ASSUME Analyses
  PROVE  Optimized /\ Len(h') = Len(h)
BY DEF Analyses, Optimized, Configure, Reconfigured, Rewiring

\* A cwvf is that of a node: the one on top of the walk, or the last one with
\* the global configuration.
LEMMA SettingsFound ==
  ASSUME IsHeap(h), Analysis, Emitting, due # << >>
  PROVE  SettingsFor(Top(due)) \in SettingsOf(h)
<1> DEFINE n == Top(due)
<1>1. n \in DOMAIN h
  <2>1. PICK g, V : DOMAIN g = DOMAIN h /\ due \in Seq(DOMAIN g)
    BY DEF Emitting, Alike, Visiting, Walks
  <2>2. Top(due) \in DOMAIN g
    BY <2>1, TopFacts
  <2> QED
    BY <2>1, <2>2
<1>2. global.valid => global.last \in DOMAIN h
  BY HeapFacts DEF Analysis, GlobalOK, Globals, NoNode
<1> HIDE DEF n
<1>3. \/ SettingsFor(n) = << >>
      \/ SettingsFor(n) = <<Cwvf(n)>>
      \/ global.valid /\ SettingsFor(n) = <<Cwvf(global.last)>>
  BY DEF SettingsFor
<1> HIDE DEF SettingsFor
<1>4. SettingsFor(n) \in SettingsOf(h)
  BY <1>1, <1>2, <1>3 DEF SettingsOf
<1> QED
  BY <1>4 DEF n

AnalysisInv == PlanInv /\ OrderInv /\ Analysis

LEMMA AnalysisStarts == Init => PlanInit /\ AnalysisInv
<1> SUFFICES ASSUME Init PROVE PlanInit /\ AnalysisInv
  OBVIOUS
<1>1. PlanInit /\ calls = << >> /\ global = NoGlobal
  BY DEF Init
<1>2. TreeInit
  BY <1>1 DEF PlanInit
<1>3. PlanInv /\ OrderInv
  BY <1>1, <1>2, PlanInvStarts, OrderInvStarts
<1>4. Len(h) \in Nat
  <2>1. IsProgram(h)
    BY <1>2, TreeAssumption DEF TreeInit
  <2>2. h \in Seq(Nodes(Len(h)))
    BY <2>1 DEF IsProgram
  <2> QED
    BY <2>2
<1>5. GlobalOK(global, Len(h))
  BY <1>1, <1>4, NoGlobalOK
<1>6. Stacked(calls, Len(h))
  <2>1. << >> \in Seq(Calls(Len(h)))
    OBVIOUS
  <2> QED
    BY <1>1, <2>1 DEF Stacked
<1> QED
  BY <1>1, <1>3, <1>5, <1>6 DEF AnalysisInv, Analysis

\* The tree while it is rewired, and after that.
LEMMA HeapInv ==
  ASSUME TreeInv, OrderInv
  PROVE  IsHeap(h) /\ (phase \notin Rewiring => Ranked(h))
<1>1. IsHeap(h)
  <2>1. CASE phase \in Rewiring
    BY <2>1 DEF TreeInv, Preparing, MovingOn, Linking, Moving, Rewiring, Whole
  <2>2. CASE phase \notin Rewiring
    BY <2>2 DEF TreeInv, Done, Built
  <2> QED
    BY <2>1, <2>2
<1>2. ASSUME phase \notin Rewiring PROVE Ranked(h)
  <2>1. PICK k : Completed(h, k)
    BY <1>2 DEF OrderInv
  <2> QED
    BY <1>1, <2>1, CompletedVisited
<1> QED
  BY <1>1, <1>2

LEMMA StepPlans ==
  ASSUME AnalysisInv, [Next]_vars
  PROVE  [PlanNext]_plan
<1>1. TreeInv /\ OrderInv /\ PlanInv /\ Analysis
  BY DEF AnalysisInv, PlanInv
<1>2. IsHeap(h) /\ (phase \notin Rewiring => Ranked(h))
  BY <1>1, HeapInv
<1>3. CASE TreePasses /\ UNCHANGED <<commands, program, configuration>>
  BY <1>3 DEF PlanNext
<1>4. CASE OptimizeCwvf
  <2>1. phase = "cwvf"
    BY <1>4 DEF OptimizeCwvf, StartCwvf, AnalysePlay, AnalyseOther, AnalyseLoop, EnterBody, LeaveBody,
                LeaveLoop, LeaveBranch, EndCwvf, Analysing, Returning
  <2>2. Ranked(h)
    BY <1>2, <2>1 DEF Rewiring
  <2>3. Analyses \/ EndOptimized \/ UNCHANGED plan
    BY <1>1, <1>2, <1>4, <2>2, OptimizeKept
  <2> QED
    BY <2>3, AnalysesConfigure DEF PlanNext
<1>5. CASE (Allocate \/ EndAllocate \/ EndEmit) /\ UNCHANGED configuration
  BY <1>5 DEF PlanNext
<1>6. CASE FillInPlaceholders
  <2>1. phase = "emit" /\ due # << >> /\ Emit(SettingsFor(Top(due)))
    BY <1>6 DEF FillInPlaceholders
  <2>2. Emitting
    BY <1>1, <2>1 DEF PlanInv
  <2>3. SettingsFor(Top(due)) \in SettingsOf(h)
    BY <1>1, <1>2, <2>1, <2>2, SettingsFound
  <2> HIDE DEF SettingsFor
  <2> QED
    BY <2>1, <2>3 DEF PlanNext
<1>7. CASE Run
  <2>1. RunStatement \/ (\E b \in 0 .. Len(src) : RunBranch(b)) \/ RunBody \/ RunPast
    BY <1>7 DEF Run
  <2> QED
    BY <2>1 DEF PlanNext
<1>8. CASE UNCHANGED vars
  BY <1>8 DEF vars
<1> QED
  BY <1>3, <1>4, <1>5, <1>6, <1>7, <1>8 DEF Next

LEMMA AnalysisKept ==
  ASSUME AnalysisInv, [Next]_vars
  PROVE  AnalysisInv'
<1>1. TreeInv /\ OrderInv /\ PlanInv /\ Analysis
  BY DEF AnalysisInv, PlanInv
<1>2. IsHeap(h) /\ (phase \notin Rewiring => Ranked(h))
  BY <1>1, HeapInv
<1>3. [PlanNext]_plan
  BY StepPlans
<1>4. PlanInv'
  BY <1>1, <1>3, PlanInvKept
<1>5. OrderInv'
  <2>1. [TreePasses \/ Configure]_tree
    BY <1>1, <1>3, PlansStepTree
  <2> QED
    BY <1>1, <2>1, OrderInvKept
<1>6. Analysis'
  <2>1. CASE TreePasses /\ UNCHANGED <<commands, program, configuration>>
    <3>1. phase \in Rewiring
      BY <2>1, PassPhases
    <3>2. calls' = << >> /\ global' = NoGlobal
      BY <1>1, <2>1, <3>1 DEF Analysis, configuration
    <3>3. Len(h') \in Nat
      <4>1. TreeInv' /\ OrderInv'
        BY <1>4, <1>5 DEF PlanInv
      <4>2. IsHeap(h)'
        BY <4>1, HeapInv, PTL
      <4> QED
        BY <4>2 DEF IsHeap
    <3>4. GlobalOK(NoGlobal, Len(h'))
      BY <3>3, NoGlobalOK
    <3>5. << >> \in Seq(Calls(Len(h')))
      OBVIOUS
    <3> QED
      BY <3>2, <3>4, <3>5 DEF Analysis, Stacked
  <2>2. CASE OptimizeCwvf
    <3>1. phase = "cwvf"
      BY <2>2 DEF OptimizeCwvf, StartCwvf, AnalysePlay, AnalyseOther, AnalyseLoop, EnterBody, LeaveBody,
                  LeaveLoop, LeaveBranch, EndCwvf, Analysing, Returning
    <3>2. Ranked(h)
      BY <1>2, <3>1 DEF Rewiring
    <3>3. /\ Stacked(calls', Len(h)) /\ GlobalOK(global', Len(h))
          /\ Analyses \/ EndOptimized \/ UNCHANGED plan
      BY <1>1, <1>2, <2>2, <3>2, OptimizeKept
    <3>4. Len(h') = Len(h) /\ phase' \notin Rewiring
      <4>1. CASE Analyses
        BY <4>1, AnalysesConfigure DEF Analyses, Rewiring
      <4>2. CASE EndOptimized
        BY <4>2 DEF EndOptimized, Rewiring
      <4>3. CASE UNCHANGED plan
        BY <3>1, <4>3 DEF plan, tree, Rewiring
      <4> QED
        BY <3>3, <4>1, <4>2, <4>3
    <3> QED
      BY <3>3, <3>4 DEF Analysis
  <2>3. CASE /\ UNCHANGED <<calls, global, h>>
             /\ phase \notin Rewiring /\ phase' \notin Rewiring
    BY <1>1, <2>3 DEF Analysis
  <2>4. CASE (Allocate \/ EndAllocate \/ EndEmit) /\ UNCHANGED configuration
    BY <2>3, <2>4 DEF Allocate, EndAllocate, EndEmit, Rewiring, configuration
  <2>5. CASE FillInPlaceholders
    BY <2>3, <2>5 DEF FillInPlaceholders, Emit, Rewiring, configuration, tree
  <2>6. CASE Run
    <3>1. /\ RunStatement \/ (\E b \in 0 .. Len(src) : RunBranch(b)) \/ RunBody \/ RunPast
          /\ UNCHANGED <<calls, global>>
      BY <2>6 DEF Run
    <3>2. phase = "run" /\ UNCHANGED <<h, phase>>
      BY <3>1 DEF RunStatement, RunBranch, RunBody, RunPast, tree
    <3> QED
      BY <2>3, <3>1, <3>2 DEF Rewiring
  <2>7. CASE UNCHANGED vars
    BY <1>1, <2>7 DEF vars, plan, tree, configuration, Analysis
  <2> QED
    BY <2>1, <2>2, <2>4, <2>5, <2>6, <2>7 DEF Next
<1> QED
  BY <1>4, <1>5, <1>6 DEF AnalysisInv

LEMMA AnalysisHolds == Spec => []AnalysisInv
<1>1. Init => AnalysisInv
  BY AnalysisStarts
<1>2. AnalysisInv /\ [Next]_vars => AnalysisInv'
  BY AnalysisKept
<1> QED
  BY <1>1, <1>2, PTL DEF Spec

----------------------------------------------------------------------------
\* The stacks of both walks, the chain head and the links of every node are
\* nodes of the tree, and no wave is collected twice.
THEOREM TreeTyped == TreeSpec => []TreeTypeOK
BY TreeInvHolds, TreeInvTyped, PTL

\* prepareTree, moveLoadsToFront and placeLoads rewire the tree while their
\* walks are under way; after every round each node that hangs from the tree
\* is held by one link of one node of the tree, which is its parent.
THEOREM TreeStaysWhole == TreeSpec => []TreeIsWhole
BY TreeInvHolds, TreeInvWhole, PTL

\* Once moveLoadsToFront is done, every play that is no dummy counts on a load
\* of its wave and its register in the tree, which is the only one of the wave
\* and stands in front of the program among loads only.
THEOREM EveryPlayHasItsLoad == TreeSpec => []LoadsInFront
BY TreeInvHolds, TreeInvLoads, PTL

\* The insertions of prepareTree and moveLoadsToFront, the branches and loads
\* they take out and the AwgReady node of placeLoads neither lose nor reorder a
\* play, at any point of the walks; and but for an AwgReady node that is the last
\* of the program, what can be reached from the root is what has its parent there.
THEOREM PlaysStayInOrder == TreeSpec => []PlaysAreKept
BY TreeInvHolds, OrderInvHolds, OrderInvPlays, PTL

\* Node::swap, called on any node of a program that is below a child of the
\* root, exchanges it and the node it hangs from: three calls of updateParent,
\* each on what the last one left, move no other node and lose none.
THEOREM SwapOnlyExchanges == TreeSpec => []SwapExchanges
BY TreeInvHolds, TreeInvSwap, PTL

\* However optimizeCwvf fills the tree in, and whatever allocate, fillInPlaceholders
\* and the program do after it: to the tree they are steps of TreeSpec, so what
\* was proved of its nodes and links holds while commands are placed and run.
THEOREM PlanningOnlyConfigures == PlanSpec => TreeSpec
<1>1. PlanInit => TreeInit
  BY DEF PlanInit
<1>2. TreeInv /\ [PlanNext]_plan => [TreePasses \/ Configure]_tree
  BY PlansStepTree
<1>3. PlanInv => TreeInv
  BY DEF PlanInv
<1>4. PlanSpec => []PlanInv
  BY PlanInvHolds
<1> QED
  BY <1>1, <1>2, <1>3, <1>4, PTL DEF PlanSpec, OnlyPlans, TreeSpec, OnlyPassesRewire

\* allocate never finds a play without a load that has memory; and on whatever
\* path a program reaches a play of a wave, the code at its placeholder plays
\* once, from a register that holds that wave by then.
THEOREM EveryPlayPlaysItsWave == PlanSpec => []PlaysItsWave
BY PlanInvHolds, PlanInvPlays, PTL

\* The calls of optimizeCwvf, with what they carry along chains and through the
\* bodies of branches and loops, and the global configuration decide which cwvf
\* commands there are: to the tree, its commands and the program that runs they
\* do nothing that the plan does not allow.
THEOREM PlannerOnlyPlans == Spec => PlanInit /\ OnlyPlans
<1>1. Init => PlanInit
  BY AnalysisStarts
<1>2. AnalysisInv /\ [Next]_vars => [PlanNext]_plan
  BY StepPlans
<1> QED
  BY <1>1, <1>2, AnalysisHolds, PTL DEF Spec, OnlyPlans

\* So with the configurations optimizeCwvf computes, too, the tree stays whole, its
\* plays stay in order, and each is played from a register that holds its wave.
THEOREM PlannerPlaysWaves ==
  Spec => [](TreeIsWhole /\ LoadsInFront /\ PlaysAreKept /\ PlaysItsWave)
<1>1. Spec => PlanSpec
  BY PlannerOnlyPlans DEF PlanSpec
<1> QED
  BY <1>1, PlanningOnlyConfigures, TreeStaysWhole, PlaysStayInOrder, EveryPlayHasItsLoad,
     EveryPlayPlaysItsWave, PTL
=============================================================================
