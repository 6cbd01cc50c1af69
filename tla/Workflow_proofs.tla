--------------------------- MODULE Workflow_proofs ---------------------------
(***************************************************************************)
(* What holds of an execution for graphs of any size and shape, and of the *)
(* graph before it is executed.  The order comes from topoSort, a recursive *)
(* function: what it returns is proved by induction over its rounds (UpTo). *)
(***************************************************************************)
EXTENDS Workflow, Wiring, FiniteSetTheorems, SequenceTheorems, WellFoundedInduction, TLAPS

-----------------------------------------------------------------------------
(* Induction and recursion over 0 .. N, for a set of numbers: a smallest   *)
(* number that is missing has a predecessor that is not.                   *)

LEMMA UpTo ==
  ASSUME NEW N \in Nat, NEW S, 0 \in S,
         \A i \in 0 .. N - 1 : i \in S => i + 1 \in S
  PROVE  \A i \in 0 .. N : i \in S
<1> DEFINE T == (0 .. N) \ S
           R == OpToRel(<, Nat)
<1>1. SUFFICES ASSUME T # {} PROVE FALSE
  OBVIOUS
<1>2. IsWellFoundedOn(R, Nat)
  BY NatLessThanWellFounded
<1>3. T \subseteq Nat
  OBVIOUS
<1> HIDE DEF T, R
<1>4. PICK m \in T : \A y \in T : ~ (<<y, m>> \in R)
  BY <1>1, <1>2, <1>3, WFMin
<1>5. m \in 0 .. N /\ m \notin S /\ m # 0
  BY <1>4 DEF T
<1>6. m - 1 \in 0 .. N - 1
  BY <1>5
<1>7. m - 1 \notin T
  <2>1. <<m - 1, m>> \in R
    BY <1>5 DEF R, OpToRel
  <2> QED BY <1>4, <2>1
<1>8. m - 1 \in S
  BY <1>6, <1>7 DEF T
<1> QED BY <1>5, <1>6, <1>8

(* A function defined by what it is at 0 and how it goes on exists.        *)
GoesOn(f, c, step, N) ==
  f[0] = c /\ \A i \in 1 .. N : f[i] = step[f[i - 1]][i]

LEMMA Recursion ==
  ASSUME NEW N \in Nat, NEW D, NEW c \in D, NEW step \in [D -> [1 .. N -> D]]
  PROVE  \E f \in [0 .. N -> D] : GoesOn(f, c, step, N)
<1> DEFINE Built(n, f) == GoesOn(f, c, step, n)
           S == {n \in 0 .. N : \E f \in [0 .. n -> D] : Built(n, f)}
<1>1. 0 \in S
  <2> DEFINE f == [i \in 0 .. 0 |-> c]
  <2>1. f \in [0 .. 0 -> D]
    OBVIOUS
  <2>2. Built(0, f)
    BY DEF GoesOn
  <2> HIDE DEF f, Built
  <2>3. \E g \in [0 .. 0 -> D] : Built(0, g)
    BY <2>1, <2>2
  <2> QED BY <2>3
<1>2. ASSUME NEW n \in 0 .. N - 1, n \in S
      PROVE  n + 1 \in S
  <2>1. PICK f \in [0 .. n -> D] : Built(n, f)
    BY <1>2
  <2> DEFINE g == [i \in 0 .. n + 1 |-> IF i <= n THEN f[i] ELSE step[f[n]][n + 1]]
  <2>2. n + 1 \in 1 .. N /\ n \in 0 .. n /\ n \in Nat
    OBVIOUS
  <2>3. step[f[n]][n + 1] \in D
    BY <2>1, <2>2
  <2>4. g \in [0 .. n + 1 -> D]
    BY <2>1, <2>2, <2>3
  <2>5. Built(n + 1, g)
    <3>1. g[0] = c
      BY <2>1, <2>2 DEF GoesOn
    <3>2. ASSUME NEW i \in 1 .. n + 1
          PROVE  g[i] = step[g[i - 1]][i]
      <4>1. CASE i \in 1 .. n
        BY <2>1, <2>2, <4>1 DEF GoesOn
      <4>2. CASE i = n + 1
        BY <2>1, <2>2, <4>2
      <4> QED BY <2>2, <4>1, <4>2
    <3> QED BY <3>1, <3>2 DEF GoesOn
  <2> HIDE DEF g, Built
  <2>6. \E h \in [0 .. n + 1 -> D] : Built(n + 1, h)
    BY <2>4, <2>5
  <2> QED BY <2>2, <2>6
<1> HIDE DEF S
<1>3. N \in S
  <2>1. \A i \in 0 .. N : i \in S
    BY <1>1, <1>2, UpTo
  <2> QED BY <2>1
<1> QED BY <1>3 DEF S

(* A recursion over rounds, each of which does the same.                   *)
IsRun(f, N, c, step) == f = [i \in 0 .. N |-> IF i = 0 THEN c ELSE step[f[i - 1]]]

LEMMA RunExists ==
  ASSUME NEW N \in Nat, NEW D, NEW c \in D, NEW step \in [D -> D]
  PROVE  \E f : IsRun(f, N, c, step)
<1> DEFINE each == [d \in D |-> [i \in 1 .. N |-> step[d]]]
<1>1. each \in [D -> [1 .. N -> D]]
  OBVIOUS
<1> HIDE DEF each
<1>2. PICK g \in [0 .. N -> D] : GoesOn(g, c, each, N)
  BY <1>1, Recursion
<1>3. g[0] = c /\ \A i \in 1 .. N : g[i] = each[g[i - 1]][i]
  BY <1>2 DEF GoesOn
<1>4. ASSUME NEW i \in 0 .. N, i # 0
      PROVE  g[i] = step[g[i - 1]]
  <2>1. i \in 1 .. N /\ g[i - 1] \in D
    BY <1>2, <1>4
  <2> QED BY <1>3, <2>1 DEF each
<1>5. IsRun(g, N, c, step)
  BY <1>2, <1>3, <1>4 DEF IsRun
<1> QED BY <1>5

LEMMA RunGoesOn ==
  ASSUME NEW N \in Nat, NEW c, NEW step, NEW f, IsRun(f, N, c, step)
  PROVE  f[0] = c /\ \A i \in 1 .. N : f[i] = step[f[i - 1]]
<1> DEFINE g == [i \in 0 .. N |-> IF i = 0 THEN c ELSE step[f[i - 1]]]
<1>1. f = g
  BY DEF IsRun
<1>2. g[0] = c
  OBVIOUS
<1>3. ASSUME NEW i \in 1 .. N PROVE g[i] = step[f[i - 1]]
  OBVIOUS
<1> HIDE DEF g
<1> QED BY <1>1, <1>2, <1>3

LEMMA StaysPut ==
  ASSUME NEW N \in Nat, NEW c, NEW step, NEW f, IsRun(f, N, c, step), step[c] = c
  PROVE  f[N] = c
<1> DEFINE I == {i \in 0 .. N : f[i] = c}
<1>1. f[0] = c /\ \A i \in 1 .. N : f[i] = step[f[i - 1]]
  BY RunGoesOn
<1>2. 0 \in I
  BY <1>1
<1>3. ASSUME NEW i \in 0 .. N - 1, i \in I PROVE i + 1 \in I
  BY <1>1, <1>3
<1>4. \A i \in 0 .. N : i \in I
  <2> HIDE DEF I
  <2> QED BY <1>2, <1>3, UpTo
<1> QED BY <1>4

-----------------------------------------------------------------------------
(* topoSort.                                                               *)

Distinct(s) == \A i, j \in 1 .. Len(s) : i # j => s[i] # s[j]

(* Each node of S comes up exactly once.                                   *)
LEMMA NodesInOrder ==
  ASSUME NEW S \in SUBSET Nodes
  PROVE  /\ InNodeOrder(S) \in Seq(Nodes)
         /\ Distinct(InNodeOrder(S))
         /\ Range(InNodeOrder(S)) = S
<1>0. NumNodes \in Nat
  BY WorkflowAssumption, NodesAssumption
<1> DEFINE Def(h) == [n \in 0 .. NumNodes |->
                       IF n = 0 THEN <<>>
                       ELSE IF n \in S THEN Append(h[n - 1], n) ELSE h[n - 1]]
           f == CHOOSE h : h = Def(h)
<1>1. f = Def(f)
  <2> DEFINE step == [s \in Seq(Nat) |-> [n \in 1 .. NumNodes |->
                       IF n \in S THEN Append(s, n) ELSE s]]
  <2>1. step \in [Seq(Nat) -> [1 .. NumNodes -> Seq(Nat)]]
    <3> SUFFICES ASSUME NEW s \in Seq(Nat), NEW n \in 1 .. NumNodes
                 PROVE  (IF n \in S THEN Append(s, n) ELSE s) \in Seq(Nat)
      OBVIOUS
    <3>1. n \in Nat
      OBVIOUS
    <3>2. Append(s, n) \in Seq(Nat)
      BY <3>1
    <3> QED BY <3>2
  <2> DEFINE D == Seq(Nat)
             c == <<>>
  <2>2. c \in D /\ step \in [D -> [1 .. NumNodes -> D]]
    BY <2>1
  <2> HIDE DEF step, D, c
  <2>a. PICK g \in [0 .. NumNodes -> D] : GoesOn(g, c, step, NumNodes)
    BY <1>0, <2>2, Recursion
  <2>3. g[0] = c /\ \A n \in 1 .. NumNodes : g[n] = step[g[n - 1]][n]
    BY <2>a DEF GoesOn
  <2>4. ASSUME NEW n \in 0 .. NumNodes, n # 0
        PROVE  g[n] = IF n \in S THEN Append(g[n - 1], n) ELSE g[n - 1]
    <3>1. n \in 1 .. NumNodes /\ g[n - 1] \in Seq(Nat)
      BY <1>0, <2>3, <2>4 DEF D
    <3> QED BY <2>3, <3>1 DEF step
  <2>5. g = Def(g)
    BY <2>3, <2>4 DEF c
  <2> HIDE DEF Def
  <2> QED BY <2>5
<1>2. InNodeOrder(S) = f[NumNodes]
  BY DEF InNodeOrder
<1> HIDE DEF f
<1>3. f[0] = <<>>
  <2>1. f[0] = Def(f)[0] /\ 0 \in 0 .. NumNodes
    BY <1>0, <1>1
  <2> QED BY <2>1
<1>4. ASSUME NEW n \in 1 .. NumNodes
      PROVE  f[n] = IF n \in S THEN Append(f[n - 1], n) ELSE f[n - 1]
  <2>1. n \in 0 .. NumNodes /\ n # 0
    BY <1>0
  <2>2. f[n] = Def(f)[n]
    BY <1>1
  <2> QED BY <2>1, <2>2
<1> DEFINE Good(n, s) == /\ s \in Seq(Nodes) /\ Distinct(s)
                         /\ \A m \in Nodes : (\E i \in 1 .. Len(s) : s[i] = m) <=> m \in S /\ m <= n
           I == {n \in 0 .. NumNodes : Good(n, f[n])}
<1>5. 0 \in I
  <2>1. Good(0, <<>>)
    BY <1>0 DEF Distinct, Nodes
  <2> HIDE DEF Good
  <2> QED BY <1>0, <1>3, <2>1
<1>6. ASSUME NEW n \in 0 .. NumNodes - 1, n \in I
      PROVE  n + 1 \in I
  <2> DEFINE s == f[n]
             t == f[n + 1]
  <2>1. Good(n, s) /\ n + 1 \in Nodes
    BY <1>0, <1>6 DEF Nodes
  <2>2. t = IF n + 1 \in S THEN Append(s, n + 1) ELSE s
    BY <1>0, <1>4
  <2> HIDE DEF s, t
  <2>3. Good(n + 1, t)
    <3>1. CASE n + 1 \notin S
      <4>1. \A m \in Nodes : m \in S /\ m <= n <=> m \in S /\ m <= n + 1
        BY <1>0, <3>1 DEF Nodes
      <4> QED BY <2>1, <2>2, <3>1, <4>1
    <3>2. CASE n + 1 \in S
      <4>1. /\ t \in Seq(Nodes) /\ Len(t) = Len(s) + 1 /\ Len(s) \in Nat
            /\ t[Len(s) + 1] = n + 1
            /\ \A i \in 1 .. Len(s) : t[i] = s[i] /\ s[i] \in Nodes
        BY <2>1, <2>2, <3>2
      <4>2. \A i \in 1 .. Len(s) : s[i] <= n
        BY <1>0, <2>1, <4>1
      <4>3. Distinct(t)
        BY <2>1, <4>1, <4>2 DEF Distinct
      <4>4. ASSUME NEW m \in Nodes
            PROVE  (\E i \in 1 .. Len(t) : t[i] = m) <=> m \in S /\ m <= n + 1
        <5>1. (\E i \in 1 .. Len(t) : t[i] = m) <=> (\E i \in 1 .. Len(s) : s[i] = m) \/ m = n + 1
          BY <4>1
        <5>2. m \in S /\ m <= n + 1 <=> (m \in S /\ m <= n) \/ m = n + 1
          BY <1>0, <3>2 DEF Nodes
        <5> QED BY <2>1, <5>1, <5>2
      <4> QED BY <4>1, <4>3, <4>4
    <3> QED BY <3>1, <3>2
  <2> QED BY <1>0, <2>3 DEF t
<1> HIDE DEF I
<1>7. NumNodes \in I
  BY <1>0, <1>5, <1>6, UpTo
<1>8. Good(NumNodes, InNodeOrder(S))
  BY <1>2, <1>7 DEF I
<1>9. Range(InNodeOrder(S)) = S
  <2> DEFINE s == InNodeOrder(S)
  <2>1. /\ s \in Seq(Nodes)
        /\ \A m \in Nodes : (\E i \in 1 .. Len(s) : s[i] = m) <=> m \in S
    BY <1>0, <1>8 DEF Nodes
  <2> HIDE DEF s
  <2>2. \A i \in DOMAIN s : s[i] \in Nodes /\ i \in 1 .. Len(s)
    BY <2>1
  <2>3. Range(s) = S
    BY <2>1, <2>2 DEF Range
  <2> QED BY <2>3 DEF s
<1> QED BY <1>8, <1>9

(* The state of the sort between two rounds: no node is twice in the order *)
(* or the queue, whatever feeds a node comes before it in the order, what  *)
(* feeds a queued node is in the order, and no node that could be queued   *)
(* has been forgotten.                                                     *)
Sources(conns, m) == {c.from : c \in {d \in conns : d.to = m}}

SourcesBefore(conns, s) ==
  \A i \in 1 .. Len(s) : \A c \in conns :
    c.to = s[i] => \E j \in 1 .. i - 1 : s[j] = c.from

Sorted(conns, st) ==
  /\ st \in Sorting
  /\ Distinct(st.queue) /\ Distinct(st.order)
  /\ Range(st.queue) \cap Range(st.order) = {}
  /\ \A m \in Nodes : m \in Range(st.queue) \union Range(st.order)
                        <=> Sources(conns, m) \subseteq Range(st.order)
  /\ SourcesBefore(conns, st.order)

LEMMA InRangeOf ==
  ASSUME NEW S, NEW s \in Seq(S), NEW x
  PROVE  x \in Range(s) <=> \E i \in 1 .. Len(s) : s[i] = x
BY DEF Range

LEMMA Appended ==
  ASSUME NEW S, NEW s \in Seq(S), NEW x \in S, Distinct(s), x \notin Range(s)
  PROVE  /\ Append(s, x) \in Seq(S)
         /\ Distinct(Append(s, x))
         /\ Range(Append(s, x)) = Range(s) \union {x}
<1> DEFINE t == Append(s, x)
<1>1. /\ t \in Seq(S) /\ Len(t) = Len(s) + 1 /\ Len(s) \in Nat /\ t[Len(s) + 1] = x
      /\ \A i \in 1 .. Len(s) : t[i] = s[i]
  OBVIOUS
<1> HIDE DEF t
<1>2. \A i \in 1 .. Len(s) : s[i] # x
  BY InRangeOf
<1>3. Distinct(t)
  BY <1>1, <1>2 DEF Distinct
<1>4. ASSUME NEW y PROVE y \in Range(t) <=> y \in Range(s) \union {x}
  <2>1. (\E i \in 1 .. Len(t) : t[i] = y) <=> (\E i \in 1 .. Len(s) : s[i] = y) \/ y = x
    BY <1>1
  <2> QED BY <1>1, <2>1, InRangeOf
<1> QED BY <1>1, <1>3, <1>4 DEF t

LEMMA Removed ==
  ASSUME NEW S, NEW s \in Seq(S), s # <<>>, Distinct(s)
  PROVE  /\ Head(s) \in S /\ Head(s) \in Range(s)
         /\ Tail(s) \in Seq(S)
         /\ Distinct(Tail(s))
         /\ Range(Tail(s)) = Range(s) \ {Head(s)}
<1> DEFINE t == Tail(s)
<1>1. /\ t \in Seq(S) /\ Len(s) \in Nat \ {0} /\ Len(t) = Len(s) - 1
      /\ \A i \in 1 .. Len(t) : t[i] = s[i + 1]
      /\ Head(s) = s[1] /\ s[1] \in S
  OBVIOUS
<1> HIDE DEF t
<1>2. Distinct(t)
  BY <1>1 DEF Distinct
<1>3. Head(s) \in Range(s)
  BY <1>1, InRangeOf
<1>4. ASSUME NEW y PROVE y \in Range(t) <=> y \in Range(s) \ {Head(s)}
  <2>1. ASSUME NEW i \in 1 .. Len(t) PROVE i + 1 \in 1 .. Len(s) /\ t[i] = s[i + 1] /\ s[i + 1] # s[1]
    BY <1>1 DEF Distinct
  <2>2. ASSUME NEW i \in 1 .. Len(s), s[i] # s[1] PROVE i - 1 \in 1 .. Len(t) /\ t[i - 1] = s[i]
    BY <1>1, <2>2
  <2>3. ASSUME NEW i \in 1 .. Len(s), s[i] = y, y # s[1]
        PROVE  \E k \in 1 .. Len(t) : t[k] = y
    <3>1. i - 1 \in 1 .. Len(t) /\ t[i - 1] = y
      BY <2>2, <2>3
    <3> QED BY <3>1
  <2>4. ASSUME NEW i \in 1 .. Len(t), t[i] = y
        PROVE  (\E k \in 1 .. Len(s) : s[k] = y) /\ y # s[1]
    BY <2>1, <2>4
  <2> QED BY <1>1, <2>3, <2>4, InRangeOf
<1> QED BY <1>1, <1>2, <1>3, <1>4 DEF t

LEMMA Chained ==
  ASSUME NEW S, NEW s \in Seq(S), NEW t \in Seq(S), Distinct(s), Distinct(t),
         Range(s) \cap Range(t) = {}
  PROVE  /\ s \o t \in Seq(S)
         /\ Distinct(s \o t)
         /\ Range(s \o t) = Range(s) \union Range(t)
<1> DEFINE u == s \o t
<1>1. /\ u \in Seq(S) /\ Len(s) \in Nat /\ Len(t) \in Nat /\ Len(u) = Len(s) + Len(t)
      /\ \A i \in 1 .. Len(u) : u[i] = IF i <= Len(s) THEN s[i] ELSE t[i - Len(s)]
  OBVIOUS
<1> HIDE DEF u
<1>2. \A i \in 1 .. Len(s), j \in 1 .. Len(t) : s[i] # t[j]
  <2> SUFFICES ASSUME NEW i \in 1 .. Len(s), NEW j \in 1 .. Len(t), s[i] = t[j] PROVE FALSE
    OBVIOUS
  <2>1. s[i] \in Range(s) /\ t[j] \in Range(t)
    BY InRangeOf
  <2> QED BY <2>1
<1>3. ASSUME NEW i \in 1 .. Len(u), i > Len(s)
      PROVE  i - Len(s) \in 1 .. Len(t) /\ u[i] = t[i - Len(s)]
  BY <1>1, <1>3
<1>4. Distinct(u)
  <2> SUFFICES ASSUME NEW i \in 1 .. Len(u), NEW j \in 1 .. Len(u), i < j
               PROVE  u[i] # u[j]
    BY <1>1 DEF Distinct
  <2>1. CASE j <= Len(s)
    BY <1>1, <2>1 DEF Distinct
  <2>2. CASE i <= Len(s) /\ j > Len(s)
    BY <1>1, <1>2, <1>3, <2>2
  <2>3. CASE i > Len(s)
    <3>1. /\ i - Len(s) \in 1 .. Len(t) /\ u[i] = t[i - Len(s)]
          /\ j - Len(s) \in 1 .. Len(t) /\ u[j] = t[j - Len(s)]
          /\ i - Len(s) # j - Len(s)
      BY <1>1, <1>3, <2>3
    <3> QED BY <3>1 DEF Distinct
  <2> QED BY <1>1, <2>1, <2>2, <2>3
<1>5. ASSUME NEW y PROVE y \in Range(u) <=> y \in Range(s) \union Range(t)
  <2>1. ASSUME NEW j \in 1 .. Len(t) PROVE j + Len(s) \in 1 .. Len(u) /\ u[j + Len(s)] = t[j]
    <3>1. j + Len(s) \in 1 .. Len(u) /\ j + Len(s) > Len(s) /\ (j + Len(s)) - Len(s) = j
      BY <1>1
    <3> QED BY <1>3, <3>1
  <2>2. \A i \in 1 .. Len(s) : i \in 1 .. Len(u) /\ u[i] = s[i]
    BY <1>1
  <2>3. (\E i \in 1 .. Len(s) : s[i] = y) \/ (\E j \in 1 .. Len(t) : t[j] = y)
          => \E i \in 1 .. Len(u) : u[i] = y
    BY <2>1, <2>2
  <2>4. ASSUME NEW i \in 1 .. Len(u), u[i] = y
        PROVE  (\E k \in 1 .. Len(s) : s[k] = y) \/ (\E j \in 1 .. Len(t) : t[j] = y)
    <3>1. CASE i <= Len(s)
      BY <1>1, <2>2, <2>4, <3>1
    <3>2. CASE i > Len(s)
      BY <1>3, <2>4, <3>2
    <3> QED BY <1>1, <3>1, <3>2
  <2>5. y \in Range(u) <=> \E i \in 1 .. Len(u) : u[i] = y
    <3>1. u \in Seq(S)
      BY <1>1
    <3> QED BY <3>1, InRangeOf
  <2>6. y \in Range(s) <=> \E i \in 1 .. Len(s) : s[i] = y
    BY InRangeOf
  <2>7. y \in Range(t) <=> \E i \in 1 .. Len(t) : t[i] = y
    BY InRangeOf
  <2> QED BY <2>3, <2>4, <2>5, <2>6, <2>7
<1> QED BY <1>1, <1>4, <1>5 DEF u

LEMMA RoundSorts ==
  ASSUME NEW conns \in SUBSET Conn, NEW st, Sorted(conns, st)
  PROVE  /\ Sorted(conns, Round(conns)[st])
         /\ st.queue # <<>> => Len(Round(conns)[st].order) = Len(st.order) + 1
<1>1. /\ st \in Sorting /\ st.queue \in Seq(Nodes) /\ st.order \in Seq(Nodes)
  BY DEF Sorted, Sorting
<1>2. CASE st.queue = <<>>
  BY <1>1, <1>2 DEF Round
<1>3. CASE st.queue # <<>>
  <2> DEFINE n == Head(st.queue)
             done == Range(st.order)
             ready == Ready(conns, done, n)
             new == InNodeOrder(ready)
             q == Tail(st.queue) \o new
             o == Append(st.order, n)
  <2>1. Round(conns)[st] = [queue |-> q, order |-> o]
    BY <1>1, <1>3 DEF Round
  <2>2. /\ n \in Nodes /\ n \in Range(st.queue) /\ n \notin done
        /\ Tail(st.queue) \in Seq(Nodes) /\ Distinct(Tail(st.queue))
        /\ Range(Tail(st.queue)) = Range(st.queue) \ {n}
    BY <1>1, <1>3, Removed DEF Sorted
  <2>3. ready \in SUBSET Nodes
    BY DEF Ready, Conn
  <2>4. new \in Seq(Nodes) /\ Distinct(new) /\ Range(new) = ready
    BY <2>3, NodesInOrder
  <2>5. \A m \in Nodes : m \in ready <=> n \in Sources(conns, m) /\ Sources(conns, m) \subseteq done \union {n}
    BY DEF Ready, Sources
  <2> HIDE DEF n, done, ready, new
  <2>6. o \in Seq(Nodes) /\ Distinct(o) /\ Range(o) = done \union {n}
    BY <1>1, <2>2, Appended DEF Sorted, done
  <2>7. \A m \in Nodes : m \in Range(st.queue) \union done <=> Sources(conns, m) \subseteq done
    BY DEF Sorted, done
  <2>8. ready \cap (Range(st.queue) \union done) = {}
    BY <2>2, <2>3, <2>5, <2>7
  <2>9. q \in Seq(Nodes) /\ Distinct(q) /\ Range(q) = (Range(st.queue) \ {n}) \union ready
    <3>1. Range(Tail(st.queue)) \cap Range(new) = {}
      BY <2>2, <2>4, <2>8
    <3> DEFINE t == Tail(st.queue)
    <3>2. /\ t \in Seq(Nodes) /\ Distinct(t) /\ Range(t) = Range(st.queue) \ {n}
          /\ Range(t) \cap Range(new) = {} /\ q = t \o new
      BY <2>2, <3>1
    <3> HIDE DEF t, q
    <3>3. /\ t \o new \in Seq(Nodes) /\ Distinct(t \o new)
          /\ Range(t \o new) = Range(t) \union Range(new)
      BY <2>4, <3>2, Chained
    <3> QED BY <2>4, <3>2, <3>3
  <2>10. Range(q) \cap Range(o) = {}
    <3>1. Range(st.queue) \cap done = {}
      BY DEF Sorted, done
    <3> QED BY <2>2, <2>6, <2>8, <2>9, <3>1
  <2>11. \A m \in Nodes : m \in Range(q) \union Range(o) <=> Sources(conns, m) \subseteq Range(o)
    BY <2>2, <2>5, <2>6, <2>7, <2>9
  <2>12. SourcesBefore(conns, o)
    <3> SUFFICES ASSUME NEW i \in 1 .. Len(o), NEW c \in conns, c.to = o[i]
                 PROVE  \E j \in 1 .. i - 1 : o[j] = c.from
      BY DEF SourcesBefore
    <3>1. /\ Len(o) = Len(st.order) + 1 /\ Len(st.order) \in Nat /\ o[Len(st.order) + 1] = n
          /\ \A k \in 1 .. Len(st.order) : o[k] = st.order[k]
      BY <1>1, <2>2
    <3>2. CASE i \in 1 .. Len(st.order)
      <4>1. PICK j \in 1 .. i - 1 : st.order[j] = c.from
        BY <3>1, <3>2 DEF Sorted, SourcesBefore
      <4>2. j \in 1 .. Len(st.order)
        BY <3>1, <3>2
      <4> QED BY <3>1, <4>1, <4>2
    <3>3. CASE i = Len(st.order) + 1
      <4>1. c.from \in Sources(conns, n)
        BY <3>1, <3>3 DEF Sources
      <4>2. c.from \in done
        BY <2>2, <2>7, <4>1
      <4>3. PICK j \in 1 .. Len(st.order) : st.order[j] = c.from
        BY <1>1, <4>2, InRangeOf DEF done
      <4> QED BY <3>1, <3>3, <4>3
    <3> QED BY <3>1, <3>2, <3>3
  <2>13. Len(o) = Len(st.order) + 1
    BY <1>1, <2>2
  <2> HIDE DEF q, o
  <2>14. Round(conns)[st].queue = q /\ Round(conns)[st].order = o
    BY <2>1
  <2>15. Round(conns)[st] \in Sorting
    BY <2>1, <2>6, <2>9 DEF Sorting
  <2> QED BY <2>14, <2>15, <2>6, <2>9, <2>10, <2>11, <2>12, <2>13 DEF Sorted
<1> QED BY <1>2, <1>3

LEMMA UpToCount ==
  ASSUME NEW n \in Nat
  PROVE  IsFiniteSet(1 .. n) /\ Cardinality(1 .. n) = n
<1>1. 1 \in Int /\ n \in Int
  OBVIOUS
<1>2. IsFiniteSet(1 .. n) /\ Cardinality(1 .. n) = IF 1 > n THEN 0 ELSE n - 1 + 1
  BY <1>1, FS_Interval
<1>3. (IF 1 > n THEN 0 ELSE n - 1 + 1) = n
  OBVIOUS
<1> QED BY <1>2, <1>3

LEMMA AllPlaced ==
  ASSUME NEW s \in Seq(Nodes), Distinct(s)
  PROVE  /\ Len(s) <= NumNodes
         /\ Len(s) = NumNodes => Range(s) = Nodes
<1>1. NumNodes \in Nat /\ Len(s) \in Nat
  BY WorkflowAssumption, NodesAssumption
<1>2. /\ IsFiniteSet(Nodes) /\ Cardinality(Nodes) = NumNodes
      /\ IsFiniteSet(1 .. Len(s)) /\ Cardinality(1 .. Len(s)) = Len(s)
  BY <1>1, UpToCount DEF Nodes
<1>3. s \in Injection(1 .. Len(s), Nodes)
  BY DEF Injection, IsInjective, Distinct
<1>4. /\ Cardinality(1 .. Len(s)) <= Cardinality(Nodes)
      /\ Cardinality(1 .. Len(s)) = Cardinality(Nodes) => s \in Surjection(1 .. Len(s), Nodes)
  BY <1>2, <1>3, FS_Injection
<1>5. ASSUME s \in Surjection(1 .. Len(s), Nodes) PROVE Range(s) = Nodes
  BY <1>5 DEF Surjection, Range
<1> QED BY <1>2, <1>4, <1>5

(* topoSort goes on until the queue is empty: as many rounds as there are  *)
(* nodes are enough.  So a node is left out of the order only if another   *)
(* one that feeds it is.                                                   *)
LEMMA TopoSorted ==
  ASSUME NEW conns \in SUBSET Conn
  PROVE  /\ topoSort(conns) \in Seq(Nodes)
         /\ Distinct(topoSort(conns))
         /\ SourcesBefore(conns, topoSort(conns))
         /\ \A m \in Nodes : Sources(conns, m) \subseteq Range(topoSort(conns))
                               => m \in Range(topoSort(conns))
<1>0. NumNodes \in Nat
  BY WorkflowAssumption, NodesAssumption
<1> DEFINE first == [queue |-> InNodeOrder({n \in Nodes : \A c \in conns : c.to # n}),
                     order |-> <<>>]
           Def(h) == [i \in 0 .. NumNodes |->
                       IF i = 0 THEN first ELSE Round(conns)[h[i - 1]]]
           f == CHOOSE h : h = Def(h)
<1>1. first \in Sorting /\ Sorted(conns, first)
  <2> DEFINE S == {n \in Nodes : \A c \in conns : c.to # n}
             q == InNodeOrder(S)
  <2>1. q \in Seq(Nodes) /\ Distinct(q) /\ Range(q) = S
    BY NodesInOrder
  <2> HIDE DEF q
  <2>2. first.queue = q /\ first.order = <<>> /\ first \in Sorting
    BY <2>1 DEF Sorting, q
  <2>3. Range(<<>>) = {} /\ Distinct(<<>>) /\ SourcesBefore(conns, <<>>)
    BY DEF Range, Distinct, SourcesBefore
  <2>4. \A m \in Nodes : m \in S <=> Sources(conns, m) \subseteq {}
    BY DEF Sources
  <2> HIDE DEF first, S
  <2> QED BY <2>1, <2>2, <2>3, <2>4 DEF Sorted
<1> HIDE DEF first
<1>2. ASSUME NEW st \in Sorting PROVE Round(conns)[st] \in Sorting
  <2>1. CASE st.queue = <<>>
    BY <2>1 DEF Round
  <2>2. CASE st.queue # <<>>
    <3> DEFINE n == Head(st.queue)
               new == InNodeOrder(Ready(conns, Range(st.order), n))
    <3>1. n \in Nodes /\ Tail(st.queue) \in Seq(Nodes) /\ st.order \in Seq(Nodes)
      BY <2>2 DEF Sorting
    <3>2. new \in Seq(Nodes)
      <4>1. Ready(conns, Range(st.order), n) \in SUBSET Nodes
        BY DEF Ready, Conn
      <4> QED BY <4>1, NodesInOrder
    <3>3. Round(conns)[st] = [queue |-> Tail(st.queue) \o new, order |-> Append(st.order, n)]
      BY <2>2 DEF Round
    <3> HIDE DEF n, new
    <3> QED BY <3>1, <3>2, <3>3 DEF Sorting
  <2> QED BY <2>1, <2>2
<1>3. f = Def(f)
  <2> DEFINE step == Round(conns)
  <2>1. PICK g : IsRun(g, NumNodes, first, step)
    <3>1. step \in [Sorting -> Sorting]
      BY <1>2 DEF Round
    <3> HIDE DEF step
    <3> QED BY <1>0, <1>1, <3>1, RunExists
  <2>2. g = Def(g)
    BY <2>1 DEF IsRun
  <2> HIDE DEF Def
  <2> QED BY <2>2
<1>4. topoSort(conns) = f[NumNodes].order
  BY DEF topoSort, first
<1>5. f[0] = first /\ \A i \in 1 .. NumNodes : f[i] = Round(conns)[f[i - 1]]
  <2> DEFINE step == Round(conns)
  <2> HIDE DEF f
  <2>1. IsRun(f, NumNodes, first, step)
    BY <1>3 DEF IsRun
  <2> HIDE DEF step, first
  <2>2. f[0] = first /\ \A i \in 1 .. NumNodes : f[i] = step[f[i - 1]]
    BY <1>0, <2>1, RunGoesOn
  <2> QED BY <2>2 DEF step
<1> HIDE DEF f
<1> DEFINE I == {i \in 0 .. NumNodes : /\ Sorted(conns, f[i])
                                       /\ f[i].queue = <<>> \/ Len(f[i].order) = i}
<1>6. 0 \in I
  BY <1>0, <1>1, <1>5 DEF first
<1>7. ASSUME NEW i \in 0 .. NumNodes - 1, i \in I
      PROVE  i + 1 \in I
  <2>1. f[i + 1] = Round(conns)[f[i]] /\ i + 1 \in 0 .. NumNodes
    BY <1>0, <1>5
  <2>2. Sorted(conns, f[i])
    BY <1>7
  <2>3. /\ Sorted(conns, f[i + 1])
        /\ f[i].queue # <<>> => Len(f[i + 1].order) = Len(f[i].order) + 1
    BY <2>1, <2>2, RoundSorts
  <2>4. CASE f[i].queue = <<>>
    <3>1. f[i + 1] = f[i]
      BY <2>1, <2>2, <2>4 DEF Round, Sorted
    <3> QED BY <2>1, <2>3, <2>4, <3>1
  <2>5. CASE f[i].queue # <<>>
    BY <1>7, <2>1, <2>3, <2>5
  <2> QED BY <2>4, <2>5
<1> HIDE DEF I
<1>8. NumNodes \in I
  <2>1. \A i \in 0 .. NumNodes : i \in I
    BY <1>0, <1>6, <1>7, UpTo
  <2> QED BY <1>0, <2>1
<1> DEFINE last == f[NumNodes]
<1>9. Sorted(conns, last) /\ (last.queue = <<>> \/ Len(last.order) = NumNodes)
  BY <1>8 DEF I
<1> HIDE DEF last
<1>10. last.queue \in Seq(Nodes) /\ last.order \in Seq(Nodes)
  BY <1>9 DEF Sorted, Sorting
<1>11. Range(last.queue) = {}
  <2>1. CASE last.queue = <<>>
    BY <2>1 DEF Range
  <2>2. CASE Len(last.order) = NumNodes
    <3>1. Range(last.order) = Nodes
      BY <1>9, <1>10, <2>2, AllPlaced DEF Sorted
    <3>2. Range(last.queue) \subseteq Nodes
      BY <1>10 DEF Range
    <3> QED BY <1>9, <3>1, <3>2 DEF Sorted
  <2> QED BY <1>9, <2>1, <2>2
<1>12. topoSort(conns) = last.order
  BY <1>4 DEF last
<1> QED BY <1>9, <1>10, <1>11, <1>12 DEF Sorted

(* A graph is accepted exactly if no nodes in it feed each other in a      *)
(* cycle.                                                                  *)
Cyclic(conns) ==
  \E C \in SUBSET Nodes :
    C # {} /\ \A m \in C : \E c \in conns : c.to = m /\ c.from \in C

THEOREM AcceptsAcyclic ==
  \A conns \in SUBSET Conn : Len(topoSort(conns)) = NumNodes <=> ~Cyclic(conns)
<1> SUFFICES ASSUME NEW conns \in SUBSET Conn
             PROVE  Len(topoSort(conns)) = NumNodes <=> ~Cyclic(conns)
  OBVIOUS
<1> DEFINE s == topoSort(conns)
<1>1. /\ s \in Seq(Nodes) /\ Distinct(s) /\ SourcesBefore(conns, s)
      /\ \A m \in Nodes : Sources(conns, m) \subseteq Range(s) => m \in Range(s)
  BY TopoSorted
<1> HIDE DEF s
<1>2. NumNodes \in Nat /\ Len(s) \in Nat
  BY <1>1, WorkflowAssumption, NodesAssumption
<1>3. ASSUME Len(s) # NumNodes
      PROVE  Cyclic(conns)
  <2> DEFINE C == Nodes \ Range(s)
  <2>1. C # {}
    <3>1. SUFFICES ASSUME Nodes \subseteq Range(s) PROVE Len(s) = NumNodes
      BY <1>3
    <3>2. s \in Surjection(1 .. Len(s), Nodes)
      <4>1. \A m \in Nodes : \E i \in 1 .. Len(s) : s[i] = m
        BY <1>1, <3>1, InRangeOf
      <4> QED BY <1>1, <4>1 DEF Surjection
    <3>3. IsFiniteSet(1 .. Len(s)) /\ Cardinality(1 .. Len(s)) = Len(s)
      BY <1>2, UpToCount
    <3>4. Cardinality(Nodes) = NumNodes
      BY <1>2, UpToCount DEF Nodes
    <3>5. Cardinality(Nodes) <= Cardinality(1 .. Len(s))
      BY <3>2, <3>3, FS_Surjection
    <3> QED BY <1>1, <1>2, <3>3, <3>4, <3>5, AllPlaced
  <2>2. ASSUME NEW m \in C PROVE \E c \in conns : c.to = m /\ c.from \in C
    <3>1. PICK x \in Sources(conns, m) : x \notin Range(s)
      BY <1>1
    <3> QED BY <3>1 DEF Sources, Conn
  <2> QED BY <2>1, <2>2 DEF Cyclic
<1>4. ASSUME Len(s) = NumNodes, Cyclic(conns)
      PROVE  FALSE
  <2>1. PICK C \in SUBSET Nodes : C # {} /\ \A m \in C : \E c \in conns : c.to = m /\ c.from \in C
    BY <1>4 DEF Cyclic
  <2> DEFINE I == {i \in 0 .. NumNodes : \A j \in 1 .. i : s[j] \notin C}
  <2>2. 0 \in I
    BY <1>2
  <2>3. ASSUME NEW i \in 0 .. NumNodes - 1, i \in I
        PROVE  i + 1 \in I
    <3>1. s[i + 1] \notin C
      <4>1. SUFFICES ASSUME s[i + 1] \in C PROVE FALSE
        OBVIOUS
      <4>2. PICK c \in conns : c.to = s[i + 1] /\ c.from \in C
        BY <2>1, <4>1
      <4>3. i + 1 \in 1 .. Len(s) /\ 1 .. (i + 1) - 1 = 1 .. i
        BY <1>2, <1>4
      <4>4. PICK j \in 1 .. i : s[j] = c.from
        BY <1>1, <4>2, <4>3 DEF SourcesBefore
      <4> QED BY <2>3, <4>2, <4>4
    <3>2. \A j \in 1 .. i + 1 : j \in 1 .. i \/ j = i + 1
      BY <1>2
    <3> QED BY <1>2, <2>3, <3>1, <3>2
  <2> HIDE DEF I
  <2>4. NumNodes \in I
    <3>1. \A i \in 0 .. NumNodes : i \in I
      BY <1>2, <2>2, <2>3, UpTo
    <3> QED BY <1>2, <3>1
  <2>5. \A j \in 1 .. Len(s) : s[j] \notin C
    BY <1>4, <2>4 DEF I
  <2>6. Range(s) = Nodes
    BY <1>1, <1>4, AllPlaced
  <2>7. \A m \in Nodes : \E j \in 1 .. Len(s) : s[j] = m
    BY <1>1, <2>6, InRangeOf
  <2> QED BY <2>1, <2>5, <2>7
<1> QED BY <1>3, <1>4 DEF s
-----------------------------------------------------------------------------
(* The walk along the order.                                               *)

Stages == {"none", "running", "waiting", "streaming", "succeeded", "failed", "blocked"}

(* The last event of the node under way.                                   *)
Doing(p) ==
  CASE p = "acting" -> "running" [] p = "polling" -> "waiting"
    [] p = "streaming" -> "streaming" [] OTHER -> "none"

(* The order is the one topoSort computed, and has every node once.  at is *)
(* 0 before the walk, and for good where the graph has a cycle.            *)
OrderInv ==
  /\ at = 0 => /\ failures = 0 /\ late = 0 /\ pc \in {"start", "end"}
               /\ \A n \in Nodes : node[n] = "none"
  /\ at > 0 => /\ order = topoSort(graph.conns) /\ Len(order) = NumNodes
               /\ pc # "start"
  /\ pc \in {"held", "acting", "polling", "streaming"} => at <= NumNodes
  /\ pc # "end" => exec = "RUNNING"

(* What is behind has come to its end, and what is ahead has not begun.    *)
WalkInv ==
  at > 0 => \A i \in 1 .. NumNodes :
    /\ i < at => node[order[i]] \in Ended
    /\ i = at => node[order[i]] = Doing(pc)
    /\ i > at => node[order[i]] = "none"

(* A failure is counted once, and only nodes that are behind can have      *)
(* failed.  A node started after the cancel had been let go from a pause,  *)
(* and the next look at the flag ends the loop.                            *)
CountInv ==
  /\ failures = 0 \/ failures < at
  /\ failures > 0 <=> \E n \in Nodes : node[n] = "failed"
  /\ late = 0 \/ (late = 1 /\ cancelled /\ pc # "held")

GateInv ==
  /\ PassedMeansApproved
  /\ pc = "streaming" => graph.kind[Here] = "agent"

Inv == TypeOK /\ OrderInv /\ WalkInv /\ CountInv /\ GateInv /\ RecordTellsTruth

LEMMA InitInv == Init => Inv
<1> SUFFICES ASSUME Init PROVE Inv
  OBVIOUS
<1>1. NumNodes \in Nat /\ Polls \in Nat
  BY WorkflowAssumption, NodesAssumption
<1>2. TypeOK
  <2>1. /\ order \in Seq(Nodes)
        /\ node \in [Nodes -> Stages]
        /\ taken \in [Nodes -> Ports \union {"none"}]
        /\ asked \in [Nodes -> {"none", "OPEN", "APPROVED", "REJECTED"}]
    BY DEF Init, Stages
  <2>2. /\ at \in 0 .. NumNodes + 1 /\ polls \in 0 .. Polls
        /\ failures \in 0 .. NumNodes /\ late \in 0 .. NumNodes
    BY <1>1 DEF Init
  <2> QED BY <2>1, <2>2 DEF Init, TypeOK, Stages
<1>3. OrderInv /\ WalkInv /\ CountInv /\ GateInv /\ RecordTellsTruth
  BY <1>1 DEF Init, OrderInv, WalkInv, CountInv, GateInv, PassedMeansApproved, RecordTellsTruth
<1> QED BY <1>2, <1>3 DEF Inv

(* The order names each node at one place.                                 *)
LEMMA Placed ==
  ASSUME Inv, at > 0
  PROVE  /\ \A i \in 1 .. NumNodes : order[i] \in Nodes
         /\ \A i, j \in 1 .. NumNodes : order[i] = order[j] => i = j
         /\ \A n \in Nodes : \E i \in 1 .. NumNodes : order[i] = n
         /\ SourcesBefore(graph.conns, order)
<1>1. order \in Seq(Nodes) /\ Len(order) = NumNodes /\ order = topoSort(graph.conns)
  BY DEF Inv, TypeOK, OrderInv
<1>2. graph.conns \in SUBSET Conn
  BY WorkflowAssumption, NodesAssumption DEF Inv, TypeOK
<1>3. Distinct(order) /\ SourcesBefore(graph.conns, order)
  BY <1>1, <1>2, TopoSorted
<1>4. Range(order) = Nodes
  BY <1>1, <1>3, AllPlaced
<1>5. \A n \in Nodes : \E i \in 1 .. NumNodes : order[i] = n
  BY <1>1, <1>4, InRangeOf
<1> QED BY <1>1, <1>3, <1>5 DEF Distinct

(* An event of the node under way, which then is still under way or behind.*)
Event(s) ==
  /\ node' = [node EXCEPT ![Here] = s]
  /\ order' = order
  /\ \/ at' = at /\ s = Doing(pc')
     \/ at' = at + 1 /\ pc' = "next" /\ s \in Ended

LEMMA EventWalks ==
  ASSUME Inv, at \in 1 .. NumNodes, NEW s, Event(s)
  PROVE  WalkInv'
<1>1. NumNodes \in Nat
  BY WorkflowAssumption, NodesAssumption
<1>2. /\ at > 0 /\ Here \in Nodes /\ node \in [Nodes -> Stages]
      /\ \A i \in 1 .. NumNodes : order[i] \in Nodes
      /\ \A i \in 1 .. NumNodes : order[i] = Here => i = at
  <2>1. at > 0 /\ node \in [Nodes -> Stages]
    BY <1>1 DEF Inv, TypeOK, Stages
  <2> QED BY <2>1, Placed DEF Here
<1>3. \A i \in 1 .. NumNodes :
        /\ i < at => node[order[i]] \in Ended
        /\ i > at => node[order[i]] = "none"
  BY <1>2 DEF Inv, WalkInv
<1>4. \A i \in 1 .. NumNodes :
        node'[order[i]] = IF i = at THEN s ELSE node[order[i]]
  BY <1>2 DEF Event, Here
<1>5. CASE at' = at /\ s = Doing(pc')
  BY <1>1, <1>3, <1>4, <1>5 DEF Event, WalkInv
<1>6. CASE at' = at + 1 /\ pc' = "next" /\ s \in Ended
  BY <1>1, <1>3, <1>4, <1>6 DEF Event, WalkInv, Doing
<1> QED BY <1>5, <1>6 DEF Event

LEMMA HereIsNode ==
  ASSUME Inv, at \in 1 .. NumNodes
  PROVE  Here \in Nodes /\ node[Here] = Doing(pc)
<1>1. NumNodes \in Nat /\ at > 0
  BY WorkflowAssumption, NodesAssumption
<1>2. Here \in Nodes
  BY <1>1, Placed DEF Here
<1>3. node[order[at]] = Doing(pc)
  BY <1>1 DEF Inv, WalkInv
<1> QED BY <1>2, <1>3 DEF Here

LEMMA UnderWay ==
  ASSUME Inv, pc \in {"held", "acting", "polling", "streaming"} \/ (pc = "next" /\ at <= NumNodes)
  PROVE  at \in 1 .. NumNodes /\ exec = "RUNNING"
<1>1. at \in Nat /\ NumNodes \in Nat
  BY WorkflowAssumption, NodesAssumption DEF Inv, TypeOK
<1> QED BY <1>1 DEF Inv, OrderInv

(* The node under way succeeds.  An approval node has to be approved.      *)
LEMMA SucceedInv ==
  ASSUME Inv, pc \in {"acting", "polling", "streaming"}, Succeed,
         skip' \in SUBSET Nodes, taken' \in [Nodes -> Ports \union {"none"}],
         graph.kind[Here] = "approval" => asked[Here] = "APPROVED"
  PROVE  Inv'
<1>1. at \in 1 .. NumNodes /\ exec = "RUNNING" /\ NumNodes \in Nat
  BY UnderWay, WorkflowAssumption, NodesAssumption
<1>2. Here \in Nodes /\ node[Here] = Doing(pc)
  BY <1>1, HereIsNode
<1>3. WalkInv'
  <2>1. Event("succeeded")
    BY DEF Event, Succeed, Ended
  <2> QED BY <1>1, <2>1, EventWalks
<1>4. node \in [Nodes -> Stages]
  BY DEF Inv, TypeOK, Stages
<1>5. \A n \in Nodes : node'[n] = IF n = Here THEN "succeeded" ELSE node[n]
  BY <1>2, <1>4 DEF Succeed
<1>6. TypeOK'
  <2>1. node' \in [Nodes -> Stages]
    BY <1>2, <1>4 DEF Succeed, Stages
  <2>2. at' \in 0 .. NumNodes + 1
    BY <1>1 DEF Succeed
  <2> QED BY <2>1, <2>2 DEF Succeed, Inv, TypeOK, Stages, control
<1>7. OrderInv'
  BY <1>1 DEF Succeed, Inv, OrderInv
<1>8. CountInv'
  <2>1. (\E n \in Nodes : node'[n] = "failed") <=> \E n \in Nodes : node[n] = "failed"
    BY <1>2, <1>5 DEF Doing
  <2> QED BY <1>1, <2>1 DEF Succeed, Inv, CountInv, TypeOK, control
<1>9. GateInv'
  BY <1>2, <1>5 DEF Succeed, Inv, GateInv, PassedMeansApproved
<1>10. RecordTellsTruth'
  BY <1>1 DEF Succeed, RecordTellsTruth
<1> QED BY <1>3, <1>6, <1>7, <1>8, <1>9, <1>10 DEF Inv

LEMMA FailInv ==
  ASSUME Inv, pc \in {"acting", "polling"}, Fail
  PROVE  Inv'
<1>1. at \in 1 .. NumNodes /\ exec = "RUNNING" /\ NumNodes \in Nat
  BY UnderWay, WorkflowAssumption, NodesAssumption
<1>2. Here \in Nodes /\ node[Here] = Doing(pc)
  BY <1>1, HereIsNode
<1>3. WalkInv'
  <2>1. Event("failed")
    BY DEF Event, Fail, Ended
  <2> QED BY <1>1, <2>1, EventWalks
<1>4. node \in [Nodes -> Stages] /\ failures \in Nat
  BY DEF Inv, TypeOK, Stages
<1>5. \A n \in Nodes : node'[n] = IF n = Here THEN "failed" ELSE node[n]
  BY <1>2, <1>4 DEF Fail
<1>6. failures < at
  BY <1>1 DEF Inv, CountInv
<1>7. TypeOK'
  <2>1. node' \in [Nodes -> Stages]
    BY <1>2, <1>4 DEF Fail, Stages
  <2>2. at' \in 0 .. NumNodes + 1 /\ failures' \in 0 .. NumNodes
    BY <1>1, <1>4, <1>6 DEF Fail
  <2> QED BY <2>1, <2>2 DEF Fail, Inv, TypeOK, Stages, control
<1>8. OrderInv'
  BY <1>1 DEF Fail, Inv, OrderInv
<1>9. CountInv'
  <2>1. \E n \in Nodes : node'[n] = "failed"
    BY <1>2, <1>5
  <2> QED BY <1>1, <1>4, <1>6, <2>1 DEF Fail, Inv, CountInv, TypeOK, control
<1>10. GateInv'
  BY <1>5 DEF Fail, Inv, GateInv, PassedMeansApproved
<1>11. RecordTellsTruth'
  BY <1>1 DEF Fail, RecordTellsTruth
<1> QED BY <1>3, <1>7, <1>8, <1>9, <1>10, <1>11 DEF Inv

(* A node that no live edge feeds is passed over, another one starts: it   *)
(* cannot have started before.                                             *)
LEMMA VisitInv ==
  ASSUME Inv, Visit
  PROVE  Inv'
<1>1. at \in 1 .. NumNodes /\ exec = "RUNNING" /\ NumNodes \in Nat /\ Polls \in Nat
  BY UnderWay, WorkflowAssumption, NodesAssumption DEF Visit, PassedHold
<1>2. Here \in Nodes /\ node[Here] = "none" /\ pc \in {"next", "held"}
  BY <1>1, HereIsNode DEF Visit, PassedHold, Doing
<1>3. /\ node \in [Nodes -> Stages] /\ asked \in [Nodes -> {"none", "OPEN", "APPROVED", "REJECTED"}]
      /\ late \in Nat /\ failures \in Nat
  BY DEF Inv, TypeOK, Stages
<1>4. cancelled => late = 0
  BY <1>2 DEF Inv, CountInv, Visit, PassedHold
<1>5. CASE Bypassed(Here)
  <2>1. /\ node' = [node EXCEPT ![Here] = "blocked"]
        /\ pc' = "next" /\ at' = at + 1
        /\ UNCHANGED <<graph, order, skip, taken, paused, cancelled, asked, polls, failures, exec, late>>
    BY <1>5 DEF Visit, control
  <2>2. \A n \in Nodes : node'[n] = IF n = Here THEN "blocked" ELSE node[n]
    BY <1>2, <1>3, <2>1
  <2>3. WalkInv'
    <3>1. Event("blocked")
      BY <2>1 DEF Event, Ended
    <3> QED BY <1>1, <3>1, EventWalks
  <2>4. TypeOK'
    <3>1. node' \in [Nodes -> Stages]
      BY <1>2, <1>3, <2>1 DEF Stages
    <3>2. at' \in 0 .. NumNodes + 1
      BY <1>1, <2>1
    <3> QED BY <2>1, <3>1, <3>2 DEF Inv, TypeOK, Stages
  <2>5. OrderInv'
    BY <1>1, <2>1 DEF Inv, OrderInv
  <2>6. CountInv'
    <3>1. (\E n \in Nodes : node'[n] = "failed") <=> \E n \in Nodes : node[n] = "failed"
      BY <1>2, <2>2
    <3> QED BY <1>1, <2>1, <3>1, <1>3 DEF Inv, CountInv
  <2>7. GateInv'
    BY <2>1, <2>2 DEF Inv, GateInv, PassedMeansApproved
  <2>8. RecordTellsTruth'
    BY <1>1, <2>1 DEF RecordTellsTruth
  <2> QED BY <2>3, <2>4, <2>5, <2>6, <2>7, <2>8 DEF Inv
<1>6. CASE ~Bypassed(Here)
  <2> DEFINE gated == graph.kind[Here] = "approval"
             s == IF gated THEN "waiting" ELSE "running"
  <2>1. /\ node' = [node EXCEPT ![Here] = s]
        /\ pc' = IF gated THEN "polling" ELSE "acting"
        /\ asked' = IF gated THEN [asked EXCEPT ![Here] = "OPEN"] ELSE asked
        /\ polls' \in {Polls, polls}
        /\ skip' = skip \ {Here}
        /\ late' = IF cancelled THEN late + 1 ELSE late
        /\ UNCHANGED <<graph, order, at, taken, paused, cancelled, failures, exec>>
    BY <1>6 DEF Visit, control
  <2>2. s \in {"waiting", "running"} /\ pc' \in {"polling", "acting"} /\ s = Doing(pc')
    BY <2>1 DEF Doing
  <2>3. /\ asked' \in [Nodes -> {"none", "OPEN", "APPROVED", "REJECTED"}]
        /\ \A n \in Nodes : n # Here => asked'[n] = asked[n]
    BY <1>2, <1>3, <2>1
  <2> HIDE DEF gated, s
  <2>4. \A n \in Nodes : node'[n] = IF n = Here THEN s ELSE node[n]
    BY <1>2, <1>3, <2>1
  <2>5. WalkInv'
    <3>1. Event(s)
      BY <2>1, <2>2 DEF Event
    <3> QED BY <1>1, <3>1, EventWalks
  <2>6. late' \in {0, 1} /\ (late' = 1 => cancelled)
    BY <1>3, <1>4, <2>1 DEF Inv, CountInv
  <2>7. TypeOK'
    <3>1. node' \in [Nodes -> Stages]
      BY <1>2, <1>3, <2>1, <2>2 DEF Stages
    <3>2. late' \in 0 .. NumNodes /\ polls' \in 0 .. Polls
      BY <1>1, <2>1, <2>6 DEF Inv, TypeOK
    <3> QED BY <2>1, <2>2, <2>3, <3>1, <3>2 DEF Inv, TypeOK, Stages
  <2>8. OrderInv'
    BY <1>1, <2>1, <2>2 DEF Inv, OrderInv
  <2>9. CountInv'
    <3>1. (\E n \in Nodes : node'[n] = "failed") <=> \E n \in Nodes : node[n] = "failed"
      BY <1>2, <2>2, <2>4
    <3> QED BY <2>1, <2>2, <2>6, <3>1 DEF Inv, CountInv
  <2>10. GateInv'
    BY <2>1, <2>2, <2>3, <2>4 DEF Inv, GateInv, PassedMeansApproved
  <2>11. RecordTellsTruth'
    BY <1>1, <2>1 DEF RecordTellsTruth
  <2> QED BY <2>5, <2>7, <2>8, <2>9, <2>10, <2>11 DEF Inv
<1> QED BY <1>5, <1>6

LEMMA FinishAgentInv ==
  ASSUME Inv, NEW ok \in BOOLEAN, FinishAgent(ok)
  PROVE  Inv'
<1>1. at \in 1 .. NumNodes /\ exec = "RUNNING" /\ NumNodes \in Nat
  BY UnderWay, WorkflowAssumption, NodesAssumption DEF FinishAgent
<1>2. Here \in Nodes /\ node[Here] = "running" /\ pc = "acting"
  BY <1>1, HereIsNode DEF FinishAgent, Doing
<1>3. CASE ~ok
  BY <1>2, <1>3, FailInv DEF FinishAgent
<1>4. CASE ok
  <2>1. /\ graph.kind[Here] = "agent" /\ pc' = "streaming"
        /\ node' = [node EXCEPT ![Here] = "streaming"]
        /\ UNCHANGED <<graph, order, at, skip, taken, paused, cancelled, asked, polls, failures, exec, late>>
    BY <1>4 DEF FinishAgent, control
  <2>2. node \in [Nodes -> Stages]
    BY DEF Inv, TypeOK, Stages
  <2>3. \A n \in Nodes : node'[n] = IF n = Here THEN "streaming" ELSE node[n]
    BY <1>2, <2>1, <2>2
  <2>4. WalkInv'
    <3>1. Event("streaming")
      BY <2>1 DEF Event, Doing
    <3> QED BY <1>1, <3>1, EventWalks
  <2>5. TypeOK'
    <3>1. node' \in [Nodes -> Stages]
      BY <1>2, <2>1, <2>2 DEF Stages
    <3> QED BY <2>1, <3>1 DEF Inv, TypeOK, Stages
  <2>6. OrderInv'
    BY <1>1, <2>1 DEF Inv, OrderInv
  <2>7. CountInv'
    <3>1. (\E n \in Nodes : node'[n] = "failed") <=> \E n \in Nodes : node[n] = "failed"
      BY <1>2, <2>3
    <3> QED BY <2>1, <3>1 DEF Inv, CountInv
  <2>8. GateInv'
    <3>1. Here' = Here
      BY <2>1 DEF Here
    <3> QED BY <2>1, <2>3, <3>1 DEF Inv, GateInv, PassedMeansApproved
  <2>9. RecordTellsTruth'
    BY <1>1, <2>1 DEF RecordTellsTruth
  <2> QED BY <2>4, <2>5, <2>6, <2>7, <2>8, <2>9 DEF Inv
<1> QED BY <1>3, <1>4

(* The walk begins only with an order that has every node.                 *)
LEMMA BeginInv ==
  ASSUME Inv, Begin
  PROVE  Inv'
<1>1. NumNodes \in Nat
  BY WorkflowAssumption, NodesAssumption
<1>2. order' \in Seq(Nodes) /\ order' = topoSort(graph.conns)
  <2>1. graph.conns \in SUBSET Conn
    BY WorkflowAssumption, NodesAssumption DEF Inv, TypeOK
  <2> QED BY <2>1, TopoSorted DEF Begin
<1>3. at = 0 /\ failures = 0 /\ late = 0 /\ exec = "RUNNING" /\ \A n \in Nodes : node[n] = "none"
  BY DEF Begin, Inv, OrderInv, TypeOK
<1>4. UNCHANGED <<graph, node, skip, taken, paused, cancelled, asked, polls, failures, late>>
  BY DEF Begin, control
<1>5. CASE Len(order') = NumNodes
  <2>1. pc' = "next" /\ at' = 1 /\ exec' = exec
    BY <1>5 DEF Begin
  <2>2. TypeOK'
    BY <1>1, <1>2, <1>4, <2>1 DEF Inv, TypeOK
  <2>3. WalkInv'
    <3>1. \A i \in 1 .. NumNodes : order'[i] \in Nodes
      BY <1>2, <1>5
    <3> QED BY <1>3, <1>4, <2>1, <3>1 DEF WalkInv, Doing
  <2>4. OrderInv' /\ CountInv'
    BY <1>2, <1>3, <1>4, <1>5, <2>1 DEF OrderInv, CountInv
  <2>5. GateInv' /\ RecordTellsTruth'
    BY <1>3, <1>4, <2>1 DEF GateInv, PassedMeansApproved, RecordTellsTruth
  <2> QED BY <2>2, <2>3, <2>4, <2>5 DEF Inv
<1>6. CASE Len(order') # NumNodes
  <2>1. pc' = "end" /\ exec' = "FAILED" /\ at' = at
    BY <1>6 DEF Begin
  <2>2. TypeOK'
    BY <1>1, <1>2, <1>4, <2>1 DEF Inv, TypeOK
  <2>3. WalkInv' /\ OrderInv' /\ CountInv'
    BY <1>3, <1>4, <2>1 DEF WalkInv, OrderInv, CountInv
  <2>4. GateInv' /\ RecordTellsTruth'
    BY <1>3, <1>4, <2>1 DEF GateInv, PassedMeansApproved, RecordTellsTruth
  <2> QED BY <2>2, <2>3, <2>4 DEF Inv
<1> QED BY <1>5, <1>6

LEMMA StopCancelledInv ==
  ASSUME Inv, StopCancelled
  PROVE  Inv'
<1>1. /\ pc' = "end" /\ exec' = "CANCELLED" /\ cancelled /\ pc = "next" /\ at <= NumNodes
      /\ UNCHANGED <<graph, order, at, node, skip, taken, paused, cancelled, asked, polls, failures, late>>
  BY DEF StopCancelled, control
<1>2. at \in 1 .. NumNodes
  BY <1>1, UnderWay
<1>3. TypeOK'
  BY <1>1 DEF Inv, TypeOK
<1>4. OrderInv' /\ CountInv'
  BY <1>1, <1>2 DEF Inv, OrderInv, CountInv
<1>5. WalkInv'
  BY <1>1 DEF Inv, WalkInv, Doing
<1>6. GateInv' /\ RecordTellsTruth'
  BY <1>1 DEF Inv, GateInv, PassedMeansApproved, RecordTellsTruth
<1> QED BY <1>3, <1>4, <1>5, <1>6 DEF Inv

LEMMA HoldInv ==
  ASSUME Inv, Hold
  PROVE  Inv'
<1>1. /\ pc' = "held" /\ ~cancelled /\ pc = "next" /\ at <= NumNodes
      /\ UNCHANGED <<graph, order, at, node, skip, taken, paused, cancelled, asked, polls, failures, exec, late>>
  BY DEF Hold, control
<1>2. at \in 1 .. NumNodes /\ exec = "RUNNING"
  BY <1>1, UnderWay
<1>3. TypeOK'
  BY <1>1 DEF Inv, TypeOK
<1>4. OrderInv' /\ CountInv'
  BY <1>1, <1>2 DEF Inv, OrderInv, CountInv
<1>5. WalkInv'
  BY <1>1 DEF Inv, WalkInv, Doing
<1>6. GateInv' /\ RecordTellsTruth'
  BY <1>1 DEF Inv, GateInv, PassedMeansApproved, RecordTellsTruth
<1> QED BY <1>3, <1>4, <1>5, <1>6 DEF Inv

(* At the end all nodes are behind, and the count of failures, not the     *)
(* nodes, decides what the record says.                                    *)
LEMMA FinishInv ==
  ASSUME Inv, Finish
  PROVE  Inv'
<1>1. /\ pc' = "end" /\ pc = "next" /\ at = NumNodes + 1
      /\ exec' = IF cancelled THEN "CANCELLED"
                 ELSE IF failures > 0 THEN "FAILED" ELSE "COMPLETED"
      /\ UNCHANGED <<graph, order, at, node, skip, taken, paused, cancelled, asked, polls, failures, late>>
  BY DEF Finish, control
<1>2. NumNodes \in Nat /\ at > 0 /\ failures \in Nat
  BY <1>1, WorkflowAssumption, NodesAssumption DEF Inv, TypeOK
<1>3. TypeOK'
  BY <1>1 DEF Inv, TypeOK
<1>4. OrderInv' /\ CountInv'
  BY <1>1, <1>2 DEF Inv, OrderInv, CountInv
<1>5. WalkInv'
  BY <1>1 DEF Inv, WalkInv, Doing
<1>6. GateInv'
  BY <1>1 DEF Inv, GateInv, PassedMeansApproved
<1>7. \A n \in Nodes : node[n] \in Ended
  <2> SUFFICES ASSUME NEW n \in Nodes PROVE node[n] \in Ended
    OBVIOUS
  <2>1. PICK i \in 1 .. NumNodes : order[i] = n
    BY <1>2, Placed
  <2> QED BY <1>1, <1>2, <2>1 DEF Inv, WalkInv
<1>8. RecordTellsTruth'
  <2>1. CASE cancelled
    BY <1>1, <2>1 DEF RecordTellsTruth
  <2>2. CASE ~cancelled /\ failures > 0
    <3>1. exec' = "FAILED"
      BY <1>1, <2>2
    <3> QED BY <1>1, <2>2, <3>1 DEF Inv, CountInv, RecordTellsTruth
  <2>3. CASE ~cancelled /\ ~ (failures > 0)
    <3>1. exec' = "COMPLETED"
      BY <1>1, <2>3
    <3>2. \A n \in Nodes : node[n] # "failed"
      BY <2>3 DEF Inv, CountInv
    <3> QED BY <1>1, <1>7, <3>1, <3>2 DEF Ended, RecordTellsTruth
  <2> QED BY <2>1, <2>2, <2>3
<1> QED BY <1>3, <1>4, <1>5, <1>6, <1>8 DEF Inv

LEMMA PollInv ==
  ASSUME Inv, Poll
  PROVE  Inv'
<1>1. CASE asked[Here] = "APPROVED" /\ SucceedPlain
  BY <1>1, SucceedInv DEF Poll, SucceedPlain, Inv, TypeOK
<1>2. CASE asked[Here] = "REJECTED" /\ Fail
  BY <1>2, FailInv DEF Poll
<1>3. CASE /\ asked[Here] = "OPEN" /\ polls' = polls - 1
           /\ UNCHANGED <<graph, order, at, pc, node, skip, taken, control, asked, failures, exec, late>>
  <2>1. UNCHANGED <<graph, order, at, pc, node, skip, taken, paused, cancelled, asked, failures, exec, late>>
    BY <1>3 DEF control
  <2>2. polls > 0 /\ polls \in 0 .. Polls /\ Polls \in Nat
    BY WorkflowAssumption, NodesAssumption DEF Poll, Inv, TypeOK
  <2>3. polls' \in 0 .. Polls
    BY <1>3, <2>2
  <2>4. TypeOK'
    BY <2>1, <2>3 DEF Inv, TypeOK
  <2>5. OrderInv' /\ WalkInv' /\ CountInv' /\ GateInv' /\ RecordTellsTruth'
    BY <2>1 DEF Inv, OrderInv, WalkInv, CountInv, GateInv, PassedMeansApproved, RecordTellsTruth, Here
  <2> QED BY <2>4, <2>5 DEF Inv
<1> QED BY <1>1, <1>2, <1>3 DEF Poll

LEMMA FinishInvs ==
  ASSUME Inv,
         \/ FinishStep \/ FinishStream \/ PollOut
         \/ \E port \in Ports : FinishBranch(port)
         \/ \E ok \in BOOLEAN : FinishCap(ok)
  PROVE  Inv'
<1>0. skip \in SUBSET Nodes /\ taken \in [Nodes -> Ports \union {"none"}]
  BY DEF Inv, TypeOK
<1>1. ASSUME SucceedPlain, pc \in {"acting", "streaming"}, graph.kind[Here] # "approval"
      PROVE  Inv'
  BY <1>0, <1>1, SucceedInv DEF SucceedPlain
<1>2. CASE FinishStep
  BY <1>1, <1>2 DEF FinishStep
<1>3. CASE FinishStream
  BY <1>1, <1>3 DEF FinishStream, Inv, GateInv
<1>4. CASE PollOut
  BY <1>4, FailInv DEF PollOut
<1>5. ASSUME NEW port \in Ports, FinishBranch(port) PROVE Inv'
  <2>1. Here \in Nodes
    BY <1>5, UnderWay, HereIsNode DEF FinishBranch
  <2>2. taken' \in [Nodes -> Ports \union {"none"}]
    BY <1>0, <1>5, <2>1 DEF FinishBranch
  <2>3. graph.conns \in SUBSET Conn
    BY WorkflowAssumption, NodesAssumption DEF Inv, TypeOK
  <2>4. skip' \in SUBSET Nodes
    BY <1>0, <1>5, <2>3 DEF FinishBranch, Conn
  <2> QED BY <1>5, <2>2, <2>4, SucceedInv DEF FinishBranch
<1>6. ASSUME NEW ok \in BOOLEAN, FinishCap(ok) PROVE Inv'
  BY <1>1, <1>6, FailInv DEF FinishCap
<1> QED BY <1>2, <1>3, <1>4, <1>5, <1>6

(* The human and the user touch nothing but their own records.             *)
LEMMA ControlInv ==
  ASSUME Inv, Control
  PROVE  Inv'
<1>1. /\ UNCHANGED <<graph, order, at, pc, node, skip, taken, asked, polls, failures, exec, late>>
      /\ cancelled => cancelled'
      /\ paused' \in BOOLEAN /\ cancelled' \in BOOLEAN
  BY DEF Control, Pause, Resume, Cancel, Inv, TypeOK
<1>2. TypeOK'
  BY <1>1 DEF Inv, TypeOK
<1>3. OrderInv' /\ WalkInv' /\ CountInv' /\ GateInv' /\ RecordTellsTruth'
  BY <1>1 DEF Inv, OrderInv, WalkInv, CountInv, GateInv, PassedMeansApproved, RecordTellsTruth, Here
<1> QED BY <1>2, <1>3 DEF Inv

LEMMA DecideApprovalInv ==
  ASSUME Inv, NEW n \in Nodes, NEW decision \in {"APPROVED", "REJECTED"},
         DecideApproval(n, decision)
  PROVE  Inv'
<1>1. /\ asked[n] = "OPEN" /\ asked' = [asked EXCEPT ![n] = decision]
      /\ UNCHANGED <<graph, order, at, pc, node, skip, taken, paused, cancelled, polls, failures, exec, late>>
  BY DEF DecideApproval, control
<1>2. asked \in [Nodes -> {"none", "OPEN", "APPROVED", "REJECTED"}]
  BY DEF Inv, TypeOK
<1>3. /\ asked' \in [Nodes -> {"none", "OPEN", "APPROVED", "REJECTED"}]
      /\ \A m \in Nodes : asked[m] = "APPROVED" => asked'[m] = "APPROVED"
  BY <1>1, <1>2
<1>4. TypeOK'
  BY <1>1, <1>3 DEF Inv, TypeOK
<1>5. OrderInv' /\ WalkInv' /\ CountInv' /\ RecordTellsTruth'
  BY <1>1 DEF Inv, OrderInv, WalkInv, CountInv, RecordTellsTruth
<1>6. GateInv'
  BY <1>1, <1>3 DEF Inv, GateInv, PassedMeansApproved, Here
<1> QED BY <1>4, <1>5, <1>6 DEF Inv

LEMMA StepInv == Inv /\ [Next]_wfVars => Inv'
<1> SUFFICES ASSUME Inv, [Next]_wfVars PROVE Inv'
  OBVIOUS
<1>1. CASE Begin
  BY <1>1, BeginInv
<1>2. CASE StopCancelled
  BY <1>2, StopCancelledInv
<1>3. CASE Hold
  BY <1>3, HoldInv
<1>4. CASE Visit
  BY <1>4, VisitInv
<1>5. CASE Poll
  BY <1>5, PollInv
<1>6. CASE Finish
  BY <1>6, FinishInv
<1>7. CASE \/ FinishStep \/ FinishStream \/ PollOut
           \/ \E port \in Ports : FinishBranch(port)
           \/ \E ok \in BOOLEAN : FinishCap(ok)
  BY <1>7, FinishInvs
<1>8. CASE \E ok \in BOOLEAN : FinishAgent(ok)
  BY <1>8, FinishAgentInv
<1>9. CASE Control
  BY <1>9, ControlInv
<1>10. CASE \E n \in Nodes, decision \in {"APPROVED", "REJECTED"} : DecideApproval(n, decision)
  BY <1>10, DecideApprovalInv
<1>11. CASE UNCHANGED wfVars
  BY <1>11 DEF wfVars, Inv, TypeOK, OrderInv, WalkInv, CountInv, GateInv,
               PassedMeansApproved, RecordTellsTruth, Here
<1> QED BY <1>1, <1>2, <1>3, <1>4, <1>5, <1>6, <1>7, <1>8, <1>9, <1>10, <1>11 DEF Next, Loop

LEMMA AlwaysInv == Spec => []Inv
<1> QED BY InitInv, StepInv, PTL DEF Spec

(* Each variable keeps to its type, whatever the graph.                    *)
THEOREM TypeCorrect == Spec => []TypeOK
<1>1. Inv => TypeOK
  BY DEF Inv
<1> QED BY <1>1, AlwaysInv, PTL

(* runWorkflow starts no node before everything that feeds it has come to  *)
(* its end, for every graph topoSort gives a full order for: the walk goes *)
(* place by place, and topoSort puts the sources of a node before it.      *)
THEOREM OrderCorrect == Spec => []SourcesFirst
<1>1. Inv => SourcesFirst
  <2> SUFFICES ASSUME Inv, NEW n \in Nodes, node[n] # "none",
                      NEW c \in Incoming(n)
               PROVE  node[c.from] \in Ended
    BY DEF SourcesFirst
  <2>1. at \in Nat /\ NumNodes \in Nat
    BY WorkflowAssumption, NodesAssumption DEF Inv, TypeOK
  <2>2. at > 0
    BY <2>1 DEF Inv, OrderInv
  <2>3. PICK i \in 1 .. NumNodes : order[i] = n
    BY <2>2, Placed
  <2>4. ~ (i > at)
    BY <2>2, <2>3 DEF Inv, WalkInv
  <2>5. c \in graph.conns /\ c.to = order[i] /\ i \in 1 .. Len(order)
    BY <2>2, <2>3 DEF Incoming, Inv, OrderInv
  <2>6. PICK j \in 1 .. i - 1 : order[j] = c.from
    BY <2>2, <2>5, Placed DEF SourcesBefore
  <2>7. j \in 1 .. NumNodes /\ j < at
    BY <2>1, <2>4
  <2> QED BY <2>2, <2>6, <2>7 DEF Inv, WalkInv
<1> QED BY <1>1, AlwaysInv, PTL

(* An approval node of runWorkflow passes only on an approved record: no   *)
(* timeout, cancel or pause gets by, in whatever order they come.          *)
THEOREM ApprovalCorrect == Spec => []PassedMeansApproved
<1>1. Inv => PassedMeansApproved
  BY DEF Inv, GateInv
<1> QED BY <1>1, AlwaysInv, PTL

(* What the execution record says at the end agrees with the events of the *)
(* nodes.                                                                  *)
THEOREM RecordCorrect == Spec => []RecordTellsTruth
<1>1. Inv => RecordTellsTruth
  BY DEF Inv
<1> QED BY <1>1, AlwaysInv, PTL

(* After a cancel at most one more node starts, however often the user     *)
(* pauses and resumes.                                                     *)
THEOREM CancelCorrect == Spec => []AtMostOneAfterCancel
<1>1. Inv => AtMostOneAfterCancel
  BY DEF Inv, CountInv, AtMostOneAfterCancel
<1> QED BY <1>1, AlwaysInv, PTL
-----------------------------------------------------------------------------
(* The graph before it runs: the wires that a user and an agent draw, and  *)
(* the checks that look at them (Wiring, over GraphChecks).                *)

LEMMA SameRange == \A s : ToSet(s) = Range(s)
BY DEF ToSet, Range

LEMMA Disjoint ==
  ASSUME NEW S, NEW T, IsFiniteSet(S), IsFiniteSet(T), S \cap T = {}
  PROVE  /\ IsFiniteSet(S \union T)
         /\ Cardinality(S \union T) = Cardinality(S) + Cardinality(T)
<1>1. /\ IsFiniteSet(S \union T)
      /\ Cardinality(S \union T) = Cardinality(S) + Cardinality(T) - Cardinality({})
  BY FS_Union
<1>2. Cardinality(S) \in Nat /\ Cardinality(T) \in Nat /\ Cardinality({}) = 0
  BY FS_CardinalityType, FS_EmptySet
<1> QED BY <1>1, <1>2

-----------------------------------------------------------------------------
(* The search.                                                             *)

Closed(succ, T) == \A n \in T : succ[n] \subseteq T

Found(succ, start, st) ==
  /\ st \in Searching
  /\ \/ st.stack = {start} /\ st.seen = {}
     \/ st.stack \subseteq st.seen /\ succ[start] \subseteq st.seen
  /\ \A n \in st.seen \ st.stack : succ[n] \subseteq st.seen
  /\ \A T \in SUBSET Nodes : succ[start] \subseteq T /\ Closed(succ, T) => st.seen \subseteq T

LEMMA LooksOn ==
  ASSUME NEW succ \in [Nodes -> SUBSET Nodes], NEW start \in Nodes,
         NEW st, Found(succ, start, st), NEW i \in Nat,
         st.stack = {} \/ Cardinality(st.stack) + i = 1 + Cardinality(st.seen)
  PROVE  LET next == LookOn(succ)[st] IN
         /\ Found(succ, start, next)
         /\ next.stack = {} \/ Cardinality(next.stack) + i + 1 = 1 + Cardinality(next.seen)
<1>0. NumNodes \in Nat /\ IsFiniteSet(Nodes)
  BY NodesAssumption, UpToCount DEF Nodes
<1>1. st \in Searching /\ st.stack \subseteq Nodes /\ st.seen \subseteq Nodes
  BY DEF Found, Searching
<1>2. CASE st.stack = {}
  <2>1. LookOn(succ)[st] = st
    BY <1>1, <1>2 DEF LookOn
  <2> QED BY <1>2, <2>1
<1>3. CASE st.stack # {}
  <2> DEFINE cur  == CHOOSE n \in st.stack : TRUE
             new  == succ[cur] \ st.seen
             rest == st.stack \ {cur}
             S    == rest \union new
             T    == st.seen \union succ[cur]
  <2>1. LookOn(succ)[st] = [stack |-> S, seen |-> T]
    BY <1>1, <1>3 DEF LookOn
  <2>2. cur \in st.stack
    BY <1>3
  <2> HIDE DEF cur
  <2>3. cur \in Nodes /\ succ[cur] \in SUBSET Nodes /\ succ[start] \in SUBSET Nodes
    BY <1>1, <2>2
  <2>4. rest \intersect new = {} /\ T = st.seen \union new /\ st.seen \intersect new = {}
    BY <2>2 DEF Found
  <2>5. /\ IsFiniteSet(st.stack) /\ IsFiniteSet(st.seen) /\ IsFiniteSet(new) /\ IsFiniteSet(rest)
    BY <1>0, <1>1, <2>3, FS_Subset
  <2>6. Cardinality(S) = Cardinality(rest) + Cardinality(new)
    BY <2>4, <2>5, Disjoint
  <2>7. Cardinality(T) = Cardinality(st.seen) + Cardinality(new)
    BY <2>4, <2>5, Disjoint
  <2>8. Cardinality(rest) = Cardinality(st.stack) - 1
    BY <2>2, <2>5, FS_RemoveElement
  <2>9. Cardinality(S) + i + 1 = 1 + Cardinality(T)
    <3>1. /\ Cardinality(st.stack) \in Nat /\ Cardinality(st.seen) \in Nat
          /\ Cardinality(new) \in Nat /\ Cardinality(rest) \in Nat
      BY <2>5, FS_CardinalityType
    <3> HIDE DEF S, T, rest, new
    <3> QED BY <1>3, <2>6, <2>7, <2>8, <3>1
  <2>10. S \subseteq T /\ succ[start] \subseteq T
    BY <2>2 DEF Found
  <2>11. ASSUME NEW n \in T \ S PROVE succ[n] \subseteq T
    BY DEF Found
  <2>12. ASSUME NEW U \in SUBSET Nodes, succ[start] \subseteq U, Closed(succ, U)
         PROVE  T \subseteq U
    BY <2>2, <2>12 DEF Found, Closed
  <2>13. S \in SUBSET Nodes /\ T \in SUBSET Nodes
    BY <1>1, <2>3
  <2> HIDE DEF S, T
  <2> QED BY <2>1, <2>9, <2>10, <2>11, <2>12, <2>13 DEF Found, Searching
<1> QED BY <1>2, <1>3

(* canConnect: the search finds what wires lead to from start, and no more. *)
LEMMA Searched ==
  ASSUME NEW succ \in [Nodes -> SUBSET Nodes], NEW start \in Nodes
  PROVE  LET S == Follow(succ, start) IN
         /\ S \in SUBSET Nodes /\ succ[start] \subseteq S /\ Closed(succ, S)
         /\ \A T \in SUBSET Nodes : succ[start] \subseteq T /\ Closed(succ, T) => S \subseteq T
<1> DEFINE N == NumNodes + 1
           first == [stack |-> {start}, seen |-> {}]
           step == LookOn(succ)
           Def(h) == [i \in 0 .. N |-> IF i = 0 THEN first ELSE step[h[i - 1]]]
           f == CHOOSE h : h = Def(h)
<1>0. NumNodes \in Nat /\ IsFiniteSet(Nodes) /\ Cardinality(Nodes) = NumNodes
  BY NodesAssumption, UpToCount DEF Nodes
<1>1. first \in Searching
  BY DEF Searching
<1>2. step \in [Searching -> Searching]
  <2> SUFFICES ASSUME NEW st \in Searching, st.stack # {}
               PROVE  step[st] \in Searching
    BY DEF LookOn
  <2> DEFINE cur == CHOOSE n \in st.stack : TRUE
  <2>1. cur \in st.stack
    OBVIOUS
  <2>2. step[st] = [stack |-> (st.stack \ {cur}) \union (succ[cur] \ st.seen),
                    seen |-> st.seen \union succ[cur]]
    BY DEF LookOn
  <2> HIDE DEF cur
  <2> QED BY <2>1, <2>2 DEF Searching
<1>3. Follow(succ, start) = f[N].seen
  BY DEF Follow
<1> HIDE DEF step
<1>4. f[0] = first /\ \A i \in 1 .. N : f[i] = step[f[i - 1]]
  <2>1. N \in Nat
    BY <1>0
  <2>2. \E h : IsRun(h, N, first, step)
    BY <1>1, <1>2, <2>1, RunExists
  <2>3. \E h : h = Def(h)
    BY <2>2 DEF IsRun
  <2> HIDE DEF Def
  <2>4. f = Def(f)
    BY <2>3
  <2> HIDE DEF f
  <2>5. IsRun(f, N, first, step)
    BY <2>4 DEF Def, IsRun
  <2> HIDE DEF N, first
  <2> QED BY <2>1, <2>5, RunGoesOn
<1> HIDE DEF f
<1> DEFINE Good(i, st) == /\ Found(succ, start, st)
                          /\ st.stack = {} \/ Cardinality(st.stack) + i = 1 + Cardinality(st.seen)
           I == {i \in 0 .. N : Good(i, f[i])}
<1>5. 0 \in I
  <2>1. Cardinality({start}) = 1 /\ Cardinality({}) = 0
    BY FS_Singleton, FS_EmptySet
  <2>2. Good(0, first)
    BY <1>1, <2>1 DEF Found
  <2> HIDE DEF Good
  <2> QED BY <1>0, <1>4, <2>2
<1>6. ASSUME NEW i \in 0 .. N - 1, i \in I
      PROVE  i + 1 \in I
  <2>1. f[i + 1] = LookOn(succ)[f[i]] /\ i + 1 \in 0 .. N /\ i \in Nat
    BY <1>0, <1>4 DEF step
  <2> DEFINE st == f[i]
             next == LookOn(succ)[st]
  <2>2. Good(i, st)
    BY <1>6
  <2> HIDE DEF st
  <2>3. /\ Found(succ, start, next)
        /\ next.stack = {} \/ Cardinality(next.stack) + i + 1 = 1 + Cardinality(next.seen)
    BY <2>1, <2>2, LooksOn
  <2> HIDE DEF next
  <2>4. Good(i + 1, next)
    <3>1. IsFiniteSet(next.stack)
      BY <1>0, <2>3, FS_Subset DEF Found, Searching
    <3>2. Cardinality(next.stack) \in Nat
      BY <3>1, FS_CardinalityType
    <3> QED BY <2>1, <2>3, <3>2
  <2> HIDE DEF Good
  <2> QED BY <2>1, <2>4 DEF st, next
<1> HIDE DEF I
<1>7. N \in I
  <2>1. \A i \in 0 .. N : i \in I
    BY <1>0, <1>5, <1>6, UpTo
  <2> QED BY <1>0, <2>1
<1> DEFINE last == f[N]
<1>8. Found(succ, start, last) /\ (last.stack = {} \/ Cardinality(last.stack) + N = 1 + Cardinality(last.seen))
  BY <1>7 DEF I
<1> HIDE DEF last
<1>9. last.stack \in SUBSET Nodes /\ last.seen \in SUBSET Nodes
  BY <1>8 DEF Found, Searching
<1>10. last.stack = {}
  <2>1. /\ Cardinality(last.seen) <= NumNodes /\ Cardinality(last.seen) \in Nat
        /\ IsFiniteSet(last.stack) /\ Cardinality(last.stack) \in Nat
    BY <1>0, <1>9, FS_Subset, FS_CardinalityType
  <2>2. Cardinality(last.stack) = 0 => last.stack = {}
    BY <2>1, FS_EmptySet
  <2> QED BY <1>0, <1>8, <2>1, <2>2
<1> QED BY <1>3, <1>8, <1>9, <1>10 DEF Found, Closed, last
-----------------------------------------------------------------------------
(* The walk.                                                               *)

(* Some nodes of S lead to each other round.                               *)
Looped(succ, S) ==
  \E C \in SUBSET S : C # {} /\ \A m \in C : \E n \in C : m \in succ[n]

Over(nodes, st) == st.found \/ (st.way = <<>> /\ nodes \subseteq st.done)

(* What is on the way is a path; what is done leads to what is done, and   *)
(* not back.                                                               *)
Walked(succ, st) ==
  /\ st \in Walking
  /\ Distinct(st.way) /\ Range(st.way) \cap st.done = {}
  /\ \A i \in 1 .. Len(st.way) - 1 : st.way[i + 1] \in succ[st.way[i]]
  /\ Closed(succ, st.done) /\ ~Looped(succ, st.done)
  /\ st.found => Looped(succ, Nodes)

Paced(i, nodes, st) == Over(nodes, st) \/ Len(st.way) + 2 * Cardinality(st.done) = i

LEMMA Shortened ==
  ASSUME NEW S, NEW s \in Seq(S), s # <<>>, Distinct(s)
  PROVE  LET t == Front(s)
             x == Last(s)
         IN  /\ x \in S /\ x \in Range(s) /\ x = s[Len(s)] /\ Len(s) \in Nat \ {0}
             /\ t \in Seq(S) /\ Len(t) = Len(s) - 1
             /\ \A i \in 1 .. Len(t) : t[i] = s[i]
             /\ Distinct(t)
             /\ Range(t) = Range(s) \ {x}
<1> DEFINE t == Front(s)
           x == Last(s)
<1>1. /\ Len(s) \in Nat \ {0} /\ s[Len(s)] \in S /\ x = s[Len(s)] /\ t = SubSeq(s, 1, Len(s) - 1)
      /\ \A i \in 1 .. Len(s) : s[i] \in S
  BY DEF Front, Last
<1>2. t \in Seq(S) /\ Len(t) = Len(s) - 1 /\ \A i \in 1 .. Len(t) : t[i] = s[i]
  <2> DEFINE n == Len(s) - 1
  <2>1. n \in Int /\ 1 \in Int /\ \A i \in 1 .. n : s[i] \in S
    BY <1>1
  <2>2. /\ SubSeq(s, 1, n) \in Seq(S)
        /\ Len(SubSeq(s, 1, n)) = IF 1 <= n THEN n - 1 + 1 ELSE 0
        /\ \A i \in 1 .. n - 1 + 1 : SubSeq(s, 1, n)[i] = s[1 + i - 1]
    <3> HIDE DEF n
    <3> QED BY <2>1, SubSeqProperties
  <2>3. (IF 1 <= n THEN n - 1 + 1 ELSE 0) = Len(s) - 1 /\ n - 1 + 1 = Len(s) - 1
    <3>1. \A k \in Nat \ {0} : (IF 1 <= k - 1 THEN k - 1 - 1 + 1 ELSE 0) = k - 1 /\ k - 1 - 1 + 1 = k - 1
      OBVIOUS
    <3> QED BY <1>1, <3>1
  <2>4. \A i \in 1 .. Len(s) - 1 : 1 + i - 1 = i
    OBVIOUS
  <2> QED BY <1>1, <2>2, <2>3, <2>4
<1> HIDE DEF t, x
<1>3. Distinct(t)
  BY <1>1, <1>2 DEF Distinct
<1>4. x \in Range(s)
  BY <1>1, InRangeOf
<1>5. ASSUME NEW y PROVE y \in Range(t) <=> y \in Range(s) \ {x}
  <2>1. (\E i \in 1 .. Len(t) : t[i] = y) <=> (\E i \in 1 .. Len(s) : s[i] = y) /\ y # x
    BY <1>1, <1>2 DEF Distinct
  <2> QED BY <1>2, <2>1, InRangeOf
<1> QED BY <1>1, <1>2, <1>3, <1>4, <1>5 DEF t, x

LEMMA WalksOn ==
  ASSUME NEW succ \in [Nodes -> SUBSET Nodes], NEW nodes \in SUBSET Nodes,
         NEW st, Walked(succ, st), NEW i \in Nat, Paced(i, nodes, st)
  PROVE  LET next == WalkOn(succ, nodes)[st] IN
         Walked(succ, next) /\ Paced(i + 1, nodes, next)
<1> DEFINE way  == st.way
           done == st.done
           open == (IF way = <<>> THEN nodes ELSE succ[Last(way)]) \ done
           n    == CHOOSE m \in open : TRUE
           next == WalkOn(succ, nodes)[st]
<1>0. NumNodes \in Nat /\ IsFiniteSet(Nodes)
  BY NodesAssumption, UpToCount DEF Nodes
<1>1. /\ st \in Walking /\ way \in Seq(Nodes) /\ done \in SUBSET Nodes /\ st.found \in BOOLEAN
      /\ Distinct(way) /\ Range(way) \cap done = {}
      /\ Len(way) \in Nat /\ IsFiniteSet(done) /\ Cardinality(done) \in Nat
  <2>1. /\ st \in Walking /\ way \in Seq(Nodes) /\ done \in SUBSET Nodes /\ st.found \in BOOLEAN
        /\ Distinct(way) /\ Range(way) \cap done = {}
    BY DEF Walked, Walking
  <2>2. IsFiniteSet(done)
    BY <1>0, <2>1, FS_Subset
  <2>3. Cardinality(done) \in Nat
    BY <2>2, FS_CardinalityType
  <2> QED BY <2>1, <2>2, <2>3
<1>2. next = IF st.found \/ (way = <<>> /\ open = {}) THEN st
             ELSE IF open = {} THEN [way |-> Front(way), done |-> done \union {Last(way)},
                                     found |-> FALSE]
             ELSE IF n \in Range(way) THEN [st EXCEPT !.found = TRUE]
             ELSE [st EXCEPT !.way = Append(@, n)]
  BY <1>1, SameRange DEF WalkOn
<1>3. CASE Over(nodes, st)
  <2>1. next = st
    BY <1>2, <1>3 DEF Over
  <2> QED BY <1>3, <2>1 DEF Paced
<1>4. CASE ~Over(nodes, st) /\ open = {}
  <2>1. way # <<>> /\ ~st.found
    BY <1>4 DEF Over
  <2> DEFINE t == Front(way)
             x == Last(way)
             d == done \union {x}
  <2>2. /\ x \in Nodes /\ x \in Range(way) /\ x = way[Len(way)] /\ Len(way) \in Nat \ {0}
        /\ t \in Seq(Nodes) /\ Len(t) = Len(way) - 1
        /\ \A j \in 1 .. Len(t) : t[j] = way[j]
        /\ Distinct(t)
        /\ Range(t) = Range(way) \ {x}
    BY <1>1, <2>1, Shortened
  <2>3. next = [way |-> t, done |-> d, found |-> FALSE] /\ succ[x] \subseteq done
    BY <1>2, <1>4, <2>1
  <2> HIDE DEF t, x
  <2>4. next \in Walking
    BY <1>1, <2>2, <2>3 DEF Walking
  <2>5. x \notin done /\ Range(t) \cap d = {}
    BY <1>1, <2>2
  <2>6. \A j \in 1 .. Len(t) - 1 : t[j + 1] \in succ[t[j]]
    BY <2>2 DEF Walked
  <2>7. Closed(succ, d)
    BY <2>3 DEF Walked, Closed
  <2>8. ~Looped(succ, d)
    <3> SUFFICES ASSUME NEW C \in SUBSET d, C # {}, \A m \in C : \E k \in C : m \in succ[k]
                 PROVE  FALSE
      BY DEF Looped
    <3>1. x \notin C
      BY <2>3, <2>5 DEF Walked, Closed
    <3> QED BY <3>1 DEF Walked, Looped
  <2>9. Cardinality(d) = Cardinality(done) + 1
    BY <1>1, <2>5, FS_AddElement
  <2>10. Paced(i + 1, nodes, next)
    <3>1. Len(way) + 2 * Cardinality(done) = i
      BY <1>4 DEF Paced
    <3>2. Len(t) + 2 * Cardinality(d) = i + 1
      BY <1>1, <2>2, <2>9, <3>1
    <3>3. next.way = t /\ next.done = d
      BY <2>3
    <3> QED BY <3>2, <3>3 DEF Paced
  <2> QED BY <2>2, <2>3, <2>4, <2>5, <2>6, <2>7, <2>8, <2>10 DEF Walked
<1>5. CASE ~Over(nodes, st) /\ open # {}
  <2>1. n \in open /\ ~st.found
    BY <1>5 DEF Over
  <2>2. n \in Nodes /\ n \notin done /\ (way # <<>> => n \in succ[Last(way)])
    <3>1. CASE way = <<>>
      BY <2>1, <3>1
    <3>2. CASE way # <<>>
      <4>1. Last(way) \in Nodes
        BY <1>1, <3>2, Shortened
      <4> QED BY <2>1, <3>2, <4>1
    <3> QED BY <3>1, <3>2
  <2>3. next = IF n \in Range(way) THEN [st EXCEPT !.found = TRUE] ELSE [st EXCEPT !.way = Append(@, n)]
    BY <1>2, <1>5, <2>1
  <2> HIDE DEF n, open
  <2>4. CASE n \in Range(way)
    <3>1. next = [st EXCEPT !.found = TRUE] /\ next \in Walking
      BY <1>1, <2>3, <2>4 DEF Walking
    <3>2. PICK k \in 1 .. Len(way) : way[k] = n
      BY <1>1, <2>4, InRangeOf
    <3> DEFINE C == {way[j] : j \in k .. Len(way)}
    <3>3. C \in SUBSET Nodes /\ n \in C /\ way[Len(way)] \in C /\ way # <<>>
      BY <1>1, <3>2
    <3>4. ASSUME NEW m \in C PROVE \E e \in C : m \in succ[e]
      <4>1. PICK j \in k .. Len(way) : m = way[j]
        OBVIOUS
      <4>2. CASE j = k
        <5>1. Last(way) = way[Len(way)]
          BY <1>1, <3>3, Shortened
        <5> QED BY <2>2, <3>2, <3>3, <4>1, <4>2, <5>1
      <4>3. CASE j # k
        <5>1. j - 1 \in k .. Len(way) /\ j - 1 \in 1 .. Len(way) - 1 /\ (j - 1) + 1 = j
          BY <1>1, <4>3
        <5>2. way[j] \in succ[way[j - 1]]
          BY <5>1 DEF Walked
        <5> QED BY <4>1, <5>1, <5>2
      <4> QED BY <4>2, <4>3
    <3>5. Looped(succ, Nodes)
      BY <3>3, <3>4 DEF Looped
    <3>6. next.way = way /\ next.done = done /\ next.found
      BY <1>1, <3>1 DEF Walking
    <3> QED BY <1>1, <3>1, <3>5, <3>6 DEF Walked, Paced, Over
  <2>5. CASE n \notin Range(way)
    <3> DEFINE t == Append(way, n)
    <3>1. t \in Seq(Nodes) /\ Distinct(t) /\ Range(t) = Range(way) \union {n}
      BY <1>1, <2>2, <2>5, Appended
    <3>2. Len(t) = Len(way) + 1 /\ t[Len(way) + 1] = n /\ \A j \in 1 .. Len(way) : t[j] = way[j]
      BY <1>1, <2>2
    <3>3. next = [st EXCEPT !.way = t]
      BY <2>3, <2>5
    <3> HIDE DEF t
    <3>4. next \in Walking /\ next.way = t /\ next.done = done /\ ~next.found
      BY <1>1, <2>1, <3>1, <3>3 DEF Walking
    <3>5. ASSUME NEW j \in 1 .. Len(t) - 1 PROVE t[j + 1] \in succ[t[j]]
      <4>1. CASE j = Len(way)
        <5>1. way # <<>>
          BY <4>1
        <5>2. Last(way) = way[Len(way)]
          BY <1>1, <5>1, Shortened
        <5> QED BY <1>1, <2>2, <3>2, <4>1, <5>1, <5>2
      <4>2. CASE j < Len(way)
        <5>1. j \in 1 .. Len(way) - 1 /\ j + 1 \in 1 .. Len(way) /\ j \in 1 .. Len(way)
          BY <1>1, <4>2
        <5> QED BY <3>2, <5>1 DEF Walked
      <4> QED BY <1>1, <3>2, <4>1, <4>2
    <3>6. Paced(i + 1, nodes, next)
      BY <1>1, <1>5, <3>2, <3>4 DEF Paced
    <3>7. Range(t) \cap done = {}
      <4>1. n \notin done /\ Range(way) \cap done = {}
        BY <1>1, <2>2
      <4> QED BY <3>1, <4>1
    <3> QED BY <3>1, <3>4, <3>5, <3>6, <3>7 DEF Walked
  <2> QED BY <2>4, <2>5
<1> QED BY <1>3, <1>4, <1>5

(* A walk that finds no loop has been wherever wires lead.                 *)
LEMMA WalkFound ==
  ASSUME NEW succ \in [Nodes -> SUBSET Nodes], NEW nodes \in SUBSET Nodes
  PROVE  LET found == WalkFindsLoop(succ, nodes) IN
         /\ found \in BOOLEAN
         /\ found => Looped(succ, Nodes)
         /\ ~found => \E D \in SUBSET Nodes :
                        nodes \subseteq D /\ Closed(succ, D) /\ ~Looped(succ, D)
<1> DEFINE N == 2 * NumNodes
           first == [way |-> <<>>, done |-> {}, found |-> FALSE]
           step == WalkOn(succ, nodes)
           Def(h) == [i \in 0 .. N |-> IF i = 0 THEN first ELSE step[h[i - 1]]]
           f == CHOOSE h : h = Def(h)
<1>0. /\ NumNodes \in Nat /\ IsFiniteSet(Nodes) /\ Cardinality(Nodes) = NumNodes
      /\ N \in Nat
  BY NodesAssumption, UpToCount DEF Nodes
<1>1. first \in Walking
  BY DEF Walking
<1>2. step \in [Walking -> Walking]
  <2> SUFFICES ASSUME NEW st \in Walking
               PROVE  step[st] \in Walking
    BY DEF WalkOn
  <2> DEFINE way  == st.way
             open == (IF way = <<>> THEN nodes ELSE succ[Last(way)]) \ st.done
             n    == CHOOSE m \in open : TRUE
  <2>1. step[st] = IF st.found \/ (way = <<>> /\ open = {}) THEN st
                   ELSE IF open = {} THEN [way |-> Front(way), done |-> st.done \union {Last(way)},
                                           found |-> FALSE]
                   ELSE IF n \in Range(way) THEN [st EXCEPT !.found = TRUE]
                   ELSE [st EXCEPT !.way = Append(@, n)]
    BY SameRange DEF WalkOn
  <2>2. way \in Seq(Nodes) /\ st.done \in SUBSET Nodes /\ st.found \in BOOLEAN
    BY DEF Walking
  <2>3. way # <<>> => Last(way) \in Nodes /\ Front(way) \in Seq(Nodes)
    <3> SUFFICES ASSUME way # <<>> PROVE Last(way) \in Nodes /\ Front(way) \in Seq(Nodes)
      OBVIOUS
    <3> HIDE DEF way
    <3>1. Len(way) \in Nat \ {0} /\ \A i \in 1 .. Len(way) : way[i] \in Nodes
      BY <2>2
    <3>2. 1 \in Int /\ Len(way) - 1 \in Int /\ \A i \in 1 .. Len(way) - 1 : way[i] \in Nodes
      BY <3>1
    <3>3. SubSeq(way, 1, Len(way) - 1) \in Seq(Nodes)
      BY <3>2, SubSeqProperties
    <3> QED BY <3>1, <3>3 DEF Last, Front
  <2>4. open # {} => n \in open
    OBVIOUS
  <2>5. open # {} => n \in Nodes
    BY <2>3, <2>4
  <2> HIDE DEF n, open
  <2>6. CASE st.found \/ (way = <<>> /\ open = {})
    BY <2>1, <2>6
  <2>7. CASE ~(st.found \/ (way = <<>> /\ open = {})) /\ open = {}
    BY <2>1, <2>2, <2>3, <2>7 DEF Walking
  <2>8. CASE ~(st.found \/ (way = <<>> /\ open = {})) /\ open # {}
    <3>1. n \in Nodes /\ Append(way, n) \in Seq(Nodes)
      BY <2>2, <2>5, <2>8
    <3> HIDE DEF way
    <3>2. /\ [st EXCEPT !.found = TRUE] \in Walking
          /\ [st EXCEPT !.way = Append(@, n)] \in Walking
      BY <3>1 DEF Walking, way
    <3> QED BY <2>1, <2>8, <3>2
  <2> QED BY <2>6, <2>7, <2>8
<1>3. WalkFindsLoop(succ, nodes) = f[N].found
  BY DEF WalkFindsLoop
<1> HIDE DEF step
<1>4. f[0] = first /\ \A i \in 1 .. N : f[i] = step[f[i - 1]]
  <2>1. N \in Nat
    BY <1>0
  <2>2. \E h : IsRun(h, N, first, step)
    BY <1>1, <1>2, <2>1, RunExists
  <2>3. \E h : h = Def(h)
    BY <2>2 DEF IsRun
  <2> HIDE DEF Def
  <2>4. f = Def(f)
    BY <2>3
  <2> HIDE DEF f
  <2>5. IsRun(f, N, first, step)
    BY <2>4 DEF Def, IsRun
  <2> HIDE DEF N, first
  <2> QED BY <2>1, <2>5, RunGoesOn
<1> HIDE DEF f
<1> DEFINE I == {i \in 0 .. N : Walked(succ, f[i]) /\ Paced(i, nodes, f[i])}
<1>5. 0 \in I
  <2>1. Cardinality({}) = 0 /\ Len(<<>>) = 0 /\ Range(<<>>) = {} /\ Distinct(<<>>)
    BY FS_EmptySet DEF Range, Distinct
  <2>2. first.way = <<>> /\ first.done = {} /\ ~first.found
    OBVIOUS
  <2> HIDE DEF first
  <2>3. Walked(succ, first)
    BY <1>1, <2>1, <2>2 DEF Walked, Closed, Looped
  <2>4. Paced(0, nodes, first)
    BY <2>1, <2>2 DEF Paced
  <2> QED BY <1>0, <1>4, <2>3, <2>4
<1>6. ASSUME NEW i \in 0 .. N - 1, i \in I
      PROVE  i + 1 \in I
  <2>1. f[i + 1] = WalkOn(succ, nodes)[f[i]] /\ i + 1 \in 0 .. N /\ i \in Nat
    BY <1>0, <1>4 DEF step
  <2>2. Walked(succ, f[i]) /\ Paced(i, nodes, f[i])
    BY <1>6
  <2>3. Walked(succ, f[i + 1]) /\ Paced(i + 1, nodes, f[i + 1])
    BY <2>1, <2>2, WalksOn
  <2> QED BY <2>1, <2>3
<1> HIDE DEF I
<1>7. N \in I
  <2>1. \A i \in 0 .. N : i \in I
    BY <1>0, <1>5, <1>6, UpTo
  <2> QED BY <1>0, <2>1
<1> DEFINE last == f[N]
<1>8. Walked(succ, last) /\ Paced(N, nodes, last)
  BY <1>7 DEF I
<1> HIDE DEF last
<1>9. /\ last.way \in Seq(Nodes) /\ last.done \in SUBSET Nodes /\ last.found \in BOOLEAN
  BY <1>8 DEF Walked, Walking
<1>10. last.found \/ nodes \subseteq last.done
  <2>1. CASE Over(nodes, last)
    BY <2>1 DEF Over
  <2>2. CASE Len(last.way) + 2 * Cardinality(last.done) = N
    <3> DEFINE k == Len(last.way)
               d == Cardinality(last.done)
    <3>1. /\ IsFiniteSet(last.done) /\ d \in Nat /\ IsFiniteSet(1 .. k) /\ Cardinality(1 .. k) = k
          /\ k \in Nat
      BY <1>0, <1>9, FS_Subset, FS_CardinalityType, UpToCount
    <3>2. last.way \in Surjection(1 .. k, Range(last.way)) /\ last.way \in Injection(1 .. k, Range(last.way))
      BY <1>8, <1>9, InRangeOf DEF Surjection, Injection, IsInjective, Walked, Distinct
    <3>3. IsFiniteSet(Range(last.way)) /\ Cardinality(Range(last.way)) = k
      BY <3>1, <3>2, FS_Surjection
    <3>4. Range(last.way) \in SUBSET Nodes
      BY <1>9 DEF Range
    <3>5. /\ IsFiniteSet(Range(last.way) \union last.done)
          /\ Cardinality(Range(last.way) \union last.done) = k + d
      BY <1>8, <3>1, <3>3, Disjoint DEF Walked
    <3>6. k + d <= NumNodes
      BY <1>0, <1>9, <3>4, <3>5, FS_Subset
    <3> HIDE DEF k, d
    <3>7. d = NumNodes
      BY <1>0, <2>2, <3>1, <3>6 DEF k, d
    <3>8. last.done = Nodes
      BY <1>0, <1>9, <3>7, FS_Subset DEF d
    <3> QED BY <3>8
  <2> QED BY <1>8, <2>1, <2>2 DEF Paced
<1> QED BY <1>3, <1>8, <1>9, <1>10 DEF Walked, last
-----------------------------------------------------------------------------
(* The counting.                                                           *)

(* The wires between nodes of S, as a list has them.                       *)
Wiring(S, W) == IsFiniteSet(W) /\ \A w \in W : w[1].from \in S /\ w[1].to \in S

(* The wires that have not been taken off.                                 *)
Left(W, R, m) == {w \in W : w[1].to = m /\ w[1].from \notin R}

FedBefore(W, s) ==
  \A i \in 1 .. Len(s) : \A w \in W :
    w[1].to = s[i] => \E j \in 1 .. i - 1 : s[j] = w[1].from

Counted(W, S, st) ==
  /\ st \in Counting
  /\ Distinct(st.queue) /\ Distinct(st.order)
  /\ Range(st.queue) \cap Range(st.order) = {}
  /\ \A m \in Nodes :
       /\ st.left[m] = Cardinality(Left(W, Range(st.order), m))
       /\ m \in Range(st.queue) \union Range(st.order)
            <=> m \in S /\ Left(W, Range(st.order), m) = {}
  /\ FedBefore(W, st.order)

LEMMA TakesOff ==
  ASSUME NEW S \in SUBSET Nodes, NEW W, Wiring(S, W), NEW st, Counted(W, S, st)
  PROVE  LET next == TakeOff(W)[st] IN
         /\ Counted(W, S, next)
         /\ st.queue = <<>> => next = st
         /\ st.queue # <<>> => Len(next.order) = Len(st.order) + 1
<1>1. /\ st \in Counting /\ st.queue \in Seq(Nodes) /\ st.order \in Seq(Nodes)
      /\ st.left \in [Nodes -> Int]
  BY DEF Counted, Counting
<1>2. CASE st.queue = <<>>
  BY <1>1, <1>2 DEF TakeOff
<1>3. CASE st.queue # <<>>
  <2> DEFINE n     == Head(st.queue)
             done  == Range(st.order)
             off(m) == Between(W, n, m)
             left  == [m \in Nodes |-> st.left[m] - Cardinality(off(m))]
             ready == {m \in Nodes : off(m) # {} /\ left[m] = 0}
             new   == InNodeOrder(ready)
             q == Tail(st.queue) \o new
             o == Append(st.order, n)
  <2>1. TakeOff(W)[st] = [queue |-> q, order |-> o, left |-> left]
    <3> DEFINE left0 == [m \in Nodes |-> st.left[m] - Cardinality(off(m))]
               ready0 == {m \in Nodes : off(m) # {} /\ left0[m] = 0}
    <3>1. left0 = left
      OBVIOUS
    <3>2. ready0 = ready
      BY <3>1
    <3>3. TakeOff(W)[st] = [queue |-> Tail(st.queue) \o InNodeOrder(ready0), order |-> o,
                                 left |-> left0]
      <4> DEFINE Off(x) ==
            LET l == [m \in Nodes |-> x.left[m] - Cardinality(Between(W, Head(x.queue), m))]
                r == {m \in Nodes : Between(W, Head(x.queue), m) # {} /\ l[m] = 0}
            IN  [queue |-> Tail(x.queue) \o InNodeOrder(r), order |-> Append(x.order, Head(x.queue)),
                 left |-> l]
      <4>1. TakeOff(W) = [x \in Counting |-> IF x.queue = <<>> THEN x ELSE Off(x)]
        BY DEF TakeOff
      <4>2. Off(st) = [queue |-> Tail(st.queue) \o InNodeOrder(ready0), order |-> o,
                       left |-> left0]
        OBVIOUS
      <4> HIDE DEF Off
      <4> QED BY <1>1, <1>3, <4>1, <4>2
    <3>4. InNodeOrder(ready) = new
      OBVIOUS
    <3> HIDE DEF left0, ready0, left, ready
    <3> QED BY <3>1, <3>2, <3>3, <3>4
  <2>2. /\ n \in Nodes /\ n \in Range(st.queue) /\ n \notin done
        /\ Tail(st.queue) \in Seq(Nodes) /\ Distinct(Tail(st.queue))
        /\ Range(Tail(st.queue)) = Range(st.queue) \ {n}
    BY <1>1, <1>3, Removed DEF Counted
  <2>3. new \in Seq(Nodes) /\ Distinct(new) /\ Range(new) = ready
    <3>1. ready \in SUBSET Nodes
      OBVIOUS
    <3> HIDE DEF ready
    <3> QED BY <3>1, NodesInOrder
  <2> HIDE DEF n, done, new
  <2>4. /\ o \in Seq(Nodes) /\ Distinct(o) /\ Range(o) = done \union {n}
        /\ Len(o) = Len(st.order) + 1 /\ Len(st.order) \in Nat /\ o[Len(st.order) + 1] = n
        /\ \A k \in 1 .. Len(st.order) : o[k] = st.order[k]
    BY <1>1, <2>2, Appended DEF Counted, done
  <2> HIDE DEF o
  <2>5. ASSUME NEW m \in Nodes
        PROVE  /\ left[m] = Cardinality(Left(W, Range(o), m)) /\ left[m] \in Int
               /\ m \in ready <=> off(m) # {} /\ Left(W, Range(o), m) = {}
    <3> DEFINE A == Left(W, done, m)
               B == Left(W, Range(o), m)
               C == off(m)
    <3>1. B = A \ C /\ A \cap C = C
      BY <2>2, <2>4 DEF Left, Between
    <3>2. IsFiniteSet(A)
      <4>1. A \in SUBSET W
        BY DEF Left
      <4> QED BY <4>1, FS_Subset DEF Wiring
    <3>3. IsFiniteSet(B) /\ Cardinality(B) = Cardinality(A) - Cardinality(C)
      <4> HIDE DEF A, B, C
      <4>1. IsFiniteSet(A \ C) /\ Cardinality(A \ C) = Cardinality(A) - Cardinality(A \cap C)
        BY <3>2, FS_Difference
      <4> QED BY <3>1, <4>1
    <3>4. st.left[m] = Cardinality(A)
      BY DEF Counted, done
    <3>5. left[m] = Cardinality(B)
      BY <3>3, <3>4
    <3>6. Cardinality(B) \in Nat /\ (Cardinality(B) = 0 <=> B = {})
      <4> HIDE DEF B
      <4> QED BY <3>3, FS_EmptySet, FS_CardinalityType
    <3> QED BY <3>5, <3>6
  <2>6. left \in [Nodes -> Int]
    BY <2>5
  <2>7. ready \subseteq S
    BY DEF Wiring, Between
  <2>8. \A m \in Nodes : m \in Range(st.queue) \union done <=> m \in S /\ Left(W, done, m) = {}
    BY DEF Counted, done
  <2>9. ready \cap (Range(st.queue) \union done) = {}
    <3> SUFFICES ASSUME NEW m \in Nodes, m \in ready, Left(W, done, m) = {} PROVE FALSE
      BY <2>8
    <3>1. PICK w \in W : w[1].from = n /\ w[1].to = m
      BY DEF Between
    <3> QED BY <2>2, <3>1 DEF Left
  <2> HIDE DEF left, ready
  <2>10. q \in Seq(Nodes) /\ Distinct(q) /\ Range(q) = (Range(st.queue) \ {n}) \union ready
    <3> DEFINE t == Tail(st.queue)
    <3>1. /\ t \in Seq(Nodes) /\ Distinct(t) /\ Range(t) = Range(st.queue) \ {n}
          /\ Range(t) \cap Range(new) = {} /\ q = t \o new
      BY <2>2, <2>3, <2>9
    <3> HIDE DEF t, q
    <3>2. /\ t \o new \in Seq(Nodes) /\ Distinct(t \o new)
          /\ Range(t \o new) = Range(t) \union Range(new)
      BY <2>3, <3>1, Chained
    <3> QED BY <2>3, <3>1, <3>2
  <2> HIDE DEF q
  <2>11. Range(q) \cap Range(o) = {}
    <3>1. Range(st.queue) \cap done = {}
      BY DEF Counted, done
    <3> QED BY <2>2, <2>4, <2>9, <2>10, <3>1
  <2>12. ASSUME NEW m \in Nodes
         PROVE  m \in Range(q) \union Range(o) <=> m \in S /\ Left(W, Range(o), m) = {}
    <3>1. Left(W, Range(o), m) = Left(W, done, m) \ off(m)
      BY <2>4 DEF Left, Between
    <3>2. m \in Range(q) \union Range(o) <=> m \in Range(st.queue) \union done \/ m \in ready
      BY <2>2, <2>4, <2>10
    <3> HIDE DEF off
    <3> QED BY <2>5, <2>7, <2>8, <3>1, <3>2
  <2>13. FedBefore(W, o)
    <3> SUFFICES ASSUME NEW i \in 1 .. Len(o), NEW w \in W, w[1].to = o[i]
                 PROVE  \E j \in 1 .. i - 1 : o[j] = w[1].from
      BY DEF FedBefore
    <3>1. CASE i \in 1 .. Len(st.order)
      <4>1. PICK j \in 1 .. i - 1 : st.order[j] = w[1].from
        BY <2>4, <3>1 DEF Counted, FedBefore
      <4>2. j \in 1 .. Len(st.order)
        BY <2>4, <3>1
      <4> QED BY <2>4, <4>1, <4>2
    <3>2. CASE i = Len(st.order) + 1
      <4>1. Left(W, done, n) = {}
        BY <2>2, <2>8
      <4>2. w[1].from \in done
        BY <2>4, <3>2, <4>1 DEF Left
      <4>3. PICK j \in 1 .. Len(st.order) : st.order[j] = w[1].from
        BY <1>1, <4>2, InRangeOf DEF done
      <4> QED BY <2>4, <3>2, <4>3
    <3> QED BY <2>4, <3>1, <3>2
  <2> DEFINE next == TakeOff(W)[st]
  <2>14. next.queue = q /\ next.order = o /\ next.left = left
    BY <2>1
  <2>15. next \in Counting
    BY <2>1, <2>4, <2>6, <2>10 DEF Counting
  <2> HIDE DEF next
  <2>16. Counted(W, S, next)
    BY <2>4, <2>5, <2>10, <2>11, <2>12, <2>13, <2>14, <2>15 DEF Counted
  <2> QED BY <1>3, <2>4, <2>14, <2>16 DEF next
<1> QED BY <1>2, <1>3

(* What comes out is in order, and nothing is left out but what waits for  *)
(* something that is.                                                      *)
LEMMA Reduced ==
  ASSUME NEW S \in SUBSET Nodes, NEW W, Wiring(S, W)
  PROVE  LET s == Reduce(W, W, S) IN
         /\ s \in Seq(Nodes) /\ Distinct(s) /\ Range(s) \subseteq S /\ FedBefore(W, s)
         /\ \A m \in S : Left(W, Range(s), m) = {} => m \in Range(s)
<1> DEFINE N == NumNodes
           indeg == [m \in Nodes |-> Cardinality({w \in W : w[1].to = m})]
           free == {m \in S : indeg[m] = 0}
           first == [queue |-> InNodeOrder(free), order |-> <<>>, left |-> indeg]
           step == TakeOff(W)
           Def(h) == [i \in 0 .. N |-> IF i = 0 THEN first ELSE step[h[i - 1]]]
           f == CHOOSE h : h = Def(h)
<1>0. N \in Nat
  BY NodesAssumption
<1>1. InNodeOrder(free) \in Seq(Nodes) /\ Distinct(InNodeOrder(free)) /\ Range(InNodeOrder(free)) = free
  <2>1. free \in SUBSET Nodes
    OBVIOUS
  <2> HIDE DEF free
  <2> QED BY <2>1, NodesInOrder
<1>2. ASSUME NEW m \in Nodes
      PROVE  /\ Left(W, {}, m) = {w \in W : w[1].to = m} /\ indeg[m] = Cardinality(Left(W, {}, m))
             /\ indeg[m] \in Int /\ (indeg[m] = 0 <=> Left(W, {}, m) = {})
  <2>1. Left(W, {}, m) = {w \in W : w[1].to = m} /\ Left(W, {}, m) \in SUBSET W
    BY DEF Left
  <2>2. indeg[m] = Cardinality(Left(W, {}, m))
    BY <2>1
  <2>3. IsFiniteSet(Left(W, {}, m))
    BY <2>1, FS_Subset DEF Wiring
  <2>4. Cardinality(Left(W, {}, m)) \in Nat /\ (Cardinality(Left(W, {}, m)) = 0 <=> Left(W, {}, m) = {})
    BY <2>3, FS_EmptySet, FS_CardinalityType
  <2> QED BY <2>1, <2>2, <2>4
<1>3. first \in Counting
  <2>1. indeg \in [Nodes -> Int]
    BY <1>2
  <2> HIDE DEF indeg, free
  <2> QED BY <1>1, <2>1 DEF Counting
<1>4. Counted(W, S, first)
  <2>1. Range(<<>>) = {} /\ Distinct(<<>>) /\ FedBefore(W, <<>>)
    BY DEF Range, Distinct, FedBefore
  <2>2. first.queue = InNodeOrder(free) /\ first.order = <<>> /\ first.left = indeg
    OBVIOUS
  <2>3. \A m \in Nodes : m \in free <=> m \in S /\ Left(W, {}, m) = {}
    BY <1>2
  <2> HIDE DEF first, free, indeg
  <2> QED BY <1>1, <1>2, <1>3, <2>1, <2>2, <2>3 DEF Counted
<1>5. step \in [Counting -> Counting]
  <2> SUFFICES ASSUME NEW st \in Counting, st.queue # <<>>
               PROVE  step[st] \in Counting
    BY DEF TakeOff
  <2> DEFINE n == Head(st.queue)
             left == [m \in Nodes |-> st.left[m] - Cardinality(Between(W, n, m))]
             ready == {m \in Nodes : Between(W, n, m) # {} /\ left[m] = 0}
             new == InNodeOrder(ready)
  <2>1. step[st] = [queue |-> Tail(st.queue) \o new, order |-> Append(st.order, n), left |-> left]
    BY DEF TakeOff
  <2>2. /\ st.queue \in Seq(Nodes) /\ st.order \in Seq(Nodes) /\ st.left \in [Nodes -> Int]
        /\ Tail(st.queue) \in Seq(Nodes) /\ n \in Nodes
    BY DEF Counting
  <2>3. new \in Seq(Nodes)
    <3>1. ready \in SUBSET Nodes
      OBVIOUS
    <3> HIDE DEF ready
    <3> QED BY <3>1, NodesInOrder
  <2>4. left \in [Nodes -> Int]
    <3> SUFFICES ASSUME NEW m \in Nodes
                 PROVE  Cardinality(Between(W, n, m)) \in Int
      BY <2>2
    <3>1. Between(W, n, m) \in SUBSET W
      BY DEF Between
    <3>2. IsFiniteSet(Between(W, n, m))
      BY <3>1, FS_Subset DEF Wiring
    <3> QED BY <3>2, FS_CardinalityType
  <2> HIDE DEF n, left, new
  <2> QED BY <2>1, <2>2, <2>3, <2>4 DEF Counting
<1>6. Reduce(W, W, S) = f[N].order
  <2> DEFINE indeg0 == [m \in Nodes |-> Cardinality({w \in W : w[1].to = m})]
             first0 == [queue |-> InNodeOrder({m \in S : indeg0[m] = 0}), order |-> <<>>,
                        left |-> indeg0]
             Def0(h) == [i \in 0 .. N |-> IF i = 0 THEN first0 ELSE step[h[i - 1]]]
  <2>1. indeg0 = indeg
    OBVIOUS
  <2>2. first0 = first
    <3> HIDE DEF indeg, indeg0
    <3> QED BY <2>1
  <2>3. Reduce(W, W, S) = (CHOOSE h : h = Def0(h))[N].order
    BY DEF Reduce
  <2> HIDE DEF first, first0, step
  <2> QED BY <2>2, <2>3
<1> HIDE DEF step, first
<1>7. f[0] = first /\ \A i \in 1 .. N : f[i] = step[f[i - 1]]
  <2>1. \E h : IsRun(h, N, first, step)
    BY <1>0, <1>3, <1>5, RunExists
  <2>2. \E h : h = Def(h)
    BY <2>1 DEF IsRun
  <2> HIDE DEF Def
  <2>3. f = Def(f)
    BY <2>2
  <2> HIDE DEF f
  <2>4. IsRun(f, N, first, step)
    BY <2>3 DEF Def, IsRun
  <2> HIDE DEF N
  <2> QED BY <1>0, <2>4, RunGoesOn
<1> HIDE DEF f
<1> DEFINE I == {i \in 0 .. N : /\ Counted(W, S, f[i])
                                /\ f[i].queue = <<>> \/ Len(f[i].order) = i}
<1>8. 0 \in I
  <2>1. first.order = <<>>
    BY DEF first
  <2> QED BY <1>0, <1>4, <1>7, <2>1
<1>9. ASSUME NEW i \in 0 .. N - 1, i \in I
      PROVE  i + 1 \in I
  <2>1. f[i + 1] = TakeOff(W)[f[i]] /\ i + 1 \in 0 .. N
    BY <1>0, <1>7 DEF step
  <2>2. Counted(W, S, f[i]) /\ (f[i].queue = <<>> \/ Len(f[i].order) = i)
    BY <1>9
  <2>3. /\ Counted(W, S, f[i + 1])
        /\ f[i].queue = <<>> => f[i + 1] = f[i]
        /\ f[i].queue # <<>> => Len(f[i + 1].order) = Len(f[i].order) + 1
    BY <2>1, <2>2, TakesOff
  <2> QED BY <2>1, <2>2, <2>3
<1> HIDE DEF I
<1>10. N \in I
  <2>1. \A i \in 0 .. N : i \in I
    BY <1>0, <1>8, <1>9, UpTo
  <2> QED BY <1>0, <2>1
<1> DEFINE last == f[N]
<1>11. Counted(W, S, last) /\ (last.queue = <<>> \/ Len(last.order) = NumNodes)
  BY <1>10 DEF I
<1> HIDE DEF last
<1>12. last.queue \in Seq(Nodes) /\ last.order \in Seq(Nodes) /\ Range(last.order) \subseteq Nodes
  BY <1>11 DEF Counted, Counting, Range
<1>13. Range(last.queue) = {}
  <2>1. CASE last.queue = <<>>
    BY <2>1 DEF Range
  <2>2. CASE Len(last.order) = NumNodes
    <3>1. Range(last.order) = Nodes
      BY <1>11, <1>12, <2>2, AllPlaced DEF Counted
    <3>2. Range(last.queue) \subseteq Nodes
      BY <1>12 DEF Range
    <3> QED BY <1>11, <3>1, <3>2 DEF Counted
  <2> QED BY <1>11, <2>1, <2>2
<1>14. /\ Distinct(last.order) /\ FedBefore(W, last.order)
       /\ \A m \in Nodes : m \in Range(last.order) <=> m \in S /\ Left(W, Range(last.order), m) = {}
  BY <1>11, <1>13 DEF Counted
<1> QED BY <1>6, <1>12, <1>14 DEF last

(* So all are in order exactly if nothing is fed by itself.                *)
Fed(S, W) ==
  \E C \in SUBSET S : C # {} /\ \A m \in C : \E w \in W : w[1].to = m /\ w[1].from \in C

LEMMA Ordered ==
  ASSUME NEW S \in SUBSET Nodes, NEW W, Wiring(S, W)
  PROVE  LET s == Reduce(W, W, S) IN
         /\ Range(s) = S <=> ~Fed(S, W)
         /\ Len(s) = Cardinality(S) <=> ~Fed(S, W)
<1> DEFINE s == Reduce(W, W, S)
<1>0. NumNodes \in Nat /\ IsFiniteSet(S)
  BY NodesAssumption, UpToCount, FS_Subset DEF Nodes
<1>1. /\ s \in Seq(Nodes) /\ Distinct(s) /\ Range(s) \subseteq S /\ FedBefore(W, s)
      /\ \A m \in S : Left(W, Range(s), m) = {} => m \in Range(s)
  BY Reduced
<1> HIDE DEF s
<1>2. Len(s) \in Nat
  BY <1>1
<1>3. ASSUME Range(s) # S PROVE Fed(S, W)
  <2> DEFINE C == S \ Range(s)
  <2>1. C # {}
    BY <1>1, <1>3
  <2>2. ASSUME NEW m \in C PROVE \E w \in W : w[1].to = m /\ w[1].from \in C
    <3>1. PICK w \in W : w[1].to = m /\ w[1].from \notin Range(s)
      BY <1>1 DEF Left
    <3> QED BY <3>1 DEF Wiring
  <2> QED BY <2>1, <2>2 DEF Fed
<1>4. ASSUME Range(s) = S, Fed(S, W) PROVE FALSE
  <2>1. PICK C \in SUBSET S : C # {} /\ \A m \in C : \E w \in W : w[1].to = m /\ w[1].from \in C
    BY <1>4 DEF Fed
  <2> DEFINE I == {i \in 0 .. Len(s) : \A j \in 1 .. i : s[j] \notin C}
  <2>2. 0 \in I
    BY <1>2
  <2>3. ASSUME NEW i \in 0 .. Len(s) - 1, i \in I
        PROVE  i + 1 \in I
    <3>1. s[i + 1] \notin C
      <4>1. SUFFICES ASSUME s[i + 1] \in C PROVE FALSE
        OBVIOUS
      <4>2. PICK w \in W : w[1].to = s[i + 1] /\ w[1].from \in C
        BY <2>1, <4>1
      <4>3. i + 1 \in 1 .. Len(s) /\ 1 .. (i + 1) - 1 = 1 .. i
        BY <1>2
      <4>4. PICK j \in 1 .. i : s[j] = w[1].from
        BY <1>1, <4>2, <4>3 DEF FedBefore
      <4> QED BY <2>3, <4>2, <4>4
    <3>2. \A j \in 1 .. i + 1 : j \in 1 .. i \/ j = i + 1
      BY <1>2
    <3> QED BY <1>2, <2>3, <3>1, <3>2
  <2> HIDE DEF I
  <2>4. Len(s) \in I
    <3>1. \A i \in 0 .. Len(s) : i \in I
      BY <1>2, <2>2, <2>3, UpTo
    <3> QED BY <1>2, <3>1
  <2>5. \A j \in 1 .. Len(s) : s[j] \notin C
    BY <2>4 DEF I
  <2>6. \A m \in S : \E j \in 1 .. Len(s) : s[j] = m
    BY <1>1, <1>4, InRangeOf
  <2> QED BY <2>1, <2>5, <2>6
<1>5. Len(s) = Cardinality(S) <=> Range(s) = S
  <2>1. s \in Surjection(1 .. Len(s), Range(s)) /\ s \in Injection(1 .. Len(s), Range(s))
    BY <1>1, InRangeOf DEF Surjection, Injection, IsInjective, Distinct
  <2>2. IsFiniteSet(1 .. Len(s)) /\ Cardinality(1 .. Len(s)) = Len(s)
    BY <1>2, UpToCount
  <2>3. Cardinality(Range(s)) = Len(s)
    BY <2>1, <2>2, FS_Surjection
  <2> QED BY <1>0, <1>1, <2>3, FS_Subset
<1> QED BY <1>3, <1>4, <1>5 DEF s

-----------------------------------------------------------------------------
(* Graphs.                                                                 *)

(* Some nodes of the graph are fed from among themselves.                  *)
Circular(g) ==
  \E C \in SUBSET g.nodes :
    C # {} /\ \A m \in C : \E l \in Wires(g) : l.to = m /\ l.from \in C

LEMMA LooplessIs == \A g : Loopless(g) <=> ~Circular(g)
BY DEF Loopless, Circular

LEMMA GraphFacts ==
  ASSUME NEW g, IsGraph(g)
  PROVE  /\ g.nodes \in SUBSET Nodes /\ IsFiniteSet(g.nodes) /\ IsFiniteSet(Wires(g))
         /\ \A l \in Wires(g) : /\ l \in Link /\ l.from \in Nodes /\ l.to \in Nodes
                                /\ g.wires[l] \in Nat \ {0} /\ Copies(g, l) = g.wires[l]
         /\ Adjacent(g) \in [Nodes -> SUBSET Nodes]
         /\ [n \in Nodes |-> Onward(g, n)] \in [Nodes -> SUBSET Nodes]
<1>1. /\ g.nodes \in SUBSET Nodes /\ IsABag(g.wires) /\ Wires(g) \subseteq Link
      /\ IsFiniteSet(Wires(g))
  BY DEF IsGraph
<1>2. IsFiniteSet(g.nodes)
  BY <1>1, NodesAssumption, UpToCount, FS_Subset DEF Nodes
<1>3. ASSUME NEW l \in Wires(g)
      PROVE  /\ l \in Link /\ l.from \in Nodes /\ l.to \in Nodes
             /\ g.wires[l] \in Nat \ {0} /\ Copies(g, l) = g.wires[l]
  <2>1. l \in Link /\ l.from \in Nodes /\ l.to \in Nodes
    BY <1>1, WiringAssumption
  <2>2. g.wires[l] \in Nat \ {0}
    BY <1>1 DEF IsABag, Wires
  <2> QED BY <2>1, <2>2 DEF Copies
<1>4. \A n \in Nodes : Onward(g, n) \in SUBSET Nodes
  BY <1>3 DEF Onward
<1> QED BY <1>1, <1>2, <1>3, <1>4 DEF Adjacent

(* The list of wires is finite.                                            *)
LEMMA EachFinite ==
  ASSUME NEW g, IsGraph(g)
  PROVE  IsFiniteSet(Each(g))
<1> DEFINE each == [l \in Wires(g) |-> {l} \X (1 .. Copies(g, l))]
           parts == {each[l] : l \in Wires(g)}
<1>1. /\ IsFiniteSet(Wires(g))
      /\ \A l \in Wires(g) : Copies(g, l) \in Nat
  BY GraphFacts
<1>2. IsFiniteSet(parts)
  <2>1. each \in Surjection(Wires(g), parts)
    BY DEF Surjection
  <2> HIDE DEF each, parts
  <2> QED BY <1>1, <2>1, FS_Surjection
<1>3. ASSUME NEW l \in Wires(g) PROVE IsFiniteSet(each[l])
  <2>1. IsFiniteSet({l}) /\ IsFiniteSet(1 .. Copies(g, l))
    BY <1>1, UpToCount, FS_Singleton
  <2>2. IsFiniteSet({l} \X (1 .. Copies(g, l)))
    BY <2>1, FS_Product
  <2> QED BY <2>2
<1>4. IsFiniteSet(UNION parts)
  <2>1. \A T \in parts : IsFiniteSet(T)
    BY <1>3
  <2> HIDE DEF parts
  <2> QED BY <1>2, <2>1, FS_UNION
<1>5. Each(g) = UNION parts
  BY DEF Each
<1> QED BY <1>4, <1>5

LEMMA EachWired ==
  ASSUME NEW g, IsGraph(g), NEW W, W \subseteq Each(g),
         \A w \in W : Joined(g, w[1])
  PROVE  Wiring(g.nodes, W)
<1>1. IsFiniteSet(W)
  BY EachFinite, FS_Subset
<1> QED BY <1>1 DEF Wiring, Joined

LEMMA EachIs ==
  ASSUME NEW g, IsGraph(g)
  PROVE  /\ \A w \in Each(g) : w[1] \in Wires(g)
         /\ \A l \in Wires(g) : \E w \in Each(g) : w[1] = l
<1>1. ASSUME NEW w \in Each(g) PROVE w[1] \in Wires(g)
  <2>1. PICK l \in Wires(g) : w \in {l} \X (1 .. Copies(g, l))
    BY DEF Each
  <2> QED BY <2>1
<1>2. ASSUME NEW l \in Wires(g) PROVE \E w \in Each(g) : w[1] = l
  <2>1. 1 \in 1 .. Copies(g, l)
    BY GraphFacts
  <2>2. <<l, 1>> \in Each(g)
    BY <2>1 DEF Each
  <2> QED BY <2>2
<1> QED BY <1>1, <1>2

(* The panel's counting, the walk of the check before a run and that of    *)
(* the server say the same.                                                *)
LEMMA LintLoops ==
  ASSUME NEW g, IsGraph(g)
  PROVE  LintCycle(g) <=> ~Loopless(g)
<1> DEFINE inner == {w \in Each(g) : Joined(g, w[1])}
<1>1. g.nodes \in SUBSET Nodes /\ Wiring(g.nodes, inner)
  BY GraphFacts, EachWired
<1>2. Fed(g.nodes, inner) <=> Circular(g)
  <2>1. ASSUME NEW C \in SUBSET g.nodes, NEW m \in C
        PROVE  (\E w \in inner : w[1].to = m /\ w[1].from \in C)
                 <=> \E l \in Wires(g) : l.to = m /\ l.from \in C
    BY EachIs DEF Joined
  <2> HIDE DEF inner
  <2>2. ASSUME NEW C \in SUBSET g.nodes
        PROVE  (\A m \in C : \E w \in inner : w[1].to = m /\ w[1].from \in C)
                 <=> \A m \in C : \E l \in Wires(g) : l.to = m /\ l.from \in C
    BY <2>1
  <2> QED BY <2>2 DEF Fed, Circular
<1>3. LintCycle(g) <=> g.nodes \ Range(Reduce(inner, inner, g.nodes)) # {}
  BY SameRange DEF LintCycle
<1> HIDE DEF inner
<1>4. Range(Reduce(inner, inner, g.nodes)) \subseteq g.nodes
  BY <1>1, Reduced
<1>5. Range(Reduce(inner, inner, g.nodes)) = g.nodes <=> ~Fed(g.nodes, inner)
  BY <1>1, Ordered
<1> QED BY <1>2, <1>3, <1>4, <1>5, LooplessIs

LEMMA CheckLoops ==
  ASSUME NEW g, IsGraph(g)
  PROVE  FindCycle(g) <=> ~Loopless(g)
<1> DEFINE succ == Adjacent(g)
<1>1. g.nodes \in SUBSET Nodes /\ succ \in [Nodes -> SUBSET Nodes]
  BY GraphFacts
<1>2. \A n \in Nodes : succ[n] = IF n \in g.nodes THEN Onward(g, n) ELSE {}
  BY DEF Adjacent
<1> HIDE DEF succ
<1>3. FindCycle(g) => Looped(succ, Nodes)
  BY <1>1, WalkFound DEF FindCycle, succ
<1>4. Looped(succ, Nodes) => Circular(g)
  <2> SUFFICES ASSUME NEW C \in SUBSET Nodes, C # {}, \A m \in C : \E n \in C : m \in succ[n]
               PROVE  Circular(g)
    BY DEF Looped
  <2> DEFINE D == C \cap g.nodes
  <2>1. \A m \in C : \E n \in D : m \in Onward(g, n)
    BY <1>2
  <2>2. D # {} /\ D \in SUBSET g.nodes
    BY <2>1
  <2>3. ASSUME NEW m \in D PROVE \E l \in Wires(g) : l.to = m /\ l.from \in D
    BY <2>1 DEF Onward
  <2> HIDE DEF D
  <2> QED BY <2>2, <2>3 DEF Circular
<1>5. ASSUME ~FindCycle(g) PROVE ~Circular(g)
  <2>1. PICK D \in SUBSET Nodes : g.nodes \subseteq D /\ ~Looped(succ, D)
    BY <1>1, <1>5, WalkFound DEF FindCycle, succ
  <2> SUFFICES ASSUME NEW C \in SUBSET g.nodes, C # {},
                      \A m \in C : \E l \in Wires(g) : l.to = m /\ l.from \in C
               PROVE  Looped(succ, D)
    BY <2>1 DEF Circular
  <2>2. ASSUME NEW m \in C PROVE \E n \in C : m \in succ[n]
    <3>1. PICK l \in Wires(g) : l.to = m /\ l.from \in C
      OBVIOUS
    <3> QED BY <1>1, <1>2, <3>1 DEF Onward
  <2> QED BY <2>1, <2>2 DEF Looped
<1>6. FindCycle(g) \in BOOLEAN
  BY <1>1, WalkFound DEF FindCycle, succ
<1> QED BY <1>3, <1>4, <1>5, LooplessIs

LEMMA ServerLoops ==
  ASSUME NEW g, IsGraph(g), ~ServerFindsCycle(g)
  PROVE  Loopless(g)
<1> DEFINE succ == [n \in Nodes |-> Onward(g, n)]
<1>1. /\ g.nodes \in SUBSET Nodes /\ succ \in [Nodes -> SUBSET Nodes]
      /\ \A n \in Nodes : succ[n] = Onward(g, n)
  BY GraphFacts
<1>2. ~WalkFindsLoop(succ, g.nodes)
  BY DEF ServerFindsCycle
<1> HIDE DEF succ
<1>3. PICK D \in SUBSET Nodes : g.nodes \subseteq D /\ ~Looped(succ, D)
  BY <1>1, <1>2, WalkFound
<1>4. ASSUME NEW C \in SUBSET g.nodes, C # {},
             \A m \in C : \E l \in Wires(g) : l.to = m /\ l.from \in C
      PROVE  Looped(succ, D)
  <2>1. ASSUME NEW m \in C PROVE \E n \in C : m \in succ[n]
    <3>1. PICK l \in Wires(g) : l.to = m /\ l.from \in C
      BY <1>4
    <3> QED BY <1>1, <3>1 DEF Onward
  <2> QED BY <1>3, <1>4, <2>1 DEF Looped
<1> QED BY <1>3, <1>4, LooplessIs DEF Circular

-----------------------------------------------------------------------------
(* One wire more, or some fewer.                                           *)

Throughout(g) == \A l \in Wires(g) : Joined(g, l)

LEMMA AddedWire ==
  ASSUME NEW g, IsGraph(g), NEW l \in Link
  PROVE  LET h == AddWire(g, l) IN
         /\ IsGraph(h) /\ h.nodes = g.nodes
         /\ Wires(h) = Wires(g) \union {l}
         /\ l \notin Wires(g) => Copies(h, l) = 1
         /\ \A k \in Wires(g) : k # l => Copies(h, k) = Copies(g, k)
         /\ \A n, p : Into(h, n, p) = Into(g, n, p)
                                            \union {k \in {l} : k.to = n /\ k.tp = p}
<1> DEFINE h == AddWire(g, l)
           b == g.wires (+) SetToBag({l})
<1>1. /\ g = [nodes |-> g.nodes, wires |-> g.wires, untimed |-> g.untimed]
      /\ g.nodes \subseteq Nodes /\ g.untimed \subseteq g.nodes
      /\ DOMAIN g.wires \subseteq Link /\ IsFiniteSet(DOMAIN g.wires)
      /\ g.wires \in [DOMAIN g.wires -> {n \in Nat : n > 0}]
  BY DEF IsGraph, IsABag, Wires
<1>2. /\ DOMAIN b = DOMAIN g.wires \union {l}
      /\ \A k \in DOMAIN g.wires : k # l => b[k] = g.wires[k]
      /\ b[l] = IF l \in DOMAIN g.wires THEN g.wires[l] + 1 ELSE 1
      /\ b \in [DOMAIN b -> {n \in Nat : n > 0}]
  <2>1. CASE l \in DOMAIN g.wires
    <3>1. b = [e \in DOMAIN g.wires |-> IF e = l THEN g.wires[e] + 1 ELSE g.wires[e]]
      BY <1>1, <2>1 DEF (+), SetToBag
    <3> HIDE DEF b
    <3> QED BY <1>1, <2>1, <3>1
  <2>2. CASE l \notin DOMAIN g.wires
    <3>1. b = [e \in DOMAIN g.wires \union {l} |-> IF e = l THEN 1 ELSE g.wires[e]]
      BY <1>1, <2>2 DEF (+), SetToBag
    <3> HIDE DEF b
    <3> QED BY <1>1, <2>2, <3>1
  <2> QED BY <2>1, <2>2
<1>3. h = [nodes |-> g.nodes, wires |-> b, untimed |-> g.untimed]
  BY <1>1 DEF AddWire
<1> HIDE DEF h, b
<1>4. h.nodes = g.nodes /\ h.wires = b /\ h.untimed = g.untimed
  BY <1>3
<1>5. Wires(h) = Wires(g) \union {l}
  BY <1>2, <1>4 DEF Wires
<1>6. IsFiniteSet(Wires(h))
  BY <1>1, <1>5, FS_AddElement DEF Wires
<1>7. IsGraph(h)
  BY <1>1, <1>2, <1>3, <1>4, <1>5, <1>6 DEF IsGraph, IsABag, Wires
<1> QED BY <1>2, <1>4, <1>5, <1>7 DEF h, Copies, Into, Wires

(* The wire that canConnect lets be drawn closes no loop, and the others   *)
(* would have closed one.                                                  *)
LEMMA OneLoop ==
  ASSUME NEW g, IsGraph(g), Throughout(g), Loopless(g),
         NEW l \in Link, Joined(g, l)
  PROVE  Loopless(AddWire(g, l))
           <=> l.from # l.to /\ l.from \notin Follow(Adjacent(g), l.to)
<1> DEFINE h == AddWire(g, l)
           succ == Adjacent(g)
           S == Follow(succ, l.to)
           T == S \union {l.to}
<1>1. /\ g.nodes \in SUBSET Nodes /\ succ \in [Nodes -> SUBSET Nodes]
      /\ l.from \in g.nodes /\ l.to \in g.nodes
      /\ \A n \in Nodes : succ[n] = IF n \in g.nodes THEN Onward(g, n) ELSE {}
  BY GraphFacts DEF Joined, Adjacent
<1>2. h.nodes = g.nodes /\ Wires(h) = Wires(g) \union {l}
  BY AddedWire
<1> HIDE DEF succ, h
<1>3. /\ S \in SUBSET Nodes /\ succ[l.to] \subseteq S /\ Closed(succ, S)
      /\ \A U \in SUBSET Nodes : succ[l.to] \subseteq U /\ Closed(succ, U) => S \subseteq U
  BY <1>1, Searched
<1> HIDE DEF S
<1>4. \A k \in Wires(g) : k.from \in g.nodes /\ k.to \in g.nodes /\ k.to \in succ[k.from]
  BY <1>1 DEF Throughout, Joined, Onward
<1>5. \A n \in Nodes : \A m \in succ[n] : \E k \in Wires(g) : k.from = n /\ k.to = m
  BY <1>1 DEF Onward
<1>6. \A k \in Wires(g) : k.from \in T => k.to \in T
  BY <1>3, <1>4 DEF Closed
<1>7. ASSUME l.from # l.to, l.from \notin S, Circular(h)
      PROVE  Circular(g)
  <2>1. PICK C \in SUBSET g.nodes :
          C # {} /\ \A m \in C : \E k \in Wires(h) : k.to = m /\ k.from \in C
    BY <1>2, <1>7 DEF Circular
  <2>2. CASE C \subseteq T
    <3>1. \A m \in C : \E k \in Wires(g) : k.to = m /\ k.from \in C
      BY <1>2, <1>7, <2>1, <2>2
    <3> QED BY <2>1, <3>1 DEF Circular
  <2>3. CASE ~(C \subseteq T)
    <3> DEFINE D == C \ T
    <3>1. D # {} /\ D \in SUBSET g.nodes
      BY <2>3
    <3>2. ASSUME NEW m \in D PROVE \E k \in Wires(g) : k.to = m /\ k.from \in D
      <4>1. PICK k \in Wires(h) : k.to = m /\ k.from \in C
        BY <2>1
      <4>2. k \in Wires(g)
        BY <1>2, <4>1
      <4> QED BY <1>6, <4>1, <4>2
    <3> HIDE DEF D
    <3> QED BY <3>1, <3>2 DEF Circular
  <2> QED BY <2>2, <2>3
<1>8. ASSUME l.from = l.to
      PROVE  Circular(h)
  <2>1. {l.to} \in SUBSET h.nodes /\ \A m \in {l.to} : \E k \in Wires(h) : k.to = m /\ k.from \in {l.to}
    BY <1>1, <1>2, <1>8
  <2> QED BY <2>1 DEF Circular
<1>9. ASSUME l.from \in S
      PROVE  Circular(h)
  <2> DEFINE U == {m \in S : \E n \in T : m \in succ[n]}
  <2>1. U \in SUBSET Nodes /\ succ[l.to] \subseteq U /\ Closed(succ, U)
    BY <1>3 DEF Closed
  <2>2. S \subseteq U
    <3> HIDE DEF U
    <3> QED BY <1>3, <2>1
  <2>3. g.nodes \in SUBSET Nodes /\ succ[l.to] \subseteq g.nodes /\ Closed(succ, g.nodes)
    BY <1>1, <1>4, <1>5 DEF Closed
  <2>4. S \subseteq g.nodes
    BY <1>3, <2>3
  <2>5. ASSUME NEW m \in T PROVE \E k \in Wires(h) : k.to = m /\ k.from \in T
    <3>1. CASE m = l.to
      BY <1>2, <1>9, <3>1
    <3>2. CASE m \in S
      <4>1. PICK n \in T : m \in succ[n]
        BY <2>2, <3>2
      <4>2. n \in Nodes
        BY <1>1, <1>3
      <4> QED BY <1>2, <1>5, <4>1, <4>2
    <3> QED BY <3>1, <3>2
  <2>6. T \in SUBSET h.nodes /\ T # {}
    BY <1>1, <1>2, <2>4
  <2> HIDE DEF T
  <2> QED BY <2>5, <2>6 DEF Circular
<1> QED BY <1>7, <1>8, <1>9, LooplessIs DEF h, S, succ

LEMMA Fewer ==
  ASSUME NEW g, NEW h, Shaped(g), Wires(h) \subseteq Wires(g),
         \A l \in Wires(h) : /\ Joined(h, l)
                             /\ <<l.to, l.tp>> \in Multiple \/ Copies(h, l) = Copies(g, l)
  PROVE  Shaped(h)
<1>1. Loopless(h)
  <2> SUFFICES ASSUME NEW C \in SUBSET h.nodes, C # {},
                      \A m \in C : \E l \in Wires(h) : l.to = m /\ l.from \in C
               PROVE  FALSE
    BY LooplessIs DEF Circular
  <2>1. \A l \in Wires(h) : l.from \in g.nodes /\ l.to \in g.nodes
    BY DEF Shaped, Joined
  <2>2. C \in SUBSET g.nodes
    BY <2>1
  <2>3. Circular(g)
    BY <2>2 DEF Circular
  <2> QED BY <2>3, LooplessIs DEF Shaped
<1>2. \A l \in Wires(h) : Joined(h, l) /\ HasPorts(l)
  BY DEF Shaped
<1>3. ASSUME NEW l \in Wires(h), <<l.to, l.tp>> \notin Multiple
      PROVE  Copies(h, l) = 1 /\ Into(h, l.to, l.tp) = {l}
  <2>1. Copies(g, l) = 1 /\ Into(g, l.to, l.tp) = {l}
    BY <1>3 DEF Shaped
  <2> QED BY <1>3, <2>1 DEF Into
<1> QED BY <1>1, <1>2, <1>3 DEF Shaped

LEMMA OneMore ==
  ASSUME NEW g, IsGraph(g), Shaped(g), NEW l \in Link,
         Joined(g, l), HasPorts(l),
         <<l.to, l.tp>> \in Multiple \/ Into(g, l.to, l.tp) = {},
         Loopless(AddWire(g, l))
  PROVE  Shaped(AddWire(g, l))
<1> DEFINE h == AddWire(g, l)
<1>1. /\ IsGraph(h) /\ h.nodes = g.nodes
      /\ Wires(h) = Wires(g) \union {l}
      /\ l \notin Wires(g) => Copies(h, l) = 1
      /\ \A k \in Wires(g) : k # l => Copies(h, k) = Copies(g, k)
      /\ \A n, p : Into(h, n, p) = Into(g, n, p)
                                         \union {k \in {l} : k.to = n /\ k.tp = p}
  BY AddedWire
<1> HIDE DEF h
<1>2. \A k \in Wires(h) : Joined(h, k) /\ HasPorts(k)
  BY <1>1 DEF Shaped, Joined
<1>3. ASSUME NEW k \in Wires(h), <<k.to, k.tp>> \notin Multiple
      PROVE  Copies(h, k) = 1 /\ Into(h, k.to, k.tp) = {k}
  <2>1. CASE k = l
    <3>1. Into(g, l.to, l.tp) = {} /\ l \notin Wires(g)
      BY <1>3, <2>1 DEF Into
    <3>2. Into(h, l.to, l.tp) = {l}
      BY <1>1, <3>1
    <3> QED BY <1>1, <2>1, <3>1, <3>2
  <2>2. CASE k # l
    <3>1. k \in Wires(g) /\ Copies(g, k) = 1 /\ Into(g, k.to, k.tp) = {k}
      BY <1>1, <1>3, <2>2 DEF Shaped
    <3>2. ~(l.to = k.to /\ l.tp = k.tp)
      BY <1>3, <3>1
    <3>3. Into(h, k.to, k.tp) = {k}
      BY <1>1, <3>1, <3>2
    <3> QED BY <1>1, <2>2, <3>1, <3>3
  <2> QED BY <2>1, <2>2
<1> QED BY <1>2, <1>3 DEF Shaped, h

LEMMA RemovedWire ==
  ASSUME NEW g, IsGraph(g), NEW l \in Wires(g)
  PROVE  LET h == RemoveWire(g, l) IN
         /\ IsGraph(h) /\ h.nodes = g.nodes
         /\ Wires(h) \subseteq Wires(g)
         /\ \A k \in Wires(h) : Copies(h, k) = Copies(g, k) \/ Copies(g, k) # 1
<1> DEFINE h == RemoveWire(g, l)
           b == g.wires (-) SetToBag({l})
<1>1. /\ g = [nodes |-> g.nodes, wires |-> g.wires, untimed |-> g.untimed] /\ l \in DOMAIN g.wires
      /\ g.nodes \subseteq Nodes /\ g.untimed \subseteq g.nodes
      /\ DOMAIN g.wires \subseteq Link /\ IsFiniteSet(DOMAIN g.wires)
      /\ g.wires \in [DOMAIN g.wires -> {n \in Nat : n > 0}]
  BY DEF IsGraph, IsABag, Wires
<1>2. /\ DOMAIN b \subseteq DOMAIN g.wires
      /\ \A k \in DOMAIN b : b[k] = g.wires[k] \/ g.wires[k] # 1
      /\ b \in [DOMAIN b -> {n \in Nat : n > 0}]
  <2>1. CASE g.wires[l] = 1
    <3>1. b = [e \in DOMAIN g.wires \ {l} |-> g.wires[e]]
      BY <1>1, <2>1 DEF (-), SetToBag
    <3> HIDE DEF b
    <3> QED BY <1>1, <2>1, <3>1
  <2>2. CASE g.wires[l] # 1
    <3>1. b = [e \in DOMAIN g.wires |-> IF e = l THEN g.wires[e] - 1 ELSE g.wires[e]]
      BY <1>1, <2>2 DEF (-), SetToBag
    <3> HIDE DEF b
    <3> QED BY <1>1, <2>2, <3>1
  <2> QED BY <2>1, <2>2
<1>3. h = [nodes |-> g.nodes, wires |-> b, untimed |-> g.untimed]
  BY <1>1 DEF RemoveWire
<1> HIDE DEF h, b
<1>4. h.nodes = g.nodes /\ h.wires = b /\ h.untimed = g.untimed
  BY <1>3
<1>5. IsFiniteSet(DOMAIN b)
  BY <1>1, <1>2, FS_Subset
<1>6. IsGraph(h)
  BY <1>1, <1>2, <1>3, <1>4, <1>5 DEF IsGraph, IsABag, Wires
<1> QED BY <1>2, <1>4, <1>6 DEF h, Copies, Wires

LEMMA WithoutSome ==
  ASSUME NEW g, IsGraph(g), NEW ls
  PROVE  LET h == WithoutWires(g, ls) IN
         /\ IsGraph(h) /\ h.nodes = g.nodes
         /\ Wires(h) = Wires(g) \ ls
         /\ \A k \in Wires(h) : Copies(h, k) = Copies(g, k)
<1> DEFINE h == WithoutWires(g, ls)
           b == [k \in DOMAIN g.wires \ ls |-> g.wires[k]]
<1>1. /\ g = [nodes |-> g.nodes, wires |-> g.wires, untimed |-> g.untimed]
      /\ g.nodes \subseteq Nodes /\ g.untimed \subseteq g.nodes
      /\ DOMAIN g.wires \subseteq Link /\ IsFiniteSet(DOMAIN g.wires)
      /\ g.wires \in [DOMAIN g.wires -> {n \in Nat : n > 0}]
  BY DEF IsGraph, IsABag, Wires
<1>2. h = [nodes |-> g.nodes, wires |-> b, untimed |-> g.untimed]
  <2>1. h = [g EXCEPT !.wires = b]
    BY DEF WithoutWires
  <2> HIDE DEF h, b
  <2> QED BY <1>1, <2>1
<1>3. /\ DOMAIN b = DOMAIN g.wires \ ls
      /\ \A k \in DOMAIN b : b[k] = g.wires[k]
      /\ b \in [DOMAIN b -> {n \in Nat : n > 0}]
  BY <1>1
<1> HIDE DEF h, b
<1>4. h.nodes = g.nodes /\ h.wires = b /\ h.untimed = g.untimed
  BY <1>2
<1>5. IsFiniteSet(DOMAIN b)
  BY <1>1, <1>3, FS_Subset
<1>6. IsGraph(h)
  BY <1>1, <1>2, <1>3, <1>4, <1>5 DEF IsGraph, IsABag, Wires
<1> QED BY <1>3, <1>4, <1>6 DEF h, Copies, Wires

-----------------------------------------------------------------------------
(* What user and agent keep.                                               *)

(* Graphs, all in order if the one it began with was.                      *)
Drawn(inOrder) ==
  {g \in [nodes : SUBSET Nodes, wires : UNION {[L -> Nat \ {0}] : L \in SUBSET Link},
          untimed : SUBSET Nodes] :
     IsGraph(g) /\ (inOrder => Shaped(g))}

DrawInv ==
  /\ screen \in Drawn(shaped) /\ stored \in Drawn(shaped)
  /\ past \in Seq(Drawn(shaped)) /\ future \in Seq(Drawn(shaped)) /\ saving \in Seq(Drawn(shaped))
  /\ queue \in 0 .. MaxCalls /\ Len(saving) <= 1
  /\ edits \in 0 .. MaxEdits /\ calls \in 0 .. MaxCalls /\ shaped \in BOOLEAN
  /\ queue <= calls

LEMMA DrawnIs ==
  ASSUME NEW b, NEW g
  PROVE  g \in Drawn(b) <=> IsGraph(g) /\ (b => Shaped(g))
<1>1. ASSUME IsGraph(g)
      PROVE  g \in [nodes : SUBSET Nodes, wires : UNION {[L -> Nat \ {0}] : L \in SUBSET Link},
                    untimed : SUBSET Nodes]
  <2>1. /\ g = [nodes |-> g.nodes, wires |-> g.wires, untimed |-> g.untimed]
        /\ g.nodes \in SUBSET Nodes /\ g.untimed \in SUBSET Nodes
        /\ DOMAIN g.wires \in SUBSET Link /\ g.wires \in [DOMAIN g.wires -> {n \in Nat : n > 0}]
    BY <1>1 DEF IsGraph, IsABag, Wires
  <2>2. g.wires \in [DOMAIN g.wires -> Nat \ {0}]
    BY <2>1
  <2> QED BY <2>1, <2>2
<1> QED BY <1>1 DEF Drawn

LEMMA DrawTypes ==
  ASSUME DrawInv
  PROVE  DrawTypeOK /\ StaysShaped
<1>1. \A g \in Held : g \in Drawn(shaped)
  BY SameRange DEF DrawInv, Held, Range
<1> QED BY <1>1, DrawnIs DEF DrawInv, DrawTypeOK, StaysShaped

LEMMA StartsDrawn ==
  ASSUME DrawInit
  PROVE  DrawInv
<1>1. IsGraph(screen) /\ shaped \in BOOLEAN /\ MaxEdits \in Nat /\ MaxCalls \in Nat
  BY WiringAssumption DEF DrawInit, Shaped
<1>2. screen \in Drawn(shaped)
  BY <1>1, DrawnIs DEF DrawInit
<1> QED BY <1>1, <1>2 DEF DrawInv, DrawInit

LEMMA DrawStep ==
  ASSUME DrawInv, [DrawNext]_drawVars
  PROVE  DrawInv'
<1> DEFINE D == Drawn(shaped)
<1>0. IsGraph(screen) /\ IsGraph(stored)
  BY DrawnIs DEF DrawInv
<1>1. ASSUME NEW h, IsGraph(h), shaped => Shaped(h), WithHistory(h)
      PROVE  DrawInv'
  <2>1. h \in Drawn(shaped) /\ shaped' = shaped /\ edits + 1 \in 0 .. MaxEdits
    BY <1>1, DrawnIs, WiringAssumption DEF WithHistory, DrawInv
  <2> QED BY <1>1, <2>1 DEF WithHistory, DrawInv
<1>2. ASSUME NEW n \in Nodes, AddNode(n) PROVE DrawInv'
  <2> DEFINE h == [screen EXCEPT !.nodes = @ \union {n}]
  <2>1. /\ screen = [nodes |-> screen.nodes, wires |-> screen.wires, untimed |-> screen.untimed]
        /\ screen.untimed \subseteq screen.nodes
    BY <1>0 DEF IsGraph
  <2>2. h = [nodes |-> screen.nodes \union {n}, wires |-> screen.wires,
             untimed |-> screen.untimed]
    BY <2>1
  <2> HIDE DEF h
  <2>3. /\ IsGraph(h) /\ h.nodes = screen.nodes \union {n}
        /\ Wires(h) = Wires(screen) /\ h.wires = screen.wires
    BY <1>0, <1>2, <2>1, <2>2 DEF IsGraph, Wires
  <2>4. ASSUME shaped PROVE Shaped(h)
    <3>1. Shaped(screen)
      BY <2>4, DrawnIs DEF DrawInv
    <3>2. \A l \in Wires(h) : Joined(h, l) /\ Copies(h, l) = Copies(screen, l)
      BY <2>3, <3>1 DEF Shaped, Joined, Copies
    <3> QED BY <2>3, <3>1, <3>2, Fewer
  <2>5. WithHistory(h)
    BY <1>2 DEF AddNode, h
  <2> QED BY <1>1, <2>3, <2>4, <2>5
<1>3. ASSUME NEW ns \in SUBSET Nodes, DeleteNodes(ns) PROVE DrawInv'
  <2> DEFINE ls == {l \in Wires(screen) : l.from \in ns \/ l.to \in ns}
             f == [screen EXCEPT !.nodes = @ \ ns, !.untimed = @ \ ns]
             h == WithoutWires(f, ls)
  <2>0. /\ f = [nodes |-> screen.nodes \ ns, wires |-> screen.wires,
                  untimed |-> screen.untimed \ ns]
        /\ screen.untimed \subseteq screen.nodes
    <3>1. /\ screen = [nodes |-> screen.nodes, wires |-> screen.wires, untimed |-> screen.untimed]
          /\ screen.untimed \subseteq screen.nodes
      BY <1>0 DEF IsGraph
    <3> DEFINE a == screen.nodes \ ns
               b == screen.untimed \ ns
    <3>2. f = [screen EXCEPT !.nodes = a, !.untimed = b]
      OBVIOUS
    <3> HIDE DEF f, h, ls, a, b
    <3>3. f = [nodes |-> a, wires |-> screen.wires, untimed |-> b]
      BY <3>1, <3>2
    <3> QED BY <3>1, <3>3 DEF a, b
  <2>1. /\ IsGraph(h) /\ h.nodes = screen.nodes \ ns
        /\ Wires(h) = Wires(screen) \ ls
        /\ \A k \in Wires(h) : Copies(h, k) = Copies(screen, k)
    <3> HIDE DEF f, ls
    <3>1. /\ IsGraph(f) /\ f.nodes = screen.nodes \ ns
          /\ Wires(f) = Wires(screen) /\ f.wires = screen.wires
      BY <1>0, <2>0 DEF IsGraph, Wires
    <3>2. /\ IsGraph(h) /\ h.nodes = f.nodes
          /\ Wires(h) = Wires(f) \ ls
          /\ \A k \in Wires(h) : Copies(h, k) = Copies(f, k)
      BY <3>1, WithoutSome
    <3> HIDE DEF h
    <3> QED BY <3>1, <3>2 DEF Copies
  <2>2. WithHistory(h)
    BY <1>3 DEF DeleteNodes
  <2> HIDE DEF h
  <2>3. ASSUME shaped PROVE Shaped(h)
    <3>1. Shaped(screen)
      BY <2>3, DrawnIs DEF DrawInv
    <3>2. \A l \in Wires(h) : Joined(h, l)
      BY <2>1, <3>1 DEF Shaped, Joined
    <3> QED BY <2>1, <3>1, <3>2, Fewer
  <2> QED BY <1>1, <2>1, <2>2, <2>3
<1>4. ASSUME NEW l \in Link, Connect(l) PROVE DrawInv'
  <2> DEFINE h == AddWire(screen, l)
  <2>1. IsGraph(h)
    BY <1>0, AddedWire
  <2>2. ASSUME shaped PROVE Shaped(h)
    <3>1. Shaped(screen) /\ Throughout(screen) /\ Loopless(screen)
      BY <2>2, DrawnIs DEF DrawInv, Shaped, Throughout
    <3>2. /\ Joined(screen, l) /\ HasPorts(l) /\ l.from # l.to
          /\ <<l.to, l.tp>> \in Multiple \/ Into(screen, l.to, l.tp) = {}
          /\ l.from \notin Follow(Adjacent(screen), l.to)
      BY <1>4 DEF Connect, CanConnect
    <3>3. Loopless(h)
      BY <1>0, <3>1, <3>2, OneLoop
    <3> QED BY <1>0, <3>1, <3>2, <3>3, OneMore
  <2>3. WithHistory(h)
    BY <1>4 DEF Connect
  <2> QED BY <1>1, <2>1, <2>2, <2>3
<1>5. ASSUME NEW l \in Link, Disconnect(l) PROVE DrawInv'
  <2> DEFINE h == RemoveWire(screen, l)
  <2>1. l \in Wires(screen) /\ WithHistory(h)
    BY <1>5 DEF Disconnect
  <2>2. /\ IsGraph(h) /\ h.nodes = screen.nodes
        /\ Wires(h) \subseteq Wires(screen)
        /\ \A k \in Wires(h) : Copies(h, k) = Copies(screen, k) \/ Copies(screen, k) # 1
    BY <1>0, <2>1, RemovedWire
  <2> HIDE DEF h
  <2>3. ASSUME shaped PROVE Shaped(h)
    <3>1. Shaped(screen)
      BY <2>3, DrawnIs DEF DrawInv
    <3>2. \A k \in Wires(h) : /\ Joined(h, k)
                              /\ <<k.to, k.tp>> \in Multiple \/ Copies(h, k) = Copies(screen, k)
      BY <2>2, <3>1 DEF Shaped, Joined
    <3> QED BY <2>2, <3>1, <3>2, Fewer
  <2> QED BY <1>1, <2>1, <2>2, <2>3
<1>6. CASE Undo
  <2>1. /\ Last(past) \in Drawn(shaped) /\ Front(past) \in Seq(Drawn(shaped))
    <3>1. past # <<>> /\ past \in Seq(Drawn(shaped))
      BY <1>6 DEF Undo, DrawInv
    <3>2. Len(past) \in Nat \ {0} /\ \A i \in 1 .. Len(past) : past[i] \in Drawn(shaped)
      BY <3>1
    <3>3. 1 \in Int /\ Len(past) - 1 \in Int /\ \A i \in 1 .. Len(past) - 1 : past[i] \in Drawn(shaped)
      BY <3>2
    <3>4. SubSeq(past, 1, Len(past) - 1) \in Seq(Drawn(shaped))
      BY <3>3, SubSeqProperties
    <3> QED BY <3>2, <3>4 DEF Last, Front
  <2> QED BY <1>6, <2>1 DEF Undo, DrawInv
<1>7. CASE Redo
  BY <1>7 DEF Redo, DrawInv
<1>8. CASE Save
  BY <1>8 DEF Save, DrawInv, store
<1>9. CASE Saved
  BY <1>9 DEF Saved, DrawInv, store
<1>10. CASE Reopen
  BY <1>10 DEF Reopen, DrawInv
<1>11. ASSUME NEW h, IsGraph(h), shaped => Shaped(h), stored' = h,
              Calling, UNCHANGED queue
       PROVE  DrawInv'
  <2>1. h \in Drawn(shaped) /\ calls + 1 \in 0 .. MaxCalls
    BY <1>11, DrawnIs, WiringAssumption DEF Calling, DrawInv
  <2> QED BY <1>11, <2>1 DEF Calling, store, DrawInv
<1>12. ASSUME NEW l \in Link, ConnectPorts(l) PROVE DrawInv'
  <2> DEFINE h == AddWire(stored, l)
  <2>1. IsGraph(h)
    BY <1>0, AddedWire
  <2>2. /\ Joined(stored, l) /\ HasPorts(l) /\ Into(stored, l.to, l.tp) = {}
        /\ ~ServerFindsCycle(h)
        /\ stored' = h /\ Calling /\ UNCHANGED queue
    BY <1>12 DEF ConnectPorts
  <2>3. ASSUME shaped PROVE Shaped(h)
    <3>1. Shaped(stored)
      BY <2>3, DrawnIs DEF DrawInv
    <3>2. Loopless(h)
      BY <2>1, <2>2, ServerLoops
    <3> QED BY <1>0, <2>2, <3>1, <3>2, OneMore
  <2> HIDE DEF h
  <2> QED BY <1>11, <2>1, <2>2, <2>3
<1>13. ASSUME NEW l \in Link, DisconnectPorts(l) PROVE DrawInv'
  <2>1. l \in Wires(stored) /\ Calling /\ UNCHANGED queue
    BY <1>13 DEF DisconnectPorts
  <2>2. /\ IsGraph(stored') /\ stored'.nodes = stored.nodes
        /\ Wires(stored') \subseteq Wires(stored)
        /\ \A k \in Wires(stored') : \/ Copies(stored', k) = Copies(stored, k)
                                     \/ Copies(stored, k) # 1
    <3> DEFINE ls == {w \in Wires(stored) : w.from = l.from /\ w.to = l.to}
               h == WithoutWires(stored, ls)
    <3>1. CASE stored' = RemoveWire(stored, l)
      BY <1>0, <2>1, <3>1, RemovedWire
    <3>2. CASE stored' = h
      <4>1. /\ IsGraph(h) /\ h.nodes = stored.nodes
            /\ Wires(h) = Wires(stored) \ ls
            /\ \A k \in Wires(h) : Copies(h, k) = Copies(stored, k)
        <5> HIDE DEF ls
        <5> QED BY <1>0, WithoutSome
      <4> HIDE DEF h
      <4> QED BY <3>2, <4>1
    <3> QED BY <1>13, <3>1, <3>2 DEF DisconnectPorts
  <2>3. ASSUME shaped PROVE Shaped(stored')
    <3>1. Shaped(stored)
      BY <2>3, DrawnIs DEF DrawInv
    <3>2. \A k \in Wires(stored') : /\ Joined(stored', k)
                                    /\ \/ <<k.to, k.tp>> \in Multiple
                                       \/ Copies(stored', k) = Copies(stored, k)
      BY <2>2, <3>1 DEF Shaped, Joined
    <3> DEFINE h == stored'
    <3> HIDE DEF h
    <3>3. /\ Wires(h) \subseteq Wires(stored)
          /\ \A k \in Wires(h) : /\ Joined(h, k)
                                 /\ <<k.to, k.tp>> \in Multiple \/ Copies(h, k) = Copies(stored, k)
      BY <2>2, <3>2 DEF h
    <3>4. Shaped(h)
      BY <3>1, <3>3, Fewer
    <3> QED BY <3>4 DEF h
  <2> DEFINE h == stored'
  <2> HIDE DEF h
  <2>4. IsGraph(h) /\ (shaped => Shaped(h)) /\ stored' = h
    BY <2>2, <2>3 DEF h
  <2> QED BY <1>11, <2>1, <2>4
<1>14. CASE RunWorkflow
  <2>1. queue + 1 \in 0 .. MaxCalls /\ calls + 1 \in 0 .. MaxCalls /\ queue + 1 <= calls + 1
    BY <1>14, WiringAssumption DEF RunWorkflow, Calling, DrawInv
  <2> QED BY <1>14, <2>1 DEF RunWorkflow, Calling, store, DrawInv
<1>15. ASSUME NEW n \in Nodes, SetTimeout(n) PROVE DrawInv'
  <2> DEFINE u == IF n \in screen.untimed THEN screen.untimed \ {n} ELSE screen.untimed \union {n}
             h == [screen EXCEPT !.untimed = u]
  <2>1. /\ screen = [nodes |-> screen.nodes, wires |-> screen.wires, untimed |-> screen.untimed]
        /\ screen.untimed \subseteq screen.nodes /\ n \in screen.nodes
    BY <1>0, <1>15 DEF IsGraph, SetTimeout
  <2>2. u \subseteq screen.nodes
    BY <2>1
  <2>3. WithHistory(h)
    BY <1>15 DEF SetTimeout
  <2> HIDE DEF u
  <2>4. h = [nodes |-> screen.nodes, wires |-> screen.wires, untimed |-> u]
    BY <2>1
  <2> HIDE DEF h
  <2>5. IsGraph(h) /\ h.nodes = screen.nodes /\ h.wires = screen.wires
    BY <1>0, <2>2, <2>4 DEF IsGraph, Wires
  <2>6. ASSUME shaped PROVE Shaped(h)
    <3>1. Shaped(screen)
      BY <2>6, DrawnIs DEF DrawInv
    <3>2. /\ Wires(h) = Wires(screen)
          /\ \A l \in Wires(h) : Joined(h, l) /\ Copies(h, l) = Copies(screen, l)
      BY <2>5, <3>1 DEF Shaped, Joined, Copies, Wires
    <3> QED BY <2>5, <3>1, <3>2, Fewer
  <2> QED BY <1>1, <2>3, <2>5, <2>6
<1>16. CASE UNCHANGED drawVars
  BY <1>16 DEF drawVars, store, DrawInv
<1> QED BY <1>2, <1>3, <1>4, <1>5, <1>6, <1>7, <1>8, <1>9, <1>10, <1>12, <1>13, <1>14, <1>15,
           <1>16 DEF DrawNext

LEMMA AlwaysDrawn == DrawSpec => []DrawInv
<1>1. DrawInit => DrawInv
  BY StartsDrawn
<1>2. DrawInv /\ [DrawNext]_drawVars => DrawInv'
  BY DrawStep
<1> QED BY <1>1, <1>2, PTL DEF DrawSpec

(* Whatever is held, on screen, in the history or in the database, is a    *)
(* graph that a file can hold.                                             *)
THEOREM DrawTypeCorrect == DrawSpec => []DrawTypeOK
<1>1. DrawInv => DrawTypeOK
  BY DrawTypes
<1> QED BY <1>1, AlwaysDrawn, PTL

(* A graph that began in order stays so wherever it is held, although user *)
(* and agent change it unseen by each other.                               *)
THEOREM StaysShapedCorrect == DrawSpec => []StaysShaped
<1>1. DrawInv => StaysShaped
  BY DrawTypes
<1> QED BY <1>1, AlwaysDrawn, PTL

(* topoSort on a graph whose wires join nodes that are there.              *)
LEMMA Sorts ==
  ASSUME NEW g, IsGraph(g), Throughout(g)
  PROVE  LET s == TopoSort(g) IN
         /\ s \in Seq(Nodes) /\ Distinct(s) /\ FedBefore(Each(g), s)
         /\ ~Throws(g) <=> Loopless(g)
         /\ Loopless(g) => Range(s) = g.nodes
<1> DEFINE W == Each(g)
           S == g.nodes
           s == Reduce(W, W, S)
<1>1. {w \in W : w[1].from \in S} = W
  BY EachIs DEF Throughout, Joined
<1>2. TopoSort(g) = s
  <2> HIDE DEF W
  <2> QED BY <1>1 DEF TopoSort, W
<1>3. S \in SUBSET Nodes /\ Wiring(S, W)
  <2>1. \A w \in W : Joined(g, w[1])
    BY EachIs DEF Throughout
  <2> QED BY <2>1, GraphFacts, EachWired
<1>4. Fed(S, W) <=> Circular(g)
  <2>1. ASSUME NEW C \in SUBSET S
        PROVE  (\A m \in C : \E w \in W : w[1].to = m /\ w[1].from \in C)
                 <=> \A m \in C : \E l \in Wires(g) : l.to = m /\ l.from \in C
    BY EachIs
  <2> HIDE DEF W
  <2> QED BY <2>1 DEF Fed, Circular
<1> HIDE DEF W, S
<1>5. /\ s \in Seq(Nodes) /\ Distinct(s) /\ FedBefore(W, s)
      /\ Range(s) = S <=> ~Fed(S, W)
      /\ Len(s) = Cardinality(S) <=> ~Fed(S, W)
  BY <1>3, Reduced, Ordered
<1>6. Throws(g) <=> Len(s) # Cardinality(S)
  BY <1>2 DEF Throws, S
<1> HIDE DEF s
<1> QED BY <1>2, <1>4, <1>5, <1>6, LooplessIs DEF W, S

(* The control server queues no run that the scheduler could not order.    *)
THEOREM QueuedCorrect == DrawSpec => QueuedCanBeOrdered
<1>1. ASSUME DrawInv, [DrawNext]_drawVars
      PROVE  [queue' > queue => ~Throws(stored)]_drawVars
  <2> SUFFICES ASSUME DrawNext, queue' > queue
               PROVE  ~Throws(stored)
    BY <1>1
  <2>1. RunWorkflow
    <3>1. UNCHANGED queue => FALSE
      BY <1>1 DEF DrawInv
    <3> QED BY <3>1 DEF DrawNext, AddNode, DeleteNodes, SetTimeout, Connect, Disconnect,
            ConnectPorts, DisconnectPorts, Undo, Redo, Save, Saved,
            Reopen, WithHistory
  <2>2. IsGraph(stored) /\ Throughout(stored) /\ ~ServerFindsCycle(stored)
    BY <1>1, <2>1, DrawnIs DEF DrawInv, RunWorkflow, ValidateGraph, Throughout
  <2> QED BY <2>2, ServerLoops, Sorts
<1> QED BY <1>1, AlwaysDrawn, PTL DEF DrawSpec, QueuedCanBeOrdered

LEMMA SortsNone ==
  ASSUME NEW g, IsGraph(g), g.nodes = {}
  PROVE  TopoSort(g) = <<>> /\ ~Throws(g)
<1> DEFINE N == NumNodes
           A == Each(g)
           F == {w \in A : w[1].from \in g.nodes}
           indeg == [m \in Nodes |-> Cardinality({w \in A : w[1].to = m})]
           first == [queue |-> InNodeOrder({m \in g.nodes : indeg[m] = 0}), order |-> <<>>,
                     left |-> indeg]
           step == TakeOff(F)
           Def(h) == [i \in 0 .. N |-> IF i = 0 THEN first ELSE step[h[i - 1]]]
           f == CHOOSE h : h = Def(h)
<1>0. N \in Nat
  BY NodesAssumption
<1>1. InNodeOrder({m \in g.nodes : indeg[m] = 0}) = <<>>
  <2>1. {m \in g.nodes : indeg[m] = 0} = {}
    OBVIOUS
  <2>2. InNodeOrder({}) \in Seq(Nodes) /\ Range(InNodeOrder({})) = {} /\ Distinct(InNodeOrder({}))
    BY NodesInOrder
  <2> DEFINE s == InNodeOrder({})
  <2> HIDE DEF s
  <2>3. s \in Seq(Nodes) /\ Range(s) = {} /\ Distinct(s)
    BY <2>2 DEF s
  <2>4. s = <<>>
    BY <2>3, Removed
  <2> HIDE DEF indeg
  <2> QED BY <2>1, <2>4 DEF s
<1>2. indeg \in [Nodes -> Int]
  <2> SUFFICES ASSUME NEW m \in Nodes PROVE Cardinality({w \in A : w[1].to = m}) \in Int
    OBVIOUS
  <2>1. IsFiniteSet({w \in A : w[1].to = m})
    BY EachFinite, FS_Subset
  <2> QED BY <2>1, FS_CardinalityType
<1> HIDE DEF indeg
<1>3. first \in Counting /\ first.queue = <<>> /\ first.order = <<>>
  <2>1. first = [queue |-> <<>>, order |-> <<>>, left |-> indeg]
    BY <1>1
  <2> HIDE DEF first
  <2> QED BY <1>2, <2>1 DEF Counting
<1>4. TopoSort(g) = f[N].order
  BY DEF TopoSort, Reduce, indeg
<1> HIDE DEF first
<1>5. step[first] = first
  BY <1>3 DEF TakeOff
<1> HIDE DEF step
<1>6. f[N] = first
  <2> DEFINE same == [i \in 0 .. N |-> first]
  <2>1. same = Def(same)
    BY <1>0, <1>5
  <2> HIDE DEF same, Def
  <2>2. f = Def(f)
    BY <2>1
  <2> HIDE DEF f
  <2>3. IsRun(f, N, first, step)
    BY <2>2 DEF Def, IsRun
  <2> HIDE DEF A, F, N
  <2> QED BY <1>0, <1>5, <2>3, StaysPut
<1> HIDE DEF f
<1>7. TopoSort(g) = <<>>
  BY <1>3, <1>4, <1>6
<1> QED BY <1>7, FS_EmptySet DEF Throws

(* The errors of the check before a run, one by one.                       *)
LEMMA ErrorsAre ==
  ASSUME NEW g, IsGraph(g), g.nodes # {}
  PROVE  LET joined == {l \in Wires(g) : Joined(g, l)}
             whole == {l \in joined : HasPorts(l)}
             kinds == {"open", "openControl", "timeout", "duplicate", "dangling", "port", "type",
                       "single", "cycle"}
         IN  /\ Errors(g) \subseteq kinds
             /\ "open" \in Errors(g) <=> \E p \in OpenInputs(g) : p[1] \notin Controlling
             /\ "duplicate" \in Errors(g) <=> \E l \in Wires(g) : Copies(g, l) > 1
             /\ "dangling" \in Errors(g) <=> joined # Wires(g)
             /\ "port" \in Errors(g) <=> whole # joined
             /\ "type" \in Errors(g) <=> \E l \in whole : ~Fits(l)
             /\ "single" \in Errors(g)
                  <=> \E l \in whole : /\ <<l.to, l.tp>> \notin Multiple
                                       /\ Copies(g, l) > 1 \/ Into(g, l.to, l.tp) # {l}
             /\ "cycle" \in Errors(g) <=> ~Loopless(g)
<1> DEFINE joined == {l \in Wires(g) : Joined(g, l)}
           whole == {l \in joined : HasPorts(l)}
           open == \E p \in OpenInputs(g) : p[1] \notin Controlling
           openControl == \E p \in OpenInputs(g) : p[1] \in Controlling
           timeout == g.untimed # {}
           duplicate == \E l \in Wires(g) : Copies(g, l) > 1
           dangling == joined # Wires(g)
           port == whole # joined
           type == \E l \in whole : ~Fits(l)
           single == \E l \in whole : /\ <<l.to, l.tp>> \notin Multiple
                                      /\ Copies(g, l) > 1 \/ Into(g, l.to, l.tp) # {l}
           found == [open |-> open, openControl |-> openControl, timeout |-> timeout,
                     duplicate |-> duplicate, dangling |-> dangling, port |-> port,
                     type |-> type, single |-> single, cycle |-> FindCycle(g)]
<1>1. Errors(g) = {e \in DOMAIN found : found[e]}
  BY DEF Errors
<1>2. FindCycle(g) <=> ~Loopless(g)
  BY CheckLoops
<1> HIDE DEF open, openControl, timeout, duplicate, dangling, port, type, single
<1>3. DOMAIN found = {"open", "openControl", "timeout", "duplicate", "dangling", "port", "type",
                      "single", "cycle"}
  OBVIOUS
<1>4. /\ found["open"] = open /\ found["duplicate"] = duplicate
      /\ found["dangling"] = dangling /\ found["port"] = port /\ found["type"] = type
      /\ found["single"] = single /\ found["cycle"] = FindCycle(g)
  OBVIOUS
<1> HIDE DEF found
<1>5. /\ Errors(g) \subseteq {"open", "openControl", "timeout", "duplicate", "dangling", "port", "type",
                              "single", "cycle"}
      /\ "open" \in Errors(g) <=> open
      /\ "duplicate" \in Errors(g) <=> duplicate
      /\ "dangling" \in Errors(g) <=> dangling
      /\ "port" \in Errors(g) <=> port
      /\ "type" \in Errors(g) <=> type
      /\ "single" \in Errors(g) <=> single
      /\ "cycle" \in Errors(g) <=> ~Loopless(g)
  BY <1>1, <1>2, <1>3, <1>4
<1> QED BY <1>5 DEF open, duplicate, dangling, port, type, single

(* A run that the check lets through is put in order: topoSort does not    *)
(* throw, every node has its turn once, and after all that feed it.        *)
THEOREM RunnableCorrect == DrawSpec => []RunnableIsOrdered
<1>1. ASSUME DrawInv PROVE RunnableIsOrdered
  <2> DEFINE order0 == TopoSort(screen)
  <2>1. IsGraph(screen)
    BY <1>1, DrawnIs DEF DrawInv
  <2> SUFFICES ASSUME Errors(screen) = {}
               PROVE  /\ ~Throws(screen)
                      /\ Range(order0) = screen.nodes
                      /\ \A i, j \in DOMAIN order0 :
                           order0[j] \in Onward(screen, order0[i]) => i < j
    BY SameRange DEF RunnableIsOrdered
  <2>2. CASE screen.nodes = {}
    <3>1. order0 = <<>> /\ ~Throws(screen)
      BY <2>1, <2>2, SortsNone
    <3> HIDE DEF order0
    <3> QED BY <2>2, <3>1 DEF Range
  <2>3. CASE screen.nodes # {}
    <3>1. Throughout(screen) /\ Loopless(screen)
      BY <2>1, <2>3, ErrorsAre DEF Throughout
    <3>2. /\ order0 \in Seq(Nodes) /\ Distinct(order0) /\ FedBefore(Each(screen), order0)
          /\ ~Throws(screen) /\ Range(order0) = screen.nodes
      BY <2>1, <3>1, Sorts
    <3> HIDE DEF order0
    <3>3. ASSUME NEW i \in 1 .. Len(order0), NEW j \in 1 .. Len(order0),
                 order0[j] \in Onward(screen, order0[i])
          PROVE  i < j
      <4>1. PICK l \in Wires(screen) : l.from = order0[i] /\ l.to = order0[j]
        BY <3>3 DEF Onward
      <4>2. PICK w \in Each(screen) : w[1] = l
        BY <2>1, EachIs
      <4>3. PICK k \in 1 .. j - 1 : order0[k] = order0[i]
        BY <3>2, <4>1, <4>2 DEF FedBefore
      <4>4. k \in 1 .. Len(order0) /\ k = i
        BY <3>2, <4>3 DEF Distinct
      <4> QED BY <3>2, <4>3, <4>4
    <3>4. DOMAIN order0 = 1 .. Len(order0)
      BY <3>2
    <3> QED BY <3>2, <3>3, <3>4
  <2> QED BY <2>2, <2>3
<1> QED BY <1>1, AlwaysDrawn, PTL

(* The panel has an error exactly when the check before a run has one, but *)
(* for the three things the panel does not look at (inputs of control      *)
(* nodes, inputs with too many wires, time limits).                        *)
THEOREM LintCorrect == DrawSpec => []LintAgrees
<1>1. ASSUME DrawInv PROVE LintAgrees
  <2> DEFINE g == screen
             joined == {l \in Wires(g) : Joined(g, l)}
             whole == {l \in Wires(g) : Joined(g, l) /\ HasPorts(l)}
             open == \E p \in OpenInputs(g) : p[1] \notin Controlling
             duplicate == \E l \in whole : Copies(g, l) > 1
             dangling == whole # Wires(g)
             type == \E l \in whole : ~Fits(l)
             found == [dangling |-> dangling, type |-> type, duplicate |-> duplicate,
                       cycle |-> LintCycle(g), open |-> open]
  <2>1. IsGraph(g)
    BY <1>1, DrawnIs DEF DrawInv
  <2>2. CASE g.nodes = {}
    BY <2>2 DEF LintAgrees, LintErrors, Errors
  <2>3. CASE g.nodes # {}
    <3>1. LintErrors(g) = {e \in DOMAIN found : found[e]}
      BY <2>3 DEF LintErrors
    <3>2. LintCycle(g) <=> ~Loopless(g)
      BY <2>1, LintLoops
    <3>3. LintErrors(g) # {} <=> dangling \/ type \/ duplicate \/ ~Loopless(g) \/ open
      <4> HIDE DEF dangling, type, duplicate, open
      <4>1. DOMAIN found = {"dangling", "type", "duplicate", "cycle", "open"}
        OBVIOUS
      <4>2. /\ found["dangling"] = dangling /\ found["type"] = type
            /\ found["duplicate"] = duplicate /\ found["open"] = open
            /\ found["cycle"] = LintCycle(g)
        OBVIOUS
      <4> HIDE DEF found
      <4> QED BY <3>1, <3>2, <4>1, <4>2
    <3>4. /\ Errors(g) \subseteq {"open", "openControl", "timeout", "duplicate", "dangling", "port", "type",
                                  "single", "cycle"}
          /\ "open" \in Errors(g) <=> open
          /\ "duplicate" \in Errors(g) <=> \E l \in Wires(g) : Copies(g, l) > 1
          /\ "dangling" \in Errors(g) <=> joined # Wires(g)
          /\ "port" \in Errors(g) <=> whole # joined
          /\ "type" \in Errors(g) <=> type
          /\ "cycle" \in Errors(g) <=> ~Loopless(g)
      <4>1. {l \in joined : HasPorts(l)} = whole
        OBVIOUS
      <4> HIDE DEF whole
      <4> QED BY <2>1, <2>3, <4>1, ErrorsAre
    <3>5. Errors(g) \ Unlinted # {}
            <=> \/ "open" \in Errors(g) \/ "duplicate" \in Errors(g)
                \/ "dangling" \in Errors(g) \/ "port" \in Errors(g)
                \/ "type" \in Errors(g) \/ "cycle" \in Errors(g)
      BY <3>4 DEF Unlinted
    <3>6. dangling <=> joined # Wires(g) \/ whole # joined
      OBVIOUS
    <3>7. ~dangling => (duplicate <=> \E l \in Wires(g) : Copies(g, l) > 1)
      OBVIOUS
    <3>8. duplicate => \E l \in Wires(g) : Copies(g, l) > 1
      OBVIOUS
    <3> HIDE DEF joined, whole, open, duplicate, dangling, type, found
    <3> QED BY <3>3, <3>4, <3>5, <3>6, <3>7, <3>8 DEF LintAgrees
  <2> QED BY <2>2, <2>3
<1> QED BY <1>1, AlwaysDrawn, PTL

(* On a graph whose only errors are open inputs, time limits and double    *)
(* wires, the canvas offers exactly the wires that bring no other error.   *)
THEOREM ConnectCorrect == DrawSpec => []ConnectIsExact
<1> DEFINE Single(g) == \A l \in Wires(g) : \/ <<l.to, l.tp>> \in Multiple
                                            \/ ~(Copies(g, l) > 1) /\ Into(g, l.to, l.tp) = {l}
           Sound(g) == /\ \A l \in Wires(g) : Joined(g, l) /\ HasPorts(l) /\ Fits(l)
                       /\ Single(g) /\ Loopless(g)
<1>1. ASSUME NEW g, IsGraph(g), g.nodes # {}
      PROVE  Errors(g) \subseteq Tolerated <=> Sound(g)
  <2> DEFINE joined == {l \in Wires(g) : Joined(g, l)}
             whole == {l \in joined : HasPorts(l)}
             type == \E l \in whole : ~Fits(l)
             single == \E l \in whole : /\ <<l.to, l.tp>> \notin Multiple
                                        /\ Copies(g, l) > 1 \/ Into(g, l.to, l.tp) # {l}
  <2>1. /\ Errors(g) \subseteq {"open", "openControl", "timeout", "duplicate", "dangling", "port", "type",
                                "single", "cycle"}
        /\ "dangling" \in Errors(g) <=> joined # Wires(g)
        /\ "port" \in Errors(g) <=> whole # joined
        /\ "type" \in Errors(g) <=> type
        /\ "single" \in Errors(g) <=> single
        /\ "cycle" \in Errors(g) <=> ~Loopless(g)
    BY <1>1, ErrorsAre
  <2> HIDE DEF type, single
  <2>2. Errors(g) \subseteq Tolerated
          <=> /\ joined = Wires(g) /\ whole = joined
              /\ ~type /\ ~single /\ Loopless(g)
    <3> HIDE DEF joined, whole
    <3> QED BY <2>1 DEF Tolerated
  <2>3. joined = Wires(g) /\ whole = joined
          <=> \A l \in Wires(g) : Joined(g, l) /\ HasPorts(l)
    OBVIOUS
  <2>4. ASSUME whole = Wires(g)
        PROVE  /\ ~type <=> \A l \in Wires(g) : Fits(l)
               /\ ~single <=> Single(g)
    <3> HIDE DEF whole
    <3> QED BY <2>4 DEF type, single
  <2> HIDE DEF joined, whole, type, single, Single
  <2> QED BY <2>2, <2>3, <2>4
<1>2. ASSUME NEW g, IsGraph(g), g.nodes # {}, Sound(g), NEW l \in Link
      PROVE  CanConnect(g, l) <=> Sound(AddWire(g, l))
  <2> DEFINE h == AddWire(g, l)
  <2>1. /\ IsGraph(h) /\ h.nodes = g.nodes
        /\ Wires(h) = Wires(g) \union {l}
        /\ l \notin Wires(g) => Copies(h, l) = 1
        /\ \A k \in Wires(g) : k # l => Copies(h, k) = Copies(g, k)
        /\ \A n, p : Into(h, n, p) = Into(g, n, p)
                                           \union {k \in {l} : k.to = n /\ k.tp = p}
    BY <1>2, AddedWire
  <2> HIDE DEF h
  <2>2. Throughout(g) /\ Loopless(g)
    BY <1>2 DEF Throughout
  <2>3. Joined(h, l) <=> Joined(g, l)
    BY <2>1 DEF Joined
  <2>4. (\A k \in Wires(h) : Joined(h, k) /\ HasPorts(k) /\ Fits(k))
          <=> Joined(g, l) /\ HasPorts(l) /\ Fits(l)
    <3>1. \A k \in Wires(g) : Joined(h, k) /\ HasPorts(k) /\ Fits(k)
      BY <1>2, <2>1 DEF Joined
    <3> QED BY <2>1, <2>3, <3>1
  <2>5. ASSUME Joined(g, l)
        PROVE  Loopless(h) <=> l.from # l.to /\ l.from \notin Follow(Adjacent(g), l.to)
    BY <1>2, <2>2, <2>5, OneLoop DEF h
  <2>6. Single(h) <=> <<l.to, l.tp>> \in Multiple \/ Into(g, l.to, l.tp) = {}
    <3>1. ASSUME Single(h), <<l.to, l.tp>> \notin Multiple PROVE Into(g, l.to, l.tp) = {}
      <4>1. l \in Wires(h) /\ ~(Copies(h, l) > 1) /\ Into(h, l.to, l.tp) = {l}
        BY <2>1, <3>1
      <4>2. Into(g, l.to, l.tp) \subseteq {l}
        BY <2>1, <4>1
      <4>3. l \notin Wires(g)
        <5>1. SUFFICES ASSUME l \in Wires(g) PROVE Copies(h, l) > 1
          BY <4>1
        <5>2. g.wires[l] \in Nat \ {0}
          BY <1>2, <5>1, GraphFacts
        <5>3. h.wires = g.wires (+) SetToBag({l})
          BY <1>2 DEF h, AddWire, IsGraph
        <5>4. h.wires[l] = g.wires[l] + 1
          BY <5>1, <5>3 DEF (+), SetToBag, Wires
        <5> QED BY <2>1, <5>2, <5>4 DEF Copies
      <4> QED BY <4>2, <4>3 DEF Into
    <3>2. ASSUME NEW k \in Wires(h), <<k.to, k.tp>> \notin Multiple,
                 <<l.to, l.tp>> \in Multiple \/ Into(g, l.to, l.tp) = {}
          PROVE  ~(Copies(h, k) > 1) /\ Into(h, k.to, k.tp) = {k}
      <4>1. CASE k = l
        <5>1. Into(g, l.to, l.tp) = {} /\ l \notin Wires(g)
          BY <3>2, <4>1 DEF Into
        <5>2. Into(h, l.to, l.tp) = {l}
          BY <2>1, <5>1
        <5> QED BY <2>1, <4>1, <5>1, <5>2
      <4>2. CASE k # l
        <5>1. k \in Wires(g)
          BY <2>1, <4>2
        <5>2. ~(Copies(g, k) > 1) /\ Into(g, k.to, k.tp) = {k}
          BY <1>2, <3>2, <5>1
        <5>3. ~(l.to = k.to /\ l.tp = k.tp)
          BY <3>2, <5>2
        <5>4. Into(h, k.to, k.tp) = {k}
          BY <2>1, <5>2, <5>3
        <5> QED BY <2>1, <4>2, <5>1, <5>2, <5>4
      <4> QED BY <4>1, <4>2
    <3> QED BY <3>1, <3>2
  <2> HIDE DEF Single
  <2> QED BY <2>4, <2>5, <2>6 DEF CanConnect, h
<1>3. ASSUME DrawInv PROVE ConnectIsExact
  <2>1. IsGraph(screen)
    BY <1>3, DrawnIs DEF DrawInv
  <2> HIDE DEF Sound
  <2> SUFFICES ASSUME Errors(screen) \subseteq Tolerated, NEW l \in Link
               PROVE  CanConnect(screen, l)
                        <=> /\ screen.nodes # {}
                            /\ Errors(AddWire(screen, l)) \subseteq Tolerated
    BY DEF ConnectIsExact
  <2>2. CASE screen.nodes = {}
    BY <2>2 DEF CanConnect, Joined
  <2>3. CASE screen.nodes # {}
    <3>1. Sound(screen)
      BY <1>1, <2>1, <2>3
    <3>2. IsGraph(AddWire(screen, l)) /\ AddWire(screen, l).nodes # {}
      BY <2>1, <2>3, AddedWire
    <3>3. Errors(AddWire(screen, l)) \subseteq Tolerated <=> Sound(AddWire(screen, l))
      BY <1>1, <3>2
    <3>4. CanConnect(screen, l) <=> Sound(AddWire(screen, l))
      BY <1>2, <2>1, <2>3, <3>1
    <3> QED BY <2>3, <3>3, <3>4
  <2> QED BY <2>2, <2>3
<1> QED BY <1>3, AlwaysDrawn, PTL
-----------------------------------------------------------------------------
(* The two modules are about one function.                                 *)

(* topoSort is modelled twice: with its counters over a list of wires, for *)
(* what the editor can draw, and over a set of connections, for what the   *)
(* scheduler walks.  On a graph of all the nodes whose wires all join      *)
(* nodes, the two refuse the same; so the scheduler orders every such      *)
(* graph that the check before a run has no error on.                      *)
THEOREM CheckedIsAccepted ==
  ASSUME NEW g, IsGraph(g), g.nodes = Nodes, g.nodes # {}, NEW conns \in SUBSET Conn,
         \A c \in conns : \E l \in Wires(g) : l.from = c.from /\ l.to = c.to,
         \A l \in Wires(g) : \E c \in conns : c.from = l.from /\ c.to = l.to
  PROVE  /\ Throughout(g) => (Len(topoSort(conns)) = NumNodes <=> ~Throws(g))
         /\ Errors(g) = {} => Len(topoSort(conns)) = NumNodes
<1>1. Cyclic(conns) <=> Circular(g)
  <2>1. ASSUME NEW C \in SUBSET Nodes
        PROVE  (\A m \in C : \E c \in conns : c.to = m /\ c.from \in C)
                 <=> \A m \in C : \E l \in Wires(g) : l.to = m /\ l.from \in C
    OBVIOUS
  <2> QED BY <2>1 DEF Cyclic, Circular
<1>2. Len(topoSort(conns)) = NumNodes <=> ~Circular(g)
  BY <1>1, AcceptsAcyclic
<1>3. Throughout(g) => (~Throws(g) <=> ~Circular(g))
  BY Sorts, LooplessIs
<1>4. Errors(g) = {} => ~Circular(g)
  BY ErrorsAre, LooplessIs
<1> QED BY <1>2, <1>3, <1>4
=============================================================================
