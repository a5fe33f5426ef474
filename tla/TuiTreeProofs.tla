--------------------------- MODULE TuiTreeProofs ---------------------------
(***************************************************************************)
(* Proofs about the list of the terminal UI (TuiTree), for any agents,     *)
(* lists of them and positions; and about what is drawn of it (TuiView,    *)
(* the instance View), for any lists of rows, texts and panel heights.     *)
(***************************************************************************)
EXTENDS MCTuiTree, FiniteSetTheorems, WellFoundedInduction, TLAPS

-----------------------------------------------------------------------------
(* Numbers: the smallest, the largest, and induction over a set of them.   *)

LEMMA SmallestFact ==
    ASSUME NEW S \in SUBSET Nat, S # {}
    PROVE  \E k \in S : \A n \in S : k <= n
<1> DEFINE R == OpToRel(<, Nat)
<1>1. IsWellFoundedOn(R, Nat)
  BY NatLessThanWellFounded
<1>2. \A k, n \in Nat : n < k => <<n, k>> \in R
  BY DEF OpToRel
<1> HIDE DEF R
<1>3. PICK k \in S : \A n \in S : ~(<<n, k>> \in R)
  BY <1>1, WFMin
<1>4. \A n \in S : ~(n < k)
  BY <1>2, <1>3
<1> QED
  BY <1>4

LEMMA Induct ==
    ASSUME NEW S, 0 \in S, \A n \in Nat : n \in S => n + 1 \in S
    PROVE  Nat \subseteq S
<1> SUFFICES ASSUME Nat \ S # {} PROVE FALSE
  OBVIOUS
<1>1. PICK k \in Nat \ S : \A n \in Nat \ S : k <= n
  BY SmallestFact
<1>2. k # 0 /\ k - 1 \in Nat /\ ~(k <= k - 1)
  BY <1>1
<1>3. k - 1 \in S
  BY <1>1, <1>2
<1>4. (k - 1) + 1 = k
  BY <1>1
<1>5. k \in S
  BY <1>2, <1>3, <1>4
<1> QED
  BY <1>1, <1>5

LEMMA LeastFact ==
    ASSUME NEW S \in SUBSET Nat, S # {} PROVE Least(S) \in S
<1>1. \E k \in S : \A n \in S : k <= n
  BY SmallestFact
<1> QED
  BY <1>1 DEF Least

LEMMA GreatestFact ==
    ASSUME NEW n \in Nat, NEW S \in SUBSET (1..n), S # {} PROVE Greatest(S) \in S
<1> DEFINE T == {k \in 0..n : n - k \in S}
<1>1. T \in SUBSET Nat /\ T # {}
  <2>1. PICK i : i \in S
    OBVIOUS
  <2>2. n - i \in 0..n /\ n - (n - i) = i
    BY <2>1
  <2>3. n - i \in T
    BY <2>1, <2>2
  <2> QED
    BY <2>3
<1>2. PICK k \in T : \A j \in T : k <= j
  BY <1>1, SmallestFact
<1>3. n - k \in S
  BY <1>2
<1>4. \A i \in S : i <= n - k
  <2> TAKE i \in S
  <2>1. n - i \in 0..n /\ n - (n - i) = i
    OBVIOUS
  <2>2. k <= n - i
    BY <1>2, <2>1
  <2> QED
    BY <2>1, <2>2, <1>2
<1> QED
  BY <1>3, <1>4 DEF Greatest

-----------------------------------------------------------------------------
(* Sequences put one after the other.                                      *)

LEMMA ConcatInSeq == ASSUME NEW S, NEW s \in Seq(S), NEW t \in Seq(S) PROVE s \o t \in Seq(S)
OBVIOUS

LEMMA ConcatHead ==
    ASSUME NEW S, NEW s \in Seq(S), NEW t \in Seq(S), s # <<>>
    PROVE  s \o t # <<>> /\ (s \o t)[1] = s[1]
OBVIOUS

(* The first k of them, joined one by one. *)
Joins(f, seqs, k) == f = [i \in 1..k |-> IF i = 1 THEN seqs[i] ELSE f[i - 1] \o seqs[i]]

LEMMA JoinExists ==
    ASSUME NEW S, NEW n \in Nat, NEW seqs \in [1..n -> Seq(S)]
    PROVE  \E f \in [1..n -> Seq(S)] : Joins(f, seqs, n)
<1> DEFINE Has(k) == \E f \in [1..k -> Seq(S)] : Joins(f, seqs, k)
           Ready == {k \in Nat : k <= n => Has(k)}
<1>1. Has(0)
  <2>1. <<>> \in [1..0 -> Seq(S)] /\ Joins(<<>>, seqs, 0)
    BY DEF Joins
  <2> QED
    BY <2>1
<1>2. ASSUME NEW k \in Nat, Has(k), k + 1 <= n PROVE Has(k + 1)
  <2>1. PICK f \in [1..k -> Seq(S)] : Joins(f, seqs, k)
    BY <1>2
  <2> DEFINE next == IF k = 0 THEN seqs[1] ELSE f[k] \o seqs[k + 1]
             g == [i \in 1..(k + 1) |-> IF i = k + 1 THEN next ELSE f[i]]
  <2>2. next \in Seq(S)
    BY <1>2
  <2> HIDE DEF next
  <2>3. g \in [1..(k + 1) -> Seq(S)]
    BY <2>2
  <2>4. ASSUME NEW i \in 1..(k + 1)
        PROVE  g[i] = IF i = 1 THEN seqs[i] ELSE g[i - 1] \o seqs[i]
    <3>1. CASE i = k + 1
      BY <3>1 DEF next
    <3>2. CASE i # k + 1
      <4>1. i \in 1..k /\ (i # 1 => i - 1 \in 1..k)
        BY <3>2
      <4>2. g[i] = f[i] /\ (i # 1 => g[i - 1] = f[i - 1])
        BY <4>1, <3>2
      <4>3. f[i] = IF i = 1 THEN seqs[i] ELSE f[i - 1] \o seqs[i]
        BY <2>1, <4>1 DEF Joins
      <4> QED
        BY <4>2, <4>3
    <3> QED
      BY <3>1, <3>2
  <2>5. Joins(g, seqs, k + 1)
    BY <2>4 DEF Joins
  <2> QED
    BY <2>3, <2>5
<1> HIDE DEF Has
<1>3. 0 \in Ready /\ \A k \in Nat : k \in Ready => k + 1 \in Ready
  BY <1>1, <1>2
<1> HIDE DEF Ready
<1>4. Nat \subseteq Ready
  BY <1>3, Induct
<1>5. Has(n)
  BY <1>4 DEF Ready
<1> QED
  BY <1>5 DEF Has

LEMMA Concatenated ==
    ASSUME NEW S, NEW n \in Nat, NEW seqs \in [1..n -> Seq(S)]
    PROVE  /\ FlattenSeq(seqs) \in Seq(S)
           /\ n = 0 => FlattenSeq(seqs) = <<>>
           /\ n > 0 /\ seqs[1] # <<>> => FlattenSeq(seqs) # <<>> /\ FlattenSeq(seqs)[1] = seqs[1][1]
<1> DEFINE Fine(s) == s \in Seq(S) /\ (seqs[1] # <<>> => s # <<>> /\ s[1] = seqs[1][1])
<1>1. seqs \in Seq(Seq(S)) /\ Len(seqs) = n
  OBVIOUS
<1>2. CASE n = 0
  <2>1. seqs = <<>>
    BY <1>1, <1>2
  <2> QED
    BY <1>1, <1>2, <2>1 DEF FlattenSeq
<1>3. CASE n # 0
  <2> DEFINE f == CHOOSE f : Joins(f, seqs, n)
  <2>1. Joins(f, seqs, n)
    BY JoinExists
  <2>2. FlattenSeq(seqs) = f[n]
    BY <1>1, <1>3 DEF FlattenSeq, Joins
  <2> HIDE DEF f
  <2> DEFINE Good == {k \in Nat : k + 1 <= n => Fine(f[k + 1])}
  <2>3. Fine(f[1])
    <3>1. f[1] = seqs[1]
      BY <2>1, <1>3 DEF Joins
    <3> QED
      BY <3>1, <1>3
  <2>4. ASSUME NEW k \in Nat, Fine(f[k + 1]), k + 2 <= n PROVE Fine(f[k + 2])
    <3>1. k + 2 \in 1..n /\ k + 2 # 1 /\ (k + 2) - 1 = k + 1
      BY <2>4
    <3>2. f[k + 2] = f[k + 1] \o seqs[k + 2]
      BY <2>1, <3>1 DEF Joins
    <3>3. seqs[k + 2] \in Seq(S)
      BY <3>1
    <3> PICK s, t : s = f[k + 1] /\ t = seqs[k + 2]
      OBVIOUS
    <3>4. s \in Seq(S) /\ t \in Seq(S) /\ (seqs[1] # <<>> => s # <<>> /\ s[1] = seqs[1][1])
      BY <2>4, <3>3
    <3>5. s \o t \in Seq(S)
      BY <3>4, ConcatInSeq
    <3>6. s # <<>> => s \o t # <<>> /\ (s \o t)[1] = s[1]
      BY <3>4, ConcatHead
    <3> QED
      BY <3>2, <3>4, <3>5, <3>6
  <2> HIDE DEF Fine
  <2>5. 0 \in Good
    BY <2>3
  <2>6. ASSUME NEW k \in Nat, k \in Good PROVE k + 1 \in Good
    <3>1. (k + 1) + 1 = k + 2 /\ (k + 2 <= n => k + 1 <= n)
      OBVIOUS
    <3> QED
      BY <2>4, <2>6, <3>1
  <2> HIDE DEF Good
  <2>7. Nat \subseteq Good
    BY <2>5, <2>6, Induct
  <2>8. n - 1 \in Nat /\ (n - 1) + 1 = n
    BY <1>3
  <2>9. Fine(f[n])
    <3>1. n - 1 \in Good
      BY <2>7, <2>8
    <3>2. (n - 1) + 1 <= n => Fine(f[(n - 1) + 1])
      BY <3>1 DEF Good
    <3> QED
      BY <3>2, <2>8
  <2> QED
    BY <2>2, <2>9, <1>3 DEF Fine
<1> QED
  BY <1>2, <1>3

-----------------------------------------------------------------------------
(* The order of the agents.                                                *)

(* Agents have a group and a position. *)
Placed(list, S) == \A a \in S : list[a].group \in Nat /\ list[a].pos \in Nat

Sorted(list, order) ==
    \A i, j \in DOMAIN order : i < j => ~DisplaysBefore(list, order[j], order[i])

LEMMA FirstExists ==
    ASSUME NEW list, NEW S, Placed(list, S), S # {}
    PROVE  \E a \in S : \A b \in S : ~DisplaysBefore(list, b, a)
<1> DEFINE G == {list[a].group : a \in S}
<1>1. PICK g \in G : \A h \in G : g <= h
  <2>1. G \in SUBSET Nat /\ G # {}
    BY DEF Placed
  <2> HIDE DEF G
  <2> QED
    BY <2>1, SmallestFact
<1> DEFINE P == {list[a].pos : a \in {b \in S : list[b].group = g}}
<1>2. PICK p \in P : \A q \in P : p <= q
  <2>1. P \in SUBSET Nat /\ P # {}
    BY <1>1 DEF Placed
  <2> HIDE DEF P
  <2> QED
    BY <2>1, SmallestFact
<1>3. PICK a \in S : list[a].group = g /\ list[a].pos = p
  BY <1>2
<1>4. ASSUME NEW b \in S PROVE ~DisplaysBefore(list, b, a)
  <2>1. g <= list[b].group /\ (list[b].group = g => p <= list[b].pos)
    BY <1>1, <1>2
  <2>2. g \in Nat /\ p \in Nat /\ list[b].group \in Nat /\ list[b].pos \in Nat
    BY <1>3 DEF Placed
  <2> QED
    BY <2>1, <2>2, <1>3 DEF DisplaysBefore
<1> QED
  BY <1>4

LEMMA OrderExists ==
    ASSUME NEW list, NEW S, IsFiniteSet(S), Placed(list, S)
    PROVE  \E order \in SetToSeqs(S) : Sorted(list, order)
<1> DEFINE Ordered(T) ==
              \E f \in [1..Cardinality(T) -> T] :
                  (\A i, j \in 1..Cardinality(T) : i # j => f[i] # f[j]) /\ Sorted(list, f)
           Done == {n \in Nat : \A T \in SUBSET S : Cardinality(T) = n => Ordered(T)}
<1>1. \A T \in SUBSET S : IsFiniteSet(T) /\ Cardinality(T) \in Nat
  BY FS_Subset, FS_CardinalityType
<1>2. ASSUME NEW T \in SUBSET S, Cardinality(T) = 0 PROVE Ordered(T)
  <2>1. T = {}
    BY <1>1, <1>2, FS_EmptySet
  <2>2. <<>> \in [1..0 -> T] /\ Sorted(list, <<>>) /\ 1..0 = {}
    BY DEF Sorted
  <2>3. <<>> \in [1..Cardinality(T) -> T]
    BY <1>2, <2>2, Zenon
  <2>4. \A i, j \in 1..Cardinality(T) : FALSE
    BY <1>2
  <2> QED
    BY <2>2, <2>3, <2>4, Zenon
<1>3. ASSUME NEW n \in Nat, \A T \in SUBSET S : Cardinality(T) = n => Ordered(T),
             NEW T \in SUBSET S, Cardinality(T) = n + 1
      PROVE  Ordered(T)
  <2>1. T # {}
    <3>1. Cardinality({}) = 0
      BY FS_EmptySet
    <3>2. n + 1 # 0
      OBVIOUS
    <3> QED
      BY <1>3, <3>1, <3>2, Zenon
  <2>2. PICK a \in T : \A b \in T : ~DisplaysBefore(list, b, a)
    BY <2>1, FirstExists DEF Placed
  <2> DEFINE U == T \ {a}
  <2>3. Cardinality(U) = n
    BY <1>1, <1>3, FS_RemoveElement
  <2>4. PICK f \in [1..n -> U] : (\A i, j \in 1..n : i # j => f[i] # f[j]) /\ Sorted(list, f)
    BY <2>3, <1>3
  <2> DEFINE g == [i \in 1..(n + 1) |-> IF i = 1 THEN a ELSE f[i - 1]]
  <2>5. \A i \in 1..(n + 1) : i # 1 => i - 1 \in 1..n
    OBVIOUS
  <2>6. g \in [1..(n + 1) -> T]
    BY <2>5
  <2>7. ASSUME NEW i \in 1..(n + 1), NEW j \in 1..(n + 1), i < j
        PROVE  g[i] # g[j] /\ ~DisplaysBefore(list, g[j], g[i])
    <3>1. j # 1 /\ j - 1 \in 1..n /\ g[j] = f[j - 1] /\ g[j] \in U
      BY <2>5, <2>7
    <3>2. CASE i = 1
      BY <3>1, <3>2, <2>2
    <3>3. CASE i # 1
      <4>1. i - 1 \in 1..n /\ i - 1 < j - 1 /\ g[i] = f[i - 1]
        BY <2>5, <2>7, <3>3
      <4> QED
        BY <3>1, <4>1, <2>4 DEF Sorted
    <3> QED
      BY <3>2, <3>3
  <2> HIDE DEF g
  <2>8. ASSUME NEW i \in 1..(n + 1), NEW j \in 1..(n + 1), i # j PROVE g[i] # g[j]
    BY <2>7, <2>8
  <2>9. Sorted(list, g)
    BY <2>6, <2>7 DEF Sorted
  <2> QED
    BY <2>6, <2>8, <2>9, <1>3
<1> HIDE DEF Ordered
<1>4. 0 \in Done /\ \A n \in Nat : n \in Done => n + 1 \in Done
  BY <1>2, <1>3
<1> HIDE DEF Done
<1>5. Cardinality(S) \in Done
  BY <1>1, <1>4, Induct
<1>6. Ordered(S)
  BY <1>5 DEF Done
<1> QED
  BY <1>6 DEF Ordered, SetToSeqs

LEMMA OrderFact ==
    ASSUME NEW list, NEW S, IsFiniteSet(S), Placed(list, S)
    PROVE  \E n \in Nat : DisplayOrder(list, S) \in [1..n -> S]
<1>1. DisplayOrder(list, S) \in SetToSeqs(S)
  BY OrderExists DEF DisplayOrder, Sorted
<1>2. Cardinality(S) \in Nat
  BY FS_CardinalityType
<1> QED
  BY <1>1, <1>2 DEF SetToSeqs

-----------------------------------------------------------------------------
(* The rows.  Every row is the header of a group, an agent of the list or  *)
(* a subagent of one, and the first one is a header.                       *)
Groups == {Running, Resumable}

TreeRows(D) == {Header(g) : g \in Groups} \cup {Row(a, sub) : a \in D, sub \in Parents \cup {None}}

ListTyped(list) ==
    /\ DOMAIN list \subseteq Everyone
    /\ \A a \in DOMAIN list : list[a].pos \in Positions /\ list[a].group \in Groups

TreeTyped(list, tree) ==
    /\ tree \in Seq(TreeRows(DOMAIN list))
    /\ tree # <<>> => tree[1].agent = None

TreeInv == ListTyped(agents) /\ TreeTyped(agents, rows) /\ selected \in Nat \ {0}

LEMMA RowFields ==
    /\ \A g : Header(g).agent = None /\ Header(g).sub = None /\ Header(g).group = g
    /\ \A a, sub : Row(a, sub).agent = a /\ Row(a, sub).sub = sub /\ Row(a, sub).group = 0
BY DEF Header, Row

LEMMA TreeFact ==
    ASSUME NEW list, ListTyped(list), NEW shown, NEW subs, NEW hide, NEW gone
    PROVE  TreeTyped(list, buildTree(list, shown, subs, hide, gone))
<1> DEFINE S == DOMAIN list \cap shown
           order == DisplayOrder(list, S)
           R == TreeRows(DOMAIN list)
<1>1. IsFiniteSet(S) /\ Placed(list, S)
  <2>1. IsFiniteSet(Everyone)
    BY AgentAssumption, FS_AddElement DEF Everyone
  <2>2. S \in SUBSET Everyone
    BY DEF ListTyped
  <2>3. \A g \in Groups : g \in Nat
    BY DEF Groups, Running, Resumable
  <2> QED
    BY <2>1, <2>2, <2>3, FS_Subset, AgentAssumption DEF Placed, ListTyped
<1>2. PICK n \in Nat : order \in [1..n -> S]
  BY <1>1, OrderFact
<1>3. Len(order) = n
  BY <1>2
<1> DEFINE group(i) == list[order[i]].group
           head(i) == IF i = 1 THEN <<Header(group(1))>>
                      ELSE IF group(i - 1) = group(i) THEN <<>> ELSE <<Header(group(i))>>
           sub(i) == SubRows(order[i], list[order[i]].pos, subs, hide, gone)
           seqs == [i \in 1..Len(order) |-> head(i) \o <<Row(order[i], None)>> \o sub(i)]
<1>4. ASSUME NEW i \in 1..n
      PROVE  /\ head(i) \in Seq(R) /\ sub(i) \in Seq(R) /\ Row(order[i], None) \in R
             /\ i = 1 => head(i) = <<Header(group(1))>>
  <2>1. order[i] \in DOMAIN list /\ group(i) \in Groups
    BY <1>2 DEF ListTyped
  <2> HIDE DEF order, S
  <2>2. Header(group(i)) \in R /\ Row(order[i], None) \in R
    BY <2>1 DEF TreeRows
  <2>3. \A s \in Parents : Row(order[i], s) \in R
    BY <2>1 DEF TreeRows
  <2> HIDE DEF R
  <2>4. head(i) \in Seq(R)
    BY <2>2
  <2>5. sub(i) \in Seq(R)
    BY <2>3 DEF SubRows
  <2> QED
    BY <2>2, <2>4, <2>5
<1>5. Header(group(1)).agent = None
  BY RowFields
<1>6. buildTree(list, shown, subs, hide, gone) = FlattenSeq(seqs)
  BY DEF buildTree
<1> HIDE DEF head, sub, R, order, group, S
<1>7. ASSUME NEW i \in 1..n
      PROVE  /\ seqs[i] \in Seq(R)
             /\ i = 1 => seqs[i] # <<>> /\ seqs[i][1] = Header(group(1))
  <2> PICK h, r, t : h = head(i) /\ r = Row(order[i], None) /\ t = sub(i)
    OBVIOUS
  <2>1. seqs[i] = h \o <<r>> \o t
    BY <1>3
  <2>2. h \in Seq(R) /\ r \in R /\ t \in Seq(R)
    BY <1>4
  <2>3. h \o <<r>> \o t \in Seq(R)
    BY <2>2, ConcatInSeq
  <2>4. h \o <<r>> \in Seq(R)
    BY <2>2, ConcatInSeq
  <2>5. h # <<>> => h \o <<r>> \o t # <<>> /\ (h \o <<r>> \o t)[1] = h[1]
    BY <2>2, <2>4, ConcatHead
  <2>6. i = 1 => h # <<>> /\ h[1] = Header(group(1))
    BY <1>4
  <2> QED
    BY <2>1, <2>3, <2>5, <2>6
<1>8. seqs \in [1..n -> Seq(R)]
  BY <1>3, <1>7
<1> HIDE DEF seqs
<1>9. /\ FlattenSeq(seqs) \in Seq(R)
      /\ FlattenSeq(seqs) # <<>> => FlattenSeq(seqs)[1] = Header(group(1))
  <2>1. CASE n = 0
    BY <2>1, <1>8, Concatenated
  <2>2. CASE n # 0
    BY <2>2, <1>7, <1>8, Concatenated
  <2> QED
    BY <2>1, <2>2
<1> QED
  BY <1>5, <1>6, <1>9 DEF TreeTyped, R

-----------------------------------------------------------------------------
(* The selection.                                                          *)

LEMMA TreeRowFact ==
    ASSUME NEW D, D \subseteq Everyone, NEW r \in TreeRows(D)
    PROVE  /\ r.agent \in D \cup {None} /\ r.sub \in Parents \cup {None}
           /\ r.group # 0 => r.agent = None
           /\ r.agent = None => r.group # 0 /\ r.sub = None
           /\ r.agent # None /\ r.sub = None => r = Row(r.agent, None)
<1>1. CASE \E g \in Groups : r = Header(g)
  BY <1>1, RowFields DEF Groups, Running, Resumable
<1>2. CASE \E a \in D, sub \in Parents \cup {None} : r = Row(a, sub)
  <2>1. PICK a \in D, sub \in Parents \cup {None} : r = Row(a, sub)
    BY <1>2
  <2>2. a # None
    BY AgentAssumption DEF Everyone
  <2> QED
    BY <2>1, <2>2, RowFields
<1> QED
  BY <1>1, <1>2 DEF TreeRows

LEMMA NoRowFact == NoRow.agent = None /\ NoRow.sub = None /\ NoRow.group = 0
BY RowFields DEF NoRow

LEMMA SelectedFact ==
    ASSUME TreeInv
    PROVE  /\ Selected.agent \in DOMAIN agents \cup {None}
           /\ selected \notin 1..Len(rows) => Selected = NoRow
           /\ selected \in 1..Len(rows) => Selected = rows[selected]
<1>1. CASE selected \in 1..Len(rows)
  <2>1. rows[selected] \in TreeRows(DOMAIN agents)
    BY <1>1 DEF TreeInv, TreeTyped
  <2>2. Selected = rows[selected]
    BY <1>1 DEF Selected
  <2> QED
    BY <1>1, <2>1, <2>2, TreeRowFact DEF TreeInv, ListTyped
<1>2. CASE selected \notin 1..Len(rows)
  <2>1. Len(rows) \in Nat /\ selected \in Nat \ {0}
    BY DEF TreeInv, TreeTyped
  <2>2. Selected = NoRow
    BY <1>2, <2>1 DEF Selected
  <2> QED
    BY <1>2, <2>2, NoRowFact
<1> QED
  BY <1>1, <1>2

LEMMA ClampFact ==
    ASSUME NEW S, NEW tree \in Seq(S), NEW i \in Nat \ {0}
    PROVE  /\ Clamp(i, tree) \in Nat \ {0}
           /\ i \in 1..Len(tree) => Clamp(i, tree) = i
BY DEF Clamp

(* The first of some rows. *)
LEMMA FoundFact ==
    ASSUME NEW n \in Nat, NEW found \in SUBSET (1..n), found # {}
    PROVE  (CHOOSE i \in found : \A j \in found : i <= j) \in found
<1>1. found \in SUBSET Nat
  OBVIOUS
<1>2. \E i \in found : \A j \in found : i <= j
  BY <1>1, SmallestFact
<1> QED
  BY <1>2

LEMMA RestoreFact ==
    ASSUME selected \in Nat \ {0}, NEW list, NEW S, NEW tree \in Seq(S), NEW id
    PROVE  restoreSelection(list, tree, id) \in Nat \ {0}
<1> DEFINE found == {i \in 1..Len(tree) : Identity(list, tree[i]) = id}
<1>1. CASE id = Identity(list, NoRow)
  BY <1>1 DEF restoreSelection
<1>2. CASE id # Identity(list, NoRow) /\ found = {}
  BY <1>2, ClampFact DEF restoreSelection
<1>3. CASE id # Identity(list, NoRow) /\ found # {}
  <2>1. (CHOOSE i \in found : \A j \in found : i <= j) \in found
    <3>1. Len(tree) \in Nat /\ found \in SUBSET (1..Len(tree))
      OBVIOUS
    <3> HIDE DEF found
    <3> QED
      BY <1>3, <3>1, FoundFact
  <2>2. restoreSelection(list, tree, id) \in found
    BY <1>3, <2>1 DEF restoreSelection
  <2> QED
    BY <2>2
<1> QED
  BY <1>1, <1>2, <1>3

(* An agent that shares its position with no other is found again. *)
LEMMA RestoreFinds ==
    ASSUME NEW list, ListTyped(list), NEW tree, TreeTyped(list, tree),
           NEW a \in DOMAIN list, Alone(list, a),
           NEW k \in 1..Len(tree), tree[k] = Row(a, None),
           NEW id, id = [pos |-> list[a].pos, sub |-> None, group |-> 0]
    PROVE  /\ restoreSelection(list, tree, id) \in 1..Len(tree)
           /\ tree[restoreSelection(list, tree, id)] = Row(a, None)
<1> DEFINE found == {i \in 1..Len(tree) : Identity(list, tree[i]) = id}
<1>1. list[a].pos # 0 /\ a # None
  BY AgentAssumption DEF ListTyped, Everyone
<1>2. id.pos = list[a].pos /\ id.sub = None /\ id.group = 0
  OBVIOUS
<1>3. id # Identity(list, NoRow)
  <2>1. Identity(list, NoRow).pos = 0
    BY NoRowFact DEF Identity
  <2> QED
    BY <1>1, <1>2, <2>1
<1>4. k \in found
  <2>1. Identity(list, Row(a, None)) = id
    BY <1>1, RowFields DEF Identity
  <2> QED
    BY <2>1
<1>5. ASSUME NEW i \in found PROVE tree[i] = Row(a, None)
  <2> PICK r : r = tree[i]
    OBVIOUS
  <2>1. r \in TreeRows(DOMAIN list)
    BY DEF TreeTyped
  <2>2. Identity(list, r) = id
    OBVIOUS
  <2>3. /\ (IF r.agent = None THEN 0 ELSE list[r.agent].pos) = list[a].pos
        /\ r.sub = None
    BY <2>2, <1>2 DEF Identity
  <2>4. r.agent # None
    BY <2>3, <1>1
  <2>5. r.agent \in DOMAIN list /\ r = Row(r.agent, None)
    BY <2>1, <2>3, <2>4, TreeRowFact DEF ListTyped
  <2>6. r.agent = a
    BY <2>3, <2>4, <2>5 DEF Alone
  <2> QED
    BY <2>5, <2>6
<1>6. restoreSelection(list, tree, id) \in found
  <2>1. Len(tree) \in Nat /\ found \in SUBSET (1..Len(tree))
    BY DEF TreeTyped
  <2> HIDE DEF found
  <2>2. (CHOOSE i \in found : \A j \in found : i <= j) \in found
    BY <1>4, <2>1, FoundFact
  <2> QED
    BY <1>3, <1>4, <2>2 DEF restoreSelection, found
<1> QED
  BY <1>5, <1>6

-----------------------------------------------------------------------------
(* Every step keeps the rows of the list.                                  *)

LEMMA RebuildKeeps ==
    ASSUME ListTyped(agents'), selected' \in Nat \ {0},
           NEW shown, NEW subs, NEW hide, NEW gone, rows' = buildTree(agents', shown, subs, hide, gone)
    PROVE  TreeInv'
<1>1. TreeTyped(agents', rows')
  BY TreeFact
<1> QED
  BY <1>1 DEF TreeInv, TreeTyped, ListTyped

LEMMA SameKeeps ==
    ASSUME TreeInv, UNCHANGED <<agents, rows>>, selected' \in Nat \ {0} PROVE TreeInv'
BY DEF TreeInv, TreeTyped, ListTyped

(* Rows that are made anew are rows. *)
LEMMA BuiltRows ==
    ASSUME NEW list, ListTyped(list), NEW shown, NEW subs, NEW hide, NEW gone,
           NEW tree, tree = buildTree(list, shown, subs, hide, gone)
    PROVE  tree \in Seq(TreeRows(DOMAIN list))
BY TreeFact DEF TreeTyped

LEMMA InitTree == Init => TreeInv
<1>1. CASE Fresh
  <2>1. DOMAIN agents = {} /\ rows = <<>> /\ selected = 1
    BY <1>1 DEF Fresh, Empty
  <2> QED
    BY <2>1 DEF TreeInv, ListTyped, TreeTyped
<1>2. ASSUME NEW parent \in Parents, NEW pos \in Positions, InUse(parent, pos) PROVE TreeInv
  <2>1. ListTyped(agents)
    BY <1>2 DEF InUse, ListTyped, Everyone, Groups
  <2>2. TreeTyped(agents, rows)
    BY <1>2, <2>1, TreeFact DEF InUse
  <2>3. selected \in 1..Len(rows) /\ Len(rows) \in Nat
    BY <1>2, <2>2 DEF InUse, TreeTyped
  <2> QED
    BY <2>1, <2>2, <2>3 DEF TreeInv
<1> QED
  BY <1>1, <1>2 DEF Init

LEMMA ListsTyped == ASSUME NEW list \in Lists PROVE ListTyped(list)
<1>1. PICK L \in SUBSET Agents : list \in [L -> [pos : Positions, group : Groups]]
  BY DEF Lists, Groups
<1> QED
  BY <1>1 DEF ListTyped, Everyone

LEMMA StateUpdatedKeeps == ASSUME TreeInv, NEW list \in Lists, StateUpdated(list) PROVE TreeInv'
<1>1. /\ agents' = list
      /\ rows' = buildTree(list, Shown, subagents', collapsed', dismissed')
      /\ selected' = restoreSelection(list, rows', Identity(agents, Selected))
  BY DEF StateUpdated
<1>2. ListTyped(list)
  BY ListsTyped
<1>3. rows' \in Seq(TreeRows(DOMAIN list))
  BY <1>1, <1>2, BuiltRows
<1>4. selected' \in Nat \ {0}
  BY <1>1, <1>3, RestoreFact DEF TreeInv
<1> QED
  BY <1>1, <1>2, <1>4, RebuildKeeps

LEMMA CreateSessionTyped ==
    ASSUME TreeInv, NEW pos \in Positions, CreateSession(pos) PROVE ListTyped(agents')
<1>1. /\ DOMAIN agents' = DOMAIN agents \cup {Placeholder}
      /\ \A a \in DOMAIN agents' :
            agents'[a] = IF a = Placeholder THEN [pos |-> pos, group |-> Running] ELSE agents[a]
  BY DEF CreateSession
<1> QED
  BY <1>1 DEF TreeInv, ListTyped, Everyone, Groups

LEMMA CreateSessionKeeps ==
    ASSUME TreeInv, NEW pos \in Positions, CreateSession(pos) PROVE TreeInv'
<1>1. /\ rows' = buildTree(agents', Shown, subagents, collapsed, dismissed)
      /\ selected' = restoreSelection(agents', rows', Identity(agents, Selected))
  BY DEF CreateSession
<1>2. ListTyped(agents')
  BY CreateSessionTyped
<1>3. rows' \in Seq(TreeRows(DOMAIN agents'))
  BY <1>1, <1>2, BuiltRows
<1>4. selected' \in Nat \ {0}
  BY <1>1, <1>3, RestoreFact DEF TreeInv
<1> QED
  BY <1>1, <1>2, <1>4, RebuildKeeps

LEMMA SubagentsLoadedKeeps == ASSUME TreeInv, NEW l, SubagentsLoaded(l) PROVE TreeInv'
<1>1. /\ agents' = agents
      /\ rows' = buildTree(agents, Shown, subagents', collapsed', dismissed)
      /\ selected' = restoreSelection(agents, rows', Identity(agents, Selected))
  BY DEF SubagentsLoaded
<1>2. ListTyped(agents')
  BY <1>1 DEF TreeInv
<1>3. rows' \in Seq(TreeRows(DOMAIN agents))
  BY <1>1, <1>2, BuiltRows
<1>4. selected' \in Nat \ {0}
  BY <1>1, <1>3, RestoreFact DEF TreeInv
<1> QED
  BY <1>1, <1>2, <1>4, RebuildKeeps

LEMMA QuietKeeps ==
    ASSUME TreeInv, Tick \/ FifthTick \/ ModeStolen \/ \E l : ViewLoaded(l) PROVE TreeInv'
<1>1. UNCHANGED <<agents, rows, selected>>
  BY DEF Tick, FifthTick, ModeStolen, ViewLoaded, Unmoved
<1> QED
  BY <1>1, SameKeeps DEF TreeInv

-----------------------------------------------------------------------------
(* Keys.                                                                   *)

(* Visible rows: the first is one of them. *)
LEMMA VisibleFact ==
    ASSUME TreeInv
    PROVE  /\ Len(rows) \in Nat /\ Visible \in SUBSET (1..Len(rows)) /\ Visible \in SUBSET Nat
           /\ Len(rows) # 0 => 1 \in Visible
<1>1. Len(rows) \in Nat
  BY DEF TreeInv, TreeTyped
<1>2. Len(rows) # 0 => 1 \in Visible
  <2> SUFFICES ASSUME Len(rows) # 0 PROVE 1 \in Visible
    OBVIOUS
  <2>1. rows # <<>> /\ 1 \in 1..Len(rows)
    BY <1>1
  <2>2. rows[1].agent = None
    BY <2>1 DEF TreeInv, TreeTyped
  <2> QED
    BY <2>1, <2>2 DEF Visible, Hidden
<1> QED
  BY <1>1, <1>2 DEF Visible

(* The keys that move go to a visible row. *)
Moves == \E i \in Visible : MoveKey(i)

LEMMA MovesFact == ASSUME TreeInv, Up \/ Down \/ MoveParent PROVE Moves
<1> USE VisibleFact
<1>1. CASE Up
  <2> DEFINE S == {i \in Visible : i < selected}
  <2>1. selected \in 2..Len(rows) /\ MoveKey(Greatest(S))
    BY <1>1 DEF Up
  <2>2. S \in SUBSET (1..Len(rows)) /\ 1 \in S
    BY <2>1
  <2>3. Greatest(S) \in S
    <3> HIDE DEF S
    <3> QED
      BY <2>2, GreatestFact
  <2> QED
    BY <2>1, <2>3 DEF Moves
<1>2. CASE Down
  <2> DEFINE S == {i \in Visible : i > selected}
  <2>1. /\ selected \in 1..(Len(rows) - 1)
        /\ MoveKey(IF S # {} THEN Least(S) ELSE Greatest(Visible))
    BY <1>2 DEF Down
  <2>2. S \in SUBSET Nat /\ S \subseteq Visible /\ 1 \in Visible
    BY <2>1
  <2>3. S # {} => Least(S) \in S
    <3> HIDE DEF S
    <3> QED
      BY <2>2, LeastFact
  <2>4. Greatest(Visible) \in Visible
    BY <2>2, GreatestFact
  <2> QED
    BY <2>1, <2>2, <2>3, <2>4 DEF Moves
<1>3. CASE MoveParent
  <2> DEFINE stops == {i \in Visible : rows[i].sub = None}
             above == {i \in stops : i < selected}
             below == {i \in stops : i > selected}
  <2>1. PICK i \in nextParentIndex : MoveKey(i)
    BY <1>3 DEF MoveParent
  <2>2. above \in SUBSET (1..Len(rows)) /\ below \in SUBSET Nat
        /\ above \subseteq Visible /\ below \subseteq Visible
    OBVIOUS
  <2>3. above # {} => Greatest(above) \in above
    <3> HIDE DEF above
    <3> QED
      BY <2>2, GreatestFact
  <2>4. below # {} => Least(below) \in below
    <3> HIDE DEF below
    <3> QED
      BY <2>2, LeastFact
  <2>5. i \in (IF above = {} THEN {} ELSE {Greatest(above)}) \cup (IF below = {} THEN {} ELSE {Least(below)})
    BY <2>1 DEF nextParentIndex
  <2>6. i \in Visible
    <3> HIDE DEF above, below
    <3> QED
      BY <2>2, <2>3, <2>4, <2>5
  <2> QED
    BY <2>1, <2>6 DEF Moves
<1> QED
  BY <1>1, <1>2, <1>3

LEMMA MovesKeep == ASSUME TreeInv, Moves PROVE TreeInv'
<1>1. PICK i \in Visible : MoveKey(i)
  BY DEF Moves
<1>2. selected' = i /\ UNCHANGED <<agents, rows>>
  BY <1>1 DEF MoveKey, SwitchTo
<1>3. i \in Nat \ {0}
  BY VisibleFact
<1> QED
  BY <1>2, <1>3, SameKeeps

(* Folding a group goes to its header, or nowhere. *)
LEMMA ToggleGroupFact ==
    ASSUME TreeInv, ToggleGroup
    PROVE  /\ UNCHANGED <<agents, rows>>
           /\ selected' # selected => selected' \in 1..Len(rows) /\ rows[selected'].agent = None
<1> DEFINE g == IF SelectedAgent = None THEN Selected.group ELSE agents[SelectedAgent].group
           headers == {i \in 1..(selected - 1) : rows[i].group = g}
<1>1. /\ UNCHANGED <<agents, rows>>
      /\ \/ g \notin folded /\ SelectedAgent # None /\ headers # {} /\ SwitchTo(Greatest(headers))
         \/ UNCHANGED selected
  BY DEF ToggleGroup
<1>2. ASSUME SelectedAgent # None, headers # {}
      PROVE  Greatest(headers) \in 1..Len(rows) /\ rows[Greatest(headers)].agent = None
  <2>1. /\ SelectedAgent \in DOMAIN agents /\ selected \in 1..Len(rows)
        /\ selected - 1 \in Nat /\ Len(rows) \in Nat
    BY <1>2, SelectedFact, NoRowFact, VisibleFact DEF SelectedAgent, TreeInv
  <2>2. g # 0
    BY <1>2, <2>1 DEF TreeInv, ListTyped, Groups, Running, Resumable
  <2>3. headers \in SUBSET (1..(selected - 1))
    OBVIOUS
  <2>4. Greatest(headers) \in headers
    <3> HIDE DEF headers
    <3> QED
      BY <1>2, <2>1, <2>3, GreatestFact
  <2> PICK k : k = Greatest(headers)
    OBVIOUS
  <2>5. k \in 1..Len(rows) /\ rows[k].group = g
    BY <2>1, <2>4
  <2>6. rows[k] \in TreeRows(DOMAIN agents)
    BY <2>5 DEF TreeInv, TreeTyped
  <2>7. rows[k].agent = None
    BY <2>2, <2>5, <2>6, TreeRowFact DEF TreeInv, ListTyped
  <2> QED
    BY <2>5, <2>7
<1> HIDE DEF g, headers
<1>3. CASE SelectedAgent # None /\ headers # {} /\ SwitchTo(Greatest(headers))
  <2>1. selected' = Greatest(headers)
    BY <1>3 DEF SwitchTo
  <2> QED
    BY <1>1, <1>2, <1>3, <2>1
<1> QED
  BY <1>1, <1>3

(* Rows that appear or go leave the selection where it is, within bounds. *)
LEMMA RowsToggled ==
    ASSUME TreeInv, ToggleSubagents \/ DismissSubagent
    PROVE  TreeInv' /\ (rows' = rows => selected' = selected)
<1>1. /\ agents' = agents /\ selected' = Clamp(selected, rows') /\ Selected # NoRow
      /\ \/ rows' = buildTree(agents, Everyone, subagents, collapsed', dismissed)
         \/ rows' = buildTree(agents, Everyone, subagents, collapsed, dismissed')
  BY NoRowFact DEF ToggleSubagents, DismissSubagent, SelectedAgent
<1>2. ListTyped(agents') /\ selected \in Nat \ {0}
  BY <1>1 DEF TreeInv
<1>3. rows' \in Seq(TreeRows(DOMAIN agents))
  BY <1>1, <1>2, BuiltRows
<1>4. selected' \in Nat \ {0} /\ (selected \in 1..Len(rows') => selected' = selected)
  BY <1>1, <1>2, <1>3, ClampFact
<1>5. selected \in 1..Len(rows)
  BY <1>1, SelectedFact
<1> QED
  BY <1>1, <1>2, <1>4, <1>5, RebuildKeeps

LEMMA AgentRowsFact ==
    ASSUME NEW S, NEW tree \in Seq(S)
    PROVE  /\ AgentRows(tree) \in SUBSET (1..Len(tree)) /\ AgentRows(tree) \in SUBSET Nat
           /\ Len(tree) \in Nat
           /\ selectFirstResult(tree) \in Nat \ {0}
<1>1. AgentRows(tree) \in SUBSET (1..Len(tree)) /\ Len(tree) \in Nat /\ AgentRows(tree) \in SUBSET Nat
  BY DEF AgentRows
<1>2. AgentRows(tree) # {} => Least(AgentRows(tree)) \in AgentRows(tree)
  BY <1>1, LeastFact
<1> QED
  BY <1>1, <1>2 DEF selectFirstResult

LEMMA PaletteKeeps ==
    ASSUME TreeInv, (\E match : Filter(match)) \/ SearchMove \/ closeSearch
    PROVE  TreeInv'
<1>1. ASSUME NEW match, Filter(match) PROVE TreeInv'
  <2>1. /\ agents' = agents /\ rows' = buildTree(agents, match, subagents, collapsed, dismissed)
        /\ selected' = selectFirstResult(rows')
    BY <1>1 DEF Filter
  <2>2. ListTyped(agents')
    BY <2>1 DEF TreeInv
  <2>3. selected' \in Nat \ {0}
    BY <2>1, <2>2, BuiltRows, AgentRowsFact
  <2> QED
    BY <2>1, <2>2, <2>3, RebuildKeeps
<1>2. CASE SearchMove
  <2> DEFINE above == {i \in AgentRows(rows) : i < selected}
             below == {i \in AgentRows(rows) : i > selected}
  <2>1. PICK i \in moveSearchSelection : selected' = i /\ UNCHANGED <<agents, rows>>
    BY <1>2 DEF SearchMove
  <2>2. /\ Len(rows) \in Nat /\ above \in SUBSET (1..Len(rows)) /\ below \in SUBSET Nat
        /\ above \subseteq 1..Len(rows) /\ below \subseteq 1..Len(rows)
    BY AgentRowsFact DEF TreeInv, TreeTyped
  <2>3. i \in (IF above = {} THEN {} ELSE {Greatest(above)}) \cup (IF below = {} THEN {} ELSE {Least(below)})
    BY <2>1 DEF moveSearchSelection
  <2> HIDE DEF above, below
  <2>4. i \in 1..Len(rows)
    BY <2>2, <2>3, GreatestFact, LeastFact
  <2>5. selected' \in Nat \ {0}
    BY <2>1, <2>2, <2>4
  <2> QED
    BY <2>1, <2>5, SameKeeps
<1>3. CASE closeSearch
  <2>1. /\ agents' = agents /\ rows' = buildTree(agents, Everyone, subagents, collapsed, dismissed)
        /\ selected' = Clamp(selected, rows')
    BY <1>3 DEF closeSearch
  <2>2. ListTyped(agents') /\ selected \in Nat \ {0}
    BY <2>1 DEF TreeInv
  <2>3. rows' \in Seq(TreeRows(DOMAIN agents))
    BY <2>1, <2>2, BuiltRows
  <2>4. selected' \in Nat \ {0}
    BY <2>1, <2>2, <2>3, ClampFact
  <2> QED
    BY <2>1, <2>2, <2>4, RebuildKeeps
<1> QED
  BY <1>1, <1>2, <1>3

LEMMA NextTree == ASSUME TreeInv, [Next]_vars PROVE TreeInv'
<1>1. CASE Up \/ Down \/ MoveParent
  BY <1>1, MovesFact, MovesKeep
<1>2. CASE ToggleGroup
  <2>1. UNCHANGED <<agents, rows>> /\ selected' \in Nat \ {0}
    BY <1>2, ToggleGroupFact, VisibleFact DEF TreeInv
  <2> QED
    BY <2>1, SameKeeps
<1>3. CASE ToggleSubagents \/ DismissSubagent
  BY <1>3, RowsToggled
<1>4. CASE (\E match \in Filters \cup {Everyone} : Filter(match)) \/ SearchMove \/ closeSearch
  BY <1>4, PaletteKeeps
<1>5. CASE Tick \/ FifthTick \/ ModeStolen
  BY <1>5, QuietKeeps
<1>6. ASSUME NEW list \in Lists, StateUpdated(list) PROVE TreeInv'
  BY <1>6, StateUpdatedKeeps
<1>7. ASSUME NEW kind \in Kinds, NEW of \in Agents \cup {None}, Loaded(kind, of) PROVE TreeInv'
  BY <1>7, QuietKeeps, SubagentsLoadedKeeps DEF Loaded
<1>8. ASSUME NEW pos \in Positions, CreateSession(pos) PROVE TreeInv'
  BY <1>8, CreateSessionKeeps
<1>9. CASE UNCHANGED vars
  BY <1>9, SameKeeps DEF vars, TreeInv
<1> QED
  BY <1>1, <1>2, <1>3, <1>4, <1>5, <1>6, <1>7, <1>8, <1>9 DEF Next, Keys

-----------------------------------------------------------------------------
(* The list part of the specification.                                     *)

LEMMA TreeSteps == ASSUME [MCNext]_<<part, vars, viewVars>> PROVE [Next]_vars
BY DEF MCNext

LEMMA TreeInvHolds == MCSpec => []TreeInv
<1>1. MCInit => TreeInv
  BY InitTree DEF MCInit
<1>2. TreeInv /\ [MCNext]_<<part, vars, viewVars>> => TreeInv'
  BY TreeSteps, NextTree
<1> QED
  BY <1>1, <1>2, PTL DEF MCSpec

(* The agent that is found again at its position is the one that was left. *)
LEMMA RestoreFollows ==
    ASSUME TreeInv, TreeInv', NEW a \in DOMAIN agents \cap DOMAIN agents',
           selected' = restoreSelection(agents', rows', Identity(agents, Selected)),
           Selected = Row(a, None), agents'[a].pos = agents[a].pos, Alone(agents', a),
           \E i \in 1..Len(rows') : rows'[i] = Row(a, None)
    PROVE  Selected' = Row(a, None)
<1> DEFINE id == Identity(agents, Selected)
<1>1. ListTyped(agents') /\ TreeTyped(agents', rows')
  BY DEF TreeInv, ListTyped, TreeTyped
<1>2. a # None
  BY AgentAssumption DEF TreeInv, ListTyped, Everyone
<1>3. id = [pos |-> agents'[a].pos, sub |-> None, group |-> 0]
  BY <1>2, RowFields DEF Identity
<1>4. selected' \in 1..Len(rows') /\ rows'[selected'] = Row(a, None)
  BY <1>1, <1>3, RestoreFinds
<1>5. Selected' = rows'[selected']
  BY <1>4 DEF Selected
<1> QED
  BY <1>4, <1>5

LEMMA OnlyMessagesChangeAgents ==
    ASSUME [Next]_vars, <<agents', subagents'>> # <<agents, subagents>>
    PROVE  selected' = restoreSelection(agents', rows', Identity(agents, Selected))
<1> DEFINE Restored == selected' = restoreSelection(agents', rows', Identity(agents, Selected))
<1>1. ASSUME NEW list \in Lists, StateUpdated(list) PROVE Restored
  BY <1>1 DEF StateUpdated
<1>2. ASSUME NEW pos \in Positions, CreateSession(pos) PROVE Restored
  BY <1>2 DEF CreateSession
<1>3. ASSUME NEW kind \in Kinds, NEW of \in Agents \cup {None}, Loaded(kind, of) PROVE Restored
  BY <1>3 DEF Loaded, ViewLoaded, SubagentsLoaded, Unmoved
<1>4. CASE Tick \/ FifthTick \/ ModeStolen
  BY <1>4 DEF Tick, FifthTick, ModeStolen, Unmoved
<1>5. CASE Keys
  <2>1. ASSUME NEW i, MoveKey(i) PROVE FALSE
    BY <2>1 DEF MoveKey
  <2>2. ~(Up \/ Down \/ MoveParent)
    BY <2>1 DEF Up, Down, MoveParent
  <2>3. ~(ToggleSubagents \/ ToggleGroup \/ DismissSubagent)
    BY DEF ToggleSubagents, ToggleGroup, DismissSubagent
  <2>4. ~((\E match \in Filters \cup {Everyone} : Filter(match)) \/ SearchMove \/ closeSearch)
    BY DEF Filter, SearchMove, closeSearch
  <2> QED
    BY <1>5, <2>2, <2>3, <2>4 DEF Keys
<1>6. CASE UNCHANGED vars
  BY <1>6 DEF vars
<1> QED
  BY <1>1, <1>2, <1>3, <1>4, <1>5, <1>6 DEF Next

(* Lists, placeholders and batches of subagents leave the selection with   *)
(* the agent it is on, as long as the agent is shown and its pane shares   *)
(* its position with no other (selectedIdentity, restoreSelection), for    *)
(* any agents, any lists of them and any rows that come and go.            *)
THEOREM SelectionFollows == MCSpec => SelectionFollowsAgent
<1>1. ASSUME TreeInv, TreeInv', [Next]_vars,
             NEW a \in DOMAIN agents \cap DOMAIN agents',
             <<agents', subagents'>> # <<agents, subagents>>, Selected = Row(a, None),
             agents'[a].pos = agents[a].pos, Alone(agents, a), Alone(agents', a),
             \E i \in 1..Len(rows') : rows'[i] = Row(a, None)
      PROVE  Selected' = Row(a, None)
  BY <1>1, RestoreFollows, OnlyMessagesChangeAgents
<1>2. TreeInv /\ TreeInv' /\ [MCNext]_<<part, vars, viewVars>> =>
        [\A a \in DOMAIN agents \cap DOMAIN agents' :
          (/\ <<agents', subagents'>> # <<agents, subagents>>
           /\ Selected = Row(a, None)
           /\ agents'[a].pos = agents[a].pos /\ Alone(agents, a) /\ Alone(agents', a)
           /\ \E i \in 1..Len(rows') : rows'[i] = Row(a, None))
          => Selected' = Row(a, None)]_vars
  BY <1>1, TreeSteps
<1> QED
  BY <1>2, TreeInvHolds, PTL DEF MCSpec, SelectionFollowsAgent

LEMMA KeysLandVisible ==
    ASSUME TreeInv, Keys, Normal, Normal', rows' = rows, selected' # selected
    PROVE  ~Hidden(rows, selected)'
<1>1. CASE Up \/ Down \/ MoveParent
  <2>1. PICK i \in Visible : MoveKey(i)
    BY <1>1, MovesFact DEF Moves
  <2>2. selected' = i /\ UNCHANGED <<agents, rows, folded>>
    BY <2>1 DEF MoveKey, SwitchTo
  <2>3. ~Hidden(rows, i)
    BY DEF Visible
  <2> QED
    BY <2>2, <2>3 DEF Hidden
<1>2. CASE ToggleGroup
  BY <1>2, ToggleGroupFact DEF Hidden
<1>3. CASE ToggleSubagents \/ DismissSubagent
  BY <1>3, RowsToggled
<1>4. CASE (\E match \in Filters \cup {Everyone} : Filter(match)) \/ SearchMove \/ closeSearch
  BY <1>4 DEF Filter, SearchMove, closeSearch, Normal
<1> QED
  BY <1>1, <1>2, <1>3, <1>4 DEF Keys

(* No key that moves the selection leaves it on a row that is folded away  *)
(* (the keys j, k, shift+up, shift+down and C), for any agents and lists:  *)
(* there is always a row above to go to, as the first one is a header.     *)
THEOREM MovesVisible == MCSpec => MoveLandsVisible
<1>1. TreeInv /\ [MCNext]_<<part, vars, viewVars>> =>
        [Keys /\ Normal /\ Normal' /\ rows' = rows /\ selected' # selected
          => ~Hidden(rows, selected)']_vars
  BY KeysLandVisible
<1> QED
  BY <1>1, TreeInvHolds, PTL DEF MCSpec, MoveLandsVisible

-----------------------------------------------------------------------------
(* What is drawn (TuiView, the instance View).                             *)

(* Fewer rows of header never give a section less, unless one row more is  *)
(* rounded to two; and never more than the rows that have come free.       *)
LEMMA HeightsFact ==
    ASSUME NEW p \in Int, NEW a \in Int, NEW b \in Int, a <= b,
           NEW x, x = View!panelHeights(p, a), NEW y, y = View!panelHeights(p, b)
    PROVE  /\ x.files \in Int /\ x.history \in Int /\ x.message \in Int
           /\ y.files \in Int /\ y.history \in Int /\ y.message \in Int
           /\ y.files <= x.files /\ x.files <= y.files + (b - a)
           /\ y.history <= x.history /\ x.history <= y.history + (b - a)
           /\ y.message <= x.message + (IF b - a = 1 THEN 1 ELSE 0)
           /\ x.message >= 5
<1> DEFINE r == p - a - 5
           s == p - b - 5
           f(n) == (n * 15) \div 100
           h(n) == (n * 30) \div 100
           Files(n) == IF n < 13 THEN 3 ELSE IF f(n) > 3 THEN f(n) ELSE 3
           History(n) == IF n < 13 THEN 5 ELSE IF h(n) > 5 THEN h(n) ELSE 5
           Message(n) == IF n < 13 THEN 5
                         ELSE IF n - Files(n) - History(n) > 5 THEN n - Files(n) - History(n) ELSE 5
<1>1. r \in Int /\ s \in Int /\ s <= r /\ r - s = b - a
  OBVIOUS
<1>2. /\ x.files = Files(r) /\ x.history = History(r) /\ x.message = Message(r)
      /\ y.files = Files(s) /\ y.history = History(s) /\ y.message = Message(s)
  BY DEF View!panelHeights, View!sectionGaps, View!Most
<1> HIDE DEF r, s
<1>3. /\ f(r) \in Int /\ h(r) \in Int /\ f(s) \in Int /\ h(s) \in Int
      /\ 100 * f(r) <= 15 * r /\ 15 * r < 100 * f(r) + 100
      /\ 100 * h(r) <= 30 * r /\ 30 * r < 100 * h(r) + 100
      /\ 100 * f(s) <= 15 * s /\ 15 * s < 100 * f(s) + 100
      /\ 100 * h(s) <= 30 * s /\ 30 * s < 100 * h(s) + 100
  BY ONLY <1>1
<1> HIDE DEF f, h
<1>4. /\ Files(r) \in Int /\ History(r) \in Int /\ Message(r) \in Int
      /\ Files(s) \in Int /\ History(s) \in Int /\ Message(s) \in Int
      /\ Files(s) <= Files(r) /\ Files(r) <= Files(s) + (r - s)
      /\ History(s) <= History(r) /\ History(r) <= History(s) + (r - s)
      /\ Message(s) <= Message(r) + (IF r - s = 1 THEN 1 ELSE 0)
      /\ Message(r) >= 5
  BY ONLY <1>1, <1>3
<1> QED
  BY <1>1, <1>2, <1>4

(* A viewport. *)
Ports == [h : Int, off : Int, total : Int]

LEMMA YOffsetFact ==
    ASSUME NEW v \in Ports, NEW n \in Int, NEW w, w = View!SetYOffset(v, n)
    PROVE  /\ w \in Ports /\ w.h = v.h /\ w.total = v.total
           /\ w.off = View!Most(0, View!Least(n, v.total - v.h))
BY DEF Ports, View!SetYOffset, View!Most, View!Least

LEMMA ContentFact ==
    ASSUME NEW v \in Ports, NEW n \in Int, NEW w, w = View!SetContent(v, n)
    PROVE  /\ w \in Ports /\ w.h = v.h /\ w.total = n /\ w.off >= 0
<1> PICK t, o : t = [v EXCEPT !.total = n] /\ o = v.off
  OBVIOUS
<1>1. t \in Ports /\ t.h = v.h /\ t.total = n /\ o \in Int
  BY DEF Ports
<1>2. w = View!SetYOffset(t, o)
  BY DEF View!SetContent
<1>3. w \in Ports /\ w.h = t.h /\ w.total = t.total
  BY ONLY <1>1, <1>2, YOffsetFact
<1>4. w.off = View!Most(0, View!Least(o, t.total - t.h))
  BY ONLY <1>1, <1>2, YOffsetFact
<1>5. \A x \in Int : View!Most(0, x) >= 0
  BY DEF View!Most
<1>6. View!Least(o, t.total - t.h) \in Int
  BY <1>1 DEF View!Least, Ports
<1> QED
  BY <1>1, <1>3, <1>4, <1>5, <1>6

LEMMA PortHeight ==
    ASSUME NEW v \in Ports, NEW n \in Int, NEW w, w = View!SetHeight(v, n)
    PROVE  w \in Ports /\ w.h = n
BY DEF Ports, View!SetHeight

(* The model of the reducer. *)
Modes == {"normal", "reply", "search", "confirm", "create", "usage", "dino"}

Panels == {"list", "files", "history", "message"}

Models ==
    [height : Nat \ {0}, late : Nat, quoted : BOOLEAN, mode : Modes, tree : Trees, selected : Nat \ {0}, look : [Agents -> View!Known],
     plan : BOOLEAN, diagrams : BOOLEAN, captured : Nat, focus : Panels, mouse : Int,
     list : Ports, files : Ports, history : Ports, message : Ports]

(* What it knows of the terminal and of the agents. *)
Alike(u, v) ==
    /\ u.height = v.height /\ u.late = v.late /\ u.mode = v.mode
    /\ u.tree = v.tree /\ u.selected = v.selected /\ u.look = v.look

LEMMA FillFact ==
    ASSUME NEW u \in Models, NEW f \in Int, NEW h \in Int, NEW c \in Int
    PROVE  LET r == View!Fill(u, f, h, c)
           IN  /\ r \in Models /\ Alike(r, u) /\ r.list = u.list
               /\ r.files.h = u.files.h /\ r.history.h = u.history.h
               /\ r.message.h = u.message.h /\ r.message.total = c
<1> PICK r : r = View!Fill(u, f, h, c)
  OBVIOUS
<1> PICK pf, ph, pm : /\ pf = View!SetContent(u.files, f) /\ ph = View!SetContent(u.history, h)
                      /\ pm = View!SetContent(u.message, c)
  OBVIOUS
<1>1. u.files \in Ports /\ u.history \in Ports /\ u.message \in Ports
  BY DEF Models
<1>2. /\ pf \in Ports /\ ph \in Ports /\ pm \in Ports
      /\ pf.h = u.files.h /\ ph.h = u.history.h /\ pm.h = u.message.h /\ pm.total = c
  <2>1. ASSUME NEW v \in Ports, NEW n \in Int
        PROVE  LET w == View!SetContent(v, n) IN w \in Ports /\ w.h = v.h /\ w.total = n
    BY ContentFact
  <2>2. LET w == View!SetContent(u.files, f) IN w \in Ports /\ w.h = u.files.h
    BY ONLY <1>1, <2>1, f \in Int
  <2>3. LET w == View!SetContent(u.history, h) IN w \in Ports /\ w.h = u.history.h
    BY ONLY <1>1, <2>1, h \in Int
  <2>4. LET w == View!SetContent(u.message, c) IN w \in Ports /\ w.h = u.message.h /\ w.total = c
    BY ONLY <1>1, <2>1, c \in Int
  <2> QED
    BY <2>2, <2>3, <2>4
<1>3. r = [u EXCEPT !.files = pf, !.history = ph, !.message = pm]
  BY DEF View!Fill
<1>4. r \in Models
  BY <1>2, <1>3 DEF Models
<1>5. Alike(r, u) /\ r.list = u.list /\ r.files = pf /\ r.history = ph /\ r.message = pm
  BY <1>3 DEF Models, Alike
<1> QED
  BY <1>2, <1>4, <1>5

(* What is shown. *)
LEMMA ShownFact ==
    ASSUME NEW u \in Models
    PROVE  /\ View!Shown(u).agent \in Agents \cup {None}
           /\ View!Shown(u).kind \in {"none", "group", "agent", "sub"}
           /\ View!Shown(u).kind \in {"agent", "sub"} <=> View!Shown(u).agent # None
           /\ View!Shown(u).agent # None => View!Look(u) \in View!Known
<1>1. u.tree \in Seq(View!Nodes) /\ u.look \in [Agents -> View!Known]
  BY ViewAssumption DEF Models, View!Drawable
<1>2. \A i \in DOMAIN u.tree : u.tree[i] \in View!Nodes /\ (u.tree[i].kind = "group" <=> u.tree[i].agent = None)
  BY <1>1, ViewAssumption DEF Models, View!Drawable
<1>3. CASE u.selected \in DOMAIN u.tree
  <2> PICK n : n = View!Shown(u)
    OBVIOUS
  <2>1. n = u.tree[u.selected]
    BY <1>3 DEF View!Shown
  <2>2. n \in View!Nodes /\ (n.kind = "group" <=> n.agent = None)
    BY <1>2, <1>3, <2>1
  <2>3. n.agent \in Agents \cup {None} /\ n.kind \in {"group", "agent", "sub"}
    BY <2>2 DEF View!Nodes
  <2>4. n.agent # None => View!Look(u) \in View!Known
    BY <1>1, <2>3 DEF View!Look
  <2> QED
    BY <2>2, <2>3, <2>4
<1>4. CASE u.selected \notin DOMAIN u.tree
  BY <1>4 DEF View!Shown, View!NoNode
<1> QED
  BY <1>3, <1>4

LEMMA SameShown ==
    ASSUME NEW u, NEW v, Alike(u, v)
    PROVE  /\ View!Shown(u) = View!Shown(v) /\ View!Look(u) = View!Look(v)
           /\ View!Header(u) = View!Header(v)
BY DEF Alike, View!Shown, View!Look, View!Header

LEMMA HeaderFact ==
    ASSUME NEW u \in Models, View!Shown(u).agent # None
    PROVE  View!Header(u) \in Nat
<1>1. PICK l \in View!Known : l = View!Look(u)
  BY ShownFact
<1>2. l.branch \in Nat /\ l.dir \in Nat /\ l.cost \in Nat /\ l.subs \in Nat
  BY DEF View!Known
<1> QED
  BY <1>1, <1>2 DEF View!Header

-----------------------------------------------------------------------------
(* The contents of the right panel.                                        *)

LEMMA WaitingFact ==
    ASSUME NEW u \in Models, View!Shown(u).agent # None
    PROVE  View!waitingMessageContent(u) \in Nat \ {0}
<1>1. View!Look(u).said \in Nat
  BY ShownFact DEF View!Known
<1> QED
  BY <1>1 DEF View!waitingMessageContent

LEMMA MessageFact ==
    ASSUME NEW u \in Models, View!Shown(u).agent # None
    PROVE  /\ View!MessageContent(u) \in Int
           /\ u.mode = "reply" => View!MessageContent(u) = View!waitingMessageContent(u)
<1> PICK c, w : c = View!MessageContent(u) /\ w = View!waitingMessageContent(u)
  OBVIOUS
<1>1. PICK l \in View!Known : l = View!Look(u)
  BY ShownFact
<1>2. l.diagrams \in Int /\ l.plan \in Int /\ l.said \in Int /\ u.captured \in Int /\ w \in Int
  BY WaitingFact DEF View!Known, Models
<1>3. c \in {l.diagrams, l.plan, w, l.said, u.captured}
  BY <1>1 DEF View!MessageContent
<1>4. u.mode = "reply" => c = w
  BY DEF View!MessageContent
<1> QED
  BY <1>2, <1>3, <1>4

LEMMA PanelInts ==
    ASSUME NEW p \in Int, NEW a \in Int
    PROVE  LET x == View!panelHeights(p, a)
           IN  x.files \in Int /\ x.history \in Int /\ x.message \in Int
               /\ x.files >= 3 /\ x.history >= 5 /\ x.message >= 5
BY DEF View!panelHeights, View!sectionGaps, View!Most

LEMMA HeightInts == ASSUME NEW u \in Models PROVE u.height \in Nat \ {0} /\ View!MessageHeight(u) \in Int
<1>1. u.height \in Nat \ {0}
  BY DEF Models
<1>2. View!panelHeights(u.height, 9).message \in Int
  BY <1>1, PanelInts
<1>3. View!Most(u.height - 9 - 1, 5) \in Int
  BY <1>1 DEF View!Most
<1> QED
  BY <1>1, <1>2, <1>3 DEF View!MessageHeight, View!defaultHeaderLines

LEMMA Ported ==
    ASSUME NEW u \in Models, NEW v \in Ports
    PROVE  LET r == [u EXCEPT !.message = v]
           IN  /\ r \in Models /\ Alike(r, u) /\ r.list = u.list /\ r.files = u.files
               /\ r.history = u.history /\ r.message = v
BY DEF Models, Alike

LEMMA PortedFlags ==
    ASSUME NEW u \in Models, NEW v
    PROVE  LET r == [u EXCEPT !.message = v] IN r.plan = u.plan /\ r.diagrams = u.diagrams
BY DEF Models

LEMMA Planned ==
    ASSUME NEW u \in Models, NEW b \in BOOLEAN
    PROVE  LET r == [u EXCEPT !.plan = b]
           IN  /\ r \in Models /\ Alike(r, u) /\ r.list = u.list /\ r.files = u.files
               /\ r.history = u.history /\ r.message = u.message
BY DEF Models, Alike

(* updateRightContent fills the three viewports, and gives that of the     *)
(* message its height; in reply mode it opens nothing.                     *)
Filled(r, u) ==
    /\ r \in Models /\ Alike(r, u) /\ r.list = u.list
    /\ r.files.h = u.files.h /\ r.history.h = u.history.h /\ r.message.h = View!MessageHeight(u)

LEMMA FilledFact ==
    ASSUME NEW u \in Models, NEW v \in Models, NEW f \in Int, NEW h \in Int, NEW c \in Int,
           Alike(v, u), v.list = u.list, v.files = u.files, v.history = u.history,
           v.message.h = View!MessageHeight(u)
    PROVE  Filled(View!Fill(v, f, h, c), u)
<1>1. LET r == View!Fill(v, f, h, c)
      IN  /\ r \in Models /\ Alike(r, v) /\ r.list = v.list
          /\ r.files.h = v.files.h /\ r.history.h = v.history.h
          /\ r.message.h = v.message.h /\ r.message.total = c
  BY ONLY FillFact, v \in Models, f \in Int, h \in Int, c \in Int
<1>2. Alike(View!Fill(v, f, h, c), u)
  BY <1>1 DEF Alike
<1> QED
  BY <1>1, <1>2 DEF Filled

LEMMA RightFact ==
    ASSUME NEW u \in Models
    PROVE  /\ Filled(View!updateRightContent(u), u)
           /\ u.mode = "reply" /\ View!IsAgent(u) =>
                LET r == View!updateRightContent(u)
                IN  r.plan = u.plan /\ r.diagrams = u.diagrams /\ r.message.total >= 1
<1> PICK r, port, b : /\ r = View!updateRightContent(u)
                      /\ port = View!SetHeight(u.message, View!MessageHeight(u))
                      /\ b = (u.plan \/ (View!Look(u).state = "plan" /\ View!Look(u).plan > 0 /\ u.mode # "reply"))
  OBVIOUS
<1> PICK v : v = [u EXCEPT !.message = port]
  OBVIOUS
<1> PICK w : w = [v EXCEPT !.plan = b]
  OBVIOUS
<1> PICK l : l = View!Look(u)
  OBVIOUS
<1>1. port \in Ports /\ port.h = View!MessageHeight(u)
  BY PortHeight, HeightInts DEF Models
<1>2. v \in Models /\ Alike(v, u) /\ v.list = u.list /\ v.files = u.files /\ v.history = u.history /\ v.message = port
  BY <1>1, Ported
<1>3. b \in BOOLEAN
  <2>1. u.plan \in BOOLEAN
    BY DEF Models
  <2> QED
    BY <2>1
<1>4. v.plan = u.plan /\ v.diagrams = u.diagrams
  BY PortedFlags
<1>5. w = [v EXCEPT !.plan = v.plan \/ (l.state = "plan" /\ l.plan > 0 /\ u.mode # "reply")]
  BY <1>4
<1>6. /\ w \in Models /\ Alike(w, v) /\ w.list = v.list /\ w.files = v.files
      /\ w.history = v.history /\ w.message = port
  BY <1>2, <1>3, Planned
<1>7. /\ u.mode = "create" => r = View!Fill(v, 0, 0, View!Wizard)
      /\ u.mode = "usage" => r = View!Fill(v, 0, 0, View!Usage)
      /\ u.mode \notin {"create", "usage"} /\ View!Shown(u).agent = None => r = View!Fill(v, 0, 0, 1)
      /\ u.mode \notin {"create", "usage"} /\ View!Shown(u).kind = "sub" => r = View!Fill(v, l.files, l.said, l.said)
      /\ u.mode \notin {"create", "usage"} /\ View!Shown(u).agent # None /\ View!Shown(u).kind # "sub" 
           => r = View!Fill(w, l.files, l.said, View!MessageContent(w))
  <2>1. View!Shown(u).kind = "sub" => View!Shown(u).agent # None
    BY ShownFact
  <2> QED
    BY <1>5, <2>1 DEF View!updateRightContent
<1>8. ASSUME View!Shown(u).agent # None
      PROVE  l.files \in Int /\ l.said \in Int /\ View!MessageContent(w) \in Int
  <2>1. l \in View!Known
    BY <1>8, ShownFact
  <2>2. View!Shown(w).agent # None
    BY <1>2, <1>6, <1>8, SameShown
  <2> QED
    BY <1>6, <2>1, <2>2, MessageFact DEF View!Known
<1>9. Alike(w, u) /\ w.list = u.list /\ w.files = u.files /\ w.history = u.history
  BY <1>2, <1>6 DEF Alike
<1>10. Filled(r, u)
  <2>1. ASSUME NEW f \in Int, NEW h \in Int, NEW c \in Int
        PROVE  Filled(View!Fill(v, f, h, c), u) /\ Filled(View!Fill(w, f, h, c), u)
    BY <1>1, <1>2, <1>6, <1>9, FilledFact
  <2>2. /\ Filled(View!Fill(v, 0, 0, View!Wizard), u) /\ Filled(View!Fill(v, 0, 0, View!Usage), u)
        /\ Filled(View!Fill(v, 0, 0, 1), u)
    BY <2>1, 0 \in Int, 1 \in Int, 14 \in Int, 30 \in Int DEF View!Wizard, View!Usage
  <2>3. View!Shown(u).agent # None =>
          /\ Filled(View!Fill(v, l.files, l.said, l.said), u)
          /\ Filled(View!Fill(w, l.files, l.said, View!MessageContent(w)), u)
    BY ONLY <1>8, <2>1
  <2> QED
    BY ONLY <1>7, <2>2, <2>3
<1>11. ASSUME u.mode = "reply", View!IsAgent(u)
       PROVE  r.plan = u.plan /\ r.diagrams = u.diagrams /\ r.message.total >= 1
  <2>1. View!Shown(u).kind = "agent" /\ View!Shown(u).agent # None
    BY <1>11, ShownFact DEF View!IsAgent
  <2>2. r = View!Fill(w, l.files, l.said, View!MessageContent(w))
    BY <1>7, <1>11, <2>1
  <2>3. w.mode = "reply" /\ View!Shown(w).agent # None
    <3>1. w.mode = u.mode
      BY <1>9 DEF Alike
    <3>2. View!Shown(w) = View!Shown(u)
      BY <1>9, SameShown
    <3> QED
      BY <1>11, <2>1, <3>1, <3>2
  <2>4. View!MessageContent(w) \in Nat \ {0}
    BY <1>6, <2>3, MessageFact, WaitingFact
  <2>5. r.message.total = View!MessageContent(w)
    BY ONLY <1>6, <1>8, <2>1, <2>2, FillFact
  <2>6. r.plan = w.plan /\ r.diagrams = w.diagrams
    <3>1. \A f, h, c : View!Fill(w, f, h, c).plan = w.plan /\ View!Fill(w, f, h, c).diagrams = w.diagrams
      BY <1>6 DEF Models, View!Fill
    <3> QED
      BY ONLY <2>2, <3>1, Zenon
  <2>7. w.plan = b /\ w.diagrams = v.diagrams
    BY <1>2 DEF Models
  <2>8. b = u.plan
    <3>1. u.plan \in BOOLEAN
      BY DEF Models
    <3> QED
      BY <1>11, <3>1
  <2>9. r.message.total >= 1
    BY <2>4, <2>5
  <2> QED
    BY <1>4, <2>6, <2>7, <2>8, <2>9
<1> QED
  BY <1>10, <1>11

-----------------------------------------------------------------------------
(* The lines of the list.                                                  *)

Counts(u, f, k) == f = [j \in 1..k |-> IF j = 1 THEN View!SearchLines(u) ELSE f[j - 1] + View!RowLines(u, j - 1)]

LEMMA RowFact ==
    ASSUME NEW u \in Models, NEW i \in DOMAIN u.tree
    PROVE  /\ View!RowLines(u, i) \in Nat
           /\ u.tree[i].kind = "group" => View!RowLines(u, i) = IF i = 1 THEN 1 ELSE 2
           /\ u.tree[i].kind # "group" /\ ~u.tree[i].hidden => View!RowLines(u, i) >= 1
<1>1. u.tree \in Seq(View!Nodes) /\ u.look \in [Agents -> View!Known]
  BY ViewAssumption DEF Models, View!Drawable
<1> PICK n : n = u.tree[i]
  OBVIOUS
<1>2. n \in View!Nodes /\ (n.kind = "group" <=> n.agent = None)
  BY <1>1, ViewAssumption DEF Models, View!Drawable
<1> PICK lines : lines = View!RowLines(u, i)
  OBVIOUS
<1>3. CASE n.kind = "group"
  BY <1>3 DEF View!RowLines, View!GroupLines
<1>4. CASE n.kind # "group"
  <2> PICK l : l = u.look[n.agent]
    OBVIOUS
  <2>1. l \in View!Known
    BY <1>1, <1>2, <1>4 DEF View!Nodes
  <2>2. View!AgentLines(l) \in Nat /\ View!AgentLines(l) >= 1
    BY <2>1 DEF View!AgentLines, View!Known
  <2>3. lines = IF n.hidden THEN 0 ELSE IF n.kind = "sub" THEN 1 ELSE View!AgentLines(l)
    BY <1>4 DEF View!RowLines
  <2>4. n.hidden \in BOOLEAN
    BY <1>2 DEF View!Nodes
  <2>5. CASE n.hidden
    BY <2>3, <2>5, <1>4
  <2>6. CASE ~n.hidden
    BY <2>2, <2>3, <2>6, <1>4
  <2> QED
    BY <2>4, <2>5, <2>6
<1> QED
  BY <1>3, <1>4

LEMMA SearchFact == ASSUME NEW u PROVE View!SearchLines(u) \in Nat
BY DEF View!SearchLines

LEMMA CountExists ==
    ASSUME NEW u \in Models
    PROVE  \E f \in [1..(Len(u.tree) + 1) -> Nat] : Counts(u, f, Len(u.tree) + 1)
<1> PICK n \in Nat : n = Len(u.tree) + 1 /\ DOMAIN u.tree = 1..(n - 1)
  BY ViewAssumption DEF Models, View!Drawable
<1> DEFINE Has(k) == \E f \in [1..k -> Nat] : Counts(u, f, k)
           Ready == {k \in Nat : k <= n => Has(k)}
<1>1. Has(0)
  <2>1. <<>> \in [1..0 -> Nat] /\ Counts(u, <<>>, 0)
    BY DEF Counts
  <2> QED
    BY <2>1
<1>2. ASSUME NEW k \in Nat, Has(k), k + 1 <= n PROVE Has(k + 1)
  <2>1. PICK f \in [1..k -> Nat] : Counts(u, f, k)
    BY <1>2
  <2> DEFINE next == IF k = 0 THEN View!SearchLines(u) ELSE f[k] + View!RowLines(u, k)
             g == [i \in 1..(k + 1) |-> IF i = k + 1 THEN next ELSE f[i]]
  <2>2. next \in Nat
    <3>1. CASE k = 0
      BY <3>1, SearchFact
    <3>2. CASE k # 0
      <4>1. k \in DOMAIN u.tree
        BY <1>2, <3>2
      <4> QED
        BY <3>2, <4>1, RowFact
    <3> QED
      BY <3>1, <3>2
  <2> HIDE DEF next
  <2>3. g \in [1..(k + 1) -> Nat]
    BY <2>2
  <2>4. ASSUME NEW i \in 1..(k + 1)
        PROVE  g[i] = IF i = 1 THEN View!SearchLines(u) ELSE g[i - 1] + View!RowLines(u, i - 1)
    <3>1. CASE i = k + 1
      BY <3>1 DEF next
    <3>2. CASE i # k + 1
      <4>1. i \in 1..k /\ (i # 1 => i - 1 \in 1..k)
        BY <3>2
      <4>2. g[i] = f[i] /\ (i # 1 => g[i - 1] = f[i - 1])
        BY <4>1, <3>2
      <4>3. f[i] = IF i = 1 THEN View!SearchLines(u) ELSE f[i - 1] + View!RowLines(u, i - 1)
        BY <2>1, <4>1 DEF Counts
      <4> QED
        BY <4>2, <4>3
    <3> QED
      BY <3>1, <3>2
  <2>5. Counts(u, g, k + 1)
    BY <2>4 DEF Counts
  <2> QED
    BY <2>3, <2>5
<1> HIDE DEF Has
<1>3. 0 \in Ready /\ \A k \in Nat : k \in Ready => k + 1 \in Ready
  BY <1>1, <1>2
<1> HIDE DEF Ready
<1>4. Nat \subseteq Ready
  BY <1>3, Induct
<1>5. Has(n)
  BY <1>4 DEF Ready
<1> QED
  BY <1>5 DEF Has

(* The lines before a row are those before the row above and its own. *)
LEMMA LinesFact ==
    ASSUME NEW u \in Models
    PROVE  /\ View!LinesBefore(u, 1) = View!SearchLines(u)
           /\ \A i \in DOMAIN u.tree :
                 View!LinesBefore(u, i + 1) = View!LinesBefore(u, i) + View!RowLines(u, i)
<1> PICK n \in Nat : n = Len(u.tree) + 1 /\ DOMAIN u.tree = 1..(n - 1)
  BY ViewAssumption DEF Models, View!Drawable
<1> DEFINE f == CHOOSE f : Counts(u, f, n)
<1>1. Counts(u, f, n)
  BY CountExists
<1>2. \A i : View!LinesBefore(u, i) = f[i]
  BY DEF View!LinesBefore, Counts
<1> HIDE DEF f
<1>3. \A i \in 1..n : f[i] = IF i = 1 THEN View!SearchLines(u) ELSE f[i - 1] + View!RowLines(u, i - 1)
  BY <1>1 DEF Counts
<1>4. n >= 1
  BY ViewAssumption DEF Models, View!Drawable
<1>5. f[1] = View!SearchLines(u)
  BY <1>3, <1>4
<1>6. ASSUME NEW i \in DOMAIN u.tree PROVE f[i + 1] = f[i] + View!RowLines(u, i)
  <2>1. i + 1 \in 1..n /\ i + 1 # 1 /\ (i + 1) - 1 = i
    OBVIOUS
  <2> QED
    BY <1>3, <2>1
<1> QED
  BY <1>2, <1>5, <1>6

LEMMA LinesGrow ==
    ASSUME NEW u \in Models, NEW i \in DOMAIN u.tree
    PROVE  /\ View!LinesBefore(u, i) \in Nat /\ View!LinesBefore(u, Len(u.tree) + 1) \in Nat
           /\ View!LinesBefore(u, i + 1) <= View!LinesBefore(u, Len(u.tree) + 1)
<1> PICK n \in Nat : n = Len(u.tree) /\ DOMAIN u.tree = 1..n
  BY ViewAssumption DEF Models, View!Drawable
<1> DEFINE L(j) == View!LinesBefore(u, j)
           R(j) == View!RowLines(u, j)
<1>1. L(1) \in Nat /\ \A j \in 1..n : L(j + 1) = L(j) + R(j) /\ R(j) \in Nat
  BY LinesFact, RowFact, SearchFact
<1> HIDE DEF L, R
<1> DEFINE Grown(k) == L(k + 1) \in Nat /\ \A j \in 1..k : L(j) \in Nat /\ L(j + 1) <= L(k + 1)
           Good == {k \in Nat : k <= n => Grown(k)}
<1>2. Grown(0)
  BY <1>1
<1>3. ASSUME NEW k \in Nat, Grown(k), k + 1 <= n PROVE Grown(k + 1)
  <2>1. L((k + 1) + 1) = L(k + 1) + R(k + 1) /\ R(k + 1) \in Nat
    BY <1>1, <1>3
  <2> QED
    BY <1>3, <2>1
<1> HIDE DEF Grown
<1>4. 0 \in Good /\ \A k \in Nat : k \in Good => k + 1 \in Good
  BY <1>2, <1>3
<1> HIDE DEF Good
<1>5. Nat \subseteq Good
  BY <1>4, Induct
<1>6. Grown(n)
  BY <1>5 DEF Good
<1>7. i \in 1..n
  OBVIOUS
<1> QED
  BY <1>6, <1>7 DEF Grown, L

LEMMA SameLines ==
    ASSUME NEW u \in Models, NEW v \in Models, Alike(u, v), NEW i \in 1..(Len(u.tree) + 1)
    PROVE  View!LinesBefore(u, i) = View!LinesBefore(v, i)
<1> PICK n \in Nat : n = Len(u.tree) /\ DOMAIN u.tree = 1..n /\ v.tree = u.tree
  BY ViewAssumption DEF Models, View!Drawable, Alike
<1> DEFINE Same(j) == View!LinesBefore(u, j) = View!LinesBefore(v, j)
           Good == {k \in Nat : k <= n => Same(k + 1)}
<1>1. \A j : View!RowLines(u, j) = View!RowLines(v, j)
  BY DEF Alike, View!RowLines
<1>2. View!SearchLines(u) = View!SearchLines(v)
  BY DEF Alike, View!SearchLines
<1>3. Same(0 + 1)
  BY <1>2, LinesFact
<1>4. ASSUME NEW k \in Nat, Same(k + 1), k + 1 <= n PROVE Same((k + 1) + 1)
  <2>1. k + 1 \in DOMAIN u.tree /\ k + 1 \in DOMAIN v.tree
    BY <1>4
  <2>2. /\ View!LinesBefore(u, (k + 1) + 1) = View!LinesBefore(u, k + 1) + View!RowLines(u, k + 1)
        /\ View!LinesBefore(v, (k + 1) + 1) = View!LinesBefore(v, k + 1) + View!RowLines(v, k + 1)
    BY <2>1, LinesFact
  <2> QED
    BY <1>1, <1>4, <2>2
<1> HIDE DEF Same
<1>5. 0 \in Good /\ \A k \in Nat : k \in Good => k + 1 \in Good
  BY <1>3, <1>4
<1> HIDE DEF Good
<1>6. Nat \subseteq Good
  BY <1>5, Induct
<1>7. i - 1 \in Nat /\ i - 1 <= n /\ (i - 1) + 1 = i
  OBVIOUS
<1>8. Same((i - 1) + 1)
  BY <1>6, <1>7 DEF Good
<1>9. Same(i)
  BY <1>7, <1>8
<1> QED
  BY <1>9 DEF Same

(* The line of the selected row is one of the list's. *)
LEMMA LineFact ==
    ASSUME NEW u \in Models
    PROVE  /\ View!agentListContent(u) \in Nat
           /\ View!selectedLine(u) \in Int
           /\ View!selectedLine(u) # -1 => 0 <= View!selectedLine(u) /\ View!selectedLine(u) < View!agentListContent(u)
<1> PICK n \in Nat : n = Len(u.tree) /\ DOMAIN u.tree = 1..n /\ u.tree \in Seq(View!Nodes)
  BY ViewAssumption DEF Models, View!Drawable
<1> PICK c, line, node : c = View!agentListContent(u) /\ line = View!selectedLine(u) /\ node = View!Shown(u)
  OBVIOUS
<1>1. c \in Nat
  <2>1. CASE u.tree = <<>>
    BY <2>1, SearchFact DEF View!agentListContent
  <2>2. CASE u.tree # <<>>
    <3>1. 1 \in DOMAIN u.tree
      BY <2>2
    <3> QED
      BY <2>2, <3>1, LinesGrow DEF View!agentListContent
  <2> QED
    BY <2>1, <2>2
<1>2. CASE node.kind = "none" \/ node.hidden
  <2>1. line = -1
    BY <1>2 DEF View!selectedLine
  <2> QED
    BY <1>1, <2>1
<1>3. CASE ~(node.kind = "none" \/ node.hidden)
  <2> PICK i, b : i = u.selected /\ b = View!LinesBefore(u, i)
    OBVIOUS
  <2>1. i \in DOMAIN u.tree /\ node = u.tree[i]
    BY <1>3 DEF View!Shown, View!NoNode
  <2>2. line = b + (IF node.kind = "group" /\ i > 1 THEN 1 ELSE 0)
    BY <1>3 DEF View!selectedLine
  <2>3. b \in Nat /\ b + View!RowLines(u, i) <= c
    <3>1. u.tree # <<>>
      BY <2>1
    <3>2. c = View!LinesBefore(u, Len(u.tree) + 1)
      BY <3>1 DEF View!agentListContent
    <3> QED
      BY <2>1, <3>2, LinesGrow, LinesFact
  <2>4. CASE node.kind = "group"
    BY <1>1, <2>1, <2>2, <2>3, <2>4, RowFact
  <2>5. CASE node.kind # "group"
    <3>1. View!RowLines(u, i) \in Nat /\ View!RowLines(u, i) >= 1
      BY <1>3, <2>1, <2>5, RowFact
    <3> QED
      BY <1>1, <2>2, <2>3, <2>5, <3>1
  <2> QED
    BY <2>4, <2>5
<1> QED
  BY <1>2, <1>3

LEMMA SameLine ==
    ASSUME NEW u \in Models, NEW v \in Models, Alike(u, v)
    PROVE  View!selectedLine(u) = View!selectedLine(v)
<1>1. View!Shown(u) = View!Shown(v) /\ u.selected = v.selected
  BY SameShown DEF Alike
<1>2. CASE View!Shown(u).kind = "none" \/ View!Shown(u).hidden
  <2>1. View!selectedLine(u) = -1
    BY <1>2 DEF View!selectedLine
  <2>2. View!selectedLine(v) = -1
    BY <1>1, <1>2 DEF View!selectedLine
  <2> QED
    BY <2>1, <2>2
<1>3. CASE ~(View!Shown(u).kind = "none" \/ View!Shown(u).hidden)
  <2>1. u.selected \in DOMAIN u.tree
    BY <1>3 DEF View!Shown, View!NoNode
  <2>2. u.selected \in 1..(Len(u.tree) + 1)
    BY <2>1, ViewAssumption DEF Models, View!Drawable
  <2>3. View!LinesBefore(u, u.selected) = View!LinesBefore(v, v.selected)
    BY <1>1, <2>2, SameLines
  <2> QED
    BY <1>1, <1>3, <2>3 DEF View!selectedLine
<1> QED
  BY <1>2, <1>3

LEMMA ScrollFact ==
    ASSUME NEW v \in Ports, v.off >= 0, NEW line \in Int
    PROVE  LET w == View!ScrollTo(v, line)
           IN  /\ w \in Ports /\ w.h = v.h
               /\ v.h >= 1 /\ 0 <= line /\ line < v.total => View!Draws(w, v.h, line)
<1> PICK w, h, t, o : w = View!ScrollTo(v, line) /\ h = v.h /\ t = v.total /\ o = v.off
  OBVIOUS
<1>1. h \in Int /\ t \in Int /\ o \in Int /\ o >= 0
  BY DEF Ports
<1>2. ASSUME NEW n \in Int
      PROVE  LET x == View!SetYOffset(v, n)
             IN  x \in Ports /\ x.h = h /\ x.off = View!Most(0, View!Least(n, t - h))
  BY YOffsetFact
<1>3. CASE line < 0
  BY <1>3 DEF View!ScrollTo
<1>4. CASE line >= 0 /\ line < o
  <2>1. w = View!SetYOffset(v, line)
    BY <1>1, <1>4 DEF View!ScrollTo
  <2>2. w \in Ports /\ w.h = h /\ w.off = View!Most(0, View!Least(line, t - h))
    BY <1>2, <2>1
  <2> QED
    BY <1>1, <1>4, <2>2 DEF View!Draws, View!Most, View!Least
<1>5. CASE line >= 0 /\ line >= o + h /\ ~(line < o)
  <2>1. w = View!SetYOffset(v, line - h + 1)
    BY <1>1, <1>5 DEF View!ScrollTo
  <2>2. w \in Ports /\ w.h = h /\ w.off = View!Most(0, View!Least(line - h + 1, t - h))
    BY <1>1, <1>2, <2>1
  <2> QED
    BY <1>1, <1>5, <2>2 DEF View!Draws, View!Most, View!Least
<1>6. CASE line >= 0 /\ ~(line < o) /\ ~(line >= o + h)
  <2>1. w = v
    BY <1>1, <1>6 DEF View!ScrollTo
  <2> QED
    BY <1>1, <1>6, <2>1 DEF View!Draws
<1> QED
  BY <1>1, <1>3, <1>4, <1>5, <1>6

(* updateLeftContent scrolls the list to the row that is selected. *)
LEMMA LeftFact ==
    ASSUME NEW u \in Models
    PROVE  LET r == View!updateLeftContent(u)
           IN  /\ r \in Models /\ Alike(r, u) /\ r.files = u.files /\ r.history = u.history
               /\ r.message = u.message /\ r.list.h = u.list.h
               /\ u.list.h >= 1 /\ View!selectedLine(u) # -1
                    => View!Draws(r.list, u.list.h, View!selectedLine(u))
<1> PICK v, w, line : /\ v = View!SetContent(u.list, View!agentListContent(u))
                      /\ line = View!selectedLine(u) /\ w = View!ScrollTo(v, line)
  OBVIOUS
<1> PICK r : r = [u EXCEPT !.list = w]
  OBVIOUS
<1>1. r = View!updateLeftContent(u)
  BY DEF View!updateLeftContent
<1>2. line \in Int /\ (line # -1 => 0 <= line /\ line < View!agentListContent(u)) /\ View!agentListContent(u) \in Int
  BY LineFact
<1>3. v \in Ports /\ v.h = u.list.h /\ v.total = View!agentListContent(u) /\ v.off >= 0
  <2>1. u.list \in Ports
    BY DEF Models
  <2> QED
    BY <1>2, <2>1, ContentFact
<1>4. /\ w \in Ports /\ w.h = v.h
      /\ v.h >= 1 /\ 0 <= line /\ line < v.total => View!Draws(w, v.h, line)
  BY ONLY <1>2, <1>3, ScrollFact, w = View!ScrollTo(v, line)
<1>5. /\ r \in Models /\ Alike(r, u) /\ r.files = u.files /\ r.history = u.history
      /\ r.message = u.message /\ r.list = w
  BY <1>4 DEF Models, Alike
<1> QED
  BY <1>1, <1>2, <1>3, <1>4, <1>5

-----------------------------------------------------------------------------
(* The heights of the viewports are those of the last size, before the     *)
(* quote.                                                                  *)

ListHeight(height) == IF PetHeight = 0 THEN height ELSE View!Most(height - PetHeight, 3)

Sized(u) ==
    /\ u.list.h = ListHeight(u.height + u.late)
    /\ u.files.h = View!panelHeights(u.height + u.late, 9).files
    /\ u.history.h = View!panelHeights(u.height + u.late, 9).history

ViewInv == m \in Models /\ Sized(m)

(* The list has a row, however small the terminal is. *)
LEMMA ListRow == ASSUME NEW u \in Models, Sized(u) PROVE u.list.h \in Int /\ u.list.h >= 1
<1>1. u.height + u.late \in Nat \ {0} /\ PetHeight \in Nat
  BY ViewAssumption DEF Models, View!Drawable
<1>2. ListHeight(u.height + u.late) \in Int /\ ListHeight(u.height + u.late) >= 1
  BY <1>1 DEF ListHeight, View!Most
<1> QED
  BY <1>2 DEF Sized

(* What a step leaves as it is. *)
Kept(u, v) ==
    /\ u \in Models /\ u.height = v.height /\ u.late = v.late /\ u.list.h = v.list.h
    /\ u.files.h = v.files.h /\ u.history.h = v.history.h

Still(u, v) == Kept(u, v) /\ u.tree = v.tree /\ u.selected = v.selected

LEMMA KeptSized == ASSUME NEW u, NEW v, Kept(u, v), Sized(v) PROVE Sized(u)
BY DEF Kept, Sized

LEMMA RightKeeps ==
    ASSUME NEW u, NEW v \in Models, Still(u, v)
    PROVE  Still(View!updateRightContent(u), v)
<1>1. u \in Models
  BY DEF Still, Kept
<1>2. Filled(View!updateRightContent(u), u)
  BY <1>1, RightFact
<1> QED
  BY <1>2 DEF Filled, Alike, Still, Kept

(* Update draws the row that is selected. *)
LEMMA UpdateFact ==
    ASSUME NEW u \in Models
    PROVE  LET r == View!Update(u)
           IN  /\ Kept(r, u) /\ r.tree = u.tree /\ r.selected = u.selected /\ r.mode = u.mode
               /\ u.list.h >= 1 /\ View!selectedLine(r) # -1 => View!Draws(r.list, u.list.h, View!selectedLine(r))
<1> PICK v, r : v = View!updateLeftContent(u) /\ r = View!updateRightContent(v)
  OBVIOUS
<1>1. /\ v \in Models /\ Alike(v, u) /\ v.files = u.files /\ v.history = u.history /\ v.list.h = u.list.h
      /\ u.list.h >= 1 /\ View!selectedLine(u) # -1 => View!Draws(v.list, u.list.h, View!selectedLine(u))
  BY LeftFact
<1>2. Filled(r, v)
  BY <1>1, RightFact
<1>3. r = View!Update(u)
  BY DEF View!Update
<1>4. r \in Models /\ Alike(r, u) /\ r.list = v.list
  BY <1>1, <1>2 DEF Filled, Alike
<1>5. Kept(r, u) /\ r.tree = u.tree /\ r.selected = u.selected /\ r.mode = u.mode
  BY <1>1, <1>2, <1>4 DEF Filled, Alike, Kept
<1>6. View!selectedLine(r) = View!selectedLine(u)
  BY <1>4, SameLine
<1> QED
  BY <1>1, <1>3, <1>4, <1>5, <1>6

LEMMA ResizedFact ==
    ASSUME NEW u \in Models, u.late = 0
    PROVE  LET r == View!resizeViewports(u)
           IN  /\ r \in Models /\ Sized(r) /\ r.tree = u.tree /\ r.selected = u.selected
               /\ View!selectedLine(r) # -1 => View!Draws(r.list, r.list.h, View!selectedLine(r))
<1> PICK hs, l, f, h, g :
        /\ hs = View!panelHeights(u.height, View!defaultHeaderLines)
        /\ l = View!SetHeight(u.list, IF PetHeight = 0 THEN u.height ELSE View!Most(u.height - PetHeight, 3))
        /\ f = View!SetHeight(u.files, hs.files) /\ h = View!SetHeight(u.history, hs.history)
        /\ g = View!SetHeight(u.message, hs.message)
  OBVIOUS
<1> PICK v : v = [u EXCEPT !.list = l, !.files = f, !.history = h, !.message = g]
  OBVIOUS
<1>1. View!resizeViewports(u) = View!Update(v)
  BY DEF View!resizeViewports
<1>2. u.height \in Int /\ hs.files \in Int /\ hs.history \in Int /\ hs.message \in Int
  BY HeightInts, PanelInts DEF View!defaultHeaderLines
<1>3. ListHeight(u.height) \in Int
  BY <1>2, ViewAssumption DEF ListHeight, View!Drawable, View!Most
<1>4. u.list \in Ports /\ u.files \in Ports /\ u.history \in Ports /\ u.message \in Ports
  BY DEF Models
<1>5. l \in Ports /\ l.h = ListHeight(u.height)
  BY <1>3, <1>4, PortHeight DEF ListHeight
<1>6. f \in Ports /\ f.h = hs.files /\ h \in Ports /\ h.h = hs.history
  BY ONLY <1>2, <1>4, PortHeight, f = View!SetHeight(u.files, hs.files), h = View!SetHeight(u.history, hs.history)
<1>7. g \in Ports
  BY ONLY <1>2, <1>4, PortHeight, g = View!SetHeight(u.message, hs.message)
<1>8. /\ v \in Models /\ v.height = u.height /\ v.late = u.late /\ v.tree = u.tree /\ v.selected = u.selected
      /\ v.list = l /\ v.files = f /\ v.history = h
  BY <1>5, <1>6, <1>7 DEF Models
<1>9. Sized(v)
  <2>1. v.height + v.late = u.height
    BY <1>2, <1>8
  <2> QED
    BY <1>5, <1>6, <1>8, <2>1 DEF Sized, View!defaultHeaderLines
<1>10. v.list.h >= 1
  BY <1>8, <1>9, ListRow
<1>11. LET r == View!Update(v)
       IN  /\ Kept(r, v) /\ r.tree = v.tree /\ r.selected = v.selected
           /\ View!selectedLine(r) # -1 => View!Draws(r.list, v.list.h, View!selectedLine(r))
  BY <1>8, <1>10, UpdateFact
<1>12. Sized(View!Update(v)) /\ View!Update(v) \in Models /\ View!Update(v).list.h = v.list.h
  BY <1>9, <1>11, KeptSized DEF Kept
<1> QED
  BY <1>1, <1>8, <1>11, <1>12

LEMMA ViewStarts == View!Init => ViewInv
<1> SUFFICES ASSUME NEW h \in Heights, NEW t \in Trees, NEW l \in [Agents -> Looks], NEW i \in {1, 2},
                    m = View!Fresh(h, t, l, i)
             PROVE  ViewInv
  BY DEF View!Init
<1> PICK u : u = [height |-> h, late |-> 0, quoted |-> FALSE, mode |-> "normal", tree |-> t, selected |-> i, look |-> l,
                  plan |-> FALSE, diagrams |-> FALSE, captured |-> 0, focus |-> "list", mouse |-> 0,
                  list |-> View!Port, files |-> View!Port, history |-> View!Port, message |-> View!Port]
  OBVIOUS
<1>1. View!Port \in Ports /\ l \in [Agents -> View!Known]
  BY ViewAssumption DEF View!Port, Ports, View!Drawable
<1>2. u \in Models
  <2>1. ASSUME NEW j \in Nat \ {0}, NEW b \in BOOLEAN, NEW mode \in Modes, NEW focus \in Panels, NEW n \in Nat,
               NEW p \in Ports, NEW looked \in [Agents -> View!Known]
        PROVE  [height |-> h, late |-> n, quoted |-> b, mode |-> mode, tree |-> t, selected |-> j, look |-> looked,
                plan |-> b, diagrams |-> b, captured |-> n, focus |-> focus, mouse |-> n,
                list |-> p, files |-> p, history |-> p, message |-> p] \in Models
    BY ViewAssumption DEF Models, View!Drawable
  <2>2. i \in Nat \ {0} /\ "normal" \in Modes
    BY DEF Modes
  <2>3. FALSE \in BOOLEAN
    OBVIOUS
  <2>4. "list" \in Panels
    BY DEF Panels
  <2>5. 0 \in Nat
    OBVIOUS
  <2> QED
    BY ONLY <1>1, <2>1, <2>2, <2>3, <2>4, <2>5,
            u = [height |-> h, late |-> 0, quoted |-> FALSE, mode |-> "normal", tree |-> t, selected |-> i, look |-> l,
                 plan |-> FALSE, diagrams |-> FALSE, captured |-> 0, focus |-> "list", mouse |-> 0,
                 list |-> View!Port, files |-> View!Port, history |-> View!Port, message |-> View!Port],
            Zenon
<1>3. m = View!resizeViewports(u) /\ u.late = 0
  BY DEF View!Fresh
<1> QED
  BY <1>2, <1>3, ResizedFact DEF ViewInv

-----------------------------------------------------------------------------
(* The keys and messages.                                                  *)

(* Each changes what is open or known, or where a viewport is, ... *)
LEMMA Moded ==
    ASSUME NEW u \in Models, NEW mode \in Modes
    PROVE  Still([u EXCEPT !.mode = mode], u)
BY DEF Models, Still, Kept

LEMMA Opened ==
    ASSUME NEW u \in Models, NEW p \in BOOLEAN, NEW d \in BOOLEAN, NEW f \in Panels
    PROVE  Still([u EXCEPT !.plan = p, !.diagrams = d, !.focus = f], u)
BY DEF Models, Still, Kept

LEMMA OpenedInUse ==
    ASSUME NEW u \in Models, NEW p \in BOOLEAN, NEW d \in BOOLEAN, NEW f \in Panels
    PROVE  Still([u EXCEPT !.diagrams = d, !.plan = p, !.focus = f], u)
BY DEF Models, Still, Kept

LEMMA Focused == ASSUME NEW u \in Models, NEW f \in Panels PROVE Still([u EXCEPT !.focus = f], u)
BY DEF Models, Still, Kept

LEMMA CapturedKeeps == ASSUME NEW u \in Models, NEW n \in Nat PROVE Still([u EXCEPT !.captured = n], u)
BY DEF Models, Still, Kept

LEMMA Said ==
    ASSUME NEW u \in Models, View!Shown(u).agent # None, NEW n \in Nat
    PROVE  Still([u EXCEPT !.look[View!Shown(u).agent].said = n], u)
<1> PICK a, l : a = View!Shown(u).agent /\ l = u.look[a]
  OBVIOUS
<1>1. a \in Agents /\ l \in View!Known
  BY ShownFact DEF View!Look
<1> PICK k : k = [l EXCEPT !.said = n]
  OBVIOUS
<1>2. k \in View!Known
  BY <1>1 DEF View!Known
<1> PICK looked : looked = [u.look EXCEPT ![a] = k]
  OBVIOUS
<1>3. looked \in [Agents -> View!Known]
  BY <1>1, <1>2 DEF Models
<1>4. [u EXCEPT !.look[View!Shown(u).agent].said = n] = [u EXCEPT !.look = looked]
  OBVIOUS
<1>5. Still([u EXCEPT !.look = looked], u)
  BY <1>3 DEF Models, Still, Kept
<1> QED
  BY <1>4, <1>5

LEMMA Scrolled ==
    ASSUME NEW u \in Models, NEW v \in Ports
    PROVE  /\ v.h = u.history.h => Still([u EXCEPT !.history = v], u)
           /\ Still([u EXCEPT !.message = v], u)
BY DEF Models, Still, Kept

LEMMA StillAgain == ASSUME NEW u, NEW v, NEW w, Still(u, v), Still(v, w) PROVE Still(u, w)
BY DEF Still, Kept

LEMMA Ends ==
    ASSUME NEW u \in Models
    PROVE  /\ Still([u EXCEPT !.history = View!GotoBottom(@)], u)
           /\ Still([u EXCEPT !.message = View!GotoBottom(@)], u)
           /\ Still([u EXCEPT !.message = View!GotoTop(@)], u)
<1>1. ASSUME NEW v \in Ports
      PROVE  /\ View!GotoBottom(v) \in Ports /\ View!GotoBottom(v).h = v.h
             /\ View!GotoTop(v) \in Ports /\ View!GotoTop(v).h = v.h
  <2>1. v.total \in Int /\ 0 \in Int
    BY DEF Ports
  <2> QED
    BY <2>1, YOffsetFact DEF View!GotoBottom, View!GotoTop
<1>2. u.history \in Ports /\ u.message \in Ports
  BY DEF Models
<1> QED
  BY <1>1, <1>2, Scrolled

(* ... and none of these moves the selection. *)
Quiet ==
    \/ (\E n \in {0, 40} : View!ConversationLoaded(n) \/ View!Captured(n))
    \/ View!Reply \/ View!Type \/ View!EndReply
    \/ View!TogglePlan \/ View!ToggleDiagrams \/ View!ToggleUsage \/ View!ToggleWizard \/ View!ToggleGame
    \/ View!Confirm \/ View!CreateRepeated \/ View!CreateFailed \/ View!CycleFocus
    \/ \E y \in {14, 20, 30} : View!Wheel(y, 3) \/ View!Wheel(y, -3) \/ View!WheelList(y, 3) \/ View!WheelList(y, -3)

LEMMA LoadedKeeps ==
    ASSUME ViewInv, NEW n \in Nat, View!ConversationLoaded(n) \/ View!Captured(n)
    PROVE  Still(m', m)
<1>1. m \in Models
  BY DEF ViewInv
<1>2. CASE View!ConversationLoaded(n)
  <2> PICK v, u : /\ v = [m EXCEPT !.look[View!Shown(m).agent].said = n] /\ u = View!updateRightContent(v)
    OBVIOUS
  <2>1. View!Shown(m).agent # None /\ m' \in {u, [u EXCEPT !.history = View!GotoBottom(@)]}
    BY <1>2 DEF View!ConversationLoaded, View!To
  <2>2. Still(v, m)
    BY <1>1, <2>1, Said
  <2>3. Still(u, m)
    BY <1>1, <2>2, RightKeeps
  <2>4. Still([u EXCEPT !.history = View!GotoBottom(@)], u)
    BY <2>3, Ends DEF Still, Kept
  <2> QED
    BY <2>1, <2>3, <2>4, StillAgain
<1>3. CASE View!Captured(n)
  <2> PICK v, u : /\ v = [m EXCEPT !.captured = n] /\ u = View!updateRightContent(v)
    OBVIOUS
  <2>1. m' \in {u, [u EXCEPT !.message = View!GotoBottom(@)]}
    BY <1>3 DEF View!Captured, View!To
  <2>2. Still(v, m)
    BY <1>1, CapturedKeeps
  <2>3. Still(u, m)
    BY <1>1, <2>2, RightKeeps
  <2>4. Still([u EXCEPT !.message = View!GotoBottom(@)], u)
    BY <2>3, Ends DEF Still, Kept
  <2> QED
    BY <2>1, <2>3, <2>4, StillAgain
<1> QED
  BY <1>2, <1>3

(* The keys that change the mode. *)
LEMMA ModeKeeps ==
    ASSUME ViewInv, NEW mode \in Modes, NEW u, u = View!updateRightContent([m EXCEPT !.mode = mode])
    PROVE  Still(u, m) /\ Still([u EXCEPT !.message = View!GotoBottom(@)], m)
<1>1. m \in Models
  BY DEF ViewInv
<1>2. Still(u, m)
  BY <1>1, Moded, RightKeeps
<1>3. Still([u EXCEPT !.message = View!GotoBottom(@)], u)
  BY <1>2, Ends DEF Still, Kept
<1> QED
  BY <1>2, <1>3, StillAgain

LEMMA SelfKeeps ==
    ASSUME ViewInv, NEW u, u = View!updateRightContent(m)
    PROVE  Still(u, m) /\ Still([u EXCEPT !.message = View!GotoBottom(@)], m)
<1>1. m \in Models /\ Still(m, m)
  BY DEF ViewInv, Still, Kept
<1>2. Still(u, m)
  BY <1>1, RightKeeps
<1>3. Still([u EXCEPT !.message = View!GotoBottom(@)], u)
  BY <1>2, Ends DEF Still, Kept
<1> QED
  BY <1>2, <1>3, StillAgain

LEMMA ModesKeep ==
    ASSUME ViewInv,
           \/ View!Reply \/ View!Type \/ View!EndReply \/ View!ToggleWizard \/ View!ToggleGame \/ View!Confirm
           \/ View!CreateRepeated \/ View!CreateFailed
    PROVE  Still(m', m)
<1>1. CASE View!Reply
  <2>1. "reply" \in Modes
    BY DEF Modes
  <2> QED
    BY <1>1, <2>1, ModeKeeps DEF View!Reply, View!To
<1>2. CASE View!Type
  BY <1>2, SelfKeeps DEF View!Type, View!To
<1>3. CASE View!EndReply
  <2>1. "normal" \in Modes
    BY DEF Modes
  <2> QED
    BY <1>3, <2>1, ModeKeeps DEF View!EndReply, View!To
<1>4. CASE View!ToggleWizard
  <2>1. "normal" \in Modes /\ "create" \in Modes
    BY DEF Modes
  <2> QED
    BY <1>4, <2>1, ModeKeeps DEF View!ToggleWizard, View!To
<1>5. CASE View!ToggleGame
  <2>1. "normal" \in Modes /\ "dino" \in Modes /\ m \in Models
    BY DEF Modes, ViewInv
  <2> QED
    BY <1>5, <2>1, Moded DEF View!ToggleGame, View!To
<1>6. CASE View!Confirm
  <2>1. "normal" \in Modes /\ "confirm" \in Modes /\ m \in Models
    BY DEF Modes, ViewInv
  <2> QED
    BY <1>6, <2>1, Moded DEF View!Confirm, View!To
<1>7. CASE View!CreateRepeated
  BY <1>7, SelfKeeps DEF View!CreateRepeated, View!To
<1>8. CASE View!CreateFailed
  <2>1. "normal" \in Modes /\ m \in Models
    BY DEF Modes, ViewInv
  <2> QED
    BY <1>8, <2>1, Moded DEF View!CreateFailed, View!To
<1> QED
  BY <1>1, <1>2, <1>3, <1>4, <1>5, <1>6, <1>7, <1>8

LEMMA PlansKeep == ASSUME ViewInv, View!TogglePlan \/ View!ToggleDiagrams PROVE Still(m', m)
<1>1. m \in Models
  BY DEF ViewInv
<1>2. m.plan \in BOOLEAN /\ m.diagrams \in BOOLEAN
  BY <1>1 DEF Models
<1>3. m.focus \in Panels /\ "message" \in Panels
  BY <1>1 DEF Models, Panels
<1>4. CASE View!TogglePlan
  <2> PICK v, u : /\ v = [m EXCEPT !.plan = ~@, !.diagrams = @ /\ m.plan,
                                   !.focus = IF m.plan THEN @ ELSE "message"]
                  /\ u = View!updateRightContent(v)
    OBVIOUS
  <2>1. m' \in {u, [u EXCEPT !.message = View!GotoTop(@)]}
    BY <1>4 DEF View!TogglePlan, View!To
  <2>2. Still(v, m)
    <3> PICK p, d, f : p = (~m.plan) /\ d = (m.diagrams /\ m.plan) /\ f = (IF m.plan THEN m.focus ELSE "message")
      OBVIOUS
    <3>1. p \in BOOLEAN /\ d \in BOOLEAN
      BY <1>2
    <3>2. f \in Panels
      BY <1>3
    <3>3. Still([m EXCEPT !.plan = p, !.diagrams = d, !.focus = f], m)
      BY <1>1, <3>1, <3>2, Opened
    <3>4. v = [m EXCEPT !.plan = p, !.diagrams = d, !.focus = f]
      OBVIOUS
    <3> QED
      BY <3>3, <3>4
  <2>3. Still(u, m)
    BY <1>1, <2>2, RightKeeps
  <2>4. Still([u EXCEPT !.message = View!GotoTop(@)], u)
    BY <2>3, Ends DEF Still, Kept
  <2> QED
    BY <2>1, <2>3, <2>4, StillAgain
<1>5. CASE View!ToggleDiagrams
  <2> PICK v : v = [m EXCEPT !.diagrams = ~@, !.plan = @ /\ m.diagrams,
                             !.focus = IF m.diagrams THEN @ ELSE "message"]
    OBVIOUS
  <2>1. m' = View!updateRightContent(v)
    BY <1>5 DEF View!ToggleDiagrams, View!To
  <2>2. Still(v, m)
    <3> PICK p, d, f : p = (m.plan /\ m.diagrams) /\ d = (~m.diagrams)
                       /\ f = (IF m.diagrams THEN m.focus ELSE "message")
      OBVIOUS
    <3>1. p \in BOOLEAN /\ d \in BOOLEAN
      BY <1>2
    <3>2. f \in Panels
      BY <1>3
    <3>3. Still([m EXCEPT !.diagrams = d, !.plan = p, !.focus = f], m)
      BY <1>1, <3>1, <3>2, OpenedInUse
    <3>4. v = [m EXCEPT !.diagrams = d, !.plan = p, !.focus = f]
      OBVIOUS
    <3> QED
      BY <3>3, <3>4
  <2> QED
    BY <1>1, <2>1, <2>2, RightKeeps
<1> QED
  BY <1>4, <1>5

LEMMA UsageKeeps == ASSUME ViewInv, View!ToggleUsage PROVE Still(m', m)
<1>1. m \in Models /\ "usage" \in Modes /\ "normal" \in Modes
  BY DEF ViewInv, Modes
<1>2. CASE m.mode = "usage"
  <2>1. m' = View!updateRightContent([m EXCEPT !.mode = "normal"])
    BY <1>2 DEF View!ToggleUsage, View!To
  <2> QED
    BY <1>1, <2>1, ModeKeeps
<1>3. CASE m.mode # "usage"
  <2> PICK v, w : v = [m EXCEPT !.mode = "usage"] /\ w = [v EXCEPT !.message = View!GotoTop(@)]
    OBVIOUS
  <2>1. v.message = m.message
    BY <1>1 DEF Models
  <2>2. w = [m EXCEPT !.mode = "usage", !.message = View!GotoTop(@)]
    BY <2>1
  <2>3. m' = View!updateRightContent(w)
    BY <1>3, <2>2 DEF View!ToggleUsage, View!To
  <2>4. Still(v, m)
    BY <1>1, Moded
  <2>5. Still(w, v)
    BY <2>4, Ends DEF Still, Kept
  <2>6. Still(w, m)
    BY <2>4, <2>5, StillAgain
  <2> QED
    BY <1>1, <2>3, <2>6, RightKeeps
<1> QED
  BY <1>2, <1>3

LEMMA FocusKeeps == ASSUME ViewInv, View!CycleFocus PROVE Still(m', m)
<1> PICK f : f = CASE m.focus = "list" -> "files" [] m.focus = "files" -> "history"
                   [] m.focus = "history" -> "message" [] OTHER -> "list"
  OBVIOUS
<1>1. f \in Panels
  BY DEF Panels
<1>2. m' = [m EXCEPT !.focus = f]
  BY DEF View!CycleFocus, View!To
<1> QED
  BY <1>1, <1>2, Focused DEF ViewInv

LEMMA WheelKeeps ==
    ASSUME ViewInv, NEW y \in Int, NEW by \in Int, View!Wheel(y, by) \/ View!WheelList(y, by)
    PROVE  Still(m', m)
<1>1. m \in Models
  BY DEF ViewInv
<1>2. ASSUME NEW v \in Ports
      PROVE  LET w == View!SetYOffset(v, v.off + by) IN w \in Ports /\ w.h = v.h
  <2>1. v.off + by \in Int
    BY DEF Ports
  <2> QED
    BY <2>1, YOffsetFact
<1>3. CASE View!WheelList(y, by)
  <2> PICK l : l = View!SetYOffset(m.list, m.list.off + by)
    OBVIOUS
  <2>1. l \in Ports /\ l.h = m.list.h
    BY <1>1, <1>2 DEF Models
  <2>2. m' = [m EXCEPT !.mouse = y, !.list = l]
    BY <1>3 DEF View!WheelList, View!To
  <2> QED
    BY <1>1, <2>1, <2>2 DEF Models, Still, Kept
<1>4. CASE View!Wheel(y, by)
  <2> PICK at : /\ at \in SUBSET {"files", "history", "message"}
                /\ m' = [x \in DOMAIN m |->
                            IF x = "mouse" THEN y
                            ELSE IF x \in at THEN View!SetYOffset(m[x], m[x].off + by) ELSE m[x]]
    BY <1>4 DEF View!Wheel, View!To
  <2> PICK f, h, g : /\ f = (IF "files" \in at THEN View!SetYOffset(m.files, m.files.off + by) ELSE m.files)
                     /\ h = (IF "history" \in at THEN View!SetYOffset(m.history, m.history.off + by) ELSE m.history)
                     /\ g = (IF "message" \in at THEN View!SetYOffset(m.message, m.message.off + by) ELSE m.message)
    OBVIOUS
  <2>1. /\ f \in Ports /\ f.h = m.files.h /\ h \in Ports /\ h.h = m.history.h /\ g \in Ports
    BY <1>1, <1>2 DEF Models
  <2>2. m' = [m EXCEPT !.mouse = y, !.files = f, !.history = h, !.message = g]
    BY <1>1 DEF Models
  <2> QED
    BY <1>1, <2>1, <2>2 DEF Models, Still, Kept
<1> QED
  BY <1>3, <1>4

LEMMA QuietKeepsView == ASSUME ViewInv, Quiet PROVE Still(m', m)
<1>1. \A n \in {0, 40} : n \in Nat
  OBVIOUS
<1>2. (\A y \in {14, 20, 30} : y \in Int) /\ 3 \in Int /\ -3 \in Int
  OBVIOUS
<1> QED
  BY <1>1, <1>2, LoadedKeeps, ModesKeep, PlansKeep, UsageKeeps, FocusKeeps, WheelKeeps DEF Quiet

(* The moves, the lists and the palette draw the row that is selected. *)
Drawn(u) ==
    View!selectedLine(u) = -1 \/ u.mode = "dino" \/ View!Draws(u.list, View!renderLeftPanel(u), View!selectedLine(u))

LEMMA UpdateDraws ==
    ASSUME ViewInv, NEW u, Kept(u, m), m' = View!Update(u)
    PROVE  ViewInv' /\ Drawn(m') /\ m'.tree = u.tree /\ m'.selected = u.selected
<1>1. u \in Models /\ Sized(u)
  BY KeptSized DEF Kept, ViewInv
<1>2. u.list.h >= 1
  BY <1>1, ListRow
<1>3. /\ Kept(m', u) /\ m'.tree = u.tree /\ m'.selected = u.selected
      /\ View!selectedLine(m') # -1 => View!Draws(m'.list, u.list.h, View!selectedLine(m'))
  BY <1>1, <1>2, UpdateFact
<1>4. m' \in Models /\ Sized(m') /\ m'.list.h = u.list.h
  BY <1>1, <1>3, KeptSized DEF Kept
<1>5. ViewInv'
  BY <1>4 DEF ViewInv, Sized, ListHeight
<1>6. m'.mode # "dino" => View!renderLeftPanel(m') = u.list.h
  BY <1>4 DEF View!renderLeftPanel
<1> QED
  BY <1>3, <1>5, <1>6 DEF Drawn

LEMMA SelectDraws ==
    ASSUME ViewInv, NEW i \in DOMAIN m.tree, NEW p \in BOOLEAN, NEW d \in BOOLEAN, View!Select(i, p, d)
    PROVE  ViewInv' /\ Drawn(m')
<1> PICK u : u = [m EXCEPT !.selected = i, !.plan = p, !.diagrams = d, !.captured = 0]
  OBVIOUS
<1>1. m \in Models
  BY DEF ViewInv
<1>2. i \in Nat \ {0}
  BY <1>1, ViewAssumption DEF Models, View!Drawable
<1>3. Kept(u, m)
  BY <1>1, <1>2 DEF Models, Kept
<1>4. m' = View!Update(u)
  BY DEF View!Select, View!To
<1> QED
  BY <1>3, <1>4, UpdateDraws

LEMMA ResizeDraws ==
    ASSUME NEW u \in Models, u.late = 0, m' = View!resizeViewports(u)
    PROVE  ViewInv' /\ Drawn(m')
<1>1. /\ m' \in Models /\ Sized(m')
      /\ View!selectedLine(m') # -1 => View!Draws(m'.list, m'.list.h, View!selectedLine(m'))
  BY ResizedFact
<1>2. m'.mode # "dino" => View!renderLeftPanel(m') = m'.list.h
  BY DEF View!renderLeftPanel
<1> QED
  BY <1>1, <1>2 DEF Drawn, ViewInv, Sized, ListHeight

(* The handlers that make only the left panel anew. *)
LEMMA LeftDraws ==
    ASSUME ViewInv, NEW u, Kept(u, m), m' = View!updateLeftContent(u)
    PROVE  ViewInv' /\ Drawn(m')
<1>1. u \in Models /\ Sized(u)
  BY KeptSized DEF Kept, ViewInv
<1>2. u.list.h >= 1
  BY <1>1, ListRow
<1>3. /\ m' \in Models /\ Alike(m', u) /\ m'.files = u.files /\ m'.history = u.history
      /\ m'.list.h = u.list.h
      /\ View!selectedLine(u) # -1 => View!Draws(m'.list, u.list.h, View!selectedLine(u))
  BY <1>1, <1>2, LeftFact
<1>4. View!selectedLine(m') = View!selectedLine(u)
  BY <1>1, <1>3, SameLine
<1>5. Sized(m')
  BY <1>1, <1>3 DEF Sized, Alike
<1>6. ViewInv'
  BY <1>3, <1>5 DEF ViewInv, Sized, ListHeight
<1>7. m'.mode # "dino" => View!renderLeftPanel(m') = u.list.h
  BY <1>3 DEF View!renderLeftPanel
<1> QED
  BY <1>3, <1>4, <1>6, <1>7 DEF Drawn

(* The rows made anew. *)
LEMMA RebuiltFact ==
    ASSUME ViewInv, NEW t \in Trees, NEW i \in Nat \ {0}
    PROVE  Kept(View!Rebuilt(t, i), m)
BY DEF ViewInv, Models, Kept, View!Rebuilt

LEMMA RowsFact ==
    ASSUME ViewInv, NEW t \in Trees
    PROVE  /\ View!clamped(t) \in Nat \ {0}
           /\ View!restoreSelection(t) \subseteq Nat \ {0}
           /\ DOMAIN t \subseteq Nat \ {0}
<1>1. t \in Seq(View!Nodes) /\ m.selected \in Nat \ {0}
  BY ViewAssumption DEF ViewInv, Models, View!Drawable
<1>2. View!clamped(t) \in Nat \ {0}
  BY <1>1 DEF View!clamped, View!Most, View!Least
<1>3. DOMAIN t \subseteq Nat \ {0}
  BY <1>1
<1> QED
  BY <1>2, <1>3 DEF View!restoreSelection

LEMMA ListDraws ==
    ASSUME ViewInv, NEW t \in Trees, NEW a \in Agents, NEW l \in View!Known, View!StateUpdated(t, a, l)
    PROVE  ViewInv' /\ Drawn(m')
<1> PICK i \in View!restoreSelection(t) :
        LET u == [View!Rebuilt(t, i) EXCEPT !.look[a] = l]
        IN  m' = View!Update([u EXCEPT !.plan = @ /\ View!IsAgent(u) /\ View!Look(u).state = "plan"])
  BY DEF View!StateUpdated, View!To
<1> PICK v : v = View!Rebuilt(t, i)
  OBVIOUS
<1> PICK looked : looked = [v.look EXCEPT ![a] = l]
  OBVIOUS
<1> PICK u : u = [v EXCEPT !.look = looked]
  OBVIOUS
<1> PICK p : p = (u.plan /\ View!IsAgent(u) /\ View!Look(u).state = "plan")
  OBVIOUS
<1>1. Kept(v, m)
  BY RowsFact, RebuiltFact
<1>2. looked \in [Agents -> View!Known]
  BY <1>1 DEF Kept, Models
<1>3. Kept(u, v)
  BY <1>1, <1>2 DEF Models, Kept
<1>4. Kept(u, m)
  BY <1>1, <1>3 DEF Kept
<1>5. m' = View!Update([u EXCEPT !.plan = p])
  <2>1. u = [v EXCEPT !.look[a] = l]
    OBVIOUS
  <2> QED
    BY <2>1
<1>6. p \in BOOLEAN
  <2>1. u.plan \in BOOLEAN
    BY <1>4 DEF Kept, Models
  <2> QED
    BY <2>1
<1>7. Kept([u EXCEPT !.plan = p], m)
  <2>1. LET r == [u EXCEPT !.plan = p]
        IN  /\ r \in Models /\ Alike(r, u) /\ r.list = u.list /\ r.files = u.files
            /\ r.history = u.history /\ r.message = u.message
    BY ONLY <1>4, <1>6, Planned DEF Kept
  <2> QED
    BY <1>4, <2>1 DEF Kept, Alike
<1> QED
  BY <1>5, <1>7, UpdateDraws

(* The other answers and keys that make the rows anew. *)
LEMMA RowsDraw ==
    ASSUME ViewInv, NEW t \in Trees,
           \/ View!SubagentsLoaded(t) \/ View!FoldAgent(t) \/ View!Dismiss(t)
           \/ \E i \in DOMAIN t : View!FoldGroup(t, i)
    PROVE  ViewInv' /\ Drawn(m')
<1>1. PICK i \in Nat \ {0} :
         \/ m' = View!updateLeftContent(View!Rebuilt(t, i))
         \/ m' = View!Update(View!Rebuilt(t, i))
  BY RowsFact DEF View!SubagentsLoaded, View!FoldAgent, View!Dismiss, View!FoldGroup, View!To
<1>2. Kept(View!Rebuilt(t, i), m)
  BY RebuiltFact
<1> QED
  BY <1>1, <1>2, LeftDraws, UpdateDraws

LEMMA CreatedKeeps ==
    ASSUME ViewInv, NEW t \in Trees, View!SessionCreated(t)
    PROVE  ViewInv' /\ Drawn(m')
<1>1. PICK i \in Nat \ {0} : m' = View!resizeViewports([View!Rebuilt(t, i) EXCEPT !.late = 0])
  BY RowsFact DEF View!SessionCreated, View!To
<1> PICK v : v = View!Rebuilt(t, i)
  OBVIOUS
<1> PICK u : u = [v EXCEPT !.late = 0]
  OBVIOUS
<1>2. v \in Models
  BY RebuiltFact DEF Kept
<1>3. u \in Models /\ u.late = 0
  BY <1>2 DEF Models
<1>4. m' = View!resizeViewports(u)
  BY <1>1
<1> QED
  BY <1>3, <1>4, ResizeDraws

-----------------------------------------------------------------------------
(* The palette.                                                            *)

LEMMA FilterDraws ==
    ASSUME ViewInv, NEW t \in Trees, NEW i \in DOMAIN t \cup {1}, View!Filter(t, i)
    PROVE  ViewInv' /\ Drawn(m')
<1> PICK v : v = View!Rebuilt(t, i)
  OBVIOUS
<1>1. i \in Nat \ {0} /\ "search" \in Modes
  BY RowsFact DEF Modes
<1>2. Kept(v, m)
  BY <1>1, RebuiltFact
<1>3. Kept([v EXCEPT !.mode = "search"], v)
  BY <1>1, <1>2, Moded DEF Still, Kept
<1>4. Kept([v EXCEPT !.mode = "search"], m)
  BY <1>2, <1>3 DEF Kept
<1>5. m' = View!Update([v EXCEPT !.mode = "search"])
  BY DEF View!Filter, View!To
<1> QED
  BY <1>4, <1>5, UpdateDraws

LEMMA SearchDraws ==
    ASSUME ViewInv, NEW i \in DOMAIN m.tree, View!moveSearchSelection(i)
    PROVE  ViewInv' /\ Drawn(m')
<1> PICK u : u = [m EXCEPT !.selected = i]
  OBVIOUS
<1>1. m \in Models
  BY DEF ViewInv
<1>2. i \in Nat \ {0}
  BY <1>1, ViewAssumption DEF Models, View!Drawable
<1>3. Kept(u, m)
  BY <1>1, <1>2 DEF Models, Kept
<1>4. m' = View!Update(u)
  BY DEF View!moveSearchSelection, View!To
<1> QED
  BY <1>3, <1>4, UpdateDraws

LEMMA ClosedFact ==
    ASSUME ViewInv, NEW t \in Trees
    PROVE  Kept(View!closeSearch(t), m)
<1> PICK v : v = View!Rebuilt(t, View!clamped(t))
  OBVIOUS
<1>1. Kept(v, m)
  BY RowsFact, RebuiltFact
<1>2. "normal" \in Modes
  BY DEF Modes
<1>3. Kept([v EXCEPT !.mode = "normal"], v)
  BY <1>1, <1>2, Moded DEF Still, Kept
<1> QED
  BY <1>1, <1>3 DEF Kept, View!closeSearch

LEMMA EscapeDraws ==
    ASSUME ViewInv, NEW t \in Trees, View!Escape(t)
    PROVE  ViewInv' /\ Drawn(m')
<1>1. m' = View!Update(View!closeSearch(t))
  BY DEF View!Escape, View!To
<1> QED
  BY <1>1, ClosedFact, UpdateDraws

(* Enter on an agent keeps the heights, but draws nothing. *)
LEMMA EnterKeeps ==
    ASSUME ViewInv, NEW t \in Trees, View!Enter(t)
    PROVE  ViewInv' /\ m'.tree = t
<1> PICK v : v = View!closeSearch(t)
  OBVIOUS
<1>1. Kept(v, m) /\ v \in Models
  BY ClosedFact DEF Kept
<1>2. PICK mode \in Modes : m' = [v EXCEPT !.mode = mode]
  <2>1. "normal" \in Modes /\ "confirm" \in Modes
    BY DEF Modes
  <2> QED
    BY <2>1 DEF View!Enter, View!To
<1>3. Still(m', v)
  BY <1>1, <1>2, Moded
<1>4. m' \in Models /\ Sized(m')
  BY <1>1, <1>3, KeptSized DEF Still, Kept, ViewInv
<1>5. v.tree = t
  <2>1. View!Rebuilt(t, View!clamped(t)) \in Models /\ View!Rebuilt(t, View!clamped(t)).tree = t
    BY RowsFact, RebuiltFact DEF Kept, View!Rebuilt, ViewInv, Models
  <2> QED
    BY <2>1 DEF View!closeSearch, Models
<1> QED
  BY <1>3, <1>4, <1>5 DEF ViewInv, Sized, ListHeight, Still

-----------------------------------------------------------------------------
(* The size and the quote.                                                 *)

LEMMA ResizeKeeps ==
    ASSUME ViewInv, NEW h \in Heights, View!Resize(h)
    PROVE  ViewInv' /\ m'.tree = m.tree /\ m'.selected = m.selected
<1> PICK y \in Int : y = -1
  OBVIOUS
<1> PICK u : u = [m EXCEPT !.height = h, !.late = 0, !.mouse = y]
  OBVIOUS
<1>1. h \in Nat \ {0} /\ 0 \in Nat /\ m \in Models
  BY ViewAssumption DEF View!Drawable, ViewInv
<1>2. u \in Models /\ u.late = 0 /\ u.tree = m.tree /\ u.selected = m.selected
  BY <1>1 DEF Models
<1>3. m' = View!resizeViewports(u)
  BY DEF View!Resize, View!To
<1>4. m' \in Models /\ Sized(m') /\ m'.tree = m.tree /\ m'.selected = m.selected
  BY <1>2, <1>3, ResizedFact
<1> QED
  BY <1>4 DEF ViewInv, Sized, ListHeight

(* What the panels lose the viewports are late by.  *)
LEMMA QuoteKeeps ==
    ASSUME ViewInv, NEW k \in QuoteRows, View!Quote(k)
    PROVE  ViewInv' /\ m'.tree = m.tree /\ m'.selected = m.selected
<1>1. m \in Models
  BY DEF ViewInv
<1>2. k \in Nat \ {0}
  BY ViewAssumption DEF View!Drawable
<1>3. m' = [m EXCEPT !.quoted = TRUE, !.height = @ - k, !.late = @ + k, !.mouse = @ - k] /\ k < m.height
  BY DEF View!Quote, View!To
<1>4. m.height \in Nat \ {0} /\ m.mouse \in Int /\ m.late \in Nat
  BY <1>1 DEF Models
<1> PICK p, y, n : p = m.height - k /\ y = m.mouse - k /\ n = m.late + k
  OBVIOUS
<1>5. p \in Nat \ {0} /\ y \in Int /\ TRUE \in BOOLEAN /\ n \in Nat
  BY <1>2, <1>3, <1>4
<1>6. m' = [m EXCEPT !.quoted = TRUE, !.height = p, !.late = n, !.mouse = y]
  BY <1>3
<1>7. /\ m' \in Models /\ m'.height = p /\ m'.late = n /\ m'.list = m.list /\ m'.files = m.files
      /\ m'.history = m.history /\ m'.tree = m.tree /\ m'.selected = m.selected
  BY <1>1, <1>5, <1>6 DEF Models
<1>8. m'.height + m'.late = m.height + m.late
  BY <1>2, <1>4, <1>7
<1>9. Sized(m')
  BY <1>7, <1>8 DEF ViewInv, Sized
<1> QED
  BY <1>6, <1>7, <1>9 DEF ViewInv, Sized, ListHeight

-----------------------------------------------------------------------------
(* What a step keeps, draws, or leaves to the next. *)
Same == m'.tree = m.tree /\ m'.selected = m.selected

DrawnIfMoved == ViewInv' /\ (Drawn(m') \/ Same \/ View!Enter(m'.tree))

LEMMA NextView ==
    ASSUME ViewInv, [View!Next]_(View!vars)
    PROVE  DrawnIfMoved
<1>1. ASSUME NEW h \in Heights, View!Resize(h) PROVE DrawnIfMoved
  BY <1>1, ResizeKeeps DEF DrawnIfMoved, Same
<1>2. ASSUME NEW k \in QuoteRows, View!Quote(k) PROVE DrawnIfMoved
  BY <1>2, QuoteKeeps DEF DrawnIfMoved, Same
<1>3. ASSUME NEW i \in DOMAIN m.tree, NEW p \in BOOLEAN, NEW d \in BOOLEAN, View!Select(i, p, d) PROVE DrawnIfMoved
  BY <1>3, SelectDraws DEF DrawnIfMoved
<1>4. ASSUME NEW t \in Trees, NEW a \in Agents, NEW l \in Looks, View!StateUpdated(t, a, l) PROVE DrawnIfMoved
  <2>1. l \in View!Known
    BY ViewAssumption DEF View!Drawable
  <2> QED
    BY <1>4, <2>1, ListDraws DEF DrawnIfMoved
<1>5. ASSUME NEW t \in Trees,
             \/ View!SubagentsLoaded(t) \/ View!FoldAgent(t) \/ View!Dismiss(t)
             \/ \E i \in DOMAIN t : View!FoldGroup(t, i)
      PROVE  DrawnIfMoved
  BY <1>5, RowsDraw DEF DrawnIfMoved
<1>6. ASSUME NEW t \in Trees, View!SessionCreated(t) PROVE DrawnIfMoved
  BY <1>6, CreatedKeeps DEF DrawnIfMoved
<1>7. ASSUME NEW t \in Trees, NEW i \in DOMAIN t \cup {1}, View!Filter(t, i) PROVE DrawnIfMoved
  BY <1>7, FilterDraws DEF DrawnIfMoved
<1>8. ASSUME NEW i \in DOMAIN m.tree, View!moveSearchSelection(i) PROVE DrawnIfMoved
  BY <1>8, SearchDraws DEF DrawnIfMoved
<1>9. ASSUME NEW t \in Trees, View!Escape(t) PROVE DrawnIfMoved
  BY <1>9, EscapeDraws DEF DrawnIfMoved
<1>10. ASSUME NEW t \in Trees, View!Enter(t) PROVE DrawnIfMoved
  BY <1>10, EnterKeeps DEF DrawnIfMoved
<1>11. CASE Quiet
  <2>1. Still(m', m)
    BY <1>11, QuietKeepsView
  <2>2. Sized(m')
    BY <2>1, KeptSized DEF Still, ViewInv
  <2> QED
    BY <2>1, <2>2 DEF Still, Kept, ViewInv, Sized, ListHeight, DrawnIfMoved, Same
<1>12. CASE UNCHANGED View!vars
  BY <1>12 DEF View!vars, ViewInv, Sized, ListHeight, DrawnIfMoved, Same
<1>13. CASE View!Next
  <2>1. \/ \E h \in Heights : View!Resize(h)
        \/ \E k \in QuoteRows : View!Quote(k)
        \/ \E i \in DOMAIN m.tree, p, d \in BOOLEAN : View!Select(i, p, d)
        \/ \E t \in Trees, a \in Agents, l \in Looks : View!StateUpdated(t, a, l)
        \/ \E t \in Trees : \/ View!SubagentsLoaded(t) \/ View!FoldAgent(t) \/ View!Dismiss(t)
                            \/ \E i \in DOMAIN t : View!FoldGroup(t, i)
        \/ \E t \in Trees : View!SessionCreated(t)
        \/ \E t \in Trees : \E i \in DOMAIN t \cup {1} : View!Filter(t, i)
        \/ \E i \in DOMAIN m.tree : View!moveSearchSelection(i)
        \/ \E t \in Trees : View!Escape(t)
        \/ \E t \in Trees : View!Enter(t)
        \/ Quiet
    BY <1>13, Zenon DEF View!Next, Quiet
  <2> QED
    BY <1>1, <1>2, <1>3, <1>4, <1>5, <1>6, <1>7, <1>8, <1>9, <1>10, <1>11, <2>1, Zenon
<1> QED
  BY <1>12, <1>13

-----------------------------------------------------------------------------
(* The view part of the specification.                                     *)

LEMMA ViewSteps == ASSUME [MCNext]_<<part, vars, viewVars>> PROVE [View!Next]_(View!vars)
BY DEF MCNext, viewVars, View!vars

LEMMA ViewInvHolds == MCSpec => []ViewInv
<1>1. MCInit => ViewInv
  BY ViewStarts DEF MCInit
<1>2. ViewInv /\ [MCNext]_<<part, vars, viewVars>> => ViewInv'
  BY ViewSteps, NextView DEF DrawnIfMoved
<1> QED
  BY <1>1, <1>2, PTL DEF MCSpec

(* Moves, lists and the palette scroll the list to the row that is         *)
(* selected, of any list whose rows have any number of lines, in a panel   *)
(* of any height and after any quote (updateLeftContent, selectedLine),    *)
(* but for what SelectionIsDrawn excepts: a row in a folded group, the     *)
(* game, and Enter on an agent in the palette.                             *)
THEOREM SelectionShows == MCSpec => SelectionIsDrawn
<1>1. ASSUME ViewInv, [MCNext]_<<part, vars, viewVars>>,
             m'.selected # m.selected \/ m'.tree # m.tree \/ View!Listed, ~View!Enter(m'.tree)
      PROVE  Drawn(m')
  <2>1. DrawnIfMoved
    BY <1>1, ViewSteps, NextView
  <2>2. CASE View!Listed
    <3>1. PICK a \in Agents : View!StateUpdated(m'.tree, a, m'.look[a])
      BY <2>2 DEF View!Listed
    <3> PICK t, l : t = m'.tree /\ l = m'.look[a]
      OBVIOUS
    <3>2. t \in Trees /\ l \in View!Known
      BY <2>1 DEF DrawnIfMoved, ViewInv, Models
    <3>3. View!StateUpdated(t, a, l)
      BY <3>1
    <3> QED
      BY <1>1, <3>2, <3>3, ListDraws
  <2> QED
    BY <1>1, <2>1, <2>2 DEF DrawnIfMoved, Same
<1>2. ViewInv /\ [MCNext]_<<part, vars, viewVars>> =>
        [(m'.selected # m.selected \/ m'.tree # m.tree \/ View!Listed) /\ ~View!Enter(m'.tree)
           => \/ View!selectedLine(m') = -1 \/ m'.mode = "dino"
              \/ View!Draws(m'.list, View!renderLeftPanel(m'), View!selectedLine(m'))]_(View!vars)
  BY <1>1 DEF Drawn
<1> QED
  BY <1>2, ViewInvHolds, PTL DEF MCSpec, SelectionIsDrawn, View!SelectionIsDrawn

(* The sections of a panel of fewer rows are no larger, and smaller by no  *)
(* more than those, but for one row that is rounded to both.               *)
LEMMA RoomFact ==
    ASSUME NEW p \in Int, NEW a \in Int, NEW q \in Int, NEW b \in Int, p - a <= q - b,
           NEW x, x = View!panelHeights(p, a), NEW y, y = View!panelHeights(q, b)
    PROVE  /\ x.files \in Int /\ x.history \in Int /\ y.files \in Int /\ y.history \in Int
           /\ x.files <= y.files /\ y.files <= x.files + ((q - b) - (p - a))
           /\ x.history <= y.history /\ y.history <= x.history + ((q - b) - (p - a))
           /\ (q - b) - (p - a) # 1 =>
                 y.files + y.history <= x.files + x.history + ((q - b) - (p - a))
<1> DEFINE r == q - b - 5
           s == p - a - 5
           f(n) == (n * 15) \div 100
           h(n) == (n * 30) \div 100
           Files(n) == IF n < 13 THEN 3 ELSE IF f(n) > 3 THEN f(n) ELSE 3
           History(n) == IF n < 13 THEN 5 ELSE IF h(n) > 5 THEN h(n) ELSE 5
<1>1. r \in Int /\ s \in Int /\ s <= r /\ r - s = (q - b) - (p - a)
  OBVIOUS
<1>2. /\ y.files = Files(r) /\ y.history = History(r)
      /\ x.files = Files(s) /\ x.history = History(s)
  BY DEF View!panelHeights, View!sectionGaps, View!Most
<1> HIDE DEF r, s
<1>3. /\ f(r) \in Int /\ h(r) \in Int /\ f(s) \in Int /\ h(s) \in Int
      /\ 100 * f(r) <= 15 * r /\ 15 * r < 100 * f(r) + 100
      /\ 100 * h(r) <= 30 * r /\ 30 * r < 100 * h(r) + 100
      /\ 100 * f(s) <= 15 * s /\ 15 * s < 100 * f(s) + 100
      /\ 100 * h(s) <= 30 * s /\ 30 * s < 100 * h(s) + 100
  BY ONLY <1>1
<1> HIDE DEF f, h
<1>4. /\ Files(r) \in Int /\ History(r) \in Int /\ Files(s) \in Int /\ History(s) \in Int
      /\ Files(s) <= Files(r) /\ Files(r) <= Files(s) + (r - s)
      /\ History(s) <= History(r) /\ History(r) <= History(s) + (r - s)
      /\ r - s # 1 => Files(r) + History(r) <= Files(s) + History(s) + (r - s)
  BY ONLY <1>1, <1>3
<1> QED
  BY <1>1, <1>2, <1>4

(* Where the sections are drawn and where the mouse looks for them differ  *)
(* by no more than the header's rows and their estimate do, or than the    *)
(* rows the quote took.                                                    *)
LEMMA NearFact ==
    ASSUME NEW p \in Int, NEW a \in Int, NEW k \in Nat
    PROVE  LET x == View!panelHeights(p, a)
               y == View!panelHeights(p + k, 9)
           IN  /\ View!Distance(a + x.files + 2, 9 + y.files + 2) <= View!Most(View!Distance(a, 9), k)
               /\ View!Distance(a + x.files + x.history + 4, 9 + y.files + y.history + 4)
                    <= View!Most(View!Distance(a, 9), View!WithRounding(k))
<1> PICK x, y, q : q = p + k /\ x = View!panelHeights(p, a) /\ y = View!panelHeights(q, 9)
  OBVIOUS
<1> PICK xf, xh, yf, yh : xf = x.files /\ xh = x.history /\ yf = y.files /\ yh = y.history
  OBVIOUS
<1> PICK d : d = (a - 9) + k
  OBVIOUS
<1>1. q \in Int /\ d \in Int /\ (q - 9) - (p - a) = d
  OBVIOUS
<1>2. /\ xf \in Int /\ xh \in Int /\ yf \in Int /\ yh \in Int
      /\ d >= 0 => /\ xf <= yf /\ yf <= xf + d /\ xh <= yh /\ yh <= xh + d
                   /\ d # 1 => yf + yh <= xf + xh + d
      /\ d <= 0 => /\ yf <= xf /\ xf <= yf - d /\ yh <= xh /\ xh <= yh - d
                   /\ d # -1 => xf + xh <= yf + yh - d
  <2>1. CASE d >= 0
    <3>1. p - a <= q - 9
      BY <1>1, <2>1
    <3> QED
      BY <1>1, <2>1, <3>1, RoomFact
  <2>2. CASE d <= 0
    <3>1. q - 9 <= p - a /\ (p - a) - (q - 9) = -d
      BY <1>1, <2>2
    <3> QED
      BY <1>1, <2>2, <3>1, RoomFact
  <2> QED
    BY <1>1, <2>1, <2>2
<1>3. /\ View!Distance(a + xf + 2, 9 + yf + 2) <= View!Most(View!Distance(a, 9), k)
      /\ View!Distance(a + xf + xh + 4, 9 + yf + yh + 4)
           <= View!Most(View!Distance(a, 9), View!WithRounding(k))
  BY <1>1, <1>2 DEF View!Distance, View!Most, View!WithRounding
<1> QED
  BY <1>3

LEMMA NearMouse == ASSUME ViewInv PROVE WheelIsNear
<1> SUFFICES ASSUME m.mode \notin {"create", "usage"}, View!Shown(m).agent # None,
                    ~View!ShowsPlan(m), ~View!ShowsDiagrams(m)
             PROVE  /\ View!Distance(View!DrawnStart(m).history, View!MouseStart(m).history)
                         <= View!Most(View!Distance(View!Header(m), 9), m.late)
                    /\ View!Distance(View!DrawnStart(m).message, View!MouseStart(m).message)
                         <= View!Most(View!Distance(View!Header(m), 9), View!WithRounding(m.late))
  BY DEF WheelIsNear, View!WheelIsNear, View!defaultHeaderLines
<1> PICK a, p, k : a = View!Header(m) /\ p = m.height /\ k = m.late
  OBVIOUS
<1>1. a \in Int /\ p \in Int /\ k \in Nat
  BY HeaderFact, HeightInts DEF ViewInv, Models
<1> PICK x, y : x = View!panelHeights(p, a) /\ y = View!panelHeights(p + k, 9)
  OBVIOUS
<1>2. View!renderRightPanel(m) = x
  BY DEF View!renderRightPanel
<1>3. m.files.h = y.files /\ m.history.h = y.history
  BY DEF ViewInv, Sized
<1>4. /\ View!DrawnStart(m).history = a + x.files + 2
      /\ View!DrawnStart(m).message = a + x.files + x.history + 4
  BY <1>2 DEF View!DrawnStart
<1>5. /\ View!MouseStart(m).history = 9 + y.files + 2
      /\ View!MouseStart(m).message = 9 + y.files + y.history + 4
  BY <1>3 DEF View!MouseStart, View!defaultHeaderLines
<1>6. /\ View!Distance(a + x.files + 2, 9 + y.files + 2) <= View!Most(View!Distance(a, 9), k)
      /\ View!Distance(a + x.files + x.history + 4, 9 + y.files + y.history + 4)
           <= View!Most(View!Distance(a, 9), View!WithRounding(k))
  BY ONLY <1>1, NearFact, x = View!panelHeights(p, a), y = View!panelHeights(p + k, 9)
<1> QED
  BY <1>4, <1>5, <1>6

(* The mouse wheel, which takes the sections of the right panel to be      *)
(* where the estimated header and the sizes of their viewports put them,   *)
(* is off by no more rows than the estimate is, for any header, panel and  *)
(* texts (handleMouse): each row of header more or less moves the two      *)
(* boundaries by a row at most.  A quote of k rows since the viewports     *)
(* were sized moves them by up to k, and the second by up to k + 1.        *)
THEOREM WheelStaysNear == MCSpec => []WheelIsNear
BY ViewInvHolds, NearMouse, PTL

-----------------------------------------------------------------------------
(* The line that is typed.                                                 *)

(* The panel gives the message no fewer rows than the reducer thought. *)
LEMMA ReplyRoom ==
    ASSUME NEW u \in Models, NEW w \in Models, Alike(w, u), w.plan = u.plan, w.diagrams = u.diagrams,
           u.mode = "reply", View!IsAgent(u), View!Header(w) <= 9
    PROVE  /\ View!renderRightPanel(w).message + View!Short(w) \in Int
           /\ View!MessageHeight(u) <= View!renderRightPanel(w).message + View!Short(w)
<1> PICK a, p, s : a = View!Header(w) /\ p = u.height /\ s = View!Short(w)
  OBVIOUS
<1>1. View!Shown(w) = View!Shown(u) /\ View!Look(w) = View!Look(u) /\ w.height = p /\ w.mode = "reply"
  BY SameShown DEF Alike
<1>2. View!Shown(w).agent # None
  BY <1>1, ShownFact DEF View!IsAgent
<1>3. a \in Int /\ p \in Int /\ s = (IF a = 8 THEN 1 ELSE 0) /\ a <= 9
  BY <1>2, HeaderFact, HeightInts DEF View!Short, View!defaultHeaderLines
<1>4. View!ShowsPlan(w) <=> View!ShowsPlan(u)
  BY <1>1 DEF View!ShowsPlan, View!IsAgent
<1>5. View!ShowsDiagrams(w) <=> View!ShowsDiagrams(u)
  BY <1>1 DEF View!ShowsDiagrams, View!IsAgent
<1>6. CASE View!ShowsPlan(u) \/ View!ShowsDiagrams(u)
  <2>1. View!MessageHeight(u) = View!Most(p - 9 - 1, 5)
    BY <1>6 DEF View!MessageHeight, View!defaultHeaderLines
  <2>2. View!renderRightPanel(w).message = View!Most(p - a - 1, 5)
    BY <1>1, <1>2, <1>4, <1>5, <1>6 DEF View!renderRightPanel, View!Whole
  <2> QED
    BY <1>3, <2>1, <2>2 DEF View!Most
<1>7. CASE ~(View!ShowsPlan(u) \/ View!ShowsDiagrams(u))
  <2>1. View!MessageHeight(u) = View!panelHeights(p, 9).message
    BY <1>7 DEF View!MessageHeight, View!defaultHeaderLines
  <2>2. View!renderRightPanel(w).message = View!panelHeights(p, a).message
    BY <1>1, <1>2, <1>4, <1>5, <1>7 DEF View!renderRightPanel
  <2>3. /\ View!panelHeights(p, a).message \in Int /\ View!panelHeights(p, 9).message \in Int
        /\ View!panelHeights(p, 9).message <= View!panelHeights(p, a).message + (IF 9 - a = 1 THEN 1 ELSE 0)
    BY <1>3, HeightsFact
  <2> QED
    BY <1>3, <2>1, <2>2, <2>3
<1> QED
  BY <1>6, <1>7

LEMMA BottomDraws ==
    ASSUME NEW v \in Ports, NEW h \in Int, v.h <= h, v.h >= 1, v.total >= 1
    PROVE  LET w == View!GotoBottom(v) IN View!Draws(w, h, w.total - 1)
<1> PICK w : w = View!GotoBottom(v)
  OBVIOUS
<1>1. v.h \in Int /\ v.total \in Int
  BY DEF Ports
<1>2. w.total = v.total /\ w.off = View!Most(0, View!Least(v.total, v.total - v.h))
  BY <1>1, YOffsetFact DEF View!GotoBottom
<1> QED
  BY <1>1, <1>2 DEF View!Draws, View!Most, View!Least

LEMMA ReplyShown ==
    ASSUME NEW u \in Models, u.mode = "reply", NEW r, r = View!updateRightContent(u),
           NEW w, w = [r EXCEPT !.message = View!GotoBottom(@)], View!IsAgent(w), View!Header(w) <= 9
    PROVE  View!Draws(w.message, View!renderRightPanel(w).message + View!Short(w), w.message.total - 1)
<1>1. Filled(r, u)
  BY RightFact
<1>2. r \in Models /\ r.message \in Ports /\ r.message.h = View!MessageHeight(u)
  BY <1>1 DEF Filled, Models
<1>3. View!GotoBottom(r.message) \in Ports
  BY <1>2, YOffsetFact DEF View!GotoBottom, Ports
<1>4. w \in Models /\ Alike(w, r) /\ w.message = View!GotoBottom(r.message)
  BY <1>2, <1>3, Ported
<1>5. Alike(w, u)
  BY <1>1, <1>4 DEF Filled, Alike
<1>6. View!IsAgent(u)
  BY <1>5, SameShown DEF View!IsAgent
<1>7. r.plan = u.plan /\ r.diagrams = u.diagrams
  BY <1>6, RightFact
<1>8. r.message.total >= 1
  BY <1>6, RightFact
<1>9. w.plan = r.plan /\ w.diagrams = r.diagrams
  BY <1>2, PortedFlags
<1>10. w.plan = u.plan /\ w.diagrams = u.diagrams
  BY <1>7, <1>9
<1> PICK h : h = View!renderRightPanel(w).message + View!Short(w)
  OBVIOUS
<1>11. h \in Int /\ View!MessageHeight(u) <= h
  BY <1>4, <1>5, <1>6, <1>10, ReplyRoom
<1>12. View!MessageHeight(u) >= 1
  <2>1. View!panelHeights(u.height, 9).message >= 1
    BY HeightInts, PanelInts
  <2>2. View!Most(u.height - 9 - 1, 5) >= 1
    BY HeightInts DEF View!Most
  <2> QED
    BY <2>1, <2>2 DEF View!MessageHeight, View!defaultHeaderLines
<1>13. View!Draws(w.message, h, w.message.total - 1)
  BY <1>2, <1>4, <1>8, <1>11, <1>12, BottomDraws
<1> QED
  BY <1>13

(* What is typed in a reply is on the screen after every key, for any      *)
(* header within its estimate, texts and plans of any number of rows and   *)
(* a panel of any height (updateRightContent, replyMsg, renderRightPanel). *)
THEOREM ReplyShows == MCSpec => ReplyIsDrawn
<1>1. ASSUME ViewInv, View!Reply \/ View!Type, View!IsAgent(m'), View!Header(m') <= 9
      PROVE  View!Draws(m'.message, View!renderRightPanel(m').message + View!Short(m'), m'.message.total - 1)
  <2>1. m \in Models
    BY <1>1 DEF ViewInv
  <2>2. PICK u \in Models : /\ u.mode = "reply"
                            /\ LET r == View!updateRightContent(u)
                               IN  m' = [r EXCEPT !.message = View!GotoBottom(@)]
    <3>1. CASE View!Reply
      <4> PICK u : u = [m EXCEPT !.mode = "reply"]
        OBVIOUS
      <4>1. "reply" \in Modes
        BY DEF Modes
      <4>2. u \in Models /\ u.mode = "reply"
        BY <2>1, <4>1 DEF Models
      <4>3. LET r == View!updateRightContent(u) IN m' = [r EXCEPT !.message = View!GotoBottom(@)]
        BY <3>1 DEF View!Reply, View!To
      <4> QED
        BY <4>2, <4>3
    <3>2. CASE View!Type
      BY <2>1, <3>2 DEF View!Type, View!To
    <3> QED
      BY <1>1, <3>1, <3>2
  <2> PICK w : w = m'
    OBVIOUS
  <2>3. View!Draws(w.message, View!renderRightPanel(w).message + View!Short(w), w.message.total - 1)
    BY <1>1, <2>2, ReplyShown
  <2> QED
    BY <2>3
<1>2. ViewInv /\ [MCNext]_<<part, vars, viewVars>> =>
        [(View!Reply \/ View!Type) /\ View!IsAgent(m') /\ View!Roomy(m') /\ View!Header(m') <= View!defaultHeaderLines
           => View!Draws(m'.message, View!renderRightPanel(m').message + View!Short(m'), m'.message.total - 1)]_(View!vars)
  BY <1>1 DEF View!defaultHeaderLines
<1> QED
  BY <1>2, ViewInvHolds, PTL DEF MCSpec, ReplyIsDrawn, View!ReplyIsDrawn
=============================================================================
