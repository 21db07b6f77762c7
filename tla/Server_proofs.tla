--------------------------- MODULE Server_proofs ---------------------------
(***************************************************************************)
(* Proofs about the ProtoServer, for any sessions, Tables, Views, joins    *)
(* and requests: its maps agree between any two requests; and, for the     *)
(* requests that its promises are made under, lazy deletes are answered,   *)
(* joins are current and a session leaves no View behind.                  *)
(***************************************************************************)
EXTENDS ServerHistory, FiniteSetTheorems, WellFoundedInduction, TLAPS

----------------------------------------------------------------------------
(* Induction, and functions that are defined by recursion.                 *)

\* A set of numbers that is not empty has a least one.
LEMMA LeastNat ==
    ASSUME NEW T \in SUBSET Nat, T # {}
    PROVE  \E x \in T : \A y \in T : x <= y
  <1> DEFINE R == {ss \in Nat \X Nat : ss[1] < ss[2]}
  <1>1. IsWellFoundedOn(R, Nat)
    BY NatLessThanWellFounded DEF OpToRel
  <1>2. PICK x \in T : \A y \in T : <<y, x>> \notin R
    BY <1>1, WFMin
  <1>3. \A y \in T : ~(y < x)
    BY <1>2
  <1>4. \A y \in T : x \in Nat /\ y \in Nat
    OBVIOUS
  <1> HIDE DEF R
  <1> QED
    BY <1>3, <1>4

\* Induction, for the set of numbers of which something is true.
LEMMA NatInductionOnSets ==
    ASSUME NEW P \in SUBSET Nat, 0 \in P, \A n \in P : n + 1 \in P
    PROVE  P = Nat
  <1> SUFFICES ASSUME Nat \ P # {}
               PROVE  FALSE
    OBVIOUS
  <1>1. PICK x \in Nat \ P : \A y \in Nat \ P : x <= y
    BY LeastNat
  <1>2. x - 1 \in Nat
    BY <1>1
  <1>3. x - 1 \in P
    BY <1>1, <1>2
  <1> QED
    BY <1>1, <1>3

\* f is start at 1, and the step of what comes before it further on.
Follows(f, n, start, step) ==
    \A i \in 1..n : f[i] = IF i = 1 THEN start ELSE step[<<i, f[i - 1]>>]

\* There is such a function.
LEMMA RecursionExists ==
    ASSUME NEW n \in Nat \ {0}, NEW V, NEW start \in V, NEW step \in [(1..n) \X V -> V]
    PROVE  \E f \in [1..n -> V] : Follows(f, n, start, step)
  <1> DEFINE Upto(m, f) == \A i \in 1..m : f[i] = IF i = 1 THEN start ELSE step[<<i, f[i - 1]>>]
             P == {m \in Nat : m < n => \E f \in [1..(m + 1) -> V] : Upto(m + 1, f)}
  <1>1. 0 \in P
    <2>1. [i \in 1..1 |-> start] \in [1..1 -> V] /\ Upto(1, [i \in 1..1 |-> start])
      OBVIOUS
    <2>2. \E f \in [1..1 -> V] : Upto(1, f)
      BY <2>1
    <2>3. 0 \in Nat /\ 0 + 1 = 1
      OBVIOUS
    <2> HIDE DEF Upto
    <2> QED
      BY <2>2, <2>3
  <1>2. ASSUME NEW m \in P
        PROVE  m + 1 \in P
    <2> SUFFICES ASSUME m + 1 < n
                 PROVE  \E f \in [1..(m + 2) -> V] : Upto(m + 2, f)
      OBVIOUS
    <2>1. PICK f \in [1..(m + 1) -> V] : Upto(m + 1, f)
      BY <1>2
    <2> DEFINE g == [i \in 1..(m + 2) |-> IF i = m + 2 THEN step[<<m + 2, f[m + 1]>>] ELSE f[i]]
    <2>2. m \in Nat /\ m + 2 \in 1..n /\ f[m + 1] \in V
      BY <2>1
    <2>3. step[<<m + 2, f[m + 1]>>] \in V
      BY <2>2
    <2>4. g \in [1..(m + 2) -> V]
      BY <2>2, <2>3
    <2>5. \A i \in 1..(m + 1) : g[i] = f[i]
      BY <2>2
    <2>6. ASSUME NEW i \in 1..(m + 2)
          PROVE  g[i] = IF i = 1 THEN start ELSE step[<<i, g[i - 1]>>]
      <3>1. CASE i = m + 2
        <4>1. i - 1 = m + 1 /\ i # 1 /\ g[i] = step[<<m + 2, f[m + 1]>>] /\ m + 1 \in 1..(m + 1)
          BY <2>2, <3>1
        <4>2. g[i - 1] = f[m + 1]
          BY <2>5, <4>1
        <4> HIDE DEF g
        <4> QED
          BY <3>1, <4>1, <4>2
      <3>2. CASE i # m + 2
        <4>1. i \in 1..(m + 1) /\ (i = 1 \/ i - 1 \in 1..(m + 1))
          BY <2>2, <3>2
        <4>2. g[i] = f[i] /\ (i = 1 \/ g[i - 1] = f[i - 1])
          BY <2>5, <4>1
        <4>3. f[i] = IF i = 1 THEN start ELSE step[<<i, f[i - 1]>>]
          BY <2>1, <4>1
        <4> HIDE DEF g
        <4> QED
          BY <4>2, <4>3
      <3> QED
        BY <3>1, <3>2
    <2> HIDE DEF g
    <2> QED
      BY <2>4, <2>6
  <1>3. P = Nat
    <2> HIDE DEF P
    <2>1. P \in SUBSET Nat
      BY DEF P
    <2> QED
      BY <1>1, <1>2, <2>1, NatInductionOnSets
  <1>4. n - 1 \in P /\ n - 1 < n /\ (n - 1) + 1 = n
    <2> HIDE DEF P
    <2> QED
      BY <1>3
  <1>5. PICK f \in [1..n -> V] : Upto(n, f)
    BY <1>4
  <1> QED
    BY <1>5 DEF Follows

----------------------------------------------------------------------------
(* Lists.                                                                  *)

\* The members of a list; a list in which each stands once.
Members(s) == {s[k] : k \in 1..Len(s)}
Once(s) == \A h, i \in 1..Len(s) : s[h] = s[i] => h = i

\* One list after another.
LEMMA ConcatMembers ==
    ASSUME NEW V, NEW s \in Seq(V), NEW t \in Seq(V)
    PROVE  /\ s \o t \in Seq(V)
           /\ Members(s \o t) = Members(s) \cup Members(t)
           /\ Once(s) /\ Once(t) /\ Members(s) \cap Members(t) = {} => Once(s \o t)
  <1> DEFINE r == s \o t
  <1>1. /\ r \in Seq(V) /\ Len(s) \in Nat /\ Len(t) \in Nat /\ Len(r) = Len(s) + Len(t)
        /\ \A k \in 1..Len(s) : r[k] = s[k]
        /\ \A k \in 1..Len(t) : r[Len(s) + k] = t[k]
    OBVIOUS
  <1> HIDE DEF r
  <1>2. \A k \in 1..Len(r) :
          (k \in 1..Len(s) /\ r[k] = s[k]) \/ (k - Len(s) \in 1..Len(t) /\ r[k] = t[k - Len(s)])
    <2> SUFFICES ASSUME NEW k \in 1..Len(r), k \notin 1..Len(s)
                 PROVE  k - Len(s) \in 1..Len(t) /\ r[k] = t[k - Len(s)]
      BY <1>1
    <2>1. k - Len(s) \in 1..Len(t) /\ k = Len(s) + (k - Len(s))
      BY <1>1
    <2> QED
      BY <1>1, <2>1
  <1>3. (\A k \in 1..Len(s) : k \in 1..Len(r)) /\ (\A k \in 1..Len(t) : Len(s) + k \in 1..Len(r))
    BY <1>1
  <1>4. Members(r) \subseteq Members(s) \cup Members(t)
    BY <1>2 DEF Members
  <1>5. Members(s) \subseteq Members(r) /\ Members(t) \subseteq Members(r)
    BY <1>1, <1>3 DEF Members
  <1>6. ASSUME Once(s), Once(t), Members(s) \cap Members(t) = {}
        PROVE  Once(r)
    <2> SUFFICES ASSUME NEW h \in 1..Len(r), NEW i \in 1..Len(r), r[h] = r[i]
                 PROVE  h = i
      BY DEF Once
    <2>1. CASE h \in 1..Len(s) /\ r[h] = s[h] /\ i \in 1..Len(s) /\ r[i] = s[i]
      BY <1>6, <2>1 DEF Once
    <2>2. CASE /\ h - Len(s) \in 1..Len(t) /\ r[h] = t[h - Len(s)]
               /\ i - Len(s) \in 1..Len(t) /\ r[i] = t[i - Len(s)]
      <3>1. h - Len(s) = i - Len(s)
        BY <1>6, <2>2 DEF Once
      <3> QED
        BY <1>1, <3>1
    <2>3. r[h] \in Members(s) /\ r[i] \in Members(t) => FALSE
      BY <1>6
    <2>4. r[h] \in Members(t) /\ r[i] \in Members(s) => FALSE
      BY <1>6
    <2> QED
      BY <1>2, <2>1, <2>2, <2>3, <2>4 DEF Members
  <1> QED
    BY <1>1, <1>4, <1>5, <1>6 DEF r

\* Lists are joined one by one.
LEMMA JoinedSteps ==
    ASSUME NEW V, NEW lists \in Seq(Seq(V)), Len(lists) # 0
    PROVE  \E f \in [1..Len(lists) -> Seq(V)] :
             /\ Joined(lists) = f[Len(lists)]
             /\ \A i \in 1..Len(lists) : f[i] = IF i = 1 THEN lists[1] ELSE f[i - 1] \o lists[i]
  <1> DEFINE n == Len(lists)
             step == [p \in (1..n) \X Seq(V) |-> p[2] \o lists[p[1]]]
             Steps(f) == f = [i \in 1..n |-> IF i = 1 THEN lists[i] ELSE f[i - 1] \o lists[i]]
             g == CHOOSE f : Steps(f)
  <1>1. n \in Nat \ {0} /\ \A i \in 1..n : lists[i] \in Seq(V)
    OBVIOUS
  <1>2. step \in [(1..n) \X Seq(V) -> Seq(V)] /\ lists[1] \in Seq(V)
    BY <1>1
  <1>3. \A i \in 1..n : \A s \in Seq(V) : step[<<i, s>>] = s \o lists[i]
    OBVIOUS
  <1> HIDE DEF step
  <1>4. PICK f \in [1..n -> Seq(V)] :
          \A i \in 1..n : f[i] = IF i = 1 THEN lists[1] ELSE step[<<i, f[i - 1]>>]
    <2> DEFINE S == Seq(V)
               start == lists[1]
    <2>1. n \in Nat \ {0} /\ start \in S /\ step \in [(1..n) \X S -> S]
      BY <1>1, <1>2
    <2> HIDE DEF n, S, start
    <2>2. \E f \in [1..n -> S] : Follows(f, n, start, step)
      BY <2>1, RecursionExists
    <2> QED
      BY <2>2 DEF S, start, Follows
  <1>5. \A i \in 1..n : f[i] = IF i = 1 THEN lists[i] ELSE f[i - 1] \o lists[i]
    <2> TAKE i \in 1..n
    <2>1. f[i] = IF i = 1 THEN lists[1] ELSE step[<<i, f[i - 1]>>]
      BY <1>4
    <2>2. CASE i # 1
      <3>1. i - 1 \in 1..n
        BY <1>1, <2>2
      <3>2. f[i - 1] \in Seq(V)
        BY <3>1
      <3> QED
        BY <1>3, <2>1, <2>2, <3>2
    <2> QED
      BY <2>1, <2>2
  <1>6. Steps(f)
    BY <1>5
  <1>7. Steps(g)
    <2> HIDE DEF Steps
    <2> QED
      BY <1>6
  <1>8. Joined(lists) = g[n]
    BY <1>1 DEF Joined, SeqExt!FlattenSeq
  <1> DEFINE P == {m \in Nat : m + 1 \in 1..n => g[m + 1] = f[m + 1]}
  <1>9. \A i \in 1..n : g[i] = IF i = 1 THEN lists[i] ELSE g[i - 1] \o lists[i]
    <2> HIDE DEF g
    <2> QED
      BY <1>7
  <1>10. 0 \in P
    <2> HIDE DEF g
    <2>1. 1 \in 1..n /\ 0 + 1 = 1 /\ 0 \in Nat
      BY <1>1
    <2>2. g[1] = f[1]
      BY <1>5, <1>9, <2>1
    <2> QED
      BY <2>1, <2>2
  <1>11. ASSUME NEW m \in P
         PROVE  m + 1 \in P
    <2> HIDE DEF g
    <2> SUFFICES ASSUME (m + 1) + 1 \in 1..n
                 PROVE  g[(m + 1) + 1] = f[(m + 1) + 1]
      OBVIOUS
    <2> DEFINE k == (m + 1) + 1
    <2>1. k \in 1..n /\ m + 1 \in 1..n /\ k # 1 /\ k - 1 = m + 1
      BY <1>1
    <2>2. g[k - 1] = f[k - 1]
      BY <2>1
    <2> HIDE DEF k, n
    <2>3. g[k] = g[k - 1] \o lists[k]
      BY <1>9, <2>1
    <2>4. f[k] = f[k - 1] \o lists[k]
      BY <1>5, <2>1
    <2>5. g[k] = f[k]
      BY <2>2, <2>3, <2>4
    <2> QED
      BY <2>5 DEF k
  <1>12. P = Nat
    <2>1. P \in SUBSET Nat
      OBVIOUS
    <2> HIDE DEF P
    <2> QED
      BY <1>10, <1>11, <2>1, NatInductionOnSets
  <1>13. n - 1 \in P
    <2> HIDE DEF P
    <2> QED
      BY <1>1, <1>12
  <1>14. g[n] = f[n]
    <2>1. n - 1 \in 0..(n - 1) /\ (n - 1) + 1 = n
      BY <1>1
    <2> HIDE DEF g
    <2> QED
      BY <1>13, <2>1
  <1> HIDE DEF g
  <1> QED
    BY <1>5, <1>8, <1>14

\* What a list of lists joined has: the members of all of them.
LEMMA JoinedMembers ==
    ASSUME NEW V, NEW lists \in Seq(Seq(V))
    PROVE  /\ Joined(lists) \in Seq(V)
           /\ Members(Joined(lists)) = UNION {Members(lists[i]) : i \in 1..Len(lists)}
  <1>1. CASE Len(lists) = 0
    <2>1. lists = <<>>
      BY <1>1
    <2>2. Joined(lists) = <<>>
      BY <1>1, <2>1 DEF Joined, SeqExt!FlattenSeq
    <2> QED
      BY <1>1, <2>2 DEF Members
  <1>2. CASE Len(lists) # 0
    <2> DEFINE n == Len(lists)
    <2>1. PICK f \in [1..n -> Seq(V)] :
            /\ Joined(lists) = f[n]
            /\ \A i \in 1..n : f[i] = IF i = 1 THEN lists[1] ELSE f[i - 1] \o lists[i]
      BY <1>2, JoinedSteps
    <2>2. n \in Nat \ {0} /\ \A i \in 1..n : lists[i] \in Seq(V)
      BY <1>2
    <2> DEFINE Before(k) == UNION {Members(lists[i]) : i \in 1..k}
               P == {m \in Nat : m + 1 \in 1..n => Members(f[m + 1]) = Before(m + 1)}
    <2>3. 0 \in P
      <3>1. 1 \in 1..n /\ 0 + 1 = 1 /\ 0 \in Nat /\ 1..1 = {1}
        BY <2>2
      <3>2. f[1] = lists[1]
        BY <2>1, <3>1
      <3>3. Members(f[1]) = Before(1)
        BY <3>1, <3>2
      <3> HIDE DEF Before
      <3> QED
        BY <3>1, <3>3
    <2>4. ASSUME NEW m \in P
          PROVE  m + 1 \in P
      <3> SUFFICES ASSUME (m + 1) + 1 \in 1..n
                   PROVE  Members(f[(m + 1) + 1]) = Before((m + 1) + 1)
        OBVIOUS
      <3> DEFINE k == (m + 1) + 1
      <3>1. /\ m \in Nat /\ k \in 1..n /\ m + 1 \in 1..n /\ k # 1 /\ k - 1 = m + 1
            /\ 1..k = (1..(m + 1)) \cup {k}
        BY <2>2
      <3>2. Members(f[m + 1]) = Before(m + 1)
        BY <3>1
      <3>3. f[k] = f[m + 1] \o lists[k] /\ f[m + 1] \in Seq(V) /\ lists[k] \in Seq(V)
        BY <2>1, <2>2, <3>1
      <3>4. Members(f[k]) = Members(f[m + 1]) \cup Members(lists[k])
        BY <3>3, ConcatMembers
      <3>5. Before(k) = Before(m + 1) \cup Members(lists[k])
        <4> HIDE DEF k
        <4> QED
          BY <3>1
      <3> HIDE DEF Before, k
      <3>6. Members(f[k]) = Before(k)
        BY <3>2, <3>4, <3>5
      <3> QED
        BY <3>6 DEF k
    <2>5. P = Nat
      <3>1. P \in SUBSET Nat
        OBVIOUS
      <3> HIDE DEF P
      <3> QED
        BY <2>3, <2>4, <3>1, NatInductionOnSets
    <2>6. n - 1 \in P
      <3> HIDE DEF P
      <3> QED
        BY <2>2, <2>5
    <2>7. Members(f[n]) = Before(n)
      <3>1. n - 1 \in Nat /\ (n - 1) + 1 = n /\ n \in 1..n
        BY <2>2
      <3> HIDE DEF Before, n
      <3> QED
        BY <2>6, <3>1
    <2>8. Joined(lists) \in Seq(V)
      BY <2>1, <2>2
    <2> HIDE DEF P
    <2> QED
      BY <2>1, <2>7, <2>8
  <1> QED
    BY <1>1, <1>2

\* What is left of a list: its members that are not taken out, each as often.
LEMMA KeptMembers ==
    ASSUME NEW V, NEW list \in Seq(V), NEW gone
    PROVE  /\ Kept(list, gone) \in Seq(V)
           /\ Members(Kept(list, gone)) = Members(list) \ gone
           /\ Once(list) => Once(Kept(list, gone))
  <1> DEFINE n == Len(list)
             pieces == [i \in 1..n |-> IF list[i] \in gone THEN <<>> ELSE <<list[i]>>]
  <1>1. n \in Nat /\ \A i \in 1..n : list[i] \in V
    OBVIOUS
  <1>2. \A i \in 1..n : pieces[i] \in Seq(V) /\ Members(pieces[i]) = {list[i]} \ gone /\ Once(pieces[i])
    <2> TAKE i \in 1..n
    <2>1. CASE list[i] \in gone
      BY <2>1 DEF Members, Once
    <2>2. CASE list[i] \notin gone
      <3>1. pieces[i] = <<list[i]>>
        BY <2>2
      <3>2. Len(<<list[i]>>) = 1 /\ <<list[i]>>[1] = list[i] /\ 1..1 = {1}
        OBVIOUS
      <3> QED
        BY <1>1, <2>2, <3>1, <3>2 DEF Members, Once
    <2> QED
      BY <2>1, <2>2
  <1>3. pieces \in Seq(Seq(V)) /\ Len(pieces) = n
    BY <1>1, <1>2
  <1>4. Kept(list, gone) = Joined(pieces)
    BY DEF Kept
  <1> HIDE DEF pieces
  <1>5. Kept(list, gone) \in Seq(V) /\ Members(Kept(list, gone)) = Members(list) \ gone
    <2>1. UNION {Members(pieces[i]) : i \in 1..n} = Members(list) \ gone
      BY <1>2 DEF Members
    <2> QED
      BY <1>3, <1>4, <2>1, JoinedMembers
  <1>6. ASSUME Once(list), n # 0
        PROVE  Once(Joined(pieces))
    <2>1. PICK f \in [1..n -> Seq(V)] :
            /\ Joined(pieces) = f[n]
            /\ \A i \in 1..n : f[i] = IF i = 1 THEN pieces[1] ELSE f[i - 1] \o pieces[i]
      BY <1>3, <1>6, JoinedSteps
    <2> DEFINE Before(k) == {list[i] : i \in 1..k}
               P == {m \in Nat : m + 1 \in 1..n => Once(f[m + 1]) /\ Members(f[m + 1]) \subseteq Before(m + 1)}
    <2>3. 0 \in P
      <3>1. 1 \in 1..n /\ 0 + 1 = 1 /\ 0 \in Nat /\ 1..1 = {1}
        BY <1>1, <1>6
      <3>2. f[1] = pieces[1]
        BY <2>1, <3>1
      <3>3. Once(f[1]) /\ Members(f[1]) \subseteq Before(1)
        BY <1>2, <3>1, <3>2
      <3> HIDE DEF Before
      <3> QED
        BY <3>1, <3>3
    <2>4. ASSUME NEW m \in P
          PROVE  m + 1 \in P
      <3> SUFFICES ASSUME (m + 1) + 1 \in 1..n
                   PROVE  Once(f[(m + 1) + 1]) /\ Members(f[(m + 1) + 1]) \subseteq Before((m + 1) + 1)
        OBVIOUS
      <3> DEFINE k == (m + 1) + 1
      <3>1. /\ m \in Nat /\ k \in 1..n /\ m + 1 \in 1..n /\ k # 1 /\ k - 1 = m + 1
            /\ 1..k = (1..(m + 1)) \cup {k} /\ k \notin 1..(m + 1) /\ 1..k \subseteq 1..n
        BY <1>1
      <3>2. Once(f[m + 1]) /\ Members(f[m + 1]) \subseteq Before(m + 1)
        BY <3>1
      <3>3. f[k] = f[m + 1] \o pieces[k] /\ f[m + 1] \in Seq(V) /\ pieces[k] \in Seq(V)
        BY <1>2, <2>1, <3>1
      <3>4. Members(pieces[k]) \subseteq {list[k]} /\ Once(pieces[k])
        BY <1>2, <3>1
      <3> HIDE DEF k
      <3>5. list[k] \notin Before(m + 1)
        BY <1>6, <3>1 DEF Once
      <3>6. Before(k) = Before(m + 1) \cup {list[k]}
        BY <3>1
      <3> HIDE DEF Before
      <3>7. Once(f[k]) /\ Members(f[k]) \subseteq Before(k)
        BY <3>2, <3>3, <3>4, <3>5, <3>6, ConcatMembers
      <3> QED
        BY <3>7 DEF k
    <2>5. P = Nat
      <3>1. P \in SUBSET Nat
        OBVIOUS
      <3> HIDE DEF P
      <3> QED
        BY <2>3, <2>4, <3>1, NatInductionOnSets
    <2>6. n - 1 \in P
      <3>1. n - 1 \in Nat
        BY <1>1, <1>6
      <3> HIDE DEF P
      <3> QED
        BY <2>5, <3>1
    <2>7. Once(f[n])
      <3>1. n - 1 \in Nat /\ (n - 1) + 1 = n /\ n \in 1..n
        BY <1>1, <1>6
      <3> HIDE DEF Before, n
      <3> QED
        BY <2>6, <3>1
    <2> QED
      BY <2>1, <2>7
  <1>7. n = 0 => Once(Joined(pieces))
    <2> SUFFICES ASSUME n = 0
                 PROVE  Once(Joined(pieces))
      OBVIOUS
    <2>1. Joined(pieces) \in Seq(V)
      BY <1>3, JoinedMembers
    <2>2. Members(Joined(pieces)) = UNION {Members(pieces[i]) : i \in 1..n}
      BY <1>3, JoinedMembers
    <2>3. Members(Joined(pieces)) = {}
      BY <2>2
    <2> QED
      BY <2>1, <2>3 DEF Members, Once
  <1> QED
    BY <1>4, <1>5, <1>6, <1>7

----------------------------------------------------------------------------
(* The inductive invariant.                                                *)

\* Registered joins are hosted, and none of them waits to be deleted: an id
\* that the joins know is not given again.
JoinsAreHosted ==
    /\ m_join_defs \subseteq m_tables
    /\ m_join_defs \cap DOMAIN m_deleted_tables = {}

ServerInv == ServerIsConsistent /\ JoinsAreHosted

----------------------------------------------------------------------------
(* The joins.                                                              *)

\* What the sources list, in terms of members.
LEMMA ReadersOfSource ==
    ASSUME JoinTypeOK
    PROVE  JoinMapsAgree <=>
             \A t \in JoinSources :
               /\ Members(m_table_to_join_tables[t]) = {j \in m_join_defs : t \in SourcesOf(j)}
               /\ Once(m_table_to_join_tables[t])
  <1>1. \A t \in JoinSources : DOMAIN m_table_to_join_tables[t] = 1..Len(m_table_to_join_tables[t])
    BY DEF JoinTypeOK
  <1> QED
    BY <1>1 DEF JoinMapsAgree, Members, Once

LEMMA ReadersOfSourceNext ==
    ASSUME JoinTypeOK'
    PROVE  JoinMapsAgree' <=>
             \A t \in JoinSources :
               /\ Members(m_table_to_join_tables'[t]) = {j \in m_join_defs' : t \in SourcesOf(j)}
               /\ Once(m_table_to_join_tables'[t])
  <1>1. \A t \in JoinSources : DOMAIN m_table_to_join_tables'[t] = 1..Len(m_table_to_join_tables'[t])
    BY DEF JoinTypeOK
  <1> QED
    BY <1>1 DEF JoinMapsAgree, Members, Once

LEMMA MadeStaleType ==
    ASSUME m_join_defs \subseteq DOMAIN JoinOf
    PROVE  \A ts : MadeStale(ts) \subseteq (DOMAIN JoinOf) \X JoinSources
  BY DEF MadeStale, JoinSources

LEMMA RegisterJoinEffect ==
    ASSUME JoinTypeOK, JoinMapsAgree, NEW j \in DOMAIN JoinOf \ m_join_defs, RegisterJoin(j)
    PROVE  JoinTypeOK' /\ JoinMapsAgree'
  <1>1. \A t \in JoinSources : /\ m_table_to_join_tables[t] \in Seq(DOMAIN JoinOf)
                               /\ Members(m_table_to_join_tables[t]) = {i \in m_join_defs : t \in SourcesOf(i)}
                               /\ Once(m_table_to_join_tables[t])
    BY ReadersOfSource DEF JoinTypeOK
  <1>2. <<j>> \in Seq(DOMAIN JoinOf) /\ Members(<<j>>) = {j} /\ Once(<<j>>)
    <2>1. Len(<<j>>) = 1 /\ <<j>>[1] = j /\ 1..1 = {1}
      OBVIOUS
    <2> QED
      BY <2>1 DEF Members, Once
  <1>3. m_join_defs' = m_join_defs \cup {j}
    BY DEF RegisterJoin
  <1>4. ASSUME NEW t \in JoinSources
        PROVE  /\ m_table_to_join_tables'[t] \in Seq(DOMAIN JoinOf)
               /\ Members(m_table_to_join_tables'[t]) = {i \in m_join_defs' : t \in SourcesOf(i)}
               /\ Once(m_table_to_join_tables'[t])
    <2>1. CASE t \in SourcesOf(j)
      <3>1. m_table_to_join_tables'[t] = m_table_to_join_tables[t] \o <<j>>
        BY <1>1, <2>1 DEF RegisterJoin
      <3>2. Members(m_table_to_join_tables[t]) \cap Members(<<j>>) = {}
        BY <1>1, <1>2
      <3> DEFINE readers == m_table_to_join_tables[t]
                 ids == DOMAIN JoinOf
      <3>4. readers \in Seq(ids) /\ <<j>> \in Seq(ids) /\ Once(readers) /\ Once(<<j>>)
        BY <1>1, <1>2
      <3>5. Members(readers) \cap Members(<<j>>) = {}
        BY <3>2
      <3> HIDE DEF readers, ids
      <3> DEFINE last == <<j>>
      <3>7. readers \in Seq(ids) /\ last \in Seq(ids) /\ Once(readers) /\ Once(last)
        BY <3>4
      <3>8. Members(readers) \cap Members(last) = {}
        BY <3>5
      <3>6. /\ readers \o last \in Seq(ids)
            /\ Members(readers \o last) = Members(readers) \cup Members(last)
            /\ Once(readers \o last)
        <4> HIDE DEF last
        <4> QED
          BY <3>7, <3>8, ConcatMembers
      <3>3. /\ m_table_to_join_tables'[t] \in Seq(DOMAIN JoinOf)
            /\ Members(m_table_to_join_tables'[t]) = Members(m_table_to_join_tables[t]) \cup {j}
            /\ Once(m_table_to_join_tables'[t])
        BY <1>2, <3>1, <3>6 DEF readers, ids
      <3> QED
        BY <1>1, <1>3, <2>1, <3>3
    <2>2. CASE t \notin SourcesOf(j)
      <3>1. m_table_to_join_tables'[t] = m_table_to_join_tables[t]
        BY <2>2 DEF RegisterJoin
      <3> QED
        BY <1>1, <1>3, <2>2, <3>1
    <2> QED
      BY <2>1, <2>2
  <1>5. stale' \subseteq (DOMAIN JoinOf) \X JoinSources
    BY MadeStaleType DEF RegisterJoin, JoinTypeOK
  <1>6. m_table_to_join_tables' \in [JoinSources -> Seq(DOMAIN JoinOf)]
    <2>1. DOMAIN m_table_to_join_tables' = JoinSources
      BY DEF RegisterJoin
    <2>2. m_table_to_join_tables' = [t \in JoinSources |-> m_table_to_join_tables'[t]]
      BY DEF RegisterJoin
    <2> QED
      BY <1>4, <2>2
  <1>7. JoinTypeOK'
    BY <1>3, <1>5, <1>6 DEF JoinTypeOK
  <1> QED
    BY <1>4, <1>7, ReadersOfSourceNext

LEMMA UnregisterJoinEffect ==
    ASSUME JoinTypeOK, JoinMapsAgree, NEW j, UnregisterJoin(j)
    PROVE  JoinTypeOK' /\ JoinMapsAgree'
  <1>1. \A t \in JoinSources : /\ m_table_to_join_tables[t] \in Seq(DOMAIN JoinOf)
                               /\ Members(m_table_to_join_tables[t]) = {i \in m_join_defs : t \in SourcesOf(i)}
                               /\ Once(m_table_to_join_tables[t])
    BY ReadersOfSource DEF JoinTypeOK
  <1>2. ASSUME NEW t \in JoinSources
        PROVE  /\ m_table_to_join_tables'[t] \in Seq(DOMAIN JoinOf)
               /\ Members(m_table_to_join_tables'[t]) = {i \in m_join_defs' : t \in SourcesOf(i)}
               /\ Once(m_table_to_join_tables'[t])
    <2>1. m_table_to_join_tables'[t] = Kept(m_table_to_join_tables[t], {j})
      BY DEF UnregisterJoin
    <2>2. /\ m_table_to_join_tables'[t] \in Seq(DOMAIN JoinOf)
          /\ Members(m_table_to_join_tables'[t]) = Members(m_table_to_join_tables[t]) \ {j}
          /\ Once(m_table_to_join_tables'[t])
      BY <1>1, <2>1, KeptMembers
    <2> QED
      BY <1>1, <2>2 DEF UnregisterJoin
  <1>3. stale' \subseteq (DOMAIN JoinOf) \X JoinSources /\ m_join_defs' \subseteq DOMAIN JoinOf
    BY DEF UnregisterJoin, JoinTypeOK
  <1>4. m_table_to_join_tables' \in [JoinSources -> Seq(DOMAIN JoinOf)]
    <2>1. m_table_to_join_tables' = [t \in JoinSources |-> m_table_to_join_tables'[t]]
      BY DEF UnregisterJoin
    <2> QED
      BY <1>2, <2>1
  <1>5. JoinTypeOK'
    BY <1>3, <1>4 DEF JoinTypeOK
  <1> QED
    BY <1>2, <1>5, ReadersOfSourceNext

\* Steps that register and forget no join.
LEMMA SameJoins ==
    ASSUME JoinTypeOK, JoinMapsAgree, UNCHANGED <<m_join_defs, m_table_to_join_tables>>,
           stale' \subseteq (DOMAIN JoinOf) \X JoinSources
    PROVE  JoinTypeOK' /\ JoinMapsAgree'
  BY DEF JoinTypeOK, JoinMapsAgree

----------------------------------------------------------------------------
(* Requests about Tables.                                                  *)

\* What is left to show of a step outside a poll that leaves the Views alone.
LEMMA TableStep ==
    ASSUME ServerInv, UNCHANGED <<viewVars, pollVars>>, open' \subseteq Clients,
           m_table_delete_subs' \subseteq Clients \X Tables,
           JoinTypeOK', JoinMapsAgree',
           m_tables' \subseteq Tables, m_dirty_tables' \subseteq m_tables', pending' \subseteq m_dirty_tables',
           DOMAIN m_deleted_tables' \subseteq m_tables',
           m_deleted_tables' \in [DOMAIN m_deleted_tables' -> Clients],
           \A v \in HostedViews : m_view_to_table[v] \in m_tables',
           m_join_defs' \subseteq m_tables',
           m_join_defs' \cap DOMAIN m_deleted_tables' = {}
    PROVE  ServerInv'
  <1>1. ResourcesTypeOK /\ UNCHANGED <<m_view_to_table, m_client_to_view, m_update_subs, m_delete_subs>>
    BY DEF ServerInv, ServerIsConsistent, ServerTypeOK, viewVars
  <1>2. ResourcesTypeOK'
    BY <1>1 DEF ResourcesTypeOK, HostedViews
  <1>3. ServerTypeOK'
    BY <1>2 DEF ServerInv, ServerIsConsistent, ServerTypeOK, pollVars
  <1>4. RowsWillBePolled' /\ ViewsHaveTables' /\ JoinsAreHosted'
    BY <1>1 DEF RowsWillBePolled, ViewsHaveTables, HostedViews, JoinsAreHosted
  <1> QED
    BY <1>3, <1>4 DEF ServerInv, ServerIsConsistent

\* What the invariant says, for the steps below.
LEMMA ServerFacts ==
    ASSUME ServerInv
    PROVE  /\ JoinTypeOK /\ JoinMapsAgree /\ m_join_defs \subseteq DOMAIN JoinOf
           /\ stale \subseteq (DOMAIN JoinOf) \X JoinSources
           /\ open \subseteq Clients /\ m_table_delete_subs \subseteq Clients \X Tables
           /\ m_tables \subseteq Tables /\ m_dirty_tables \subseteq m_tables /\ pending \subseteq m_dirty_tables
           /\ DOMAIN m_deleted_tables \subseteq m_tables
           /\ m_deleted_tables \in [DOMAIN m_deleted_tables -> Clients]
           /\ \A v \in HostedViews : m_view_to_table[v] \in m_tables
           /\ m_join_defs \subseteq m_tables
           /\ m_join_defs \cap DOMAIN m_deleted_tables = {}
  BY DEF ServerInv, ServerIsConsistent, ServerTypeOK, ResourcesTypeOK, JoinTypeOK, RowsWillBePolled,
         ViewsHaveTables, JoinsAreHosted

LEMMA MakeTableStep == ASSUME ServerInv, NEW c \in Clients, NEW t \in Tables, MakeTable(c, t) PROVE ServerInv'
  <1>1. JoinTypeOK' /\ JoinMapsAgree'
    BY ServerFacts, SameJoins DEF MakeTable, joinVars
  <1> QED
    BY <1>1, ServerFacts, TableStep DEF MakeTable, HostTable, joinVars

LEMMA MakeJoinTableStep ==
    ASSUME ServerInv, NEW c \in Clients, NEW j \in Tables, MakeJoinTable(c, j)
    PROVE  ServerInv'
  <1>1. j \in DOMAIN JoinOf \ m_join_defs
    BY ServerFacts DEF MakeJoinTable
  <1>2. JoinTypeOK' /\ JoinMapsAgree'
    BY <1>1, ServerFacts, RegisterJoinEffect DEF MakeJoinTable
  <1>3. m_join_defs' = m_join_defs \cup {j} /\ m_tables' = m_tables \cup {j} /\ j \notin m_tables
    BY DEF MakeJoinTable, RegisterJoin, HostTable
  <1> QED
    BY <1>2, <1>3, ServerFacts, TableStep DEF MakeJoinTable, HostTable

LEMMA TableUpdateStep == ASSUME ServerInv, NEW c \in Clients, NEW t \in Tables, TableUpdate(c, t) PROVE ServerInv'
  <1>1. JoinTypeOK' /\ JoinMapsAgree'
    BY ServerFacts, SameJoins DEF TableUpdate, joinVars
  <1> QED
    BY <1>1, ServerFacts, TableStep DEF TableUpdate, MarkTableDirty, joinVars

LEMMA TableReplaceStep ==
    ASSUME ServerInv, NEW c \in Clients, NEW t \in Tables, NEW rows \in BOOLEAN, TableReplace(c, t, rows)
    PROVE  ServerInv'
  <1>1. stale' \subseteq (DOMAIN JoinOf) \X JoinSources
    BY ServerFacts, MadeStaleType DEF TableReplace
  <1>2. JoinTypeOK' /\ JoinMapsAgree'
    BY <1>1, ServerFacts, SameJoins DEF TableReplace
  <1>3. pending' \subseteq pending \cup {t}
    BY DEF TableReplace
  <1> QED
    BY <1>2, <1>3, ServerFacts, TableStep DEF TableReplace, MarkTableDirty

\* A request that reads a Table cleans it, if anything.
LEMMA ReadEffect ==
    ASSUME ServerInv, NEW t, ProcessForRead(t)
    PROVE  /\ UNCHANGED <<m_tables, m_deleted_tables, m_join_defs>>
           /\ m_dirty_tables' \subseteq m_dirty_tables
           /\ pending' \subseteq m_dirty_tables'
           /\ JoinTypeOK' /\ JoinMapsAgree'
  <1>1. CASE ReadProcesses(t)
    <2>1. /\ UNCHANGED <<m_tables, m_deleted_tables, m_join_defs, m_table_to_join_tables>>
          /\ m_dirty_tables' = m_dirty_tables \ {t} /\ pending' = pending \ {t}
          /\ stale' = stale \cup MadeStale({t} \cap pending)
      BY <1>1 DEF ProcessForRead, MarkTablesClean
    <2>2. stale' \subseteq (DOMAIN JoinOf) \X JoinSources
      BY <2>1, ServerFacts, MadeStaleType
    <2> QED
      BY <2>1, <2>2, ServerFacts, SameJoins
  <1>2. CASE ~ReadProcesses(t)
    <2>1. UNCHANGED <<m_tables, m_deleted_tables, m_dirty_tables, pending, m_join_defs, m_table_to_join_tables, stale>>
      BY <1>2 DEF ProcessForRead, tableVars, joinVars
    <2> QED
      BY <2>1, ServerFacts, SameJoins
  <1> QED
    BY <1>1, <1>2

LEMMA ReadStep ==
    ASSUME ServerInv, NEW c \in Clients, NEW t \in Tables, Read(c, t) \/ FailingRead(c, t)
    PROVE  ServerInv'
  <1>1. ProcessForRead(t) /\ UNCHANGED <<viewVars, m_table_delete_subs, open, pollVars>>
    BY DEF Read, FailingRead
  <1> QED
    BY <1>1, ReadEffect, ServerFacts, TableStep

LEMMA TableOnDeleteStep == ASSUME ServerInv, NEW c \in Clients, NEW t \in Tables, TableOnDelete(c, t) PROVE ServerInv'
  <1>1. JoinTypeOK' /\ JoinMapsAgree'
    BY ServerFacts, SameJoins DEF TableOnDelete, joinVars
  <1> QED
    BY <1>1, ServerFacts, TableStep DEF TableOnDelete, tableVars, joinVars

\* What is left of the maps when a Table without Views goes.
LEMMA DeleteTableEffect ==
    ASSUME ServerInv, NEW t, DeleteTable(t), pending' = pending \ {t}
    PROVE  /\ m_tables' = m_tables \ {t}
           /\ m_tables' \subseteq Tables /\ m_dirty_tables' \subseteq m_tables' /\ pending' \subseteq m_dirty_tables'
           /\ DOMAIN m_deleted_tables' \subseteq m_tables'
           /\ DOMAIN m_deleted_tables' \subseteq DOMAIN m_deleted_tables
           /\ m_deleted_tables' \in [DOMAIN m_deleted_tables' -> Clients]
  BY ServerFacts DEF DeleteTable

LEMMA TableDeleteStep ==
    ASSUME ServerInv, NEW c \in Clients, NEW t \in Tables, NEW lazily \in BOOLEAN, TableDelete(c, t, lazily)
    PROVE  ServerInv'
  <1>1. /\ JoinTypeOK' /\ JoinMapsAgree' /\ t \notin m_join_defs' /\ m_join_defs' \subseteq m_join_defs
    <2>1. CASE IsJoinTable(t)
      <3>1. UnregisterJoin(t)
        BY <2>1 DEF TableDelete
      <3> QED
        BY <3>1, ServerFacts, UnregisterJoinEffect DEF UnregisterJoin
    <2>2. CASE ~IsJoinTable(t)
      <3>1. UNCHANGED joinVars
        BY <2>2 DEF TableDelete
      <3> QED
        BY <2>2, <3>1, ServerFacts, SameJoins DEF joinVars, IsJoinTable
    <2> QED
      BY <2>1, <2>2
  <1>2. UNCHANGED <<viewVars, m_table_delete_subs, open, pollVars>> /\ t \in m_tables
    BY DEF TableDelete
  <1>3. CASE ~HasViews(t)
    <2>1. DeleteTable(t) /\ pending' = pending \ {t}
      BY <1>3 DEF TableDelete
    <2>2. \A v \in HostedViews : m_view_to_table[v] # t
      BY <1>3 DEF HasViews, ViewsOf
    <2>3. /\ m_tables' = m_tables \ {t}
          /\ m_tables' \subseteq Tables /\ m_dirty_tables' \subseteq m_tables' /\ pending' \subseteq m_dirty_tables'
          /\ DOMAIN m_deleted_tables' \subseteq m_tables'
          /\ DOMAIN m_deleted_tables' \subseteq DOMAIN m_deleted_tables
          /\ m_deleted_tables' \in [DOMAIN m_deleted_tables' -> Clients]
      BY <2>1, DeleteTableEffect
    <2>4. /\ \A v \in HostedViews : m_view_to_table[v] \in m_tables'
          /\ m_join_defs' \subseteq m_tables' /\ m_join_defs' \cap DOMAIN m_deleted_tables' = {}
      BY <1>1, <2>2, <2>3, ServerFacts
    <2> QED
      BY <1>1, <1>2, <2>3, <2>4, ServerFacts, TableStep
  <1>4. CASE HasViews(t) /\ lazily
    <2>1. MarkTableDeleted(t, c) /\ pending' = pending
      BY <1>4 DEF TableDelete
    <2>2. /\ UNCHANGED <<m_tables, m_dirty_tables, pending>>
          /\ DOMAIN m_deleted_tables' = DOMAIN m_deleted_tables \cup {t}
          /\ m_deleted_tables' \in [DOMAIN m_deleted_tables' -> Clients]
      BY <2>1, ServerFacts DEF MarkTableDeleted
    <2> QED
      BY <1>1, <1>2, <2>2, ServerFacts, TableStep
  <1>5. CASE HasViews(t) /\ ~lazily
    <2>1. UNCHANGED <<m_tables, m_dirty_tables, m_deleted_tables, pending>>
      BY <1>5 DEF TableDelete, tableVars
    <2> QED
      BY <1>1, <1>2, <2>1, ServerFacts, TableStep
  <1> QED
    BY <1>3, <1>4, <1>5

----------------------------------------------------------------------------
(* Requests about Views, and sessions that close.                          *)

\* The maps of the Views have their types.
ViewMapsOK ==
    /\ HostedViews \subseteq Views /\ m_view_to_table \in [HostedViews -> Tables]
    /\ m_client_to_view \in [Clients -> Seq(Views)]
    /\ m_update_subs \subseteq Clients \X Views
    /\ m_delete_subs \subseteq Clients \X Views

\* What is left to show of a step outside a poll that changes Views, and
\* registers or forgets no join.
LEMMA ViewStep ==
    ASSUME ServerInv, UNCHANGED <<m_table_delete_subs, pollVars, m_join_defs>>, open' \subseteq Clients,
           ViewMapsOK', JoinTypeOK', JoinMapsAgree',
           m_tables' \subseteq Tables, m_dirty_tables' \subseteq m_tables', pending' \subseteq m_dirty_tables',
           DOMAIN m_deleted_tables' \subseteq m_tables',
           m_deleted_tables' \in [DOMAIN m_deleted_tables' -> Clients],
           \A v \in HostedViews' : m_view_to_table'[v] \in m_tables',
           m_join_defs \subseteq m_tables',
           m_join_defs \cap DOMAIN m_deleted_tables' = {}
    PROVE  ServerInv'
  <1>1. ResourcesTypeOK'
    BY DEF ResourcesTypeOK, ViewMapsOK, ServerInv, ServerIsConsistent, ServerTypeOK
  <1>2. ServerTypeOK'
    BY <1>1 DEF ServerInv, ServerIsConsistent, ServerTypeOK, pollVars
  <1>3. RowsWillBePolled' /\ ViewsHaveTables' /\ JoinsAreHosted'
    BY DEF RowsWillBePolled, ViewsHaveTables, JoinsAreHosted
  <1> QED
    BY <1>2, <1>3 DEF ServerInv, ServerIsConsistent

LEMMA ViewFacts == ASSUME ServerInv PROVE ViewMapsOK
  BY DEF ServerInv, ServerIsConsistent, ServerTypeOK, ResourcesTypeOK, ViewMapsOK

LEMMA TableMakeViewStep ==
    ASSUME ServerInv, NEW c \in Clients, NEW v \in Views, NEW t \in Tables, TableMakeView(c, v, t)
    PROVE  ServerInv'
  <1>1. /\ ProcessForRead(t) /\ HostView(c, v, t) /\ t \in m_tables /\ v \notin HostedViews
        /\ UNCHANGED <<m_table_delete_subs, open, pollVars>>
    BY DEF TableMakeView
  <1>2. /\ HostedViews' = HostedViews \cup {v}
        /\ \A w \in HostedViews' : m_view_to_table'[w] = IF w = v THEN t ELSE m_view_to_table[w]
        /\ m_view_to_table' \in [HostedViews' -> Tables]
    BY <1>1, ViewFacts DEF HostView, HostedViews, ViewMapsOK
  <1>3. m_client_to_view' \in [Clients -> Seq(Views)]
    <2>1. Append(m_client_to_view[c], v) \in Seq(Views)
      BY ViewFacts DEF ViewMapsOK
    <2> QED
      BY <1>1, <2>1, ViewFacts DEF HostView, ViewMapsOK
  <1>4. ViewMapsOK'
    BY <1>1, <1>2, <1>3, ViewFacts DEF HostView, ViewMapsOK
  <1>5. /\ UNCHANGED <<m_tables, m_deleted_tables, m_join_defs>>
        /\ m_dirty_tables' \subseteq m_dirty_tables /\ pending' \subseteq m_dirty_tables'
        /\ JoinTypeOK' /\ JoinMapsAgree'
    BY <1>1, ReadEffect
  <1> QED
    BY <1>1, <1>2, <1>4, <1>5, ServerFacts, ViewStep

LEMMA SubscribeStep ==
    ASSUME ServerInv, NEW c \in Clients, NEW v \in Views,
           ViewOnUpdate(c, v) \/ ViewRemoveOnUpdate(c, v) \/ ViewOnDelete(c, v)
    PROVE  ServerInv'
  <1>1. /\ UNCHANGED <<m_view_to_table, m_client_to_view, m_table_delete_subs, open, pollVars>>
        /\ m_update_subs' \subseteq m_update_subs \cup {<<c, v>>}
        /\ m_delete_subs' \subseteq m_delete_subs \cup {<<c, v>>}
    BY DEF ViewOnUpdate, ViewRemoveOnUpdate, ViewOnDelete
  <1>2. ViewMapsOK' /\ HostedViews' = HostedViews
    BY <1>1, ViewFacts DEF ViewMapsOK, HostedViews
  <1>3. /\ UNCHANGED <<m_tables, m_deleted_tables, m_join_defs>>
        /\ m_dirty_tables' \subseteq m_dirty_tables /\ pending' \subseteq m_dirty_tables'
        /\ JoinTypeOK' /\ JoinMapsAgree'
    <2>1. CASE ViewOnUpdate(c, v)
      BY <2>1, ReadEffect DEF ViewOnUpdate
    <2>2. CASE ViewRemoveOnUpdate(c, v) \/ ViewOnDelete(c, v)
      <3>1. UNCHANGED <<m_tables, m_deleted_tables, m_dirty_tables, pending, m_join_defs,
                        m_table_to_join_tables, stale>>
        BY <2>2 DEF ViewRemoveOnUpdate, ViewOnDelete, tableVars, joinVars
      <3> QED
        BY <3>1, ServerFacts, SameJoins
    <2> QED
      BY <2>1, <2>2
  <1> QED
    BY <1>1, <1>2, <1>3, ServerFacts, ViewStep

LEMMA DeleteViewsEffect ==
    ASSUME ServerInv, NEW c \in Clients, NEW gone, DeleteViews(c, gone)
    PROVE  /\ ViewMapsOK'
           /\ HostedViews' = HostedViews \ gone
           /\ \A v \in HostedViews' : m_view_to_table'[v] = m_view_to_table[v]
  <1>1. Kept(m_client_to_view[c], gone) \in Seq(Views)
    BY ViewFacts, KeptMembers DEF ViewMapsOK
  <1>2. m_client_to_view' \in [Clients -> Seq(Views)]
    BY <1>1, ViewFacts DEF ViewMapsOK, DeleteViews
  <1>3. /\ HostedViews' = HostedViews \ gone
        /\ \A v \in HostedViews' : m_view_to_table'[v] = m_view_to_table[v]
        /\ m_view_to_table' \in [HostedViews' -> Tables]
    BY ViewFacts DEF ViewMapsOK, DeleteViews, HostedViews
  <1> QED
    BY <1>2, <1>3, ViewFacts DEF ViewMapsOK, DeleteViews

LEMMA ViewDeleteStep ==
    ASSUME ServerInv, NEW c \in Clients, NEW v \in Views, ViewDelete(c, v)
    PROVE  ServerInv'
  <1> DEFINE t == m_view_to_table[v]
  <1>1. /\ DeleteViews(c, {v}) /\ v \in HostedViews
        /\ UNCHANGED <<m_table_delete_subs, joinVars, open, pollVars>>
    BY DEF ViewDelete
  <1>2. /\ ViewMapsOK' /\ HostedViews' = HostedViews \ {v}
        /\ \A w \in HostedViews' : m_view_to_table'[w] = m_view_to_table[w]
    BY <1>1, DeleteViewsEffect
  <1>3. JoinTypeOK' /\ JoinMapsAgree' /\ m_join_defs' = m_join_defs
    BY <1>1, ServerFacts, SameJoins DEF joinVars
  <1>4. CASE CompletesDelete(v)
    <2>1. DeleteTable(t) /\ pending' = pending \ {t}
      BY <1>4 DEF ViewDelete
    <2>2. t \in DOMAIN m_deleted_tables /\ \A w \in HostedViews' : m_view_to_table[w] # t
      BY <1>2, <1>4 DEF CompletesDelete, ViewsOf
    <2> HIDE DEF t
    <2>3. /\ m_tables' = m_tables \ {t}
          /\ m_tables' \subseteq Tables /\ m_dirty_tables' \subseteq m_tables' /\ pending' \subseteq m_dirty_tables'
          /\ DOMAIN m_deleted_tables' \subseteq m_tables'
          /\ DOMAIN m_deleted_tables' \subseteq DOMAIN m_deleted_tables
          /\ m_deleted_tables' \in [DOMAIN m_deleted_tables' -> Clients]
      BY <2>1, DeleteTableEffect
    <2>4. /\ \A w \in HostedViews' : m_view_to_table'[w] \in m_tables'
          /\ m_join_defs \subseteq m_tables' /\ m_join_defs \cap DOMAIN m_deleted_tables' = {}
      BY <1>2, <2>2, <2>3, ServerFacts
    <2> QED
      BY <1>1, <1>2, <1>3, <2>3, <2>4, ServerFacts, ViewStep
  <1>5. CASE ~CompletesDelete(v)
    <2>1. UNCHANGED <<m_tables, m_dirty_tables, m_deleted_tables, pending>>
      BY <1>5 DEF ViewDelete, tableVars
    <2> QED
      BY <1>1, <1>2, <1>3, <2>1, ServerFacts, ViewStep
  <1> QED
    BY <1>4, <1>5

LEMMA CloseSessionStep == ASSUME ServerInv, NEW c \in Clients, CloseSession(c) PROVE ServerInv'
  <1>1. /\ DeleteViews(c, Dropped(c))
        /\ UNCHANGED <<tableVars, m_table_delete_subs, joinVars, pending, pollVars>>
        /\ open' = open \ {c}
    BY DEF CloseSession
  <1>2. /\ ViewMapsOK' /\ HostedViews' \subseteq HostedViews
        /\ \A w \in HostedViews' : m_view_to_table'[w] = m_view_to_table[w]
    BY <1>1, DeleteViewsEffect
  <1>3. JoinTypeOK' /\ JoinMapsAgree' /\ m_join_defs' = m_join_defs
    BY <1>1, ServerFacts, SameJoins DEF joinVars
  <1>4. UNCHANGED <<m_tables, m_dirty_tables, m_deleted_tables>>
    BY <1>1 DEF tableVars
  <1> QED
    BY <1>1, <1>2, <1>3, <1>4, ServerFacts, ViewStep

----------------------------------------------------------------------------
(* Polls.                                                                  *)

\* A step makes one Table dirty at most.
LEMMA DirtyGrowsByOne ==
    ASSUME [ServerNext]_serverVars, IsFiniteSet(m_dirty_tables)
    PROVE  IsFiniteSet(m_dirty_tables')
  <1>1. \E t : m_dirty_tables' \subseteq m_dirty_tables \cup {t}
    <2>1. ASSUME NEW c \in Clients, NEW t \in Tables, TableRequest(c, t)
          PROVE  m_dirty_tables' \subseteq m_dirty_tables \cup {t}
      <3>1. CASE MakeTable(c, t) \/ MakeJoinTable(c, t) \/ TableUpdate(c, t) \/ TableOnDelete(c, t)
        BY <3>1 DEF MakeTable, MakeJoinTable, HostTable, TableUpdate, MarkTableDirty, TableOnDelete, tableVars
      <3>2. CASE Read(c, t) \/ FailingRead(c, t) \/ \E v \in Views : TableMakeView(c, v, t)
        BY <3>2 DEF Read, FailingRead, TableMakeView, ProcessForRead, MarkTablesClean, tableVars
      <3>3. CASE \E lazily \in BOOLEAN : TableDelete(c, t, lazily)
        BY <3>3 DEF TableDelete, DeleteTable, MarkTableDeleted, tableVars
      <3>4. CASE \E rows \in BOOLEAN : TableReplace(c, t, rows)
        BY <3>4 DEF TableReplace, MarkTableDirty
      <3> QED
        BY <2>1, <3>1, <3>2, <3>3, <3>4 DEF TableRequest
    <2>2. ASSUME NEW c \in Clients, NEW v \in Views, ViewRequest(c, v)
          PROVE  m_dirty_tables' \subseteq m_dirty_tables
      <3>1. CASE ViewOnUpdate(c, v)
        BY <3>1 DEF ViewOnUpdate, ProcessForRead, MarkTablesClean, tableVars
      <3>2. CASE ViewRemoveOnUpdate(c, v) \/ ViewOnDelete(c, v)
        BY <3>2 DEF ViewRemoveOnUpdate, ViewOnDelete, tableVars
      <3>3. CASE ViewDelete(c, v)
        BY <3>3 DEF ViewDelete, DeleteTable, tableVars
      <3> QED
        BY <2>2, <3>1, <3>2, <3>3 DEF ViewRequest
    <2>3. ASSUME \/ \E c \in Clients : CloseSession(c)
                 \/ PollTables \/ (\E rows \in BOOLEAN : PollJoin(rows)) \/ UNCHANGED serverVars
          PROVE  m_dirty_tables' \subseteq m_dirty_tables
      BY <2>3 DEF CloseSession, PollTables, PollJoin, MarkTablesClean, tableVars, resourceVars, serverVars
    <2> QED
      BY <2>1, <2>2, <2>3 DEF ServerNext, Request
  <1>2. PICK t : m_dirty_tables' \subseteq m_dirty_tables \cup {t}
    BY <1>1
  <1>3. IsFiniteSet(m_dirty_tables \cup {t})
    BY FS_AddElement
  <1> QED
    BY <1>2, <1>3, FS_Subset

\* What the worklist and its companions have as types.
PollVarsOK ==
    worklist \in Seq(DOMAIN JoinOf) /\ processed \subseteq DOMAIN JoinOf /\ changed \subseteq Tables

LEMMA DependentJoinsType == ASSUME ServerInv, NEW t PROVE DependentJoins(t) \in Seq(DOMAIN JoinOf)
  <1>1. CASE t \in JoinSources
    BY <1>1, ServerFacts DEF DependentJoins, JoinTypeOK
  <1>2. CASE t \notin JoinSources
    <2>1. DependentJoins(t) = <<>>
      BY <1>2 DEF DependentJoins
    <2> QED
      BY <2>1
  <1> QED
    BY <1>1, <1>2

LEMMA JoinsOfType ==
    ASSUME ServerInv, IsFiniteSet(m_dirty_tables), NEW order \in Orders(m_dirty_tables)
    PROVE  JoinsOf(order) \in Seq(DOMAIN JoinOf)
  <1> DEFINE n == Cardinality(m_dirty_tables)
             lists == [i \in DOMAIN order |-> DependentJoins(order[i])]
  <1>1. n \in Nat
    BY FS_CardinalityType
  <1>2. DOMAIN order = 1..n
    BY DEF Orders
  <1>3. lists \in [1..n -> Seq(DOMAIN JoinOf)]
    BY <1>2, DependentJoinsType
  <1>4. lists \in Seq(Seq(DOMAIN JoinOf))
    <2> HIDE DEF lists, n
    <2> QED
      BY <1>1, <1>3
  <1> DEFINE V == DOMAIN JoinOf
  <1>5. lists \in Seq(Seq(V))
    BY <1>4
  <1>6. JoinsOf(order) = Joined(lists)
    BY DEF JoinsOf
  <1> HIDE DEF lists, V
  <1>7. Joined(lists) \in Seq(V)
    BY <1>5, JoinedMembers
  <1> QED
    BY <1>6, <1>7 DEF V

\* What is left to show of a step of a poll.
LEMMA PollStep ==
    ASSUME ServerInv, UNCHANGED <<viewVars, m_table_delete_subs, m_tables, m_deleted_tables, open,
                                  m_join_defs, m_table_to_join_tables>>,
           stale' \subseteq (DOMAIN JoinOf) \X JoinSources,
           m_dirty_tables' \subseteq m_dirty_tables, pending' \subseteq m_dirty_tables',
           PollVarsOK'
    PROVE  ServerInv'
  <1>1. JoinTypeOK' /\ JoinMapsAgree'
    BY ServerFacts, SameJoins
  <1>2. ViewMapsOK' /\ HostedViews' = HostedViews /\ m_view_to_table' = m_view_to_table
    BY ViewFacts DEF ViewMapsOK, HostedViews, viewVars
  <1>3. ResourcesTypeOK'
    BY <1>2, ServerFacts DEF ResourcesTypeOK, ViewMapsOK
  <1>4. ServerTypeOK'
    BY <1>1, <1>3, ServerFacts DEF ServerTypeOK, PollVarsOK
  <1>5. RowsWillBePolled' /\ ViewsHaveTables' /\ JoinsAreHosted'
    BY <1>2, ServerFacts DEF RowsWillBePolled, ViewsHaveTables, JoinsAreHosted
  <1> QED
    BY <1>1, <1>4, <1>5 DEF ServerInv, ServerIsConsistent

LEMMA PollTablesStep ==
    ASSUME ServerInv, IsFiniteSet(m_dirty_tables), PollTables
    PROVE  ServerInv'
  <1>1. PICK order \in Orders(m_dirty_tables) : worklist' = JoinsOf(order)
    BY DEF PollTables, Gather
  <1>2. /\ UNCHANGED <<viewVars, m_table_delete_subs, m_tables, m_deleted_tables, open,
                       m_join_defs, m_table_to_join_tables>>
        /\ m_dirty_tables' = {} /\ pending' = {} /\ processed' = {} /\ changed' = m_dirty_tables
    BY ServerFacts DEF PollTables, MarkTablesClean
  <1>3. stale' \subseteq (DOMAIN JoinOf) \X JoinSources
    BY ServerFacts, MadeStaleType DEF PollTables
  <1>4. PollVarsOK'
    BY <1>1, <1>2, JoinsOfType, ServerFacts DEF PollVarsOK
  <1> QED
    BY <1>2, <1>3, <1>4, PollStep

LEMMA PollJoinStep == ASSUME ServerInv, NEW rows \in BOOLEAN, PollJoin(rows) PROVE ServerInv'
  <1> DEFINE j == worklist[Len(worklist)]
             rest == SubSeq(worklist, 1, Len(worklist) - 1)
             more == Kept(DependentJoins(j), processed')
  <1>1. PollVarsOK
    BY DEF ServerInv, ServerIsConsistent, ServerTypeOK, PollVarsOK
  <1>2. j \in DOMAIN JoinOf /\ rest \in Seq(DOMAIN JoinOf)
    <2>1. worklist \in Seq(DOMAIN JoinOf) /\ worklist # <<>>
      BY <1>1 DEF PollJoin, Polling, PollVarsOK
    <2>2. Len(worklist) \in Nat \ {0} /\ Len(worklist) \in 1..Len(worklist)
      BY <2>1
    <2> QED
      BY <2>1, <2>2
  <1>3. more \in Seq(DOMAIN JoinOf)
    BY DependentJoinsType, KeptMembers
  <1>4. rest \o more \in Seq(DOMAIN JoinOf)
    <2> HIDE DEF rest, more
    <2> QED
      BY <1>2, <1>3
  <1>5. /\ UNCHANGED <<viewVars, m_table_delete_subs, m_tables, m_deleted_tables, open,
                       m_dirty_tables, pending>>
    BY DEF PollJoin, resourceVars, viewVars
  <1>6. CASE j \in processed
    <2>1. UNCHANGED <<joinVars, processed, changed>> /\ worklist' = rest
      BY <1>6 DEF PollJoin, Gather
    <2>2. PollVarsOK'
      BY <1>1, <1>2, <2>1 DEF PollVarsOK
    <2> QED
      BY <1>5, <2>1, <2>2, ServerFacts, PollStep DEF joinVars
  <1>7. CASE j \notin processed /\ ~(SourcesOf(j) \cup {j} \subseteq m_tables)
    <2>1. UNCHANGED <<joinVars, processed, changed>> /\ worklist' = <<>>
      BY <1>7 DEF PollJoin, Gather
    <2>2. PollVarsOK'
      BY <1>1, <2>1 DEF PollVarsOK
    <2> QED
      BY <1>5, <2>1, <2>2, ServerFacts, PollStep DEF joinVars
  <1>8. CASE j \notin processed /\ SourcesOf(j) \cup {j} \subseteq m_tables
    <2>1. /\ Recompute(j, changed) /\ processed' = processed \cup {j} /\ changed' = changed \cup {j}
          /\ worklist' = rest \o more
      BY <1>8 DEF PollJoin, Gather
    <2>2. j \in Tables
      BY <1>8, ServerFacts
    <2>3. PollVarsOK'
      BY <1>1, <1>2, <1>4, <2>1, <2>2 DEF PollVarsOK
    <2>4. stale' \subseteq (DOMAIN JoinOf) \X JoinSources
      BY <2>1, ServerFacts, MadeStaleType DEF Recompute
    <2> QED
      BY <1>5, <2>1, <2>3, <2>4, ServerFacts, PollStep DEF Recompute
  <1> QED
    BY <1>6, <1>7, <1>8

----------------------------------------------------------------------------
(* The theorems.                                                           *)

ServerIInv == ServerInv /\ IsFiniteSet(m_dirty_tables)

LEMMA ServerInitInv == ServerInit => ServerIInv
  <1> SUFFICES ASSUME ServerInit
               PROVE  ServerIInv
    OBVIOUS
  <1>1. ResourcesTypeOK
    BY DEF ServerInit, ResourcesInit, ResourcesTypeOK, HostedViews
  <1>2. JoinTypeOK /\ m_join_defs = {}
    BY DEF ServerInit, JoinInit, JoinTypeOK
  <1>3. JoinMapsAgree
    <2>1. \A t \in JoinSources : m_table_to_join_tables[t] = <<>>
      BY DEF ServerInit, JoinInit
    <2>2. DOMAIN <<>> = {}
      OBVIOUS
    <2> QED
      BY <1>2, <2>1, <2>2 DEF JoinMapsAgree
  <1>4. ServerTypeOK
    BY <1>1, <1>2 DEF ServerInit, ServerTypeOK
  <1>5. RowsWillBePolled /\ ViewsHaveTables /\ JoinsAreHosted
    BY <1>2 DEF ServerInit, ResourcesInit, RowsWillBePolled, ViewsHaveTables, HostedViews, JoinsAreHosted
  <1>6. IsFiniteSet(m_dirty_tables)
    BY FS_EmptySet DEF ServerInit, ResourcesInit
  <1> QED
    BY <1>3, <1>4, <1>5, <1>6 DEF ServerIInv, ServerInv, ServerIsConsistent

LEMMA ServerNextInv == ServerIInv /\ [ServerNext]_serverVars => ServerIInv'
  <1> SUFFICES ASSUME ServerInv, IsFiniteSet(m_dirty_tables), [ServerNext]_serverVars
               PROVE  ServerInv'
    BY DirtyGrowsByOne DEF ServerIInv
  <1>1. ASSUME NEW c \in Clients, NEW t \in Tables, TableRequest(c, t)
        PROVE  ServerInv'
    BY <1>1, MakeTableStep, MakeJoinTableStep, TableUpdateStep, TableReplaceStep, ReadStep, TableOnDeleteStep,
       TableDeleteStep, TableMakeViewStep DEF TableRequest
  <1>2. ASSUME NEW c \in Clients, NEW v \in Views, ViewRequest(c, v)
        PROVE  ServerInv'
    BY <1>2, SubscribeStep, ViewDeleteStep DEF ViewRequest
  <1>3. CASE \E c \in Clients : CloseSession(c)
    BY <1>3, CloseSessionStep
  <1>4. CASE PollTables
    BY <1>4, PollTablesStep
  <1>5. CASE \E rows \in BOOLEAN : PollJoin(rows)
    BY <1>5, PollJoinStep
  <1>6. CASE UNCHANGED serverVars
    <2>1. ViewMapsOK'
      BY <1>6, ViewFacts DEF ViewMapsOK, HostedViews, serverVars, resourceVars
    <2> QED
      BY <1>6 DEF serverVars, resourceVars, joinVars, pollVars, ServerInv, ServerIsConsistent, ServerTypeOK,
         ResourcesTypeOK, HostedViews, JoinTypeOK, RowsWillBePolled, ViewsHaveTables, JoinMapsAgree, JoinsAreHosted
  <1> QED
    BY <1>1, <1>2, <1>3, <1>4, <1>5, <1>6 DEF ServerNext, Request

(* Between any two requests, whichever of them fail and whichever polls    *)
(* throw, rows wait on dirty Tables only, every dirty Table and every      *)
(* View's Table is hosted, and sources list the joins that read them, each *)
(* once and no other; ids that joins were registered under belong to       *)
(* Tables that nobody deletes lazily (JoinsAreHosted).                     *)
THEOREM ServerMapsAgree == ServerSpec => []ServerInv
  <1>1. ServerSpec => []ServerIInv
    BY ServerInitInv, ServerNextInv, PTL DEF ServerSpec
  <1>2. ServerIInv => ServerInv
    BY DEF ServerIInv
  <1> QED
    BY <1>1, <1>2, PTL

\* A server with what its sessions remember is a server.
LEMMA HistoryStep == ASSUME HistoryNext PROVE ServerNext /\ \E ts : Remember(ts)
  BY DEF HistoryNext, ServerNext

LEMMA HistoryIsServer == HistorySpec => ServerSpec
  <1>1. HistoryInit => ServerInit
    BY DEF HistoryInit
  <1>2. [HistoryNext]_historyVars => [ServerNext]_serverVars
    BY HistoryStep DEF historyVars
  <1> QED
    BY <1>1, <1>2, PTL DEF HistorySpec, ServerSpec

(* The same of the server that the runs check.                             *)
THEOREM ServerStaysConsistent == HistorySpec => []ServerIsConsistent
  <1>1. ServerInv => ServerIsConsistent
    BY DEF ServerInv
  <1> QED
    BY <1>1, ServerMapsAgree, HistoryIsServer, PTL

----------------------------------------------------------------------------
(* Sources of joins stay. Two things take a source from under a join: the  *)
(* deletion of a source that is a join itself, and a lazy delete that is   *)
(* completed after a join of the Table was made.                           *)

NobodyAsks(request) == \A c \in Clients : <<c, request>> \notin Requests
NoChains == JoinSources \cap DOMAIN JoinOf = {}
SourcesStay == NoChains /\ (JoinSources = {} \/ NobodyAsks("lazy_delete"))

SourcesInv == JoinSourcesAreHosted /\ (JoinSources = {} \/ DOMAIN m_deleted_tables = {})

\* Few steps host, delete or register.
HostingStaysTheSame == UNCHANGED <<m_tables, m_deleted_tables, m_join_defs>>
HostingChanges ==
    \/ \E c \in Clients, t \in Tables : \/ MakeTable(c, t)
                                        \/ MakeJoinTable(c, t)
                                        \/ \E lazily \in BOOLEAN : TableDelete(c, t, lazily)
    \/ \E c \in Clients, v \in Views : ViewDelete(c, v)

LEMMA HostingSteps ==
    ASSUME [ServerNext]_serverVars
    PROVE  HostingStaysTheSame \/ HostingChanges
  <1>1. ASSUME NEW c \in Clients, NEW t \in Tables, TableRequest(c, t)
        PROVE  HostingStaysTheSame \/ HostingChanges
    <2>1. CASE TableUpdate(c, t) \/ (\E rows \in BOOLEAN : TableReplace(c, t, rows)) \/ TableOnDelete(c, t)
      BY <2>1 DEF TableUpdate, TableReplace, MarkTableDirty, TableOnDelete, tableVars, joinVars, HostingStaysTheSame
    <2>2. CASE Read(c, t) \/ FailingRead(c, t) \/ \E v \in Views : TableMakeView(c, v, t)
      BY <2>2 DEF Read, FailingRead, TableMakeView, ProcessForRead, MarkTablesClean, tableVars, joinVars,
                  HostingStaysTheSame
    <2> QED
      BY <1>1, <2>1, <2>2 DEF TableRequest, HostingChanges
  <1>2. ASSUME NEW c \in Clients, NEW v \in Views, ViewRequest(c, v)
        PROVE  HostingStaysTheSame \/ HostingChanges
    <2>1. CASE ViewOnUpdate(c, v)
      BY <2>1 DEF ViewOnUpdate, ProcessForRead, MarkTablesClean, tableVars, joinVars, HostingStaysTheSame
    <2>2. CASE ViewRemoveOnUpdate(c, v) \/ ViewOnDelete(c, v)
      BY <2>2 DEF ViewRemoveOnUpdate, ViewOnDelete, tableVars, joinVars, HostingStaysTheSame
    <2> QED
      BY <1>2, <2>1, <2>2 DEF ViewRequest, HostingChanges
  <1>3. ASSUME (\E c \in Clients : CloseSession(c)) \/ PollTables \/ UNCHANGED serverVars
        PROVE  HostingStaysTheSame
    BY <1>3 DEF CloseSession, PollTables, MarkTablesClean, tableVars, joinVars, resourceVars, serverVars,
                HostingStaysTheSame
  <1>4. ASSUME \E rows \in BOOLEAN : PollJoin(rows)
        PROVE  HostingStaysTheSame
    BY <1>4 DEF PollJoin, resourceVars, joinVars, Recompute, HostingStaysTheSame
  <1> QED
    BY <1>1, <1>2, <1>3, <1>4 DEF ServerNext, Request

\* Without sources there are no joins.
LEMMA NoSourcesNoJoins == ASSUME JoinSources = {} PROVE DOMAIN JoinOf = {}
  <1>1. \A j \in DOMAIN JoinOf : JoinOf[j].left \in SourcesOf(j) /\ SourcesOf(j) \subseteq JoinSources
    BY DEF JoinSources, SourcesOf
  <1> QED
    BY <1>1

LEMMA SourcesNext ==
    ASSUME SourcesStay, ServerInv, ServerInv', SourcesInv, [ServerNext]_serverVars
    PROVE  SourcesInv'
  <1>1. CASE JoinSources = {}
    <2>1. m_join_defs' = {}
      BY <1>1, NoSourcesNoJoins DEF ServerInv, ServerIsConsistent, ServerTypeOK, JoinTypeOK
    <2> QED
      BY <1>1, <2>1 DEF SourcesInv, JoinSourcesAreHosted
  <1>2. CASE JoinSources # {}
    <2> USE <1>2
    <2>1. /\ DOMAIN m_deleted_tables = {} /\ NobodyAsks("lazy_delete") /\ NoChains
          /\ \A j \in m_join_defs : SourcesOf(j) \subseteq m_tables
          /\ \A j \in m_join_defs : SourcesOf(j) \subseteq JoinSources
      BY ServerFacts DEF SourcesInv, SourcesStay, JoinSourcesAreHosted, JoinSources
    <2>2. CASE HostingStaysTheSame
      BY <2>2 DEF SourcesInv, JoinSourcesAreHosted, HostingStaysTheSame
    <2>3. ASSUME NEW c \in Clients, NEW t \in Tables, MakeTable(c, t)
          PROVE  SourcesInv'
      BY <2>1, <2>3 DEF MakeTable, HostTable, joinVars, SourcesInv, JoinSourcesAreHosted
    <2>4. ASSUME NEW c \in Clients, NEW j \in Tables, MakeJoinTable(c, j)
          PROVE  SourcesInv'
      BY <2>1, <2>4 DEF MakeJoinTable, HostTable, RegisterJoin, SourcesInv, JoinSourcesAreHosted
    <2>5. ASSUME NEW c \in Clients, NEW t \in Tables, NEW lazily \in BOOLEAN, TableDelete(c, t, lazily)
          PROVE  SourcesInv'
      <3>1. ~lazily /\ t \in m_tables
        BY <2>1, <2>5 DEF TableDelete, Asks, NobodyAsks
      <3>2. m_join_defs' \subseteq m_join_defs
        BY <2>5 DEF TableDelete, UnregisterJoin, joinVars
      <3>3. \A j \in m_join_defs' : t \notin SourcesOf(j)
        <4> SUFFICES ASSUME NEW j \in m_join_defs', t \in SourcesOf(j)
                     PROVE  FALSE
          OBVIOUS
        <4>1. j \in m_join_defs /\ t \in JoinSources /\ t \notin DOMAIN JoinOf
          BY <2>1, <3>2 DEF NoChains
        <4>2. ~IsJoinTable(t)
          BY <4>1, ServerFacts DEF IsJoinTable
        <4>3. DependentJoins(t) = <<>>
          BY <2>5, <4>2 DEF TableDelete, IsSource
        <4>4. m_table_to_join_tables[t] = <<>>
          BY <4>1, <4>3 DEF DependentJoins
        <4>5. j \in Members(<<>>)
          BY <4>1, <4>4, ServerFacts, ReadersOfSource
        <4> QED
          BY <4>5 DEF Members
      <3>4. m_tables \ {t} \subseteq m_tables' /\ DOMAIN m_deleted_tables' = {}
        BY <2>1, <2>5, <3>1 DEF TableDelete, DeleteTable, tableVars
      <3> QED
        BY <2>1, <3>2, <3>3, <3>4 DEF SourcesInv, JoinSourcesAreHosted
    <2>6. ASSUME NEW c \in Clients, NEW v \in Views, ViewDelete(c, v)
          PROVE  SourcesInv'
      <3>1. ~CompletesDelete(v)
        BY <2>1 DEF CompletesDelete
      <3>2. UNCHANGED <<m_tables, m_deleted_tables, m_join_defs>>
        BY <2>6, <3>1 DEF ViewDelete, tableVars, joinVars
      <3> QED
        BY <2>1, <3>2 DEF SourcesInv, JoinSourcesAreHosted
    <2> QED
      BY <2>2, <2>3, <2>4, <2>5, <2>6, HostingSteps DEF HostingChanges
  <1> QED
    BY <1>1, <1>2

----------------------------------------------------------------------------
(* The worklist of a poll.                                                 *)

WorklistIsRegistered == Members(worklist) \subseteq m_join_defs

\* Every join that is behind one of its sources is still to be recomputed in
\* the poll that found the source dirty; between polls, that source was emptied
\* and is dirty.
StaleIsQueued ==
    \A s \in stale : /\ s[1] \in Members(worklist) \ processed
                     /\ s[2] \in changed \cap SourcesOf(s[1])
StaleIsDirty == stale \subseteq MadeStale(m_dirty_tables)
StaleInv == IF Polling THEN StaleIsQueued ELSE StaleIsDirty

LEMMA EmptyList == Members(<<>>) = {}
  BY DEF Members

\* Outside a poll nothing is in the worklist.
LEMMA NoWork == ASSUME ~Polling PROVE Members(worklist) = {}
  BY EmptyList DEF Polling

\* The joins that are looked up for a Table.
LEMMA DependentJoinsMembers ==
    ASSUME ServerInv, NEW t
    PROVE  Members(DependentJoins(t)) = {j \in m_join_defs : t \in SourcesOf(j)}
  <1>1. CASE t \in JoinSources
    BY <1>1, ServerFacts, ReadersOfSource DEF DependentJoins
  <1>2. CASE t \notin JoinSources
    <2>1. \A j \in m_join_defs : t \notin SourcesOf(j)
      BY <1>2, ServerFacts DEF JoinSources
    <2> QED
      BY <1>2, <2>1, EmptyList DEF DependentJoins
  <1> QED
    BY <1>1, <1>2

\* What the joins of the dirty Tables are.
LEMMA JoinsOfMembers ==
    ASSUME ServerInv, IsFiniteSet(m_dirty_tables), NEW order \in Orders(m_dirty_tables)
    PROVE  /\ Members(JoinsOf(order)) \subseteq m_join_defs
           /\ \A j \in m_join_defs, t \in m_dirty_tables : t \in SourcesOf(j) => j \in Members(JoinsOf(order))
  <1> DEFINE n == Cardinality(m_dirty_tables)
             lists == [i \in DOMAIN order |-> DependentJoins(order[i])]
             V == DOMAIN JoinOf
  <1>1. n \in Nat
    BY FS_CardinalityType
  <1>2. DOMAIN order = 1..n /\ order \in [1..n -> m_dirty_tables]
        /\ (\A h, i \in DOMAIN order : order[h] = order[i] => h = i)
    BY DEF Orders
  <1>3. lists \in [1..n -> Seq(V)]
    BY <1>2, DependentJoinsType
  <1>4. lists \in Seq(Seq(V)) /\ Len(lists) = n
    <2> HIDE DEF lists, n, V
    <2> QED
      BY <1>1, <1>3
  <1>5. JoinsOf(order) = Joined(lists)
    BY DEF JoinsOf
  <1>6. \A i \in 1..n : lists[i] = DependentJoins(order[i])
    BY <1>2
  <1>7. \A t : Members(DependentJoins(t)) = {j \in m_join_defs : t \in SourcesOf(j)}
    BY DependentJoinsMembers
  <1>8. \A t \in m_dirty_tables : \E i \in 1..n : order[i] = t
    <2>1. order \in Injection(1..n, m_dirty_tables)
      BY <1>2 DEF Injection, IsInjective
    <2>2. Cardinality(1..n) = n
      BY <1>1, FS_Interval
    <2>3. order \in Surjection(1..n, m_dirty_tables)
      BY <2>1, <2>2, FS_Injection
    <2> QED
      BY <2>3 DEF Surjection
  <1> HIDE DEF lists, V
  <1>9. Members(JoinsOf(order)) = UNION {Members(lists[i]) : i \in 1..n}
    BY <1>4, <1>5, JoinedMembers
  <1> HIDE DEF n
  <1>10. Members(JoinsOf(order)) \subseteq m_join_defs
    BY <1>6, <1>7, <1>9
  <1>11. ASSUME NEW j \in m_join_defs, NEW t \in m_dirty_tables, t \in SourcesOf(j)
         PROVE  j \in Members(JoinsOf(order))
    <2>1. PICK i \in 1..n : order[i] = t
      BY <1>8
    <2>2. j \in Members(lists[i])
      BY <1>6, <1>7, <1>11, <2>1
    <2> QED
      BY <1>9, <2>2
  <1> QED
    BY <1>10, <1>11

\* Requests leave a poll alone, and are not answered during one.
LEMMA RequestsAreNoPolls ==
    ASSUME Request
    PROVE  ~Polling /\ UNCHANGED pollVars
  <1>1. ASSUME NEW c \in Clients, NEW t \in Tables, TableRequest(c, t)
        PROVE  ~Polling /\ UNCHANGED pollVars
    BY <1>1 DEF TableRequest, MakeTable, MakeJoinTable, TableUpdate, TableReplace, Read, FailingRead, TableOnDelete,
                TableDelete, TableMakeView, Asks
  <1>2. ASSUME NEW c \in Clients, NEW v \in Views, ViewRequest(c, v)
        PROVE  ~Polling /\ UNCHANGED pollVars
    BY <1>2 DEF ViewRequest, ViewOnUpdate, ViewRemoveOnUpdate, ViewOnDelete, ViewDelete, Asks
  <1>3. ASSUME NEW c \in Clients, CloseSession(c)
        PROVE  ~Polling /\ UNCHANGED pollVars
    BY <1>3 DEF CloseSession, Asks
  <1> QED
    BY <1>1, <1>2, <1>3 DEF Request

\* The worklist is its last join and the rest.
LEMMA LastOfList ==
    ASSUME NEW V, NEW list \in Seq(V), list # <<>>
    PROVE  /\ SubSeq(list, 1, Len(list) - 1) \in Seq(V)
           /\ list[Len(list)] \in Members(list)
           /\ Members(list) = Members(SubSeq(list, 1, Len(list) - 1)) \cup {list[Len(list)]}
  <1> DEFINE n == Len(list)
             rest == SubSeq(list, 1, n - 1)
  <1>1. n \in Nat \ {0} /\ rest \in Seq(V) /\ Len(rest) = n - 1 /\ \A k \in 1..(n - 1) : rest[k] = list[k]
    <2>1. n \in Nat \ {0} /\ \A k \in 1..n : list[k] \in V
      OBVIOUS
    <2> HIDE DEF n
    <2>2. Len(rest) = n - 1 /\ \A k \in 1..(n - 1) : rest[k] = list[k]
      BY <2>1
    <2>3. rest \in Seq(V)
      BY <2>1, <2>2
    <2> QED
      BY <2>1, <2>2, <2>3
  <1> HIDE DEF rest
  <1>2. Members(rest) = {list[k] : k \in 1..(n - 1)}
    BY <1>1 DEF Members
  <1>3. 1..n = (1..(n - 1)) \cup {n}
    BY <1>1
  <1>4. Members(list) = {list[k] : k \in 1..n}
    BY DEF Members
  <1> HIDE DEF n
  <1>5. Members(list) = Members(rest) \cup {list[n]}
    BY <1>2, <1>3, <1>4
  <1> QED
    BY <1>1, <1>5 DEF n, rest

\* What a step of a poll leaves in the worklist.
PollWork(j, rest) ==
    \/ j \in processed /\ worklist' = rest
    \/ ~(SourcesOf(j) \cup {j} \subseteq m_tables) /\ worklist' = <<>>
    \/ /\ j \notin processed /\ SourcesOf(j) \cup {j} \subseteq m_tables
       /\ worklist' \in Seq(DOMAIN JoinOf)
       /\ Members(rest) \subseteq Members(worklist') /\ Members(worklist') \subseteq Members(rest) \cup m_join_defs

LEMMA PollJoinWork ==
    ASSUME ServerInv, NEW rows \in BOOLEAN, PollJoin(rows)
    PROVE  \E j \in DOMAIN JoinOf, rest \in Seq(DOMAIN JoinOf) :
             /\ j = worklist[Len(worklist)] /\ rest = SubSeq(worklist, 1, Len(worklist) - 1)
             /\ Members(worklist) = Members(rest) \cup {j}
             /\ PollWork(j, rest)
  <1> DEFINE j == worklist[Len(worklist)]
             rest == SubSeq(worklist, 1, Len(worklist) - 1)
             more == Kept(DependentJoins(j), processed')
             V == DOMAIN JoinOf
  <1>1. worklist \in Seq(V) /\ worklist # <<>>
    BY DEF PollJoin, Polling, ServerInv, ServerIsConsistent, ServerTypeOK
  <1>2. rest \in Seq(V) /\ j \in Members(worklist) /\ Members(worklist) = Members(rest) \cup {j}
    <2> HIDE DEF V
    <2> QED
      BY <1>1, LastOfList
  <1>3. Members(worklist) \subseteq V
    BY <1>1 DEF Members
  <1>4. more \in Seq(V) /\ Members(more) \subseteq m_join_defs
    <2>1. DependentJoins(j) \in Seq(V)
      BY DependentJoinsType
    <2>2. Members(DependentJoins(j)) \subseteq m_join_defs
      BY DependentJoinsMembers
    <2> HIDE DEF V
    <2> QED
      BY <2>1, <2>2, KeptMembers
  <1>5. PollWork(j, rest)
    <2>1. CASE j \in processed
      BY <2>1 DEF PollJoin, Gather, PollWork
    <2>2. CASE j \notin processed /\ ~(SourcesOf(j) \cup {j} \subseteq m_tables)
      BY <2>2 DEF PollJoin, Gather, PollWork
    <2>3. CASE j \notin processed /\ SourcesOf(j) \cup {j} \subseteq m_tables
      <3>1. worklist' = rest \o more
        BY <2>3 DEF PollJoin, Gather
      <3> HIDE DEF j, rest, more, V
      <3>2. rest \o more \in Seq(V) /\ Members(rest \o more) = Members(rest) \cup Members(more)
        BY <1>2, <1>4, ConcatMembers
      <3> QED
        BY <1>4, <2>3, <3>1, <3>2 DEF PollWork, V
    <2> QED
      BY <2>1, <2>2, <2>3
  <1> QED
    BY <1>2, <1>3, <1>5

LEMMA WorklistNext ==
    ASSUME ServerInv, IsFiniteSet(m_dirty_tables), WorklistIsRegistered, [ServerNext]_serverVars
    PROVE  WorklistIsRegistered'
  <1>1. CASE UNCHANGED serverVars
    BY <1>1 DEF serverVars, pollVars, joinVars, WorklistIsRegistered, Members
  <1>2. CASE Request
    <2>1. worklist' = <<>>
      BY <1>2, RequestsAreNoPolls DEF Polling, pollVars
    <2> QED
      BY <2>1, EmptyList DEF WorklistIsRegistered
  <1>3. CASE PollTables
    <2>1. PICK order \in Orders(m_dirty_tables) : worklist' = JoinsOf(order)
      BY <1>3 DEF PollTables, Gather
    <2>2. m_join_defs' = m_join_defs
      BY <1>3 DEF PollTables
    <2> QED
      BY <2>1, <2>2, JoinsOfMembers DEF WorklistIsRegistered
  <1>4. CASE \E rows \in BOOLEAN : PollJoin(rows)
    <2>1. m_join_defs' = m_join_defs
      BY <1>4 DEF PollJoin, joinVars, Recompute
    <2>2. Members(worklist') \subseteq Members(worklist) \cup m_join_defs
      BY <1>4, PollJoinWork, EmptyList DEF PollWork
    <2> QED
      BY <2>1, <2>2 DEF WorklistIsRegistered
  <1> QED
    BY <1>1, <1>2, <1>3, <1>4 DEF ServerNext

----------------------------------------------------------------------------
(* Joins are current.                                                      *)

\* Where no join reads a join, recomputing one makes nothing stale.
LEMMA JoinsMakeNothingStale ==
    ASSUME NoChains, ServerInv, NEW j \in DOMAIN JoinOf
    PROVE  MadeStale({j}) = {}
  <1>1. \A i \in m_join_defs : SourcesOf(i) \subseteq JoinSources
    BY ServerFacts DEF JoinSources
  <1> QED
    BY <1>1 DEF MadeStale, NoChains

\* A request of a realtime server changes the rows of a Table only as it marks
\* it dirty, and a dirty Table stays so until it goes.
LEMMA RequestsMakeDirty ==
    ASSUME Realtime, NoChains, ServerInv, Request
    PROVE  /\ m_dirty_tables \cap m_tables' \subseteq m_dirty_tables'
           /\ \A s \in stale' : \/ s \in stale /\ (s[1] \in m_join_defs => s[1] \in m_join_defs')
                                \/ s[1] \in m_join_defs' /\ s \in MadeStale(m_dirty_tables')
  <1> DEFINE StillDirty == m_dirty_tables \cap m_tables' \subseteq m_dirty_tables'
             Behind == \A s \in stale' : \/ s \in stale /\ (s[1] \in m_join_defs => s[1] \in m_join_defs')
                                         \/ s[1] \in m_join_defs' /\ s \in MadeStale(m_dirty_tables')
  <1>1. ASSUME UNCHANGED <<stale, m_join_defs>>
        PROVE  Behind
    BY <1>1
  <1>2. ASSUME NEW t, DeleteTable(t)
        PROVE  StillDirty
    BY <1>2 DEF DeleteTable
  <1>3. ASSUME NEW t, ProcessForRead(t)
        PROVE  StillDirty /\ Behind
    BY <1>1, <1>3 DEF ProcessForRead, ReadProcesses, tableVars, joinVars
  <1>4. ASSUME NEW c \in Clients, NEW t \in Tables, TableRequest(c, t)
        PROVE  StillDirty /\ Behind
    <2>1. CASE MakeTable(c, t) \/ TableUpdate(c, t) \/ TableOnDelete(c, t)
      <3>1. UNCHANGED joinVars /\ m_dirty_tables \subseteq m_dirty_tables'
        BY <2>1 DEF MakeTable, HostTable, TableUpdate, MarkTableDirty, TableOnDelete, tableVars
      <3> QED
        BY <1>1, <3>1 DEF joinVars
    <2>2. CASE MakeJoinTable(c, t)
      <3>1. MadeStale({t}) = {}
        BY <2>2, JoinsMakeNothingStale DEF MakeJoinTable
      <3> QED
        BY <2>2, <3>1 DEF MakeJoinTable, RegisterJoin, HostTable
    <2>3. CASE Read(c, t) \/ FailingRead(c, t) \/ \E v \in Views : TableMakeView(c, v, t)
      BY <1>3, <2>3 DEF Read, FailingRead, TableMakeView
    <2>4. ASSUME NEW lazily \in BOOLEAN, TableDelete(c, t, lazily)
          PROVE  StillDirty /\ Behind
      <3>1. DeleteTable(t) \/ m_dirty_tables' = m_dirty_tables
        BY <2>4 DEF TableDelete, MarkTableDeleted, tableVars
      <3>2. Behind
        BY <1>1, <2>4 DEF TableDelete, UnregisterJoin, joinVars
      <3> QED
        BY <1>2, <3>1, <3>2
    <2>5. ASSUME NEW rows \in BOOLEAN, TableReplace(c, t, rows)
          PROVE  StillDirty /\ Behind
      <3>1. /\ m_dirty_tables' = m_dirty_tables \cup {t} /\ stale' = stale \cup MadeStale({t})
            /\ m_join_defs' = m_join_defs
        BY <2>5 DEF TableReplace, MarkTableDirty
      <3>2. \A s \in MadeStale({t}) : s[1] \in m_join_defs /\ s \in MadeStale(m_dirty_tables \cup {t})
        BY DEF MadeStale
      <3> QED
        BY <3>1, <3>2
    <2> HIDE DEF StillDirty, Behind
    <2> QED
      BY <1>4, <2>1, <2>2, <2>3, <2>4, <2>5 DEF TableRequest
  <1>5. ASSUME NEW c \in Clients, NEW v \in Views, ViewRequest(c, v)
        PROVE  StillDirty /\ Behind
    <2>1. CASE ViewOnUpdate(c, v)
      BY <1>3, <2>1 DEF ViewOnUpdate
    <2>2. CASE ViewRemoveOnUpdate(c, v) \/ ViewOnDelete(c, v)
      BY <1>1, <2>2 DEF ViewRemoveOnUpdate, ViewOnDelete, joinVars, tableVars
    <2>3. CASE ViewDelete(c, v)
      <3>1. DeleteTable(m_view_to_table[v]) \/ m_dirty_tables' = m_dirty_tables
        BY <2>3 DEF ViewDelete, tableVars
      <3> QED
        BY <1>1, <1>2, <2>3, <3>1 DEF ViewDelete, joinVars
    <2> QED
      BY <1>5, <2>1, <2>2, <2>3 DEF ViewRequest
  <1>6. ASSUME NEW c \in Clients, CloseSession(c)
        PROVE  StillDirty /\ Behind
    BY <1>1, <1>6 DEF CloseSession, joinVars, tableVars
  <1> HIDE DEF StillDirty, Behind
  <1>7. StillDirty /\ Behind
    BY <1>4, <1>5, <1>6 DEF Request
  <1> QED
    BY <1>7 DEF StillDirty, Behind

LEMMA StaleNext ==
    ASSUME Realtime, NoChains, ServerInv, IsFiniteSet(m_dirty_tables), JoinSourcesAreHosted, JoinSourcesAreHosted',
           WorklistIsRegistered, StaleInv, [ServerNext]_serverVars
    PROVE  StaleInv'
  <1>1. CASE UNCHANGED serverVars
    BY <1>1 DEF serverVars, resourceVars, pollVars, joinVars, StaleInv, StaleIsQueued, StaleIsDirty, MadeStale,
                Members, Polling
  <1>2. ASSUME StaleIsQueued'
        PROVE  StaleInv'
    <2>1. ~Polling' => Members(worklist') = {}
      BY EmptyList DEF Polling
    <2> QED
      BY <1>2, <2>1 DEF StaleInv, StaleIsQueued, StaleIsDirty
  <1>3. CASE Request
    <2>1. ~Polling /\ ~Polling' /\ StaleIsDirty
      BY <1>3, RequestsAreNoPolls DEF StaleInv, Polling, pollVars
    <2>2. ASSUME NEW s \in stale', s \in stale, s[1] \in m_join_defs => s[1] \in m_join_defs'
          PROVE  s \in MadeStale(m_dirty_tables)'
      <3>1. s[1] \in m_join_defs /\ s[2] \in m_dirty_tables \cap SourcesOf(s[1]) /\ s = <<s[1], s[2]>>
        BY <2>1, <2>2 DEF StaleIsDirty, MadeStale
      <3>2. s[2] \in m_tables'
        BY <2>2, <3>1 DEF JoinSourcesAreHosted
      <3>3. s[2] \in m_dirty_tables'
        BY <1>3, <3>1, <3>2, RequestsMakeDirty
      <3> QED
        BY <2>2, <3>1, <3>3 DEF MadeStale
    <2>3. ASSUME NEW s \in MadeStale(m_dirty_tables'), s[1] \in m_join_defs'
          PROVE  s \in MadeStale(m_dirty_tables)'
      BY <2>3 DEF MadeStale
    <2> QED
      BY <1>3, <2>1, <2>2, <2>3, RequestsMakeDirty DEF StaleInv, StaleIsDirty
  <1>4. CASE PollTables
    <2>1. PICK order \in Orders(m_dirty_tables) : worklist' = JoinsOf(order)
      BY <1>4 DEF PollTables, Gather
    <2>2. /\ stale' = stale \cup MadeStale(m_dirty_tables \cap pending) /\ processed' = {}
          /\ changed' = m_dirty_tables /\ StaleIsDirty
      BY <1>4 DEF PollTables, StaleInv
    <2>3. \A s \in stale' : s[1] \in m_join_defs /\ s[2] \in m_dirty_tables /\ s[2] \in SourcesOf(s[1])
      BY <2>2 DEF MadeStale, StaleIsDirty
    <2>4. Members(worklist') = Members(JoinsOf(order))
      BY <2>1
    <2>5. \A s \in stale' : s[1] \in Members(worklist')
      BY <2>3, <2>4, JoinsOfMembers
    <2>6. StaleIsQueued'
      BY <2>2, <2>3, <2>5 DEF StaleIsQueued
    <2> QED
      BY <1>2, <2>6
  <1>5. ASSUME NEW rows \in BOOLEAN, PollJoin(rows)
        PROVE  StaleIsQueued'
    <2>0. StaleIsQueued
      BY <1>5 DEF PollJoin, StaleInv
    <2>1. PICK j \in DOMAIN JoinOf, rest \in Seq(DOMAIN JoinOf) :
             /\ j = worklist[Len(worklist)] /\ rest = SubSeq(worklist, 1, Len(worklist) - 1)
             /\ Members(worklist) = Members(rest) \cup {j}
             /\ PollWork(j, rest)
      BY <1>5, PollJoinWork
    <2>2. SourcesOf(j) \cup {j} \subseteq m_tables
      BY <2>1, ServerFacts DEF WorklistIsRegistered, JoinSourcesAreHosted
    <2>3. CASE j \in processed
      <3>1. UNCHANGED <<stale, processed, changed>>
        BY <1>5, <2>1, <2>3 DEF PollJoin, joinVars
      <3>2. worklist' = rest
        BY <2>1, <2>2, <2>3 DEF PollWork
      <3> QED
        BY <2>0, <2>1, <2>3, <3>1, <3>2 DEF StaleIsQueued
    <2>4. CASE j \notin processed
      <3>1. Recompute(j, changed) /\ processed' = processed \cup {j} /\ changed' = changed \cup {j}
        BY <1>5, <2>1, <2>2, <2>4 DEF PollJoin
      <3>2. Members(rest) \subseteq Members(worklist')
        BY <2>1, <2>2, <2>4 DEF PollWork
      <3>3. stale' = stale \ ({<<j, JoinOf[j].left>>} \cup {<<j, t>> : t \in changed \cap {JoinOf[j].right}})
        BY <3>1, JoinsMakeNothingStale DEF Recompute
      <3>4. ASSUME NEW s \in stale'
            PROVE  s[1] # j
        <4> SUFFICES ASSUME s[1] = j
                     PROVE  FALSE
          OBVIOUS
        <4>1. s \in stale /\ s \in (DOMAIN JoinOf) \X JoinSources
          BY <3>3, ServerFacts
        <4>2. s = <<j, s[2]>> /\ s[2] \in changed /\ s[2] \in {JoinOf[j].left, JoinOf[j].right}
          BY <2>0, <4>1 DEF StaleIsQueued, SourcesOf
        <4> QED
          BY <3>3, <4>2
      <3>5. stale' \subseteq stale
        BY <3>3
      <3> QED
        BY <2>0, <2>1, <3>1, <3>2, <3>4, <3>5 DEF StaleIsQueued
    <2> QED
      BY <2>3, <2>4
  <1> QED
    BY <1>1, <1>2, <1>3, <1>4, <1>5 DEF ServerNext

(* Where polls are the server's own (a poll callback), no join reads a     *)
(* join, and nobody deletes a Table lazily while there are joins: whatever *)
(* the sessions make, change and delete, a join's sources stay as long as  *)
(* it does and a poll leaves it computed from their present rows, however  *)
(* many dirty Tables it found and in whichever order (TableDeleteReq,      *)
(* _poll).                                                                 *)
THEOREM JoinsStaySound ==
    ASSUME Realtime, SourcesStay
    PROVE  HistorySpec => []JoinsAreSound
  <1> DEFINE Inv == ServerIInv /\ SourcesInv /\ WorklistIsRegistered /\ StaleInv
  <1>1. ServerInit => Inv
    <2> SUFFICES ASSUME ServerInit
                 PROVE  SourcesInv /\ WorklistIsRegistered /\ StaleInv
      BY ServerInitInv
    <2>1. m_join_defs = {} /\ DOMAIN m_deleted_tables = {} /\ worklist = <<>> /\ stale = {}
      BY DEF ServerInit, ResourcesInit, JoinInit
    <2> QED
      BY <2>1, EmptyList DEF SourcesInv, JoinSourcesAreHosted, WorklistIsRegistered, StaleInv, StaleIsQueued,
                             StaleIsDirty
  <1>2. Inv /\ [ServerNext]_serverVars => Inv'
    <2> SUFFICES ASSUME Inv, [ServerNext]_serverVars
                 PROVE  Inv'
      OBVIOUS
    <2>1. ServerIInv'
      BY ServerNextInv
    <2>2. ServerInv /\ ServerInv' /\ IsFiniteSet(m_dirty_tables) /\ NoChains /\ JoinSourcesAreHosted
      BY <2>1 DEF ServerIInv, SourcesStay, SourcesInv
    <2>3. SourcesInv' /\ JoinSourcesAreHosted'
      BY <2>2, SourcesNext DEF SourcesInv
    <2> QED
      BY <2>1, <2>2, <2>3, WorklistNext, StaleNext
  <1>3. Inv => JoinsAreSound
    <2> SUFFICES ASSUME Inv, ~Polling, m_dirty_tables = {}
                 PROVE  stale = {}
      BY DEF JoinsAreSound, SourcesInv, JoinsAreCurrent
    <2> QED
      BY DEF StaleInv, StaleIsDirty, MadeStale
  <1> HIDE DEF Inv
  <1>4. ServerSpec => []Inv
    BY <1>1, <1>2, PTL DEF ServerSpec
  <1> QED
    BY <1>3, <1>4, HistoryIsServer, PTL

----------------------------------------------------------------------------
(* Lazy deletes are answered.                                              *)

\* One session at most deletes lazily: m_deleted_tables remembers one of them.
OneDeleter == \A c, d \in Clients : {<<c, "lazy_delete">>, <<d, "lazy_delete">>} \subseteq Requests => c = d

\* Whoever waits is the one that the server remembers.
OwedIsRemembered ==
    \A s \in owed : s[2] \in DOMAIN m_deleted_tables /\ s = <<m_deleted_tables[s[2]], s[2]>>

DeletersAsked == \A t \in DOMAIN m_deleted_tables : <<m_deleted_tables[t], "lazy_delete">> \in Requests

LazyInv == LazyDeletesComplete /\ OwedIsRemembered /\ DeletersAsked

\* Views go by two requests only, and stay on their Table.
LEMMA ViewsStay ==
    ASSUME [ServerNext]_serverVars
    PROVE  \/ \E c \in Clients, v \in Views : ViewDelete(c, v)
           \/ \E c \in Clients : CloseSession(c)
           \/ HostedViews \subseteq HostedViews' /\ \A v \in HostedViews : m_view_to_table'[v] = m_view_to_table[v]
  <1> DEFINE Stay == HostedViews \subseteq HostedViews' /\ \A v \in HostedViews : m_view_to_table'[v] = m_view_to_table[v]
  <1>1. ASSUME UNCHANGED m_view_to_table
        PROVE  Stay
    BY <1>1 DEF HostedViews
  <1>2. ASSUME NEW c \in Clients, NEW t \in Tables, TableRequest(c, t)
        PROVE  Stay
    <2>1. CASE \E v \in Views : TableMakeView(c, v, t)
      BY <2>1 DEF TableMakeView, HostView, HostedViews
    <2>2. CASE \/ MakeTable(c, t) \/ MakeJoinTable(c, t) \/ TableUpdate(c, t) \/ Read(c, t) \/ FailingRead(c, t)
               \/ \E rows \in BOOLEAN : TableReplace(c, t, rows)
               \/ TableOnDelete(c, t) \/ \E lazily \in BOOLEAN : TableDelete(c, t, lazily)
      <3>1. UNCHANGED m_view_to_table
        BY <2>2 DEF MakeTable, MakeJoinTable, TableUpdate, TableReplace, Read, FailingRead, TableOnDelete, TableDelete, viewVars
      <3> QED
        BY <1>1, <3>1
    <2> QED
      BY <1>2, <2>1, <2>2 DEF TableRequest
  <1>3. ASSUME NEW c \in Clients, NEW v \in Views, ViewRequest(c, v), ~ViewDelete(c, v)
        PROVE  Stay
    <2>1. UNCHANGED m_view_to_table
      BY <1>3 DEF ViewRequest, ViewOnUpdate, ViewRemoveOnUpdate, ViewOnDelete
    <2> QED
      BY <1>1, <2>1
  <1>4. ASSUME PollTables \/ (\E rows \in BOOLEAN : PollJoin(rows)) \/ UNCHANGED serverVars
        PROVE  Stay
    <2>1. UNCHANGED m_view_to_table
      BY <1>4 DEF PollTables, PollJoin, viewVars, resourceVars, serverVars
    <2> QED
      BY <1>1, <2>1
  <1> HIDE DEF Stay
  <1>5. Stay \/ (\E c \in Clients, v \in Views : ViewDelete(c, v)) \/ (\E c \in Clients : CloseSession(c))
    BY <1>2, <1>3, <1>4 DEF ServerNext, Request
  <1> QED
    BY <1>5 DEF Stay

\* What a deleted View leaves of its Table.
LEMMA ViewDeleteEffect ==
    ASSUME ServerInv, NEW c \in Clients, NEW v \in Views, ViewDelete(c, v)
    PROVE  /\ v \in HostedViews /\ HostedViews' = HostedViews \ {v}
           /\ \A w \in HostedViews' : m_view_to_table'[w] = m_view_to_table[w]
           /\ \/ /\ CompletesDelete(v)
                 /\ DeleteTable(m_view_to_table[v])
                 /\ <<m_deleted_tables[m_view_to_table[v]], "table_deleted", m_view_to_table[v]>> \in sent'
              \/ ~CompletesDelete(v) /\ UNCHANGED <<m_tables, m_deleted_tables>>
           /\ ViewGone(v) \subseteq sent'
  <1>1. DeleteViews(c, {v}) /\ v \in HostedViews
    BY DEF ViewDelete
  <1>2. HostedViews' = HostedViews \ {v} /\ \A w \in HostedViews' : m_view_to_table'[w] = m_view_to_table[w]
    BY <1>1, DeleteViewsEffect
  <1>3. CASE CompletesDelete(v)
    BY <1>1, <1>2, <1>3 DEF ViewDelete, TableGone
  <1>4. CASE ~CompletesDelete(v)
    BY <1>1, <1>2, <1>4 DEF ViewDelete, tableVars
  <1> QED
    BY <1>3, <1>4

LEMMA LazyNext ==
    ASSUME NobodyAsks("close"), ServerInv, LazyDeletesComplete, [ServerNext]_serverVars
    PROVE  LazyDeletesComplete'
  <1>1. ~\E c \in Clients : CloseSession(c)
    BY DEF CloseSession, Asks, NobodyAsks
  <1>2. ASSUME NEW c \in Clients, NEW v \in Views, ViewDelete(c, v)
        PROVE  LazyDeletesComplete'
    <2> DEFINE t == m_view_to_table[v]
    <2>1. /\ v \in HostedViews /\ HostedViews' = HostedViews \ {v}
          /\ \A w \in HostedViews' : m_view_to_table'[w] = m_view_to_table[w]
          /\ \/ CompletesDelete(v) /\ DeleteTable(t)
             \/ ~CompletesDelete(v) /\ UNCHANGED m_deleted_tables
      BY <1>2, ViewDeleteEffect
    <2> SUFFICES ASSUME NEW u \in DOMAIN m_deleted_tables'
                 PROVE  \E w \in HostedViews' : m_view_to_table'[w] = u
      BY DEF LazyDeletesComplete, HasViews, ViewsOf
    <2>2. u \in DOMAIN m_deleted_tables /\ (CompletesDelete(v) => u # t)
      BY <2>1 DEF DeleteTable
    <2>3. PICK w \in HostedViews : m_view_to_table[w] = u
      BY <2>2 DEF LazyDeletesComplete, HasViews, ViewsOf
    <2>4. CASE u # t
      BY <2>1, <2>3, <2>4
    <2>5. CASE u = t /\ ~CompletesDelete(v)
      <3>1. ViewsOf(t) # {v} /\ v \in ViewsOf(t)
        BY <2>1, <2>2, <2>5 DEF CompletesDelete, ViewsOf
      <3>2. PICK x \in ViewsOf(t) : x # v
        BY <3>1
      <3> QED
        BY <2>1, <2>5, <3>2 DEF ViewsOf
    <2> QED
      BY <2>2, <2>4, <2>5
  <1>3. CASE HostedViews \subseteq HostedViews' /\ \A v \in HostedViews : m_view_to_table'[v] = m_view_to_table[v]
    <2>1. \A u \in DOMAIN m_deleted_tables' : HasViews(u)
      <3>1. CASE HostingStaysTheSame
        BY <3>1 DEF HostingStaysTheSame, LazyDeletesComplete
      <3>2. ASSUME NEW c \in Clients, NEW t \in Tables, MakeTable(c, t) \/ MakeJoinTable(c, t)
            PROVE  m_deleted_tables' = m_deleted_tables
        BY <3>2 DEF MakeTable, MakeJoinTable, HostTable
      <3>3. ASSUME NEW c \in Clients, NEW t \in Tables, NEW lazily \in BOOLEAN, TableDelete(c, t, lazily)
            PROVE  \A u \in DOMAIN m_deleted_tables' : HasViews(u)
        BY <3>3 DEF TableDelete, DeleteTable, MarkTableDeleted, tableVars, LazyDeletesComplete
      <3>4. ASSUME NEW c \in Clients, NEW v \in Views, ViewDelete(c, v)
            PROVE  DOMAIN m_deleted_tables' \subseteq DOMAIN m_deleted_tables
        BY <3>4 DEF ViewDelete, DeleteTable, tableVars
      <3> QED
        BY <3>1, <3>2, <3>3, <3>4, HostingSteps DEF HostingChanges, LazyDeletesComplete
    <2> QED
      BY <1>3, <2>1 DEF LazyDeletesComplete, HasViews, ViewsOf
  <1> QED
    BY <1>1, <1>2, <1>3, ViewsStay

LEMMA OwedNext ==
    ASSUME OneDeleter, ServerInv, LazyInv, [HistoryNext]_historyVars
    PROVE  OwedIsRemembered' /\ DeletersAsked'
  <1> DEFINE Answered(s) == <<s[1], "table_deleted", s[2]>> \in sent'
             Remembered(s) == s[2] \in DOMAIN m_deleted_tables' /\ s = <<m_deleted_tables'[s[2]], s[2]>>
  <1>1. CASE UNCHANGED historyVars
    BY <1>1 DEF historyVars, serverVars, resourceVars, LazyInv, OwedIsRemembered, DeletersAsked
  <1>2. CASE HistoryNext
    <2>1. ServerNext /\ owed' = {s \in owed \cup {<<m_deleted_tables'[t], t>> : t \in DOMAIN m_deleted_tables'} :
                                   ~Answered(s)}
      BY <1>2, HistoryStep DEF Remember
    <2> SUFFICES /\ \A s \in owed : ~Answered(s) => Remembered(s)
                 /\ DeletersAsked'
      BY <2>1 DEF OwedIsRemembered
    <2>2. CASE m_deleted_tables' = m_deleted_tables
      BY <2>2 DEF LazyInv, OwedIsRemembered, DeletersAsked
    <2>3. ASSUME NEW c \in Clients, NEW t \in Tables, NEW lazily \in BOOLEAN, TableDelete(c, t, lazily)
          PROVE  (\A s \in owed : ~Answered(s) => Remembered(s)) /\ DeletersAsked'
      <3>1. CASE ~HasViews(t)
        <4>1. t \notin DOMAIN m_deleted_tables /\ DeleteTable(t)
          BY <2>3, <3>1 DEF TableDelete, LazyInv, LazyDeletesComplete
        <4>2. /\ DOMAIN m_deleted_tables' = DOMAIN m_deleted_tables
              /\ \A u \in DOMAIN m_deleted_tables : m_deleted_tables'[u] = m_deleted_tables[u]
          BY <4>1 DEF DeleteTable
        <4> QED
          BY <4>2 DEF LazyInv, OwedIsRemembered, DeletersAsked
      <3>2. CASE HasViews(t) /\ lazily
        <4>1. MarkTableDeleted(t, c) /\ <<c, "lazy_delete">> \in Requests
          BY <2>3, <3>2 DEF TableDelete, Asks
        <4>2. t \in DOMAIN m_deleted_tables => m_deleted_tables[t] = c
          <5> SUFFICES ASSUME t \in DOMAIN m_deleted_tables
                       PROVE  m_deleted_tables[t] = c
            OBVIOUS
          <5>1. m_deleted_tables[t] \in Clients
            BY ServerFacts
          <5>2. <<m_deleted_tables[t], "lazy_delete">> \in Requests
            BY DEF LazyInv, DeletersAsked
          <5> QED
            BY <4>1, <5>1, <5>2 DEF OneDeleter
        <4>3. /\ DOMAIN m_deleted_tables' = DOMAIN m_deleted_tables \cup {t} /\ m_deleted_tables'[t] = c
              /\ \A u \in DOMAIN m_deleted_tables : m_deleted_tables'[u] = m_deleted_tables[u]
          BY <4>1, <4>2 DEF MarkTableDeleted
        <4> QED
          BY <4>1, <4>3 DEF LazyInv, OwedIsRemembered, DeletersAsked
      <3>3. CASE HasViews(t) /\ ~lazily
        BY <2>2, <2>3, <3>3 DEF TableDelete, tableVars
      <3> QED
        BY <3>1, <3>2, <3>3
    <2>4. ASSUME NEW c \in Clients, NEW v \in Views, ViewDelete(c, v)
          PROVE  (\A s \in owed : ~Answered(s) => Remembered(s)) /\ DeletersAsked'
      <3> DEFINE t == m_view_to_table[v]
      <3>1. CASE CompletesDelete(v)
        <4>1. DeleteTable(t) /\ <<m_deleted_tables[t], "table_deleted", t>> \in sent'
          BY <2>4, <3>1, ViewDeleteEffect
        <4> HIDE DEF t
        <4>2. /\ DOMAIN m_deleted_tables' = DOMAIN m_deleted_tables \ {t}
              /\ \A u \in DOMAIN m_deleted_tables' : m_deleted_tables'[u] = m_deleted_tables[u]
          BY <4>1 DEF DeleteTable
        <4>3. \A s \in owed : s[2] = t => Answered(s)
          BY <4>1 DEF LazyInv, OwedIsRemembered
        <4> QED
          BY <4>2, <4>3 DEF LazyInv, OwedIsRemembered, DeletersAsked
      <3>2. CASE ~CompletesDelete(v)
        BY <2>2, <2>4, <3>2, ViewDeleteEffect
      <3> QED
        BY <3>1, <3>2
    <2>5. ASSUME NEW c \in Clients, NEW t \in Tables, MakeTable(c, t) \/ MakeJoinTable(c, t)
          PROVE  m_deleted_tables' = m_deleted_tables
      BY <2>5 DEF MakeTable, MakeJoinTable, HostTable
    <2>6. HostingStaysTheSame => m_deleted_tables' = m_deleted_tables
      BY DEF HostingStaysTheSame
    <2> HIDE DEF Answered, Remembered
    <2> QED
      BY <2>1, <2>2, <2>3, <2>4, <2>5, <2>6, HostingSteps DEF HostingChanges
  <1> QED
    BY <1>1, <1>2

(* Where one session deletes lazily and none is closed: a Table that is to *)
(* be deleted has a View that keeps it, whoever makes and deletes Views;   *)
(* and the session that waits waits for a Table that is there: it is       *)
(* answered by the very request that removes the last View (is_table_      *)
(* deleted in ViewDeleteReq).                                              *)
THEOREM LazyDeletesStayAnswered ==
    ASSUME OneDeleter, NobodyAsks("close")
    PROVE  HistorySpec => []LazyDeletesAreAnswered
  <1>1. HistoryInit => ServerIInv /\ LazyInv
    <2> SUFFICES ASSUME HistoryInit
                 PROVE  LazyInv
      BY ServerInitInv DEF HistoryInit
    <2>1. owed = {} /\ m_deleted_tables = <<>>
      BY DEF HistoryInit, ServerInit, ResourcesInit
    <2> QED
      BY <2>1 DEF LazyInv, LazyDeletesComplete, OwedIsRemembered, DeletersAsked
  <1>2. [HistoryNext]_historyVars => [ServerNext]_serverVars
    BY HistoryStep DEF historyVars
  <1>3. ServerIInv /\ LazyInv /\ [HistoryNext]_historyVars => ServerIInv' /\ LazyInv'
    <2> SUFFICES ASSUME ServerIInv, LazyInv, [HistoryNext]_historyVars
                 PROVE  ServerIInv' /\ LazyInv'
      OBVIOUS
    <2>1. ServerInv /\ ServerIInv'
      BY <1>2, ServerNextInv DEF ServerIInv
    <2>2. LazyDeletesComplete'
      BY <1>2, <2>1, LazyNext DEF LazyInv
    <2>3. OwedIsRemembered' /\ DeletersAsked'
      BY <2>1, OwedNext
    <2> QED
      BY <2>1, <2>2, <2>3 DEF LazyInv
  <1>4. ServerIInv /\ LazyInv => LazyDeletesAreAnswered
    BY ServerFacts DEF ServerIInv, LazyInv, OwedIsRemembered, LazyDeletesAreAnswered, DeletersAreAnswered
  <1> QED
    BY <1>1, <1>3, <1>4, PTL DEF HistorySpec

----------------------------------------------------------------------------
(* A session that is closed leaves no View behind.                         *)

\* Whoever deletes Views is the only one that makes any. Where a session
\* deletes another's View, the close of that other one stops at it.
OwnViewsOnly ==
    \A c, d \in Clients : <<c, "delete_view">> \in Requests /\ <<d, "make_view">> \in Requests => c = d

\* The list of a session has the Views that it made.
MakersAreListed ==
    /\ \A d \in Clients : Members(m_client_to_view[d]) = {v \in HostedViews : maker[v] = d}
    /\ \A v \in HostedViews : maker[v] \in open /\ <<maker[v], "make_view">> \in Requests

LEMMA MakersOfMadeView ==
    ASSUME ServerInv, MakersAreListed, NEW c \in Clients, NEW v \in Views, NEW t \in Tables,
           TableMakeView(c, v, t), NEW ts, Remember(ts)
    PROVE  MakersAreListed'
  <1>1. /\ HostView(c, v, t) /\ v \notin HostedViews /\ c \in open /\ open' = open
        /\ <<c, "make_view">> \in Requests
    BY DEF TableMakeView, Asks
  <1>2. m_client_to_view[c] \in Seq(Views) /\ m_client_to_view \in [Clients -> Seq(Views)] /\ open \subseteq Clients
    BY ViewFacts, ServerFacts DEF ViewMapsOK
  <1>3. /\ m_client_to_view'[c] = Append(m_client_to_view[c], v)
        /\ \A d \in Clients \ {c} : m_client_to_view'[d] = m_client_to_view[d]
    BY <1>1, <1>2 DEF HostView
  <1>4. Members(m_client_to_view'[c]) = Members(m_client_to_view[c]) \cup {v}
    <2> DEFINE s == m_client_to_view[c]
    <2>1. /\ Len(s) \in Nat /\ Len(Append(s, v)) = Len(s) + 1 /\ Append(s, v)[Len(s) + 1] = v
          /\ \A k \in 1..Len(s) : Append(s, v)[k] = s[k]
      BY <1>2
    <2>2. 1..(Len(s) + 1) = (1..Len(s)) \cup {Len(s) + 1}
      BY <2>1
    <2> HIDE DEF s
    <2>3. Members(Append(s, v)) = Members(s) \cup {v}
      BY <2>1, <2>2 DEF Members
    <2> QED
      BY <1>3, <2>3 DEF s
  <1>5. m_client_to_view'[c] # m_client_to_view[c]
    <2>1. Len(Append(m_client_to_view[c], v)) # Len(m_client_to_view[c])
      BY <1>2
    <2> QED
      BY <1>3, <2>1
  <1>6. c = CHOOSE d \in open : m_client_to_view'[d] # m_client_to_view[d]
    BY <1>1, <1>2, <1>3, <1>5
  <1>7. HostedViews' = HostedViews \cup {v}
    BY <1>1 DEF HostView, HostedViews
  <1>8. maker'[v] = c /\ \A w \in HostedViews : maker'[w] = maker[w]
    BY <1>1, <1>6, <1>7 DEF Remember, HostedViews
  <1>9. ASSUME NEW d \in Clients
        PROVE  Members(m_client_to_view'[d]) = {w \in HostedViews' : maker'[w] = d}
    <2>1. CASE d = c
      BY <1>4, <1>7, <1>8, <2>1 DEF MakersAreListed
    <2>2. CASE d # c
      BY <1>3, <1>7, <1>8, <2>2 DEF MakersAreListed
    <2> QED
      BY <2>1, <2>2
  <1> QED
    BY <1>1, <1>7, <1>8, <1>9 DEF MakersAreListed

LEMMA MakersOfDeletedViews ==
    ASSUME ServerInv, MakersAreListed, NEW c \in Clients, NEW gone, DeleteViews(c, gone),
           NEW ts, Remember(ts),
           \A v \in gone : maker[v] = c,
           \A v \in HostedViews \ gone : maker[v] \in open'
    PROVE  MakersAreListed'
  <1>1. HostedViews' = HostedViews \ gone
    BY DeleteViewsEffect
  <1>2. \A w \in HostedViews' : maker'[w] = maker[w]
    BY <1>1 DEF Remember, HostedViews
  <1>3. m_client_to_view \in [Clients -> Seq(Views)]
    BY ViewFacts DEF ViewMapsOK
  <1>4. /\ m_client_to_view'[c] = Kept(m_client_to_view[c], gone)
        /\ \A d \in Clients \ {c} : m_client_to_view'[d] = m_client_to_view[d]
    BY <1>3 DEF DeleteViews
  <1>5. Members(m_client_to_view'[c]) = Members(m_client_to_view[c]) \ gone
    BY <1>3, <1>4, KeptMembers
  <1>6. ASSUME NEW d \in Clients
        PROVE  Members(m_client_to_view'[d]) = {w \in HostedViews' : maker'[w] = d}
    <2>1. Members(m_client_to_view[d]) = {w \in HostedViews : maker[w] = d}
      BY DEF MakersAreListed
    <2>2. CASE d = c
      BY <1>1, <1>2, <1>5, <2>1, <2>2
    <2>3. CASE d # c
      BY <1>1, <1>2, <1>4, <2>1, <2>3
    <2> QED
      BY <2>2, <2>3
  <1> QED
    BY <1>1, <1>2, <1>6 DEF MakersAreListed

\* Other steps make and delete no View, and nobody leaves.
LEMMA ViewsTheSame ==
    ASSUME [ServerNext]_serverVars
    PROVE  \/ UNCHANGED <<m_view_to_table, m_client_to_view, open>>
           \/ \E c \in Clients, v \in Views, t \in Tables : TableMakeView(c, v, t)
           \/ \E c \in Clients, v \in Views : ViewDelete(c, v)
           \/ \E c \in Clients : CloseSession(c)
  <1> DEFINE Same == UNCHANGED <<m_view_to_table, m_client_to_view, open>>
  <1>1. ASSUME NEW c \in Clients, NEW t \in Tables, TableRequest(c, t), ~\E v \in Views : TableMakeView(c, v, t)
        PROVE  Same
    BY <1>1 DEF TableRequest, MakeTable, MakeJoinTable, TableUpdate, TableReplace, Read, FailingRead, TableOnDelete,
                TableDelete, viewVars
  <1>2. ASSUME NEW c \in Clients, NEW v \in Views, ViewRequest(c, v), ~ViewDelete(c, v)
        PROVE  Same
    BY <1>2 DEF ViewRequest, ViewOnUpdate, ViewRemoveOnUpdate, ViewOnDelete
  <1>3. ASSUME PollTables \/ (\E rows \in BOOLEAN : PollJoin(rows)) \/ UNCHANGED serverVars
        PROVE  Same
    BY <1>3 DEF PollTables, PollJoin, viewVars, resourceVars, serverVars
  <1> HIDE DEF Same
  <1>4. \/ Same
        \/ \E c \in Clients, v \in Views, t \in Tables : TableMakeView(c, v, t)
        \/ \E c \in Clients, v \in Views : ViewDelete(c, v)
        \/ \E c \in Clients : CloseSession(c)
    BY <1>1, <1>2, <1>3 DEF ServerNext, Request
  <1> QED
    BY <1>4 DEF Same

LEMMA MakersNext ==
    ASSUME OwnViewsOnly, ServerInv, MakersAreListed, [HistoryNext]_historyVars
    PROVE  MakersAreListed'
  <1>1. CASE UNCHANGED historyVars
    BY <1>1 DEF historyVars, serverVars, resourceVars, MakersAreListed, Members, HostedViews
  <1>2. CASE HistoryNext
    <2> PICK ts : Remember(ts)
      BY <1>2, HistoryStep
    <2>1. ServerNext
      BY <1>2, HistoryStep
    <2>2. CASE UNCHANGED <<m_view_to_table, m_client_to_view, open>>
      <3>1. HostedViews' = HostedViews /\ \A v \in HostedViews : maker'[v] = maker[v]
        BY <2>2 DEF Remember, HostedViews
      <3> QED
        BY <2>2, <3>1 DEF MakersAreListed
    <2>3. ASSUME NEW c \in Clients, NEW v \in Views, ViewDelete(c, v)
          PROVE  MakersAreListed'
      <3>1. /\ DeleteViews(c, {v}) /\ v \in HostedViews /\ open' = open
            /\ <<c, "delete_view">> \in Requests
        BY <2>3 DEF ViewDelete, Asks
      <3>2. maker[v] \in Clients /\ <<maker[v], "make_view">> \in Requests
        BY <3>1, ServerFacts DEF MakersAreListed
      <3>3. maker[v] = c
        BY <3>1, <3>2 DEF OwnViewsOnly
      <3>4. \A w \in HostedViews \ {v} : maker[w] \in open'
        BY <3>1 DEF MakersAreListed
      <3> QED
        BY <1>2, <3>1, <3>3, <3>4, MakersOfDeletedViews
    <2>4. ASSUME NEW c \in Clients, CloseSession(c)
          PROVE  MakersAreListed'
      <3>1. DeleteViews(c, Dropped(c)) /\ open' = open \ {c}
        BY <2>4 DEF CloseSession
      <3>2. Dropped(c) = Members(m_client_to_view[c])
        <4>1. Members(m_client_to_view[c]) \subseteq HostedViews
          BY DEF MakersAreListed
        <4>2. m_client_to_view[c] \in Seq(Views)
          BY ViewFacts DEF ViewMapsOK
        <4>3. DOMAIN m_client_to_view[c] = 1..Len(m_client_to_view[c]) /\ Len(m_client_to_view[c]) \in Nat
          BY <4>2
        <4>4. \A j \in DOMAIN m_client_to_view[c] : \A k \in 1..j : m_client_to_view[c][k] \in HostedViews
          BY <4>1, <4>3 DEF Members
        <4> QED
          BY <4>3, <4>4 DEF Dropped, Members
      <3>3. Dropped(c) = {v \in HostedViews : maker[v] = c}
        BY <3>2 DEF MakersAreListed
      <3>4. \A v \in HostedViews \ Dropped(c) : maker[v] \in open'
        BY <3>1, <3>3 DEF MakersAreListed
      <3> DEFINE gone == Dropped(c)
      <3>5. /\ DeleteViews(c, gone) /\ (\A v \in gone : maker[v] = c)
            /\ \A v \in HostedViews \ gone : maker[v] \in open'
        BY <3>1, <3>3, <3>4
      <3> HIDE DEF gone
      <3> QED
        BY <1>2, <3>5, MakersOfDeletedViews
    <2> QED
      BY <1>2, <2>1, <2>2, <2>3, <2>4, ViewsTheSame, MakersOfMadeView
  <1> QED
    BY <1>1, <1>2

(* Where no session deletes another's View: every hosted View was made by  *)
(* a session that is open, and is in its list, whatever becomes of the     *)
(* Tables, the subscriptions and the other sessions (close_session,        *)
(* drop_client).                                                           *)
THEOREM ClosedSessionsLeaveNothing ==
    ASSUME OwnViewsOnly
    PROVE  HistorySpec => []ClosedSessionsLeaveNoViews
  <1>1. HistoryInit => ServerIInv /\ MakersAreListed
    <2> SUFFICES ASSUME HistoryInit
                 PROVE  MakersAreListed
      BY ServerInitInv DEF HistoryInit
    <2>1. HostedViews = {} /\ \A d \in Clients : m_client_to_view[d] = <<>>
      BY DEF HistoryInit, ServerInit, ResourcesInit, HostedViews
    <2> QED
      BY <2>1, EmptyList DEF MakersAreListed
  <1>2. ServerIInv /\ MakersAreListed /\ [HistoryNext]_historyVars => ServerIInv' /\ MakersAreListed'
    <2>1. [HistoryNext]_historyVars => [ServerNext]_serverVars
      BY HistoryStep DEF historyVars
    <2> QED
      BY <2>1, ServerNextInv, MakersNext DEF ServerIInv
  <1>3. MakersAreListed => ClosedSessionsLeaveNoViews
    BY DEF MakersAreListed, ClosedSessionsLeaveNoViews
  <1> QED
    BY <1>1, <1>2, <1>3, PTL DEF HistorySpec

----------------------------------------------------------------------------
(* Subscribers are told.                                                   *)

\* A subscription goes with its View.
SubscriptionsAreOfViews == \A s \in m_update_subs : s \in Clients \X Views /\ s[2] \in HostedViews

\* Who has missed an update will be sent it at the end of the poll.
BehindIsGathered == \A s \in behind : Polling /\ <<s[1], "on_update", s[2]>> \in outbox

\* What changes the subscriptions.
LEMMA SubscriptionsStay ==
    ASSUME [ServerNext]_serverVars
    PROVE  \/ \E c \in Clients, v \in Views : ViewDelete(c, v)
           \/ \E c \in Clients : CloseSession(c)
           \/ \E c \in Clients, v \in HostedViews : m_update_subs' \subseteq m_update_subs \cup {<<c, v>>}
           \/ m_update_subs' \subseteq m_update_subs
  <1>1. ASSUME NEW c \in Clients, NEW t \in Tables, TableRequest(c, t)
        PROVE  m_update_subs' = m_update_subs
    BY <1>1 DEF TableRequest, MakeTable, MakeJoinTable, TableUpdate, TableReplace, Read, FailingRead, TableOnDelete,
                TableDelete, TableMakeView, HostView, viewVars
  <1>2. ASSUME NEW c \in Clients, NEW v \in Views, ViewRequest(c, v), ~ViewDelete(c, v)
        PROVE  \/ v \in HostedViews /\ m_update_subs' \subseteq m_update_subs \cup {<<c, v>>}
               \/ m_update_subs' \subseteq m_update_subs
    BY <1>2 DEF ViewRequest, ViewOnUpdate, ViewRemoveOnUpdate, ViewOnDelete
  <1>3. ASSUME PollTables \/ (\E rows \in BOOLEAN : PollJoin(rows)) \/ UNCHANGED serverVars
        PROVE  m_update_subs' = m_update_subs
    BY <1>3 DEF PollTables, PollJoin, viewVars, resourceVars, serverVars
  <1>4. CASE ServerNext
    BY <1>1, <1>2, <1>3, <1>4 DEF ServerNext, Request
  <1> QED
    BY <1>3, <1>4

LEMMA SubscriptionsNext ==
    ASSUME ServerInv, SubscriptionsAreOfViews, [ServerNext]_serverVars
    PROVE  SubscriptionsAreOfViews'
  <1>1. ASSUME NEW c \in Clients, NEW gone, DeleteViews(c, gone)
        PROVE  SubscriptionsAreOfViews'
    <2>1. HostedViews' = HostedViews \ gone
      BY <1>1, DeleteViewsEffect
    <2> QED
      BY <1>1, <2>1 DEF DeleteViews, SubscriptionsAreOfViews
  <1>2. ASSUME NEW c \in Clients, NEW v \in Views, ViewDelete(c, v)
        PROVE  SubscriptionsAreOfViews'
    BY <1>1, <1>2 DEF ViewDelete
  <1>3. ASSUME NEW c \in Clients, CloseSession(c)
        PROVE  SubscriptionsAreOfViews'
    <2>1. DeleteViews(c, Dropped(c))
      BY <1>3 DEF CloseSession
    <2> QED
      BY <1>1, <2>1
  <1>4. CASE HostedViews \subseteq HostedViews'
    <2>1. CASE m_update_subs' \subseteq m_update_subs
      BY <1>4, <2>1 DEF SubscriptionsAreOfViews
    <2>2. ASSUME NEW c \in Clients, NEW v \in HostedViews, m_update_subs' \subseteq m_update_subs \cup {<<c, v>>}
          PROVE  SubscriptionsAreOfViews'
      BY <1>4, <2>2, ViewFacts DEF SubscriptionsAreOfViews, ViewMapsOK
    <2> QED
      BY <1>2, <1>3, <2>1, <2>2, SubscriptionsStay
  <1> QED
    BY <1>2, <1>3, <1>4, ViewsStay

\* Who is behind after a step.
LEMMA BehindAfter ==
    ASSUME NEW ts, Remember(ts), SubscriptionsAreOfViews, NEW s \in behind'
    PROVE  /\ s \in behind \/ /\ s[2] \in HostedViews /\ s[1] \in Clients
                              /\ <<s[1], s[2]>> \in m_update_subs
                              /\ m_view_to_table[s[2]] \in ts
           /\ <<s[1], "on_update", s[2]>> \notin sent'
  <1>1. /\ s \in behind \/ (s \in m_update_subs /\ m_view_to_table[s[2]] \in ts)
        /\ <<s[1], "on_update", s[2]>> \notin sent'
    BY DEF Remember
  <1> QED
    BY <1>1 DEF SubscriptionsAreOfViews

\* Who watches a Table whose rows are processed gets a message.
LEMMA WatchersAreSent ==
    ASSUME NEW ts, NEW c \in Clients, NEW v \in HostedViews, <<c, v>> \in m_update_subs,
           m_view_to_table[v] \in ts \cap pending
    PROVE  <<c, "on_update", v>> \in UpdatesOf(ts)
  <1>1. c \in Subscribed(m_update_subs, v)
    BY DEF Subscribed
  <1>2. <<c, "on_update", v>> \in Messages(m_update_subs, "on_update", v)
    BY <1>1 DEF Messages
  <1>3. v \in ViewsOf(m_view_to_table[v])
    BY DEF ViewsOf
  <1> QED
    BY <1>2, <1>3 DEF UpdatesOf

\* A request changes the rows of a Table whose watchers it tells, if of any.
LEMMA RequestsTell ==
    ASSUME NobodyAsks("failing_read"), Request
    PROVE  Changed = {} \/ \E t : Changed \subseteq {t} \cap pending /\ sent' = UpdatesOf({t})
  <1>1. Changed = (pending \ pending') \cap m_tables'
    BY DEF Changed
  <1>3. ASSUME NEW t, ProcessForRead(t), sent' = ReadUpdates(t)
        PROVE  Changed = {} \/ (Changed \subseteq {t} \cap pending /\ sent' = UpdatesOf({t}))
    BY <1>1, <1>3 DEF ProcessForRead, ReadUpdates
  <1>4. ASSUME pending \subseteq pending'
        PROVE  Changed = {}
    BY <1>1, <1>4
  <1>5. ASSUME NEW t, DeleteTable(t), pending' = pending \ {t}
        PROVE  Changed = {}
    BY <1>1, <1>5 DEF DeleteTable
  <1> DEFINE Told == Changed = {} \/ \E t : Changed \subseteq {t} \cap pending /\ sent' = UpdatesOf({t})
  <1>6. ASSUME NEW c \in Clients, NEW t \in Tables, TableRequest(c, t)
        PROVE  Told
    <2>1. CASE \/ MakeTable(c, t) \/ MakeJoinTable(c, t) \/ TableUpdate(c, t) \/ TableOnDelete(c, t)
               \/ \E rows \in BOOLEAN : TableReplace(c, t, rows)
      <3>1. pending \subseteq pending'
        BY <2>1 DEF MakeTable, MakeJoinTable, TableUpdate, TableReplace, TableOnDelete
      <3> QED
        BY <1>4, <3>1
    <2>2. CASE Read(c, t) \/ \E v \in Views : TableMakeView(c, v, t)
      <3>1. ProcessForRead(t) /\ sent' = ReadUpdates(t)
        BY <2>2 DEF Read, TableMakeView
      <3> QED
        BY <1>3, <3>1
    <2>3. CASE \E lazily \in BOOLEAN : TableDelete(c, t, lazily)
      <3>1. (DeleteTable(t) /\ pending' = pending \ {t}) \/ pending' = pending
        BY <2>3 DEF TableDelete
      <3> QED
        BY <1>4, <1>5, <3>1
    <2>4. ~FailingRead(c, t)
      BY DEF FailingRead, Asks, NobodyAsks
    <2> HIDE DEF Told
    <2> QED
      BY <1>6, <2>1, <2>2, <2>3, <2>4 DEF TableRequest
  <1>7. ASSUME NEW c \in Clients, NEW v \in Views, ViewRequest(c, v)
        PROVE  Told
    <2>1. CASE ViewOnUpdate(c, v)
      <3>1. ProcessForRead(m_view_to_table[v]) /\ sent' = ReadUpdates(m_view_to_table[v])
        BY <2>1 DEF ViewOnUpdate
      <3> QED
        BY <1>3, <3>1
    <2>2. CASE ViewRemoveOnUpdate(c, v) \/ ViewOnDelete(c, v)
      BY <1>4, <2>2 DEF ViewRemoveOnUpdate, ViewOnDelete
    <2>3. CASE ViewDelete(c, v)
      <3>1. \/ DeleteTable(m_view_to_table[v]) /\ pending' = pending \ {m_view_to_table[v]}
            \/ pending' = pending
        BY <2>3 DEF ViewDelete
      <3> QED
        BY <1>4, <1>5, <3>1
    <2> HIDE DEF Told
    <2> QED
      BY <1>7, <2>1, <2>2, <2>3 DEF ViewRequest
  <1>8. ASSUME NEW c \in Clients, CloseSession(c)
        PROVE  Told
    BY <1>4, <1>8 DEF CloseSession
  <1> HIDE DEF Told
  <1>9. Told
    BY <1>6, <1>7, <1>8 DEF Request
  <1> QED
    BY <1>9 DEF Told

LEMMA BehindNext ==
    ASSUME NobodyAsks("failing_read"), ServerInv, JoinSourcesAreHosted, WorklistIsRegistered,
           SubscriptionsAreOfViews, BehindIsGathered, [HistoryNext]_historyVars
    PROVE  BehindIsGathered'
  <1>1. CASE UNCHANGED historyVars
    BY <1>1 DEF historyVars, serverVars, pollVars, BehindIsGathered, Polling
  <1>2. CASE HistoryNext
    <2> SUFFICES ASSUME NEW s \in behind'
                 PROVE  Polling' /\ <<s[1], "on_update", s[2]>> \in outbox'
      BY DEF BehindIsGathered
    <2> DEFINE message == <<s[1], "on_update", s[2]>>
               Watches(ts) == /\ s[2] \in HostedViews /\ s[1] \in Clients
                              /\ <<s[1], s[2]>> \in m_update_subs
                              /\ m_view_to_table[s[2]] \in ts
    <2>1. ASSUME NEW ts, Remember(ts)
          PROVE  (s \in behind \/ Watches(ts)) /\ message \notin sent'
      BY <2>1, BehindAfter
    <2>2. message \notin sent'
      BY <1>2, <2>1, HistoryStep
    <2>3. ASSUME NEW work, NEW messages, Gather(work, messages), message \in messages
          PROVE  Polling' /\ message \in outbox'
      BY <2>2, <2>3 DEF Gather, Polling
    <2>4. CASE Request /\ Remember(Changed)
      <3>1. s \notin behind
        BY <2>4, RequestsAreNoPolls DEF BehindIsGathered
      <3>2. Watches(Changed)
        BY <2>1, <2>4, <3>1
      <3>3. PICK t : Changed \subseteq {t} \cap pending /\ sent' = UpdatesOf({t})
        BY <2>4, <3>2, RequestsTell
      <3>4. message \in UpdatesOf({t})
        BY <3>2, <3>3, WatchersAreSent
      <3> QED
        BY <2>2, <3>3, <3>4
    <2>5. CASE PollTables /\ Remember(Changed)
      <3>1. s \notin behind
        BY <2>5 DEF BehindIsGathered, PollTables
      <3>2. Watches(Changed) /\ Changed \subseteq m_dirty_tables \cap pending
        BY <2>1, <2>5, <3>1 DEF PollTables, Changed
      <3>3. message \in UpdatesOf(m_dirty_tables)
        BY <3>2, WatchersAreSent
      <3>4. \E work : Gather(work, UpdatesOf(m_dirty_tables))
        BY <2>5 DEF PollTables
      <3> QED
        BY <2>3, <3>3, <3>4
    <2>6. ASSUME NEW rows \in BOOLEAN, PollJoin(rows), Remember(IF rows THEN processed' \ processed ELSE {})
          PROVE  Polling' /\ message \in outbox'
      <3>1. PICK j \in DOMAIN JoinOf, rest \in Seq(DOMAIN JoinOf) :
               /\ j = worklist[Len(worklist)] /\ rest = SubSeq(worklist, 1, Len(worklist) - 1)
               /\ Members(worklist) = Members(rest) \cup {j}
               /\ PollWork(j, rest)
        BY <2>6, PollJoinWork
      <3>2. SourcesOf(j) \cup {j} \subseteq m_tables
        BY <3>1, ServerFacts DEF WorklistIsRegistered, JoinSourcesAreHosted
      <3>3. s \in behind => message \in outbox
        BY DEF BehindIsGathered
      <3>4. s \in behind \/ (rows /\ Watches(processed' \ processed))
        BY <2>1, <2>6
      <3>5. CASE j \in processed
        <4>1. Gather(rest, outbox) /\ processed' = processed
          BY <2>6, <3>1, <3>5 DEF PollJoin
        <4> QED
          BY <2>3, <3>3, <3>4, <4>1
      <3>6. CASE j \notin processed
        <4> DEFINE updates == IF rows
                              THEN UNION {Messages(m_update_subs, "on_update", v) : v \in ViewsOf(j)}
                              ELSE {}
        <4>1. processed' = processed \cup {j} /\ \E work : Gather(work, outbox \cup updates)
          BY <2>6, <3>1, <3>2, <3>6 DEF PollJoin
        <4>2. s \in behind \/ message \in updates
          <5> SUFFICES ASSUME s \notin behind
                       PROVE  message \in updates
            OBVIOUS
          <5>1. rows /\ s[2] \in ViewsOf(j) /\ s[1] \in Subscribed(m_update_subs, s[2])
            BY <3>4, <4>1 DEF ViewsOf, Subscribed
          <5>2. message \in Messages(m_update_subs, "on_update", s[2])
            BY <5>1 DEF Messages
          <5> QED
            BY <5>1, <5>2
        <4>3. message \in outbox \cup updates
          BY <3>3, <4>2
        <4> QED
          BY <2>3, <4>1, <4>3
      <3> QED
        BY <3>5, <3>6
    <2> QED
      BY <1>2, <2>4, <2>5, <2>6 DEF HistoryNext
  <1> QED
    BY <1>1, <1>2

\* Who subscribed to the deletion of a View is told of it.
LEMMA DeletedViewsTold ==
    ASSUME NobodyAsks("close"), ServerInv, [ServerNext]_serverVars
    PROVE  TellsOfDeletedViews
  <1>1. ~\E c \in Clients : CloseSession(c)
    BY DEF CloseSession, Asks, NobodyAsks
  <1>2. ASSUME NEW c \in Clients, NEW v \in Views, ViewDelete(c, v)
        PROVE  TellsOfDeletedViews
    <2>1. HostedViews' = HostedViews \ {v} /\ ViewGone(v) \subseteq sent'
      BY <1>2, ViewDeleteEffect
    <2>2. \A d \in Subscribed(m_delete_subs, v) : <<d, "view_on_delete", v>> \in ViewGone(v)
      BY DEF ViewGone, Messages
    <2> QED
      BY <2>1, <2>2 DEF TellsOfDeletedViews, HostedViews
  <1>3. HostedViews \subseteq HostedViews' => TellsOfDeletedViews
    BY DEF TellsOfDeletedViews, HostedViews
  <1> QED
    BY <1>1, <1>2, <1>3, ViewsStay

(* Where no request fails after it has processed rows, none is closed, and *)
(* the sources of joins stay: once nothing is left to poll, every          *)
(* subscriber of a View was sent an on_update after rows of its Table were *)
(* last processed, by whichever of polls, joins recomputed with rows and   *)
(* reading requests; a Table that is cleared and a join left without rows  *)
(* process none, and of them nobody is told. The subscribers to the        *)
(* deletion of a View are told by the request that deletes it              *)
(* (_process_table, ViewOnUpdateReq, ViewDeleteReq).                       *)
THEOREM WatchersStayInformed ==
    ASSUME NobodyAsks("failing_read"), NobodyAsks("close"), SourcesStay
    PROVE  HistorySpec => WatchersAreTold
  <1> DEFINE Inv == /\ ServerIInv /\ SourcesInv /\ WorklistIsRegistered
                    /\ SubscriptionsAreOfViews /\ BehindIsGathered
  <1>1. HistoryInit => Inv
    <2> SUFFICES ASSUME HistoryInit
                 PROVE  SourcesInv /\ WorklistIsRegistered /\ SubscriptionsAreOfViews /\ BehindIsGathered
      BY ServerInitInv DEF HistoryInit
    <2>1. /\ m_join_defs = {} /\ DOMAIN m_deleted_tables = {} /\ worklist = <<>>
          /\ m_update_subs = {} /\ behind = {}
      BY DEF HistoryInit, ServerInit, ResourcesInit, JoinInit
    <2> QED
      BY <2>1, EmptyList DEF SourcesInv, JoinSourcesAreHosted, WorklistIsRegistered, SubscriptionsAreOfViews,
         BehindIsGathered
  <1>2. ASSUME Inv, [HistoryNext]_historyVars
        PROVE  Inv' /\ TellsOfDeletedViews
    <2>1. [ServerNext]_serverVars
      BY <1>2, HistoryStep DEF historyVars
    <2>2. ServerIInv'
      BY <1>2, <2>1, ServerNextInv
    <2>3. ServerInv /\ ServerInv' /\ IsFiniteSet(m_dirty_tables) /\ JoinSourcesAreHosted
      BY <1>2, <2>2 DEF ServerIInv, SourcesInv
    <2>4. SourcesInv' /\ WorklistIsRegistered'
      BY <1>2, <2>1, <2>3, SourcesNext, WorklistNext
    <2>5. SubscriptionsAreOfViews' /\ BehindIsGathered'
      BY <1>2, <2>1, <2>3, SubscriptionsNext, BehindNext
    <2>6. TellsOfDeletedViews
      BY <2>1, <2>3, DeletedViewsTold
    <2> QED
      BY <2>2, <2>4, <2>5, <2>6
  <1>3. Inv' => SubscribersAreTold'
    BY DEF BehindIsGathered, SubscribersAreTold
  <1>4. Inv /\ [HistoryNext]_historyVars => Inv' /\ [SubscribersAreTold' /\ TellsOfDeletedViews]_historyVars
    BY <1>2, <1>3
  <1> HIDE DEF Inv
  <1> QED
    BY <1>1, <1>4, PTL DEF HistorySpec, WatchersAreTold

============================================================================
