---------------------------- MODULE Agent_proofs ----------------------------
(***************************************************************************)
(* Proofs about the viewer's agent, for any panels, configs, setups and    *)
(* budget, and any answers of the model: streamed tool calls are put       *)
(* together as they were called, a tool that was rejected leaves the       *)
(* panels as it found them, and the conversation stays one a model can be  *)
(* asked with and the user is shown.                                       *)
(***************************************************************************)
EXTENDS Agent, Integers, TLAPS
LOCAL INSTANCE SequencesExt
LOCAL INSTANCE Folds
LOCAL INSTANCE FiniteSetsExt
WellFounded == INSTANCE WellFoundedInduction

----------------------------------------------------------------------------
(* Streamed answers.                                                       *)

\* A set of numbers has a least one, and one with a bound a greatest.
LEMMA LeastOf ==
  ASSUME NEW T \in SUBSET Nat, T # {}
  PROVE  \E x \in T : \A y \in T : x <= y
<1> DEFINE R == {ss \in Nat \X Nat : ss[1] < ss[2]}
<1>1. WellFounded!IsWellFoundedOn(R, Nat)
  BY WellFounded!NatLessThanWellFounded DEF WellFounded!OpToRel
<1>2. PICK x \in T : \A y \in T : <<y, x>> \notin R
  BY <1>1, WellFounded!WFMin
<1>3. \A y \in T : ~(y < x)
  BY <1>2
<1>4. \A y \in T : x \in Nat /\ y \in Nat
  OBVIOUS
<1> HIDE DEF R
<1> QED BY <1>3, <1>4

LEMMA GreatestOf ==
  ASSUME NEW n \in Nat, NEW T \in SUBSET (1..n), T # {}
  PROVE  Max(T) \in T /\ \A y \in T : y <= Max(T)
<1> DEFINE U == {m \in Nat : \A y \in T : y <= m}
<1>1. n \in U
  OBVIOUS
<1>2. PICK m \in U : \A k \in U : m <= k
  BY <1>1, LeastOf
<1>3. m \in T
  <2>1. PICK y \in T : TRUE
    OBVIOUS
  <2>2. m >= 1 /\ m - 1 \in Nat
    BY <1>2, <2>1
  <2> SUFFICES ASSUME m \notin T PROVE FALSE
    OBVIOUS
  <2>3. \A x \in T : x <= m - 1
    BY <1>2
  <2> QED BY <1>2, <2>2, <2>3
<1>4. \E x \in T : \A y \in T : x >= y
  BY <1>2, <1>3
<1>5. Max(T) \in T /\ \A y \in T : Max(T) >= y
  BY <1>4 DEF Max
<1> QED BY <1>5

\* What is true of 0, and of m + 1 if of m, is true up to n.
LEMMA CountingUp ==
  ASSUME NEW n \in Nat, NEW P \in SUBSET (0..n), 0 \in P,
         \A m \in P : m < n => m + 1 \in P
  PROVE  n \in P
<1> SUFFICES ASSUME (0..n) \ P # {}
             PROVE  FALSE
  OBVIOUS
<1> DEFINE T == (0..n) \ P
<1>4. T \in SUBSET Nat /\ T # {}
  OBVIOUS
<1>1. PICK x \in T : \A y \in T : x <= y
  BY <1>4, LeastOf
<1>2. x - 1 \in 0..n
  BY <1>1
<1>3. x - 1 \in P
  BY <1>1, <1>2
<1> QED BY <1>1, <1>3

\* The fragments of an answer.
AreFragments(fragments, reply) ==
    /\ fragments \in Seq([index : 1..Len(reply), head : BOOLEAN, call : ToolCalls])
    /\ \A i \in DOMAIN fragments : fragments[i].call = reply[fragments[i].index]

LEMMA FragmentsAre ==
  ASSUME NEW reply, Len(reply) \in Nat, NEW fragments, AreFragments(fragments, reply), NEW i \in DOMAIN fragments
  PROVE  /\ fragments[i].index \in 1..Len(reply) /\ fragments[i].head \in BOOLEAN
         /\ fragments[i].call = reply[fragments[i].index]
<1> DEFINE Fragments == [index : 1..Len(reply), head : BOOLEAN, call : ToolCalls]
<1>1. fragments \in Seq(Fragments)
  BY DEF AreFragments
<1> HIDE DEF Fragments
<1>2. fragments[i] \in Fragments
  BY <1>1
<1>3. fragments[i].index \in 1..Len(reply) /\ fragments[i].head \in BOOLEAN
  BY <1>2 DEF Fragments
<1> QED BY <1>3 DEF AreFragments

LEMMA HeadPuts ==
  ASSUME NEW i, NEW c, NEW a, NEW j, NEW d
  PROVE  [[id |-> i, call |-> c, arguments |-> a] EXCEPT !.id = j, !.call = d] = [id |-> j, call |-> d, arguments |-> a]
<1> DEFINE r == [id |-> i, call |-> c, arguments |-> a]
           s == [r EXCEPT !.id = j, !.call = d]
<1>1. [r EXCEPT !.id = j] = [id |-> j, call |-> c, arguments |-> a]
  OBVIOUS
<1>2. [[id |-> j, call |-> c, arguments |-> a] EXCEPT !.call = d] = [id |-> j, call |-> d, arguments |-> a]
  OBVIOUS
<1>3. [r EXCEPT !.id = j, !.call = d] = [[r EXCEPT !.id = j] EXCEPT !.call = d]
  OBVIOUS
<1> QED BY <1>1, <1>2, <1>3

LEMMA RestPuts ==
  ASSUME NEW i, NEW c, NEW a, NEW j
  PROVE  [[id |-> i, call |-> c, arguments |-> a] EXCEPT !.arguments = j] = [id |-> i, call |-> c, arguments |-> j]
OBVIOUS

\* What is known of the k-th call from the fragments at S: its head, and its
\* arguments.
Headed(fragments, S, k) == \E i \in S : fragments[i].index = k /\ fragments[i].head
Argued(fragments, S, k) == \E i \in S : fragments[i].index = k /\ ~fragments[i].head
Piece(fragments, reply, S, k) ==
    [id |-> IF Headed(fragments, S, k) THEN k ELSE 0,
     call |-> IF Headed(fragments, S, k) THEN reply[k] ELSE "none",
     arguments |-> IF Argued(fragments, S, k) THEN TRUE ELSE FALSE]
Reached(fragments, S) == {k \in Nat \ {0} : \E i \in S : k <= fragments[i].index}
Pieces(fragments, reply, S) == [k \in Reached(fragments, S) |-> Piece(fragments, reply, S, k)]

\* The calls that are reached are the first ones.
LEMMA PiecesAreASequence ==
  ASSUME NEW reply \in Seq(ToolCalls), NEW fragments, AreFragments(fragments, reply), NEW S \in SUBSET DOMAIN fragments
  PROVE  \E m \in 0..Len(reply) : Reached(fragments, S) = 1..m
<1> DEFINE T == {fragments[i].index : i \in S}
<1>1. \A i \in S : fragments[i].index \in 1..Len(reply)
  BY FragmentsAre
<1>2. CASE S = {}
  <2>1. Reached(fragments, S) = 1..0
    BY <1>2 DEF Reached
  <2> QED BY <2>1
<1>3. CASE S # {}
  <2>1. T \in SUBSET (1..Len(reply)) /\ T # {} /\ Len(reply) \in Nat
    BY <1>1, <1>3
  <2> DEFINE m == Max(T)
  <2>2. m \in T /\ \A y \in T : y <= m
    BY <2>1, GreatestOf
  <2> HIDE DEF m
  <2>3. PICK i \in S : m = fragments[i].index
    BY <2>2
  <2>4. \A j \in S : fragments[j].index <= m
    BY <2>2
  <2>5. m \in 1..Len(reply)
    BY <2>1, <2>2
  <2>6. ASSUME NEW k
        PROVE  k \in Reached(fragments, S) <=> k \in 1..m
    <3>1. CASE k \in Reached(fragments, S)
      <4>1. k \in Nat \ {0} /\ \E j \in S : k <= fragments[j].index
        BY <3>1 DEF Reached
      <4>2. PICK j \in S : k <= fragments[j].index
        BY <4>1
      <4>3. fragments[j].index \in Nat /\ fragments[j].index <= m
        BY <1>1, <2>4
      <4> QED BY <3>1, <4>1, <4>2, <4>3, <2>5
    <3>2. CASE k \in 1..m
      BY <2>3, <2>5, <3>2 DEF Reached
    <3> QED BY <3>1, <3>2
  <2>7. Reached(fragments, S) = 1..m
    BY <2>6
  <2> QED BY <2>5, <2>7
<1> QED BY <1>2, <1>3

LEMMA Appended ==
  ASSUME NEW U, NEW a \in Seq(U), NEW b \in Seq(U)
  PROVE  /\ a \o b \in Seq(U) /\ Len(a \o b) = Len(a) + Len(b)
OBVIOUS

\* One more fragment.
LEMMA PiecesAccumulate ==
  ASSUME NEW reply \in Seq(ToolCalls), NEW fragments, AreFragments(fragments, reply),
         NEW S \in SUBSET DOMAIN fragments, NEW x \in S
  PROVE  Pieces(fragments, reply, S) = Accumulate(Pieces(fragments, reply, S \ {x}), fragments[x])
<1> DEFINE R == S \ {x}
           f == fragments[x]
           n == f.index
           before == Pieces(fragments, reply, R)
           after == Pieces(fragments, reply, S)
           Blank == [id |-> 0, call |-> "none", arguments |-> FALSE]
           blank == [k \in 1..n |-> Blank]
           room == IF Len(before) < n THEN before \o SubSeq(blank, Len(before) + 1, n) ELSE before
           result == IF f.head
                     THEN [room EXCEPT ![n].id = n, ![n].call = f.call]
                     ELSE [room EXCEPT ![n].arguments = TRUE]
<1>1. Accumulate(before, f) = result
  BY DEF Accumulate
<1>2. n \in 1..Len(reply) /\ f.head \in BOOLEAN /\ f.call = reply[n] /\ Len(reply) \in Nat
  BY FragmentsAre
<1>3. PICK m \in 0..Len(reply) : Reached(fragments, R) = 1..m
  BY PiecesAreASequence
<1>4. before = [k \in 1..m |-> Piece(fragments, reply, R, k)]
  BY <1>3 DEF Pieces
<1> DEFINE most == IF m < n THEN n ELSE m
<1>5. Reached(fragments, S) = 1..most
  <2>1. Reached(fragments, S) = Reached(fragments, R) \cup {k \in Nat \ {0} : k <= n}
    BY DEF Reached
  <2> HIDE DEF n
  <2>2. {k \in Nat \ {0} : k <= n} = 1..n
    BY <1>2
  <2>3. 1..m \cup 1..n = 1..most
    BY <1>2, <1>3
  <2> QED BY <1>3, <2>1, <2>2, <2>3
<1>6. after = [k \in 1..most |-> Piece(fragments, reply, S, k)]
  BY <1>5 DEF Pieces
<1>7. room = [k \in 1..most |-> IF k <= m THEN before[k] ELSE Blank]
  <2> HIDE DEF n, before
  <2>1. before \in Seq({Piece(fragments, reply, R, k) : k \in 1..m}) /\ Len(before) = m /\ m \in Nat /\ n \in Nat
    BY <1>2, <1>3, <1>4
  <2> HIDE DEF Blank
  <2>2. CASE m < n
    <3> DEFINE rest == SubSeq(blank, m + 1, n)
    <3> DEFINE U == {Piece(fragments, reply, R, k) : k \in 1..m} \cup {Blank}
    <3>1. blank \in Seq(U) /\ Len(blank) = n /\ before \in Seq(U) /\ \A i \in 1..n : blank[i] = Blank
      BY <2>1, <1>4
    <3> HIDE DEF U, blank
    <3>2. rest \in Seq(U) /\ Len(rest) = n - m /\ \A i \in 1..(n - m) : rest[i] = Blank
      BY <2>1, <2>2, <3>1
    <3> HIDE DEF rest
    <3> DEFINE all == before \o rest
    <3>7. all \in Seq(U) /\ Len(all) = Len(before) + Len(rest)
      BY <3>1, <3>2, Appended
    <3>6. all \in Seq(U) /\ Len(all) = n
      <4>1. all \in Seq(U)
        BY <3>7
      <4>2. Len(all) = m + (n - m)
        BY <2>1, <3>2, <3>7
      <4> HIDE DEF all
      <4>3. Len(all) = n
        BY <2>1, <4>2
      <4> QED BY <4>1, <4>3
    <3>3. DOMAIN all = 1..n /\ all = [k \in 1..n |-> all[k]]
      <4> HIDE DEF all
      <4> QED BY <2>1, <3>6
    <3>4. ASSUME NEW k \in 1..n
          PROVE  all[k] = IF k <= m THEN before[k] ELSE Blank
      BY <2>1, <2>2, <3>1, <3>2
    <3>5. room = all
      BY <2>1, <2>2 DEF rest
    <3> HIDE DEF all, room
    <3> QED BY <2>2, <3>3, <3>4, <3>5
  <2>3. CASE ~(m < n)
    <3>1. room = before /\ most = m
      BY <2>1, <2>3
    <3>2. DOMAIN before = 1..m /\ before = [k \in 1..m |-> before[k]]
      BY <1>4
    <3> HIDE DEF room, most
    <3> QED BY <3>1, <3>2
  <2> QED BY <2>2, <2>3
<1>8. n \in 1..most
  BY <1>2, <1>3
<1> HIDE DEF room
<1>9. ASSUME NEW k \in 1..most
      PROVE  room[k] = Piece(fragments, reply, R, k)
  <2>1. CASE k <= m
    <3>1. k \in 1..m
      BY <1>2, <1>3, <1>9, <2>1
    <3> HIDE DEF before
    <3> QED BY <1>4, <1>7, <2>1, <3>1
  <2>2. CASE ~(k <= m)
    <3>1. k \notin Reached(fragments, R) /\ k \in Nat \ {0}
      BY <1>2, <1>3, <1>9, <2>2
    <3>2. ASSUME NEW i \in R
          PROVE  fragments[i].index # k
      BY <3>1 DEF Reached
    <3>3. ~Headed(fragments, R, k) /\ ~Argued(fragments, R, k)
      BY <3>2 DEF Headed, Argued
    <3>4. Piece(fragments, reply, R, k) = Blank
      BY <3>3 DEF Piece
    <3> HIDE DEF before, Blank
    <3> QED BY <1>7, <2>2, <3>4
  <2> QED BY <2>1, <2>2
<1>10. ASSUME NEW k
       PROVE  /\ Headed(fragments, S, k) <=> Headed(fragments, R, k) \/ (k = n /\ f.head)
              /\ Argued(fragments, S, k) <=> Argued(fragments, R, k) \/ (k = n /\ ~f.head)
  BY DEF Headed, Argued
<1>11. DOMAIN room = 1..most
  BY <1>7
<1>12. ASSUME NEW k \in 1..most, k # n
       PROVE  result[k] = Piece(fragments, reply, S, k)
  <2>1. Piece(fragments, reply, S, k) = Piece(fragments, reply, R, k)
    BY <1>10, <1>12 DEF Piece
  <2>2. result[k] = room[k]
    BY <1>11, <1>12
  <2> QED BY <1>9, <2>1, <2>2
<1>13. result[n] = Piece(fragments, reply, S, n)
  <2>1. room[n] = Piece(fragments, reply, R, n)
    BY <1>8, <1>9
  <2>2. CASE f.head
    <3>1. result[n] = [room[n] EXCEPT !.id = n, !.call = f.call]
      BY <1>8, <1>11, <2>2
    <3>2. Headed(fragments, S, n) /\ (Argued(fragments, S, n) <=> Argued(fragments, R, n))
      BY <1>10, <2>2
    <3> HIDE DEF f, n, result
    <3> DEFINE a == IF Argued(fragments, R, n) THEN TRUE ELSE FALSE
               i == IF Headed(fragments, R, n) THEN n ELSE 0
               c == IF Headed(fragments, R, n) THEN reply[n] ELSE "none"
    <3>5. room[n] = [id |-> i, call |-> c, arguments |-> a]
      BY <2>1 DEF Piece
    <3>6. f.call = reply[n]
      BY <1>2
    <3>3. result[n] = [id |-> n, call |-> reply[n], arguments |-> a]
      <4> HIDE DEF a, i, c
      <4>1. result[n] = [[id |-> i, call |-> c, arguments |-> a] EXCEPT !.id = n, !.call = reply[n]]
        BY <3>1, <3>5, <3>6
      <4> QED BY <4>1, HeadPuts
    <3>4. Piece(fragments, reply, S, n) = [id |-> n, call |-> reply[n], arguments |-> a]
      BY <3>2 DEF Piece
    <3> QED BY <3>3, <3>4
  <2>3. CASE ~f.head
    <3>1. result[n] = [room[n] EXCEPT !.arguments = TRUE]
      BY <1>8, <1>11, <2>3
    <3>2. Argued(fragments, S, n) /\ (Headed(fragments, S, n) <=> Headed(fragments, R, n))
      BY <1>10, <2>3
    <3> HIDE DEF f, n, result
    <3> DEFINE i == IF Headed(fragments, R, n) THEN n ELSE 0
               c == IF Headed(fragments, R, n) THEN reply[n] ELSE "none"
    <3> DEFINE a == IF Argued(fragments, R, n) THEN TRUE ELSE FALSE
    <3>5. room[n] = [id |-> i, call |-> c, arguments |-> a]
      BY <2>1 DEF Piece
    <3>3. result[n] = [id |-> i, call |-> c, arguments |-> TRUE]
      <4> HIDE DEF a, i, c
      <4>1. result[n] = [[id |-> i, call |-> c, arguments |-> a] EXCEPT !.arguments = TRUE]
        BY <3>1, <3>5
      <4> QED BY <4>1, RestPuts
    <3>4. Piece(fragments, reply, S, n) = [id |-> i, call |-> c, arguments |-> TRUE]
      BY <3>2 DEF Piece
    <3> QED BY <3>3, <3>4
  <2> QED BY <1>2, <2>2, <2>3
<1>14. DOMAIN result = 1..most /\ result = [k \in 1..most |-> result[k]]
  <2>1. CASE f.head
    BY <1>11, <2>1
  <2>2. CASE ~f.head
    BY <1>11, <2>2
  <2> QED BY <2>1, <2>2
<1> HIDE DEF result, before, after, most, n
<1> QED BY <1>1, <1>6, <1>12, <1>13, <1>14 DEF before, after

\* The fold over the fragments puts the calls together: the pieces at every set
\* of positions solve its recursion, and any solution is theirs on the first m
\* positions for every m.
LEMMA StreamedIsPieces ==
  ASSUME NEW reply \in Seq(ToolCalls), NEW fragments, AreFragments(fragments, reply)
  PROVE  Streamed(fragments) = Pieces(fragments, reply, DOMAIN fragments)
<1> DEFINE n == Len(fragments)
           next(f, s) == Accumulate(f[s \ {Max(s)}], fragments[Max(s)])
           Solves(f) == f = [s \in SUBSET DOMAIN fragments |-> IF s = {} THEN <<>> ELSE next(f, s)]
           iter == CHOOSE f : Solves(f)
           made == [s \in SUBSET DOMAIN fragments |-> Pieces(fragments, reply, s)]
<1>1. n \in Nat /\ DOMAIN fragments = 1..n
  BY DEF AreFragments
<1>2. Streamed(fragments) = iter[DOMAIN fragments]
  BY DEF Streamed, FoldLeft, MapThenFoldSet
<1>3. ASSUME NEW s \in SUBSET DOMAIN fragments, s # {}
      PROVE  Max(s) \in s /\ \A j \in s : j <= Max(s)
  BY <1>1, <1>3, GreatestOf
<1>4. Pieces(fragments, reply, {}) = <<>>
  <2>1. Reached(fragments, {}) = {}
    BY DEF Reached
  <2> QED BY <2>1 DEF Pieces
<1>5. Solves(made)
  <2>1. ASSUME NEW s \in SUBSET DOMAIN fragments
        PROVE  made[s] = IF s = {} THEN <<>> ELSE next(made, s)
    <3>1. CASE s = {}
      BY <1>4, <3>1
    <3>2. CASE s # {}
      <4>1. Pieces(fragments, reply, s) = Accumulate(Pieces(fragments, reply, s \ {Max(s)}), fragments[Max(s)])
        BY <1>3, <3>2, PiecesAccumulate
      <4>2. made[s] = Pieces(fragments, reply, s) /\ made[s \ {Max(s)}] = Pieces(fragments, reply, s \ {Max(s)})
        OBVIOUS
      <4> QED BY <3>2, <4>1, <4>2
    <3> QED BY <3>1, <3>2
  <2>2. made = [s \in SUBSET DOMAIN fragments |-> made[s]]
    OBVIOUS
  <2> HIDE DEF made
  <2> QED BY <2>1, <2>2
<1>6. Solves(iter)
  <2> HIDE DEF Solves, made
  <2> QED BY <1>5
<1>7. \A s \in SUBSET DOMAIN fragments : iter[s] = IF s = {} THEN <<>> ELSE next(iter, s)
  BY <1>6
<1> HIDE DEF iter
<1> DEFINE P == {m \in 0..n : iter[1..m] = Pieces(fragments, reply, 1..m)}
<1>8. 0 \in P
  <2>1. 1..0 = {} /\ {} \in SUBSET DOMAIN fragments /\ 0 \in 0..n
    BY <1>1
  <2> QED BY <1>4, <1>7, <2>1
<1>9. ASSUME NEW m \in P, m < n
      PROVE  m + 1 \in P
  <2> DEFINE s == 1..(m + 1)
  <2>1. m \in 0..n /\ m + 1 \in 0..n /\ m + 1 \in s /\ s # {} /\ s \in SUBSET DOMAIN fragments
    <3>1. m \in 0..n
      OBVIOUS
    <3> HIDE DEF P, n
    <3>2. m + 1 \in 0..n /\ m + 1 \in s /\ \A i \in s : i \in 1..n
      BY <1>1, <1>9, <3>1
    <3> HIDE DEF s
    <3> QED BY <1>1, <3>1, <3>2
  <2>2. Max(s) = m + 1
    <3>1. Max(s) \in s /\ \A j \in s : j <= Max(s)
      BY <1>3, <2>1
    <3>2. Max(s) \in 1..(m + 1) /\ m + 1 <= Max(s)
      BY <2>1, <3>1
    <3> QED BY <2>1, <3>2
  <2>3. s \ {m + 1} = 1..m
    BY <2>1
  <2>4. iter[s] = Accumulate(iter[1..m], fragments[m + 1])
    <3> HIDE DEF s
    <3> QED BY <1>7, <2>1, <2>2, <2>3
  <2>5. Pieces(fragments, reply, s) = Accumulate(Pieces(fragments, reply, s \ {m + 1}), fragments[m + 1])
    BY <2>1, PiecesAccumulate
  <2>6. iter[1..m] = Pieces(fragments, reply, 1..m)
    OBVIOUS
  <2>7. iter[s] = Pieces(fragments, reply, s)
    <3> HIDE DEF s
    <3> QED BY <2>3, <2>4, <2>5, <2>6
  <2> QED BY <2>1, <2>7
<1>10. n \in P
  <2>1. P \in SUBSET (0..n)
    OBVIOUS
  <2> HIDE DEF P, n
  <2> QED BY <1>1, <1>8, <1>9, <2>1, CountingUp
<1> QED BY <1>1, <1>2, <1>10

\* The two orders in which an answer is streamed.
LEMMA StreamsAreFragments ==
  ASSUME NEW reply \in Seq(ToolCalls), NEW fragments \in StreamsOf(reply)
  PROVE  /\ AreFragments(fragments, reply)
         /\ \A k \in 1..Len(reply) : Headed(fragments, DOMAIN fragments, k) /\ Argued(fragments, DOMAIN fragments, k)
<1> DEFINE n == Len(reply)
           head(k) == [index |-> k, head |-> TRUE, call |-> reply[k]]
           rest(k) == [index |-> k, head |-> FALSE, call |-> reply[k]]
           one == [i \in 1..(2 * n) |-> IF i % 2 = 1 THEN head((i + 1) \div 2) ELSE rest(i \div 2)]
           two == [i \in 1..(2 * n) |-> IF i <= n THEN head(i) ELSE rest(i - n)]
           Fragments == [index : 1..n, head : BOOLEAN, call : ToolCalls]
<1>1. fragments = one \/ fragments = two
  BY DEF StreamsOf
<1>2. n \in Nat /\ \A k \in 1..n : reply[k] \in ToolCalls
  OBVIOUS
<1> HIDE DEF n
<1>3. ASSUME NEW k \in 1..n
      PROVE  /\ head(k) \in Fragments /\ head(k).index = k /\ head(k).head = TRUE /\ head(k).call = reply[k]
             /\ rest(k) \in Fragments /\ rest(k).index = k /\ rest(k).head = FALSE /\ rest(k).call = reply[k]
  BY <1>2
<1> HIDE DEF head, rest, Fragments
<1>4. CASE fragments = one
  <2>1. ASSUME NEW i \in 1..(2 * n)
        PROVE  \E k \in 1..n : fragments[i] = head(k) \/ fragments[i] = rest(k)
    <3>1. CASE i % 2 = 1
      <4>1. (i + 1) \div 2 \in 1..n
        BY <1>2, <3>1
      <4>2. fragments[i] = head((i + 1) \div 2)
        BY <1>4, <3>1
      <4> QED BY <4>1, <4>2
    <3>2. CASE i % 2 # 1
      <4>1. i \div 2 \in 1..n
        BY <1>2, <3>2
      <4>2. fragments[i] = rest(i \div 2)
        BY <1>4, <3>2
      <4> QED BY <4>1, <4>2
    <3> QED BY <3>1, <3>2
  <2>2. ASSUME NEW k \in 1..n
        PROVE  /\ 2 * k - 1 \in 1..(2 * n) /\ fragments[2 * k - 1] = head(k)
               /\ 2 * k \in 1..(2 * n) /\ fragments[2 * k] = rest(k)
    <3>1. /\ 2 * k - 1 \in 1..(2 * n) /\ (2 * k - 1) % 2 = 1 /\ ((2 * k - 1) + 1) \div 2 = k
          /\ 2 * k \in 1..(2 * n) /\ (2 * k) % 2 = 0 /\ (2 * k) \div 2 = k
      BY <1>2
    <3> QED BY <1>4, <3>1
  <2>3. fragments \in [1..(2 * n) -> Fragments]
    <3>1. DOMAIN fragments = 1..(2 * n) /\ fragments = [i \in 1..(2 * n) |-> fragments[i]]
      BY <1>4
    <3>2. \A i \in 1..(2 * n) : fragments[i] \in Fragments
      BY <1>3, <2>1
    <3> HIDE DEF one
    <3> QED BY <3>1, <3>2
  <2>4. fragments \in Seq(Fragments) /\ DOMAIN fragments = 1..(2 * n)
    <3>1. 2 * n \in Nat
      BY <1>2
    <3> HIDE DEF one
    <3> DEFINE d == 2 * n
    <3>2. d \in Nat /\ fragments \in [1..d -> Fragments]
      BY <2>3, <3>1
    <3> HIDE DEF d
    <3>3. fragments \in Seq(Fragments) /\ DOMAIN fragments = 1..d
      BY <3>2
    <3> QED BY <3>3 DEF d
  <2> HIDE DEF one
  <2>5. ASSUME NEW i \in DOMAIN fragments
        PROVE  fragments[i].call = reply[fragments[i].index]
    <3>1. PICK k \in 1..n : fragments[i] = head(k) \/ fragments[i] = rest(k)
      BY <2>1, <2>4
    <3>2. head(k).index = k /\ head(k).call = reply[k] /\ rest(k).index = k /\ rest(k).call = reply[k]
      BY <1>3
    <3> QED BY <3>1, <3>2
  <2>6. AreFragments(fragments, reply)
    BY <2>4, <2>5 DEF AreFragments, Fragments, n
  <2>7. ASSUME NEW k \in 1..n
        PROVE  Headed(fragments, DOMAIN fragments, k) /\ Argued(fragments, DOMAIN fragments, k)
    <3>1. (2 * k - 1) \in DOMAIN fragments /\ (2 * k) \in DOMAIN fragments
      BY <2>2, <2>4
    <3>2. fragments[2 * k - 1].index = k /\ fragments[2 * k - 1].head
      BY <1>3, <2>2
    <3>3. fragments[2 * k].index = k /\ ~fragments[2 * k].head
      BY <1>3, <2>2
    <3>4. Headed(fragments, DOMAIN fragments, k)
      BY <3>1, <3>2 DEF Headed
    <3>5. Argued(fragments, DOMAIN fragments, k)
      BY <3>1, <3>3 DEF Argued
    <3> QED BY <3>4, <3>5
  <2> QED BY <2>6, <2>7 DEF n
<1>5. CASE fragments = two
  <2>1. ASSUME NEW i \in 1..(2 * n)
        PROVE  \E k \in 1..n : fragments[i] = head(k) \/ fragments[i] = rest(k)
    <3>1. CASE i <= n
      BY <1>2, <1>5, <3>1
    <3>2. CASE ~(i <= n)
      <4>1. i - n \in 1..n
        BY <1>2, <3>2
      <4>2. fragments[i] = rest(i - n)
        BY <1>5, <3>2
      <4> QED BY <4>1, <4>2
    <3> QED BY <3>1, <3>2
  <2>2. ASSUME NEW k \in 1..n
        PROVE  /\ k \in 1..(2 * n) /\ fragments[k] = head(k)
               /\ k + n \in 1..(2 * n) /\ fragments[k + n] = rest(k)
    <3>1. k \in 1..(2 * n) /\ k <= n /\ k + n \in 1..(2 * n) /\ ~(k + n <= n) /\ (k + n) - n = k
      BY <1>2
    <3> QED BY <1>5, <3>1
  <2>3. fragments \in [1..(2 * n) -> Fragments]
    <3>1. DOMAIN fragments = 1..(2 * n) /\ fragments = [i \in 1..(2 * n) |-> fragments[i]]
      BY <1>5
    <3>2. \A i \in 1..(2 * n) : fragments[i] \in Fragments
      BY <1>3, <2>1
    <3> HIDE DEF two
    <3> QED BY <3>1, <3>2
  <2>4. fragments \in Seq(Fragments) /\ DOMAIN fragments = 1..(2 * n)
    <3>1. 2 * n \in Nat
      BY <1>2
    <3> HIDE DEF two
    <3> DEFINE d == 2 * n
    <3>2. d \in Nat /\ fragments \in [1..d -> Fragments]
      BY <2>3, <3>1
    <3> HIDE DEF d
    <3>3. fragments \in Seq(Fragments) /\ DOMAIN fragments = 1..d
      BY <3>2
    <3> QED BY <3>3 DEF d
  <2> HIDE DEF two
  <2>5. ASSUME NEW i \in DOMAIN fragments
        PROVE  fragments[i].call = reply[fragments[i].index]
    <3>1. PICK k \in 1..n : fragments[i] = head(k) \/ fragments[i] = rest(k)
      BY <2>1, <2>4
    <3>2. head(k).index = k /\ head(k).call = reply[k] /\ rest(k).index = k /\ rest(k).call = reply[k]
      BY <1>3
    <3> QED BY <3>1, <3>2
  <2>6. AreFragments(fragments, reply)
    BY <2>4, <2>5 DEF AreFragments, Fragments, n
  <2>7. ASSUME NEW k \in 1..n
        PROVE  Headed(fragments, DOMAIN fragments, k) /\ Argued(fragments, DOMAIN fragments, k)
    <3>1. (k) \in DOMAIN fragments /\ (k + n) \in DOMAIN fragments
      BY <2>2, <2>4
    <3>2. fragments[k].index = k /\ fragments[k].head
      BY <1>3, <2>2
    <3>3. fragments[k + n].index = k /\ ~fragments[k + n].head
      BY <1>3, <2>2
    <3>4. Headed(fragments, DOMAIN fragments, k)
      BY <3>1, <3>2 DEF Headed
    <3>5. Argued(fragments, DOMAIN fragments, k)
      BY <3>1, <3>3 DEF Argued
    <3> QED BY <3>4, <3>5
  <2> QED BY <2>6, <2>7 DEF n
<1> QED BY <1>1, <1>4, <1>5

\* ChunkAccumulator::push: whichever way the calls of an answer are streamed,
\* they are put together as the model made them, with their arguments.
THEOREM StreamsArePutTogether ==
  ASSUME NEW reply \in Seq(ToolCalls), NEW fragments \in StreamsOf(reply)
  PROVE  Streamed(fragments) = [k \in 1..Len(reply) |-> [id |-> k, call |-> reply[k], arguments |-> TRUE]]
<1> DEFINE S == DOMAIN fragments
<1>1. AreFragments(fragments, reply) /\ \A k \in 1..Len(reply) : Headed(fragments, S, k) /\ Argued(fragments, S, k)
  BY StreamsAreFragments
<1>2. Streamed(fragments) = [k \in Reached(fragments, S) |-> Piece(fragments, reply, S, k)]
  BY <1>1, StreamedIsPieces DEF Pieces
<1>3. Reached(fragments, S) = 1..Len(reply)
  <2>1. PICK m \in 0..Len(reply) : Reached(fragments, S) = 1..m
    BY <1>1, PiecesAreASequence
  <2>2. ASSUME NEW k \in 1..Len(reply)
        PROVE  k \in Reached(fragments, S)
    <3>1. PICK i \in S : fragments[i].index = k
      BY <1>1 DEF Headed
    <3> QED BY <3>1 DEF Reached
  <2>3. Len(reply) \in Nat
    OBVIOUS
  <2>4. Len(reply) # 0 => Len(reply) \in 1..m
    BY <2>1, <2>2, <2>3
  <2>5. m = Len(reply)
    BY <2>1, <2>3, <2>4
  <2> QED BY <2>1, <2>5
<1>4. ASSUME NEW k \in 1..Len(reply)
      PROVE  Piece(fragments, reply, S, k) = [id |-> k, call |-> reply[k], arguments |-> TRUE]
  BY <1>1 DEF Piece
<1> HIDE DEF S
<1> QED BY <1>2, <1>3, <1>4

----------------------------------------------------------------------------
(* Tools and panels.                                                       *)

IsTool(tool) == DOMAIN tool = {"step", "snapshot", "panels", "touched", "found"}
IsTurn(t) ==
    /\ DOMAIN t = {"phase", "runtime", "prompt", "number", "messages", "calls", "role", "aborted", "tool"}
    /\ t.phase \in {"docs", "asking", "tools", "spent"}
    /\ IsTool(t.tool)
    /\ t.tool.step \in {"none", "called", "snapshot", "trying", "rolling", "sweeping"}
    /\ t.phase # "tools" => t.tool.step = "none"

\* The tool calls that are left, and the config of each panel.
StreamedCalls == [id : Nat, call : ToolCalls, arguments : BOOLEAN]
Configs == PanelConfigs \cup {Absent}
OpenIn(found) == {p \in AgentPanels : found[p] # Absent}
Mine == {p \in promises : p.owner = turn.prompt}
InTool(step) == turn.phase = "tools" /\ turn.tool.step = step
Quiet(step) == InTool(step) /\ ~turn.tool.touched
Meant == AgentPanel(Calling.panel)
Found == turn.tool.found
SnapshotFits == Meant \in AgentPanels /\ Found[Meant] # Absent /\ turn.tool.snapshot = Found[Meant]

\* How far the promise of a tool is: the panels are as they were found, but for
\* the one that was committed.
Tried(p) ==
    /\ p.kind = "restore"
    /\ p.state = "queued" => p.panel = Calling.panel /\ configOf = Found
    /\ p.state = "committed" => p.panel = Meant /\ p.old = Found[Meant] /\ configOf = [Found EXCEPT ![Meant] = p.config]
    /\ p.state = "failed" => configOf = Found
RolledBack(p) ==
    /\ p.kind = "restore" /\ p.config = Found[Meant] /\ configOf = Found
    /\ p.state = "queued" => p.panel = Calling.panel
    /\ p.state = "committed" => p.panel = Meant /\ p.old = Found[Meant]
Added(p) ==
    /\ p.kind = "add"
    /\ p.state = "queued" => configOf = Found
    /\ p.state # "queued" => p.panel \in AgentPanels \ OpenIn(Found) /\ \A q \in AgentPanels \ {p.panel} : configOf[q] = Found[q]

PanelsInv ==
    /\ configOf \in [AgentPanels -> Configs]
    /\ activePanel \in AgentPanels \cup {0}
    /\ activePanel = 0 => OpenPanels = {}
IsPromise(p) ==
    /\ DOMAIN p = {"owner", "kind", "panel", "config", "old", "state"}
    /\ p.owner \in 1..prompts /\ p.old \in Configs
    /\ p.kind \in {"restore", "add"} => p.config \in PanelConfigs
    /\ p.kind = "restore" => p.panel \in AgentPanels \cup {0}
    /\ p.kind \in {"restore", "add"} /\ p.state = "committed" => p.panel \in AgentPanels
TurnInv ==
    /\ prompts \in Nat
    /\ turn = NoTurn \/ (IsTurn(turn) /\ turn.prompt = prompts /\ prompts # 0)
    /\ turn = NoTurn => ~abortable
    /\ turn.phase = "tools" => turn.calls \in Seq(StreamedCalls) /\ turn.calls # <<>>
    /\ turn # NoTurn /\ turn.tool.step # "none" => Found \in [AgentPanels -> Configs]
CallInv ==
    /\ turn # NoTurn /\ turn.tool.step \notin {"trying", "rolling"} => Mine = {}
    /\ turn # NoTurn /\ turn.tool.step \in {"trying", "rolling"} => \E p \in promises : Mine = {p}
    /\ InTool("snapshot") \/ InTool("rolling") => Calling.name = "set_view_config"
    /\ InTool("trying") => Calling.name \in {"set_view_config", "add_panel", "remove_panel", "activate_panel"}
    /\ InTool("snapshot") \/ InTool("trying") \/ InTool("rolling") =>
         (Calling.name = "set_view_config" => Calling.panel \in AgentPanels \cup {0} /\ turn.tool.snapshot \in PanelConfigs)
    /\ InTool("sweeping") => turn.tool.panels \subseteq AgentPanels
ToolInv ==
    /\ Quiet("called") => configOf = Found
    /\ Quiet("snapshot") => configOf = Found /\ SnapshotFits
    /\ Quiet("trying") /\ Calling.name = "set_view_config" => SnapshotFits /\ \A p \in Mine : Tried(p)
    /\ Quiet("trying") /\ Calling.name = "add_panel" => turn.tool.panels = OpenIn(Found) /\ \A p \in Mine : Added(p)
    /\ Quiet("rolling") => SnapshotFits /\ \A p \in Mine : RolledBack(p)
    /\ Quiet("sweeping") =>
         /\ turn.tool.panels \subseteq AgentPanels \ OpenIn(Found)
         /\ \A q \in AgentPanels \ turn.tool.panels : configOf[q] = Found[q]

ToolsInv == PanelsInv /\ (\A p \in promises : IsPromise(p)) /\ TurnInv /\ CallInv /\ ToolInv

\* What a turn is apart from its tool.
SameRest(t, u) ==
    /\ u.phase = t.phase /\ u.runtime = t.runtime /\ u.prompt = t.prompt /\ u.number = t.number
    /\ u.messages = t.messages /\ u.calls = t.calls /\ u.role = t.role

LEMMA AbortedSet ==
  ASSUME NEW t, IsTurn(t), NEW u, u = [t EXCEPT !.aborted = TRUE]
  PROVE  IsTurn(u) /\ SameRest(t, u) /\ u.tool = t.tool
BY DEF IsTurn, IsTool, SameRest

\* The next call, the next request, or neither.
LEMMA AfterCallSet ==
  ASSUME NEW t, IsTurn(t), NEW ok, NEW u, u = AfterCall(t, ok)
  PROVE  /\ IsTurn(u) /\ u.tool.step = "none" /\ u.calls = Tail(t.calls)
         /\ u.messages = Append(t.messages, ToolMessage(Head(t.calls).id, ok))
         /\ u.phase = IF Len(t.calls) > 1 THEN "tools" ELSE IF t.number < MaxModelTurns THEN "asking" ELSE "spent"
         /\ u.number = IF Len(t.calls) > 1 \/ t.number = MaxModelTurns THEN t.number ELSE t.number + 1
         /\ u.runtime = t.runtime /\ u.prompt = t.prompt /\ u.role = t.role
<1> DEFINE m == Append(t.messages, ToolMessage(Head(t.calls).id, ok))
           phase == IF Len(t.calls) > 1 THEN "tools" ELSE IF t.number < MaxModelTurns THEN "asking" ELSE "spent"
           number == IF Len(t.calls) > 1 \/ t.number = MaxModelTurns THEN t.number ELSE t.number + 1
           left == Tail(t.calls)
<1>1. u = [t EXCEPT !.messages = m, !.calls = left, !.tool = NoTool, !.phase = phase, !.number = number]
  BY DEF AfterCall
<1>2. phase \in {"docs", "asking", "tools", "spent"}
  OBVIOUS
<1> HIDE DEF m, phase, number, left
<1>3. /\ IsTurn(u) /\ u.tool.step = "none" /\ u.calls = left /\ u.messages = m /\ u.phase = phase /\ u.number = number
      /\ u.runtime = t.runtime /\ u.prompt = t.prompt /\ u.role = t.role
  BY <1>1, <1>2 DEF IsTurn, IsTool, NoTool
<1> QED BY <1>3 DEF m, phase, number, left

LEMMA TurnTypes ==
  ASSUME ToolsInv
  PROVE  /\ turn # NoTurn => IsTurn(turn) /\ turn.prompt = prompts /\ prompts \in Nat \ {0}
         /\ turn = NoTurn => turn.phase = "none" /\ ~abortable
         /\ turn.phase = "tools" => turn # NoTurn
BY DEF ToolsInv, TurnInv, NoTurn

LEMMA ConfigsFit == \A c \in PanelConfigs : c \in Configs /\ c # Absent
BY AgentAssumption DEF Configs

\* A turn that goes on as it was, or ends.
LEMMA TurnGoesOn ==
  ASSUME ToolsInv, UNCHANGED <<configOf, activePanel, promises, prompts>>,
         turn' = NoTurn \/ (turn # NoTurn /\ IsTurn(turn') /\ SameRest(turn, turn') /\ turn'.tool = turn.tool),
         turn' = NoTurn => ~abortable'
  PROVE  ToolsInv'
<1>1. PanelsInv' /\ \A p \in promises' : IsPromise(p)'
  <2>1. PanelsInv'
    BY DEF ToolsInv, PanelsInv, OpenPanels
  <2>2. ASSUME NEW p \in promises'
        PROVE  IsPromise(p)'
    BY DEF ToolsInv, IsPromise
  <2> QED BY <2>1, <2>2
<1>2. CASE turn' = NoTurn
  <2>1. turn'.phase = "none"
    BY <1>2 DEF NoTurn
  <2>2. TurnInv' /\ CallInv' /\ ToolInv'
    BY <1>2, <2>1 DEF ToolsInv, TurnInv, CallInv, ToolInv, InTool, Quiet
  <2> QED BY <1>1, <2>2 DEF ToolsInv
<1>3. CASE turn # NoTurn /\ IsTurn(turn') /\ SameRest(turn, turn') /\ turn'.tool = turn.tool
  <2>1. turn'.phase = turn.phase /\ turn'.calls = turn.calls /\ turn'.prompt = turn.prompt
    BY <1>3 DEF SameRest
  <2>2. TurnInv'
    BY <1>3, <2>1 DEF ToolsInv, TurnInv, Found
  <2>3. /\ Mine' = Mine /\ Calling' = Calling /\ Meant' = Meant /\ Found' = Found /\ (SnapshotFits' <=> SnapshotFits)
        /\ \A step : (InTool(step)' <=> InTool(step)) /\ (Quiet(step)' <=> Quiet(step))
        /\ \A p : (Tried(p)' <=> Tried(p)) /\ (RolledBack(p)' <=> RolledBack(p)) /\ (Added(p)' <=> Added(p))
    <3>1. Mine' = Mine /\ Calling' = Calling /\ Meant' = Meant /\ Found' = Found
      BY <1>3, <2>1 DEF Mine, Calling, Meant, Found, AgentPanel
    <3>2. SnapshotFits' <=> SnapshotFits
      BY <1>3, <3>1 DEF SnapshotFits
    <3>3. \A step : (InTool(step)' <=> InTool(step)) /\ (Quiet(step)' <=> Quiet(step))
      BY <1>3, <2>1 DEF InTool, Quiet
    <3>4. \A p : (Tried(p)' <=> Tried(p)) /\ (RolledBack(p)' <=> RolledBack(p)) /\ (Added(p)' <=> Added(p))
      BY <3>1 DEF Tried, RolledBack, Added
    <3> QED BY <3>1, <3>2, <3>3, <3>4
  <2>4. CallInv'
    BY <1>3, <2>3 DEF ToolsInv, CallInv
  <2>5. ToolInv'
    BY <1>3, <2>3 DEF ToolsInv, ToolInv
  <2> QED BY <1>1, <2>2, <2>4, <2>5 DEF ToolsInv
<1> QED BY <1>2, <1>3

LEMMA TailStays ==
  ASSUME NEW U, NEW s \in Seq(U), Len(s) > 1
  PROVE  Tail(s) \in Seq(U) /\ Tail(s) # <<>> /\ Len(Tail(s)) = Len(s) - 1
<1>1. Tail(s) \in Seq(U) /\ Len(Tail(s)) = Len(s) - 1
  OBVIOUS
<1>2. Len(<<>>) = 0
  OBVIOUS
<1> DEFINE l == Tail(s)
<1>3. Len(l) # 0
  BY <1>1
<1>4. l # <<>>
  <2> HIDE DEF l
  <2> QED BY <1>2, <1>3
<1> QED BY <1>1, <1>4

\* A turn in no tool.
LEMMA NoToolKeeps ==
  ASSUME PanelsInv', \A p \in promises' : IsPromise(p)', IsTurn(turn'), turn'.tool.step = "none",
         turn'.prompt = prompts', prompts' \in Nat \ {0},
         \A p \in promises' : p.owner # turn'.prompt,
         turn'.phase = "tools" => turn'.calls \in Seq(StreamedCalls) /\ turn'.calls # <<>>
  PROVE  ToolsInv'
<1>1. TurnInv'
  BY DEF TurnInv, IsTurn, NoTurn
<1>2. CallInv'
  BY DEF CallInv, InTool, Mine
<1>3. ToolInv'
  BY DEF ToolInv, Quiet, InTool
<1> QED BY <1>1, <1>2, <1>3 DEF ToolsInv

\* The panels and the promises when nobody calls the viewer.
LEMMA ViewerStays ==
  ASSUME ToolsInv, UNCHANGED <<configOf, activePanel, prompts>>, promises' \subseteq promises
  PROVE  PanelsInv' /\ \A p \in promises' : IsPromise(p)'
<1>1. PanelsInv'
  BY DEF ToolsInv, PanelsInv, OpenPanels
<1>2. ASSUME NEW p \in promises'
      PROVE  IsPromise(p)'
  BY DEF ToolsInv, IsPromise
<1> QED BY <1>1, <1>2

\* The end of a tool.
LEMMA CallIsOver ==
  ASSUME ToolsInv, turn # NoTurn, turn.phase = "tools", UNCHANGED <<configOf, activePanel, prompts>>,
         NEW ok, turn' = AfterCall(turn, ok),
         promises' = Consumed \/ (promises' = promises /\ turn.tool.step \in {"none", "called"})
  PROVE  ToolsInv'
<1>1. IsTurn(turn) /\ turn.prompt = prompts /\ prompts \in Nat \ {0}
  BY TurnTypes
<1>2. /\ IsTurn(turn') /\ turn'.tool.step = "none" /\ turn'.calls = Tail(turn.calls) /\ turn'.prompt = turn.prompt
      /\ turn'.phase = "tools" => Len(turn.calls) > 1
  BY <1>1, AfterCallSet
<1>3. turn'.phase = "tools" => turn'.calls \in Seq(StreamedCalls) /\ turn'.calls # <<>>
  <2>1. turn.calls \in Seq(StreamedCalls) /\ turn.calls # <<>>
    BY DEF ToolsInv, TurnInv
  <2>2. Len(turn.calls) > 1 => Tail(turn.calls) \in Seq(StreamedCalls) /\ Tail(turn.calls) # <<>>
    BY <2>1, TailStays
  <2> QED BY <1>2, <2>2
<1>4. promises' \subseteq promises /\ \A p \in promises' : p.owner # turn.prompt
  <2>1. CASE promises' = Consumed
    BY <2>1 DEF Consumed
  <2>2. CASE promises' = promises /\ turn.tool.step \in {"none", "called"}
    BY <2>2 DEF ToolsInv, CallInv, Mine
  <2> QED BY <2>1, <2>2
<1>5. PanelsInv' /\ \A p \in promises' : IsPromise(p)'
  BY <1>4, ViewerStays
<1> QED BY <1>1, <1>2, <1>3, <1>4, <1>5, NoToolKeeps

----------------------------------------------------------------------------
(* Steps of the slot and of the turn.                                      *)

LEMMA AbortedGoesOn ==
  ASSUME ToolsInv, UNCHANGED <<configOf, activePanel, promises, prompts>>, turn' = AbortInFlight(turn), abortable' = FALSE
  PROVE  ToolsInv' /\ (turn' # NoTurn => turn'.tool = turn.tool)
<1>1. CASE turn = NoTurn
  <2>1. turn' = NoTurn
    BY <1>1, TurnTypes DEF AbortInFlight
  <2> QED BY <2>1, TurnGoesOn
<1>2. CASE turn # NoTurn
  <2>1. IsTurn(turn)
    BY <1>2, TurnTypes
  <2>2. IsTurn(turn') /\ SameRest(turn, turn') /\ turn'.tool = turn.tool
    <3>1. CASE abortable
      BY <2>1, <3>1, AbortedSet DEF AbortInFlight
    <3>2. CASE ~abortable
      BY <2>1, <3>2 DEF AbortInFlight, SameRest
    <3> QED BY <3>1, <3>2
  <2> QED BY <1>2, <2>2, TurnGoesOn
<1> QED BY <1>1, <1>2

LEMMA SlotSteps ==
  ASSUME ToolsInv, Configure \/ StopTurn \/ Aborted \/ AgentReset \/ ResetDone \/ ReadDocs \/ RequestFails \/ AnswerText
                   \/ BudgetExhausted
  PROVE  ToolsInv' /\ (turn # NoTurn /\ turn' # NoTurn => turn'.tool = turn.tool)
<1>1. CASE Configure
  BY <1>1, AbortedGoesOn DEF Configure, viewerVars
<1>2. CASE StopTurn
  BY <1>2, AbortedGoesOn DEF StopTurn, viewerVars
<1>3. CASE Aborted
  BY <1>3, TurnGoesOn DEF Aborted, EndTurn, viewerVars
<1>4. CASE AgentReset
  BY <1>4, AbortedGoesOn DEF AgentReset, viewerVars
<1>5. CASE ResetDone \/ ReadDocs
  <2>1. turn' = turn /\ abortable' = abortable /\ UNCHANGED <<configOf, activePanel, promises, prompts>>
    BY <1>5 DEF ResetDone, ReadDocs, viewerVars, slotVars
  <2> QED BY <2>1, TurnGoesOn, TurnTypes DEF SameRest
<1>6. CASE RequestFails
  BY <1>6, TurnGoesOn DEF RequestFails, EndTurn, slotVars, viewerVars
<1>7. CASE AnswerText
  BY <1>7, TurnGoesOn DEF AnswerText, EndTurn, viewerVars
<1>8. CASE BudgetExhausted
  BY <1>8, TurnGoesOn DEF BudgetExhausted, EndTurn, viewerVars
<1> QED BY <1>1, <1>2, <1>3, <1>4, <1>5, <1>6, <1>7, <1>8

\* A prompt has no promise yet.
LEMMA PromptStep ==
  ASSUME ToolsInv, Prompt
  PROVE  ToolsInv'
<1>1. /\ prompts \in Nat /\ prompts' = prompts + 1 /\ abortable' = TRUE
      /\ configOf' = configOf /\ activePanel' = activePanel /\ promises' = promises
  BY DEF Prompt, viewerVars, ToolsInv, TurnInv
<1>2. /\ IsTurn(turn') /\ turn'.tool = NoTool /\ turn'.prompt = prompts' /\ turn'.phase = "docs"
  BY DEF Prompt, IsTurn, IsTool, NoTool
<1>3. \A p \in promises : p.owner \in 1..prompts /\ IsPromise(p)
  BY DEF ToolsInv, IsPromise
<1>4. \A p \in promises' : p.owner # turn'.prompt /\ IsPromise(p)'
  BY <1>1, <1>2, <1>3 DEF IsPromise
<1>5. PanelsInv'
  BY <1>1 DEF ToolsInv, PanelsInv, OpenPanels
<1> QED BY <1>1, <1>2, <1>4, <1>5, NoToolKeeps DEF NoTool

LEMMA BeginStep ==
  ASSUME ToolsInv, Begin
  PROVE  ToolsInv'
<1>1. turn # NoTurn /\ turn.phase = "docs" /\ UNCHANGED <<configOf, activePanel, promises, prompts, abortable>>
  BY DEF Begin, Going, slotVars, viewerVars
<1>2. IsTurn(turn) /\ turn.prompt = prompts /\ prompts \in Nat \ {0} /\ turn.tool.step = "none"
  BY <1>1, TurnTypes DEF IsTurn
<1>3. IsTurn(turn') /\ turn'.phase = "asking" /\ turn'.tool.step = "none" /\ turn'.prompt = turn.prompt
  <2> DEFINE m == StartMessages(turn.role, history[turn.runtime], turn.prompt)
  <2>1. turn' = [turn EXCEPT !.phase = "asking", !.messages = m]
    BY DEF Begin
  <2> HIDE DEF m
  <2> QED BY <1>1, <1>2, <2>1 DEF IsTurn, IsTool
<1>4. \A p \in promises' : p.owner # turn'.prompt
  BY <1>1, <1>2, <1>3 DEF ToolsInv, CallInv, Mine
<1>5. PanelsInv' /\ \A p \in promises' : IsPromise(p)'
  BY <1>1, ViewerStays
<1> QED BY <1>1, <1>2, <1>3, <1>4, <1>5, NoToolKeeps

LEMMA AnswerCallsStep ==
  ASSUME ToolsInv, AnswerCalls
  PROVE  ToolsInv'
<1>1. turn # NoTurn /\ turn.phase = "asking" /\ UNCHANGED <<configOf, activePanel, promises, prompts, abortable>>
  BY DEF AnswerCalls, Going, slotVars, viewerVars
<1>2. IsTurn(turn) /\ turn.prompt = prompts /\ prompts \in Nat \ {0} /\ turn.tool.step = "none"
  BY <1>1, TurnTypes DEF IsTurn
<1>3. PICK reply \in Replies : \E fragments \in StreamsOf(reply) :
        turn' = [turn EXCEPT !.phase = "tools", !.calls = Streamed(fragments),
                             !.messages = Append(@, AssistantMessage([k \in DOMAIN Streamed(fragments) |-> Streamed(fragments)[k].id]))]
  BY DEF AnswerCalls
<1>4. PICK fragments \in StreamsOf(reply) :
        turn' = [turn EXCEPT !.phase = "tools", !.calls = Streamed(fragments),
                             !.messages = Append(@, AssistantMessage([k \in DOMAIN Streamed(fragments) |-> Streamed(fragments)[k].id]))]
  BY <1>3
<1> DEFINE calls == Streamed(fragments)
           n == Len(reply)
<1>5. reply \in Seq(ToolCalls) /\ reply # <<>>
  BY AgentAssumption
<1>6. calls = [k \in 1..n |-> [id |-> k, call |-> reply[k], arguments |-> TRUE]]
  BY <1>5, StreamsArePutTogether
<1>7. n \in Nat /\ n # 0 /\ \A k \in 1..n : reply[k] \in ToolCalls
  BY <1>5
<1> HIDE DEF n, calls
<1>8. calls \in Seq(StreamedCalls) /\ calls # <<>>
  <2>1. \A k \in 1..n : [id |-> k, call |-> reply[k], arguments |-> TRUE] \in StreamedCalls
    BY <1>7 DEF StreamedCalls
  <2>2. calls \in [1..n -> StreamedCalls]
    BY <1>6, <2>1
  <2>3. calls \in Seq(StreamedCalls) /\ Len(calls) = n
    BY <1>7, <2>2
  <2> QED BY <1>7, <2>3
<1>9. IsTurn(turn') /\ turn'.phase = "tools" /\ turn'.tool.step = "none" /\ turn'.prompt = turn.prompt /\ turn'.calls = calls
  <2> DEFINE m == Append(turn.messages, AssistantMessage([k \in DOMAIN calls |-> calls[k].id]))
  <2>1. turn' = [turn EXCEPT !.phase = "tools", !.calls = calls, !.messages = m]
    BY <1>4 DEF calls
  <2> HIDE DEF m
  <2> QED BY <1>1, <1>2, <2>1 DEF IsTurn, IsTool
<1>10. \A p \in promises' : p.owner # turn'.prompt
  BY <1>1, <1>2, <1>9 DEF ToolsInv, CallInv, Mine
<1>11. PanelsInv' /\ \A p \in promises' : IsPromise(p)'
  BY <1>1, ViewerStays
<1> QED BY <1>1, <1>2, <1>8, <1>9, <1>10, <1>11, NoToolKeeps

LEMMA RefuseStep ==
  ASSUME ToolsInv, RefuseTool
  PROVE  ToolsInv' /\ turn.tool.step = "none"
<1>1. /\ turn # NoTurn /\ turn.phase = "tools" /\ turn.tool.step = "none" /\ turn' = AfterCall(turn, FALSE)
      /\ UNCHANGED <<configOf, activePanel, promises, prompts>>
  BY DEF RefuseTool, AtCall, Going, slotVars, viewerVars
<1> QED BY <1>1, CallIsOver

LEMMA DispatchStep ==
  ASSUME ToolsInv, Dispatch
  PROVE  ToolsInv' /\ turn.tool.step = "none"
<1>1. /\ turn # NoTurn /\ turn.phase = "tools" /\ turn.tool.step = "none"
      /\ turn' = [turn EXCEPT !.tool = [NoTool EXCEPT !.step = "called", !.found = configOf]]
      /\ UNCHANGED <<configOf, activePanel, promises, prompts, abortable>>
  BY DEF Dispatch, AtCall, Going, slotVars, viewerVars
<1>2. IsTurn(turn) /\ turn.prompt = prompts /\ prompts \in Nat \ {0}
  BY <1>1, TurnTypes
<1>3. IsTurn(turn') /\ SameRest(turn, turn') /\ turn'.tool.step = "called" /\ turn'.tool.found = configOf
  <2> DEFINE tool == [NoTool EXCEPT !.step = "called", !.found = configOf]
  <2>1. turn' = [turn EXCEPT !.tool = tool]
    BY <1>1
  <2>2. IsTool(tool) /\ tool.step = "called" /\ tool.found = configOf
    BY DEF IsTool, NoTool
  <2> HIDE DEF tool
  <2> QED BY <1>1, <1>2, <2>1, <2>2 DEF IsTurn, IsTool, SameRest
<1>4. turn' # NoTurn
  BY <1>3 DEF IsTurn, NoTurn
<1>5. PanelsInv' /\ \A p \in promises' : IsPromise(p)'
  BY <1>1, ViewerStays
<1>6. TurnInv'
  BY <1>1, <1>2, <1>3, <1>4 DEF ToolsInv, TurnInv, SameRest, Found, PanelsInv
<1>7. CallInv'
  BY <1>1, <1>2, <1>3 DEF ToolsInv, CallInv, Mine, InTool, SameRest
<1>8. ToolInv'
  BY <1>1, <1>3 DEF ToolInv, Quiet, InTool, Found
<1> QED BY <1>1, <1>5, <1>6, <1>7, <1>8 DEF ToolsInv

----------------------------------------------------------------------------
(* Steps of a tool.                                                        *)

LEMMA ToolMoves ==
  ASSUME ToolsInv, turn # NoTurn, turn.phase = "tools", turn.tool.step # "none",
         IsTurn(turn'), SameRest(turn, turn'), turn'.tool.found = turn.tool.found,
         UNCHANGED <<configOf, activePanel, prompts>>, turn' # NoTurn
  PROVE  /\ PanelsInv' /\ TurnInv'
         /\ turn'.phase = "tools" /\ turn'.prompt = turn.prompt /\ Calling' = Calling /\ Meant' = Meant /\ Found' = Found
<1>1. turn'.phase = "tools" /\ turn'.prompt = turn.prompt /\ turn'.calls = turn.calls
  BY DEF SameRest
<1>2. turn.prompt = prompts /\ prompts \in Nat \ {0}
  BY TurnTypes
<1>3. PanelsInv'
  BY DEF ToolsInv, PanelsInv, OpenPanels
<1>4. TurnInv'
  BY <1>1, <1>2 DEF ToolsInv, TurnInv, Found
<1>5. Calling' = Calling /\ Meant' = Meant /\ Found' = Found
  BY <1>1 DEF Calling, Meant, AgentPanel, Found
<1> QED BY <1>1, <1>3, <1>4, <1>5

LEMMA IsNotNoTurn ==
  ASSUME NEW t, IsTurn(t)
  PROVE  t # NoTurn
BY DEF IsTurn, NoTurn

LEMMA CallHas ==
  ASSUME ToolsInv, turn.phase = "tools"
  PROVE  Calling.config \in PanelConfigs /\ Head(turn.calls) \in StreamedCalls /\ Calling \in ToolCalls
<1>1. turn.calls \in Seq(StreamedCalls) /\ turn.calls # <<>>
  BY DEF ToolsInv, TurnInv
<1>2. Head(turn.calls) \in StreamedCalls
  BY <1>1
<1>3. Calling \in ToolCalls
  BY <1>2 DEF Calling, StreamedCalls
<1> QED BY <1>2, <1>3 DEF ToolCalls

LEMMA TakeSnapshotStep ==
  ASSUME ToolsInv, TakeSnapshot
  PROVE  ToolsInv' /\ turn.tool.step = "called"
<1>1. /\ turn # NoTurn /\ turn.phase = "tools" /\ turn.tool.step = "called" /\ Calling.name = "set_view_config"
      /\ UNCHANGED <<configOf, activePanel, promises>>
  BY DEF TakeSnapshot, AtStep, Going, viewerVars
<1>2. CASE ~KnownPanel(Calling.panel)
  <2>1. turn' = AfterCall(turn, FALSE) /\ prompts' = prompts
    BY <1>2 DEF TakeSnapshot, ToolEnds, slotVars
  <2> QED BY <1>1, <2>1, CallIsOver
<1>3. CASE KnownPanel(Calling.panel)
  <2>1. /\ turn' = [turn EXCEPT !.tool.step = "snapshot", !.tool.snapshot = configOf[AgentPanel(Calling.panel)]]
        /\ UNCHANGED <<prompts, abortable>>
    BY <1>3 DEF TakeSnapshot, slotVars
  <2>2. IsTurn(turn)
    BY <1>1, TurnTypes
  <2>3. /\ IsTurn(turn') /\ SameRest(turn, turn') /\ turn'.tool.step = "snapshot" /\ turn'.tool.found = turn.tool.found
        /\ turn'.tool.snapshot = configOf[Meant] /\ (turn'.tool.touched <=> turn.tool.touched)
    <3> DEFINE v == configOf[Meant]
    <3>1. turn' = [turn EXCEPT !.tool.step = "snapshot", !.tool.snapshot = v]
      BY <2>1 DEF Meant
    <3> HIDE DEF v
    <3>2. /\ IsTurn(turn') /\ SameRest(turn, turn') /\ turn'.tool.step = "snapshot" /\ turn'.tool.found = turn.tool.found
          /\ turn'.tool.snapshot = v /\ (turn'.tool.touched <=> turn.tool.touched)
      BY <1>1, <2>2, <3>1 DEF IsTurn, IsTool, SameRest
    <3> QED BY <3>2 DEF v
  <2>4. /\ PanelsInv' /\ TurnInv'
        /\ turn'.phase = "tools" /\ turn'.prompt = turn.prompt /\ Calling' = Calling /\ Meant' = Meant /\ Found' = Found
    BY <1>1, <2>1, <2>3, ToolMoves, IsNotNoTurn
  <2>5. Meant \in AgentPanels /\ configOf[Meant] \in PanelConfigs /\ configOf[Meant] # Absent
    BY <1>3 DEF KnownPanel, OpenPanels, Meant, ToolsInv, PanelsInv, Configs
  <2>6. Calling.panel \in AgentPanels \cup {0}
    BY <2>5 DEF Meant, AgentPanel
  <2>7. Mine' = {}
    BY <1>1, <2>4 DEF ToolsInv, CallInv, Mine
  <2>8. CallInv'
    BY <1>1, <2>3, <2>4, <2>5, <2>6, <2>7 DEF CallInv, InTool
  <2>9. ToolInv'
    <3>1. Quiet("snapshot")' => Quiet("called")
      BY <1>1, <2>3 DEF Quiet, InTool
    <3>2. Quiet("called") => configOf = Found
      BY DEF ToolsInv, ToolInv
    <3>3. Quiet("snapshot")' => configOf' = Found' /\ SnapshotFits'
      BY <1>1, <2>3, <2>4, <2>5, <3>1, <3>2 DEF SnapshotFits
    <3> QED BY <2>3, <3>3 DEF ToolInv, Quiet, InTool
  <2>10. \A p \in promises' : IsPromise(p)'
    BY <1>1, <2>1, ViewerStays
  <2> QED BY <1>1, <2>4, <2>8, <2>9, <2>10 DEF ToolsInv
<1> QED BY <1>2, <1>3

LEMMA ReadStep ==
  ASSUME ToolsInv, ReadTool
  PROVE  ToolsInv' /\ turn.tool.step = "called"
<1>1. turn # NoTurn /\ turn.phase = "tools" /\ turn.tool.step = "called" /\ UNCHANGED <<configOf, activePanel, promises>>
  BY DEF ReadTool, Going, viewerVars
<1>2. \E ok : turn' = AfterCall(turn, ok) /\ prompts' = prompts
  BY DEF ReadTool, ToolEnds, slotVars
<1> QED BY <1>1, <1>2, CallIsOver

\* What becomes of a tool that called the viewer.
IsAsked(p) ==
    /\ DOMAIN p = {"owner", "kind", "panel", "config", "old", "state"}
    /\ p.owner = turn.prompt /\ p.old = Absent /\ p.state = "queued"
LEMMA PromiseMade ==
  ASSUME ToolsInv, turn # NoTurn, turn.phase = "tools", NEW p, IsAsked(p),
         p.kind \in {"restore", "add"} => p.config \in PanelConfigs,
         p.kind = "restore" => p.panel \in AgentPanels \cup {0},
         prompts' = prompts, turn'.prompt = turn.prompt,
         promises' = Consumed \cup {p} \/ (promises' = promises \cup {p} /\ Mine = {})
  PROVE  /\ \A q \in promises' : IsPromise(q)'
         /\ Mine' = {p} /\ p \in promises'
<1>1. turn.prompt = prompts /\ prompts \in Nat \ {0}
  BY TurnTypes
<1>2. IsPromise(p)' /\ p.owner = turn.prompt
  BY <1>1 DEF IsPromise, Configs, IsAsked
<1>3. ASSUME NEW q \in promises
      PROVE  IsPromise(q)'
  BY DEF ToolsInv, IsPromise
<1>4. \A q \in promises' : IsPromise(q)'
  BY <1>2, <1>3 DEF Consumed
<1>5. Mine' = {p}
  BY <1>2 DEF Mine, Consumed
<1> QED BY <1>4, <1>5

LEMMA SetConfigStep ==
  ASSUME ToolsInv, SetConfig
  PROVE  ToolsInv' /\ turn.tool.step = "snapshot"
<1>0. PICK p : p = [owner |-> turn.prompt, kind |-> "restore", panel |-> Calling.panel, config |-> Calling.config,
                  old |-> Absent, state |-> "queued"]
  OBVIOUS
<1>1. /\ turn # NoTurn /\ turn.phase = "tools" /\ turn.tool.step = "snapshot" /\ Calling.name = "set_view_config"
      /\ turn' = [turn EXCEPT !.tool.step = "trying"] /\ promises' = promises \cup {p}
      /\ UNCHANGED <<configOf, activePanel, prompts, abortable>>
  BY <1>0 DEF SetConfig, AtStep, Going, Await, slotVars
<1>2. IsTurn(turn) /\ Calling.config \in PanelConfigs /\ Calling.config \in Configs
  BY <1>1, TurnTypes, CallHas DEF Configs
<1>3. /\ IsTurn(turn') /\ SameRest(turn, turn') /\ turn'.tool.step = "trying" /\ turn'.tool.found = turn.tool.found
      /\ turn'.tool.snapshot = turn.tool.snapshot /\ (turn'.tool.touched <=> turn.tool.touched)
  BY <1>1, <1>2 DEF IsTurn, IsTool, SameRest
<1>4. /\ PanelsInv' /\ TurnInv'
      /\ turn'.phase = "tools" /\ turn'.prompt = turn.prompt /\ Calling' = Calling /\ Meant' = Meant /\ Found' = Found
  BY <1>1, <1>3, ToolMoves, IsNotNoTurn
<1>5. /\ Mine = {} /\ Calling.panel \in AgentPanels \cup {0} /\ turn.tool.snapshot \in PanelConfigs
  BY <1>1 DEF ToolsInv, CallInv, InTool
<1>6. /\ (\A q \in promises' : IsPromise(q)') /\ Mine' = {p} /\ p \in promises'
      /\ p.kind = "restore" /\ p.state = "queued" /\ p.panel = Calling.panel
  <2>1. IsAsked(p) /\ p.kind = "restore" /\ p.config = Calling.config /\ p.panel = Calling.panel /\ p.state = "queued"
    BY <1>0 DEF IsAsked
  <2> QED BY <1>1, <1>2, <1>4, <1>5, <2>1, PromiseMade
<1>7. CallInv'
  BY <1>1, <1>3, <1>4, <1>5, <1>6 DEF CallInv, InTool
<1>8. ToolInv'
  <2>1. Quiet("trying")' => Quiet("snapshot")
    BY <1>1, <1>3 DEF Quiet, InTool
  <2>2. Quiet("snapshot") => configOf = Found /\ SnapshotFits
    BY DEF ToolsInv, ToolInv
  <2>3. Quiet("trying")' => configOf' = Found' /\ SnapshotFits'
    BY <1>1, <1>3, <1>4, <2>1, <2>2 DEF SnapshotFits
  <2>4. Quiet("trying")' => Tried(p)'
    BY <1>4, <1>6, <2>3 DEF Tried
  <2> QED BY <1>1, <1>3, <1>4, <1>6, <2>3, <2>4 DEF ToolInv, Quiet, InTool
<1> QED BY <1>1, <1>4, <1>6, <1>7, <1>8 DEF ToolsInv

LEMMA RollBackStep ==
  ASSUME ToolsInv, RollBack
  PROVE  ToolsInv' /\ turn'.tool.step = "rolling"
<1>0. PICK p : p = [owner |-> turn.prompt, kind |-> "restore", panel |-> Calling.panel, config |-> turn.tool.snapshot,
                  old |-> Absent, state |-> "queued"]
  OBVIOUS
<1>1. /\ turn # NoTurn /\ turn.phase = "tools" /\ turn.tool.step = "trying" /\ Calling.name = "set_view_config"
      /\ Answered("failed")
      /\ turn' = [turn EXCEPT !.tool.step = "rolling"] /\ promises' = Consumed \cup {p}
      /\ UNCHANGED <<configOf, activePanel, prompts, abortable>>
  BY <1>0 DEF RollBack, AtStep, Going, slotVars
<1>2. IsTurn(turn)
  BY <1>1, TurnTypes
<1>3. /\ IsTurn(turn') /\ SameRest(turn, turn') /\ turn'.tool.step = "rolling" /\ turn'.tool.found = turn.tool.found
      /\ turn'.tool.snapshot = turn.tool.snapshot /\ (turn'.tool.touched <=> turn.tool.touched)
  BY <1>1, <1>2 DEF IsTurn, IsTool, SameRest
<1>4. /\ PanelsInv' /\ TurnInv'
      /\ turn'.phase = "tools" /\ turn'.prompt = turn.prompt /\ Calling' = Calling /\ Meant' = Meant /\ Found' = Found
  BY <1>1, <1>3, ToolMoves, IsNotNoTurn
<1>5. Calling.panel \in AgentPanels \cup {0} /\ turn.tool.snapshot \in PanelConfigs
  BY <1>1 DEF ToolsInv, CallInv, InTool
<1>9. IsAsked(p) /\ p.kind = "restore" /\ p.config = turn.tool.snapshot /\ p.panel = Calling.panel /\ p.state = "queued"
  BY <1>0 DEF IsAsked
<1>6. (\A q \in promises' : IsPromise(q)') /\ Mine' = {p} /\ p \in promises'
  BY <1>1, <1>4, <1>5, <1>9, PromiseMade
<1>7. CallInv'
  BY <1>1, <1>3, <1>4, <1>5, <1>6 DEF CallInv, InTool
<1>8. ToolInv'
  <2>1. Quiet("rolling")' => Quiet("trying")
    BY <1>1, <1>3 DEF Quiet, InTool
  <2>2. Quiet("trying") => SnapshotFits /\ \A q \in Mine : Tried(q)
    BY <1>1 DEF ToolsInv, ToolInv
  <2>3. PICK q \in Mine : q.state = "failed"
    BY <1>1 DEF Answered, Mine
  <2>4. Quiet("rolling")' => configOf' = Found' /\ SnapshotFits' /\ turn.tool.snapshot = Found[Meant]
    BY <1>1, <1>3, <1>4, <2>1, <2>2, <2>3 DEF SnapshotFits, Tried
  <2>5. Quiet("rolling")' => RolledBack(p)'
    BY <1>4, <1>9, <2>4 DEF RolledBack
  <2> QED BY <1>1, <1>3, <1>4, <1>6, <2>4, <2>5 DEF ToolInv, Quiet, InTool
<1> QED BY <1>1, <1>3, <1>4, <1>6, <1>7, <1>8 DEF ToolsInv

LEMMA AddPanelStep ==
  ASSUME ToolsInv, AddPanelTool
  PROVE  ToolsInv' /\ turn.tool.step = "called"
<1>1. /\ turn # NoTurn /\ turn.phase = "tools" /\ turn.tool.step = "called" /\ Calling.name = "add_panel"
      /\ UNCHANGED <<configOf, activePanel>>
  BY DEF AddPanelTool, AtStep, Going
<1>2. CASE Calling.config \in InvalidConfigs
  BY <1>1, <1>2, CallIsOver DEF AddPanelTool, ToolEnds, slotVars
<1>3. CASE Calling.config \notin InvalidConfigs
  <2>0. PICK p : p = [owner |-> turn.prompt, kind |-> "add", panel |-> 0, config |-> Calling.config,
                    old |-> Absent, state |-> "queued"]
    OBVIOUS
  <2> DEFINE v == OpenPanels
  <2>1. /\ turn' = [turn EXCEPT !.tool.step = "trying", !.tool.panels = v] /\ promises' = promises \cup {p}
        /\ UNCHANGED <<prompts, abortable>>
    BY <1>3, <2>0 DEF AddPanelTool, slotVars
  <2>2. IsTurn(turn) /\ Calling.config \in PanelConfigs
    BY <1>1, TurnTypes, CallHas
  <2> HIDE DEF v
  <2>3. /\ IsTurn(turn') /\ SameRest(turn, turn') /\ turn'.tool.step = "trying" /\ turn'.tool.found = turn.tool.found
        /\ turn'.tool.panels = v /\ (turn'.tool.touched <=> turn.tool.touched)
    BY <1>1, <2>1, <2>2 DEF IsTurn, IsTool, SameRest
  <2>4. /\ PanelsInv' /\ TurnInv'
        /\ turn'.phase = "tools" /\ turn'.prompt = turn.prompt /\ Calling' = Calling /\ Meant' = Meant /\ Found' = Found
    BY <1>1, <2>1, <2>3, ToolMoves, IsNotNoTurn
  <2>5. Mine = {}
    BY <1>1 DEF ToolsInv, CallInv
  <2>6. IsAsked(p) /\ p.kind = "add" /\ p.config = Calling.config /\ p.state = "queued"
    BY <2>0 DEF IsAsked
  <2>7. (\A q \in promises' : IsPromise(q)') /\ Mine' = {p} /\ p \in promises'
    BY <1>1, <2>1, <2>2, <2>4, <2>5, <2>6, PromiseMade
  <2>8. CallInv'
    BY <1>1, <2>3, <2>4, <2>7 DEF CallInv, InTool
  <2>9. ToolInv'
    <3>1. Quiet("trying")' => Quiet("called")
      BY <1>1, <2>3 DEF Quiet, InTool
    <3>2. Quiet("called") => configOf = Found
      BY DEF ToolsInv, ToolInv
    <3>3. Quiet("trying")' => configOf' = Found' /\ turn'.tool.panels = OpenIn(Found')
      BY <1>1, <2>3, <2>4, <3>1, <3>2 DEF v, OpenPanels, OpenIn
    <3>4. Quiet("trying")' => Added(p)'
      BY <2>6, <3>3 DEF Added
    <3> QED BY <1>1, <2>3, <2>4, <2>7, <3>3, <3>4 DEF ToolInv, Quiet, InTool
  <2> QED BY <1>1, <2>4, <2>7, <2>8, <2>9 DEF ToolsInv
<1> QED BY <1>2, <1>3

LEMMA StartSweepStep ==
  ASSUME ToolsInv, StartSweep
  PROVE  ToolsInv' /\ turn'.tool.step = "sweeping"
<1> DEFINE v == LeftBehind(turn.tool.panels)
<1>1. /\ turn # NoTurn /\ turn.phase = "tools" /\ turn.tool.step = "trying" /\ Calling.name = "add_panel"
      /\ Answered("failed") /\ promises' = Consumed
      /\ turn' = [turn EXCEPT !.tool.step = "sweeping", !.tool.panels = v]
      /\ UNCHANGED <<configOf, activePanel, prompts, abortable>>
  BY DEF StartSweep, AtStep, Going, slotVars
<1>2. IsTurn(turn)
  BY <1>1, TurnTypes
<1> HIDE DEF v
<1>3. /\ IsTurn(turn') /\ SameRest(turn, turn') /\ turn'.tool.step = "sweeping" /\ turn'.tool.found = turn.tool.found
      /\ turn'.tool.panels = v /\ (turn'.tool.touched <=> turn.tool.touched)
  BY <1>1, <1>2 DEF IsTurn, IsTool, SameRest
<1>4. /\ PanelsInv' /\ TurnInv'
      /\ turn'.phase = "tools" /\ turn'.prompt = turn.prompt /\ Calling' = Calling /\ Meant' = Meant /\ Found' = Found
  BY <1>1, <1>3, ToolMoves, IsNotNoTurn
<1>5. promises' \subseteq promises /\ Mine' = {}
  BY <1>1, <1>4 DEF Consumed, Mine
<1>6. \A q \in promises' : IsPromise(q)'
  BY <1>1, <1>5, ViewerStays
<1>7. v \subseteq AgentPanels
  BY DEF v, LeftBehind, OpenPanels
<1>8. CallInv'
  BY <1>1, <1>3, <1>4, <1>5, <1>7 DEF CallInv, InTool
<1>9. ToolInv'
  <2>1. Quiet("sweeping")' => Quiet("trying")
    BY <1>1, <1>3 DEF Quiet, InTool
  <2>2. Quiet("trying") => turn.tool.panels = OpenIn(Found) /\ \A q \in Mine : Added(q)
    BY <1>1 DEF ToolsInv, ToolInv
  <2>3. PICK q \in Mine : q.state = "failed"
    BY <1>1 DEF Answered, Mine
  <2>4. Quiet("trying") => /\ v = OpenPanels \ OpenIn(Found)
                           /\ \A k \in AgentPanels \ {q.panel} : configOf[k] = Found[k]
    BY <2>2, <2>3 DEF v, LeftBehind, Added
  <2>5. Quiet("trying") => q.panel \in AgentPanels \ OpenIn(Found)
    BY <2>2, <2>3 DEF Added
  <2>6. Quiet("trying") => \A k \in AgentPanels \ v : configOf[k] = Found[k]
    BY <2>4, <2>5 DEF OpenPanels, OpenIn
  <2>7. Quiet("sweeping")' => v \subseteq AgentPanels \ OpenIn(Found') /\ \A k \in AgentPanels \ v : configOf'[k] = Found'[k]
    BY <1>1, <1>4, <1>7, <2>1, <2>4, <2>6
  <2> QED BY <1>3, <2>7 DEF ToolInv, Quiet, InTool
<1> QED BY <1>1, <1>3, <1>4, <1>6, <1>8, <1>9 DEF ToolsInv

LEMMA LayoutStep ==
  ASSUME ToolsInv, ChangeLayout
  PROVE  ToolsInv' /\ turn.tool.step = "called"
<1>1. PICK name \in {"remove_panel", "activate_panel"} :
        /\ AtStep("called", name)
        /\ IF KnownPanel(Calling.panel)
           THEN Await("trying", name, Absent) /\ UNCHANGED <<slotVars, docs, transcript, tail, abortable>>
           ELSE ToolEnds(FALSE) /\ UNCHANGED promises
  BY DEF ChangeLayout
<1>2. /\ turn # NoTurn /\ turn.phase = "tools" /\ turn.tool.step = "called" /\ Calling.name = name
      /\ UNCHANGED <<configOf, activePanel>>
  BY <1>1 DEF ChangeLayout, AtStep, Going
<1>3. CASE ~KnownPanel(Calling.panel)
  BY <1>1, <1>2, <1>3, CallIsOver DEF ToolEnds, slotVars
<1>4. CASE KnownPanel(Calling.panel)
  <2>0. PICK p : p = [owner |-> turn.prompt, kind |-> name, panel |-> Calling.panel, config |-> Absent,
                    old |-> Absent, state |-> "queued"]
    OBVIOUS
  <2>1. /\ turn' = [turn EXCEPT !.tool.step = "trying"] /\ promises' = promises \cup {p}
        /\ UNCHANGED <<prompts, abortable>>
    BY <1>1, <1>2, <1>4, <2>0 DEF Await, slotVars
  <2>2. IsTurn(turn)
    BY <1>2, TurnTypes
  <2>3. IsTurn(turn') /\ SameRest(turn, turn') /\ turn'.tool.step = "trying" /\ turn'.tool.found = turn.tool.found
    BY <1>2, <2>1, <2>2 DEF IsTurn, IsTool, SameRest
  <2>4. /\ PanelsInv' /\ TurnInv'
        /\ turn'.phase = "tools" /\ turn'.prompt = turn.prompt /\ Calling' = Calling
    BY <1>2, <2>1, <2>3, ToolMoves, IsNotNoTurn
  <2>5. Mine = {}
    BY <1>2 DEF ToolsInv, CallInv
  <2>6. IsAsked(p) /\ p.kind = name
    BY <2>0 DEF IsAsked
  <2>7. (\A q \in promises' : IsPromise(q)') /\ Mine' = {p} /\ p \in promises'
    BY <1>2, <2>1, <2>4, <2>5, <2>6, PromiseMade
  <2>8. CallInv'
    BY <1>2, <2>3, <2>4, <2>7 DEF CallInv, InTool
  <2>9. ToolInv'
    BY <1>2, <2>3, <2>4 DEF ToolInv, Quiet, InTool
  <2> QED BY <1>2, <2>4, <2>7, <2>8, <2>9 DEF ToolsInv
<1> QED BY <1>3, <1>4

\* The model is told; a config that was rejected left no trace.
LEMMA AnswerModelStep ==
  ASSUME ToolsInv, AnswerModel
  PROVE  /\ ToolsInv'
         /\ turn.tool.step \in {"rolling", "sweeping"} /\ ~turn.tool.touched => configOf' = Found
<1>1. /\ turn # NoTurn /\ turn.phase = "tools" /\ promises' = Consumed /\ UNCHANGED <<configOf, activePanel>>
      /\ \E ok : turn' = AfterCall(turn, ok) /\ prompts' = prompts
      /\ turn.tool.step = "sweeping" => turn.tool.panels = {}
      /\ turn.tool.step = "rolling" => \E p \in promises : p.owner = turn.prompt
  BY DEF AnswerModel, Going, ToolEnds, slotVars, Answered
<1>2. ToolsInv'
  BY <1>1, CallIsOver
<1>3. ASSUME turn.tool.step = "rolling", ~turn.tool.touched
      PROVE  configOf' = Found
  <2>1. PICK p \in Mine : TRUE
    BY <1>1, <1>3 DEF Mine
  <2> QED BY <1>1, <1>3, <2>1 DEF ToolsInv, ToolInv, Quiet, InTool, RolledBack
<1>4. ASSUME turn.tool.step = "sweeping", ~turn.tool.touched
      PROVE  configOf' = Found
  <2>1. \A q \in AgentPanels : configOf[q] = Found[q]
    BY <1>1, <1>4 DEF ToolsInv, ToolInv, Quiet, InTool
  <2>2. configOf \in [AgentPanels -> Configs] /\ Found \in [AgentPanels -> Configs]
    BY <1>1, <1>4 DEF ToolsInv, PanelsInv, TurnInv
  <2> QED BY <1>1, <2>1, <2>2
<1> QED BY <1>2, <1>3, <1>4

----------------------------------------------------------------------------
(* Steps of the viewer.                                                    *)

LEMMA FreshFits ==
  ASSUME OpenPanels # AgentPanels
  PROVE  FreshPanel \in AgentPanels \ OpenPanels
<1> DEFINE T == AgentPanels \ OpenPanels
<1>1. T \in SUBSET Nat /\ T # {}
  BY AgentAssumption DEF OpenPanels
<1>2. \E p \in T : \A q \in T : p <= q
  BY <1>1, LeastOf
<1> QED BY <1>2 DEF FreshPanel

LEMMA WithFits ==
  ASSUME PanelsInv, NEW p \in AgentPanels, NEW config \in PanelConfigs, WithPanel(p, config)
  PROVE  PanelsInv'
<1>1. configOf' = [configOf EXCEPT ![p] = config] /\ activePanel' = IF activePanel = 0 THEN p ELSE activePanel
  BY DEF WithPanel
<1>2. configOf' \in [AgentPanels -> Configs] /\ activePanel' \in AgentPanels
  BY <1>1 DEF PanelsInv, Configs
<1>3. activePanel' # 0
  BY <1>2, AgentAssumption
<1> QED BY <1>2, <1>3 DEF PanelsInv

LEMMA WithoutFits ==
  ASSUME PanelsInv, NEW p \in AgentPanels, WithoutPanel(p)
  PROVE  PanelsInv'
<1>1. /\ configOf' = [configOf EXCEPT ![p] = Absent]
      /\ activePanel' = IF activePanel # p THEN activePanel
                        ELSE IF OpenPanels \subseteq {p} THEN 0 ELSE CHOOSE q \in OpenPanels \ {p} : TRUE
  BY DEF WithoutPanel
<1>2. configOf' \in [AgentPanels -> Configs]
  BY <1>1 DEF PanelsInv, Configs
<1>3. OpenPanels' = OpenPanels \ {p} /\ OpenPanels \subseteq AgentPanels
  BY <1>1 DEF PanelsInv, OpenPanels
<1>4. CASE activePanel # p
  BY <1>1, <1>2, <1>3, <1>4 DEF PanelsInv
<1>5. CASE activePanel = p /\ OpenPanels \subseteq {p}
  BY <1>1, <1>2, <1>3, <1>5 DEF PanelsInv
<1>6. CASE activePanel = p /\ ~(OpenPanels \subseteq {p})
  <2>1. \E q \in OpenPanels \ {p} : TRUE
    BY <1>6
  <2>2. activePanel' \in OpenPanels \ {p}
    BY <1>1, <1>6, <2>1
  <2>3. activePanel' \in AgentPanels /\ activePanel' # 0
    BY <1>3, <2>2, AgentAssumption
  <2> QED BY <1>2, <2>3 DEF PanelsInv
<1> QED BY <1>4, <1>5, <1>6

\* A turn whose panels somebody else changed: nothing is said of its tool.
WasTouched ==
    /\ IsTurn(turn') /\ SameRest(turn, turn') /\ turn'.tool.touched /\ turn'.tool.step = turn.tool.step
    /\ turn'.tool.snapshot = turn.tool.snapshot /\ turn'.tool.panels = turn.tool.panels /\ turn'.tool.found = turn.tool.found

LEMMA TouchedTurn ==
  ASSUME ToolsInv, NEW owner, turn' = Touched(owner)
  PROVE  /\ turn # NoTurn /\ turn.prompt # owner => WasTouched
         /\ turn = NoTurn \/ turn.prompt = owner => turn' = turn
<1>1. ASSUME turn # NoTurn, turn.prompt # owner
      PROVE  WasTouched
  <2>1. IsTurn(turn) /\ turn' = [turn EXCEPT !.tool.touched = TRUE]
    BY <1>1, TurnTypes DEF Touched
  <2> QED BY <2>1 DEF WasTouched, IsTurn, IsTool, SameRest
<1>2. turn = NoTurn \/ turn.prompt = owner => turn' = turn
  BY DEF Touched
<1> QED BY <1>1, <1>2

LEMMA SomebodyElse ==
  ASSUME ToolsInv, PanelsInv', \A p \in promises' : IsPromise(p)', UNCHANGED <<prompts, abortable>>,
         turn # NoTurn => WasTouched /\ {p \in promises' : p.owner = turn.prompt} = Mine,
         turn = NoTurn => turn' = NoTurn
  PROVE  ToolsInv'
<1>1. CASE turn = NoTurn
  <2>1. turn' = NoTurn /\ turn'.phase = "none"
    BY <1>1 DEF NoTurn
  <2>2. TurnInv'
    BY <1>1, <2>1 DEF ToolsInv, TurnInv
  <2>3. CallInv' /\ ToolInv'
    BY <2>1 DEF CallInv, ToolInv, Quiet, InTool
  <2> QED BY <2>2, <2>3 DEF ToolsInv
<1>2. CASE turn # NoTurn
  <2>1. turn' # NoTurn /\ turn'.phase = turn.phase /\ turn'.prompt = turn.prompt /\ turn'.calls = turn.calls
    BY <1>2, IsNotNoTurn DEF WasTouched, SameRest
  <2>2. TurnInv'
    BY <1>2, <2>1 DEF ToolsInv, TurnInv, WasTouched, Found
  <2>3. Mine' = Mine /\ Calling' = Calling
    BY <1>2, <2>1 DEF Mine, Calling
  <2>4. CallInv'
    <3>1. \A p : Mine = {p} => p \in Mine' /\ p \in promises'
      BY <2>3 DEF Mine
    <3> QED BY <1>2, <2>1, <2>3, <3>1 DEF ToolsInv, CallInv, InTool, WasTouched
  <2>5. ToolInv'
    BY <1>2 DEF ToolInv, Quiet, WasTouched
  <2> QED BY <2>2, <2>4, <2>5 DEF ToolsInv
<1> QED BY <1>1, <1>2

\* A promise that moves on changes panels for its own tool, if that still waits.
LEMMA GoesTo ==
  ASSUME ToolsInv, NEW p \in promises, NEW to, to.owner = p.owner, Goes(p, to), PanelsInv', IsPromise(to)',
         turn # NoTurn /\ p.owner = turn.prompt /\ turn' = turn /\ Mine = {p} /\ Mine' = {to} => ToolInv'
  PROVE  ToolsInv' /\ (turn # NoTurn => turn'.tool.step = turn.tool.step)
<1>1. /\ promises' = (promises \ {p}) \cup {to} /\ turn' = Touched(p.owner) /\ UNCHANGED <<prompts, abortable>>
  BY DEF Goes, slotVars
<1>2. \A q \in promises' : IsPromise(q)'
  <2>1. ASSUME NEW q \in promises
        PROVE  IsPromise(q)'
    BY <1>1 DEF ToolsInv, IsPromise
  <2> QED BY <1>1, <2>1
<1>3. CASE turn = NoTurn \/ turn.prompt # p.owner
  <2>1. turn # NoTurn => WasTouched
    BY <1>1, <1>3, TouchedTurn
  <2>2. turn = NoTurn => turn' = NoTurn
    BY <1>1, <1>3, TouchedTurn
  <2>3. turn # NoTurn => {q \in promises' : q.owner = turn.prompt} = Mine
    BY <1>1, <1>3 DEF Mine
  <2>4. ToolsInv'
    BY <1>1, <1>2, <2>1, <2>2, <2>3, SomebodyElse
  <2> QED BY <2>1, <2>4 DEF WasTouched
<1>4. CASE turn # NoTurn /\ turn.prompt = p.owner
  <2>1. turn' = turn
    BY <1>1, <1>4, TouchedTurn
  <2>2. p \in Mine
    BY <1>4 DEF Mine
  <2>3. turn.tool.step \in {"trying", "rolling"} /\ Mine = {p}
    BY <1>4, <2>2 DEF ToolsInv, CallInv
  <2>4. Mine' = {to}
    BY <1>1, <1>4, <2>1, <2>3 DEF Mine
  <2>5. TurnInv'
    BY <1>1, <2>1 DEF ToolsInv, TurnInv, Found
  <2>6. CallInv'
    BY <1>1, <1>4, <2>1, <2>3, <2>4 DEF ToolsInv, CallInv, InTool, Calling
  <2>7. ToolInv'
    BY <1>4, <2>1, <2>3, <2>4
  <2> QED BY <1>2, <2>1, <2>5, <2>6, <2>7 DEF ToolsInv
<1> QED BY <1>3, <1>4

LEMMA MyTool ==
  ASSUME ToolsInv, turn # NoTurn, turn' = turn, NEW p, NEW to, Mine = {p}, Mine' = {to},
         Quiet("trying") /\ Calling.name = "set_view_config" /\ SnapshotFits /\ Tried(p) => SnapshotFits' /\ Tried(to)',
         Quiet("trying") /\ Calling.name = "add_panel" /\ Added(p) => Added(to)',
         Quiet("rolling") /\ SnapshotFits /\ RolledBack(p) => SnapshotFits' /\ RolledBack(to)'
  PROVE  ToolInv'
<1>1. turn.tool.step \in {"trying", "rolling"}
  BY DEF ToolsInv, CallInv
<1>2. /\ Quiet("trying") /\ Calling.name = "set_view_config" => SnapshotFits /\ Tried(p)
      /\ Quiet("trying") /\ Calling.name = "add_panel" => turn.tool.panels = OpenIn(Found) /\ Added(p)
      /\ Quiet("rolling") => SnapshotFits /\ RolledBack(p)
  BY DEF ToolsInv, ToolInv
<1>3. Calling' = Calling /\ Found' = Found
  BY DEF Calling, Found
<1>4. (Quiet("trying")' <=> Quiet("trying")) /\ (Quiet("rolling")' <=> Quiet("rolling"))
  BY DEF Quiet, InTool
<1>5. ~Quiet("called")' /\ ~Quiet("snapshot")' /\ ~Quiet("sweeping")'
  BY <1>1 DEF Quiet, InTool
<1> QED BY <1>2, <1>3, <1>4, <1>5 DEF ToolInv

LEMMA PromiseIs ==
  ASSUME ToolsInv, NEW p \in promises
  PROVE  IsPromise(p) /\ configOf \in [AgentPanels -> Configs] /\ prompts \in Nat
BY DEF ToolsInv, PanelsInv, TurnInv

LEMMA RestoreCommitsStep ==
  ASSUME ToolsInv, RestoreCommits
  PROVE  ToolsInv' /\ (turn # NoTurn => turn'.tool.step = turn.tool.step)
<1>1. PICK p \in promises :
        /\ p.kind = "restore" /\ p.state = "queued"
        /\ IF p.config \in InvalidConfigs
           THEN Goes(p, [p EXCEPT !.state = "failed"]) /\ UNCHANGED <<configOf, activePanel>>
           ELSE LET target == IF AgentPanel(p.panel) = 0 THEN FreshPanel ELSE AgentPanel(p.panel)
                IN  /\ Goes(p, [p EXCEPT !.state = "committed", !.panel = target, !.old = configOf[target]])
                    /\ WithPanel(target, p.config)
  BY DEF RestoreCommits
<1>2. IsPromise(p) /\ configOf \in [AgentPanels -> Configs] /\ prompts' = prompts /\ PanelsInv
  BY <1>1, PromiseIs DEF Goes, slotVars, ToolsInv
<1>3. CASE p.config \in InvalidConfigs
  <2>0. PICK to : to = [p EXCEPT !.state = "failed"]
    OBVIOUS
  <2>1. Goes(p, to) /\ UNCHANGED <<configOf, activePanel>>
    BY <1>1, <1>3, <2>0
  <2>2. /\ to.owner = p.owner /\ to.kind = "restore" /\ to.state = "failed" /\ to.config = p.config /\ to.panel = p.panel
        /\ to.old = p.old /\ DOMAIN to = DOMAIN p
    BY <1>1, <1>2, <2>0 DEF IsPromise
  <2>3. IsPromise(to)'
    BY <1>1, <1>2, <2>2 DEF IsPromise
  <2>4. PanelsInv'
    BY <1>2, <2>1 DEF PanelsInv, OpenPanels
  <2>5. ASSUME turn # NoTurn, p.owner = turn.prompt, turn' = turn, Mine = {p}, Mine' = {to}
        PROVE  ToolInv'
    <3>1. Calling' = Calling /\ Meant' = Meant /\ Found' = Found
      BY <2>1, <2>5 DEF Calling, Meant, Found, AgentPanel
    <3>2. SnapshotFits => SnapshotFits'
      BY <2>5, <3>1 DEF SnapshotFits
    <3>3. Tried(p) => Tried(to)'
      BY <1>1, <2>1, <2>2, <3>1 DEF Tried
    <3>4. ~Added(p)
      BY <1>1 DEF Added
    <3>5. RolledBack(p) => RolledBack(to)'
      BY <1>1, <2>1, <2>2, <3>1 DEF RolledBack
    <3> QED BY <2>5, <3>2, <3>3, <3>4, <3>5, MyTool
  <2> QED BY <2>1, <2>2, <2>3, <2>4, <2>5, GoesTo
<1>4. CASE p.config \notin InvalidConfigs
  <2> DEFINE target == IF AgentPanel(p.panel) = 0 THEN FreshPanel ELSE AgentPanel(p.panel)
  <2>1. Goes(p, [p EXCEPT !.state = "committed", !.panel = target, !.old = configOf[target]]) /\ WithPanel(target, p.config)
    BY <1>1, <1>4
  <2>2. PICK q : q = target
    OBVIOUS
  <2>3. PICK to : to = [p EXCEPT !.state = "committed", !.panel = q, !.old = configOf[q]]
    OBVIOUS
  <2>4. q \in AgentPanels
    <3>1. CASE AgentPanel(p.panel) = 0
      <4>1. p.panel = 0 /\ activePanel = 0
        BY <3>1 DEF AgentPanel
      <4>2. OpenPanels = {} /\ AgentPanels # {}
        BY <1>2, <4>1, AgentAssumption DEF PanelsInv
      <4> QED BY <2>2, <3>1, <4>2, FreshFits
    <3>2. CASE AgentPanel(p.panel) # 0
      <4>1. p.panel \in AgentPanels \cup {0} /\ activePanel \in AgentPanels \cup {0}
        BY <1>1, <1>2 DEF IsPromise, PanelsInv
      <4>2. q = IF p.panel = 0 THEN activePanel ELSE p.panel
        BY <2>2, <3>2 DEF AgentPanel
      <4>3. q # 0
        BY <2>2, <3>2
      <4> QED BY <4>1, <4>2, <4>3
    <3> QED BY <3>1, <3>2
  <2>5. Goes(p, to) /\ WithPanel(q, p.config) /\ p.config \in PanelConfigs
    BY <1>1, <1>2, <2>1, <2>2, <2>3 DEF IsPromise
  <2>6. /\ to.owner = p.owner /\ to.kind = "restore" /\ to.state = "committed" /\ to.config = p.config /\ to.panel = q
        /\ to.old = configOf[q] /\ DOMAIN to = DOMAIN p
    BY <1>1, <1>2, <2>3 DEF IsPromise
  <2>7. IsPromise(to)'
    BY <1>1, <1>2, <2>4, <2>5, <2>6 DEF IsPromise
  <2>8. PanelsInv'
    BY <1>2, <2>4, <2>5, WithFits
  <2>9. configOf' = [configOf EXCEPT ![q] = p.config] /\ activePanel' = IF activePanel = 0 THEN q ELSE activePanel
    BY <2>5 DEF WithPanel
  <2>10. ASSUME turn # NoTurn, p.owner = turn.prompt, turn' = turn, Mine = {p}, Mine' = {to}
         PROVE  ToolInv'
    <3>1. Calling' = Calling /\ Found' = Found
      BY <2>10 DEF Calling, Found
    <3>2. ASSUME SnapshotFits, configOf = Found, p.panel = Calling.panel
          PROVE  q = Meant /\ activePanel' = activePanel /\ Meant' = Meant /\ SnapshotFits'
      <4>1. Meant \in AgentPanels /\ configOf[Meant] # Absent
        BY <3>2 DEF SnapshotFits
      <4>2. Meant # 0 /\ activePanel # 0
        BY <1>2, <4>1, AgentAssumption DEF PanelsInv, OpenPanels
      <4>3. activePanel' = activePanel
        BY <2>9, <4>2
      <4>4. q = Meant
        BY <2>2, <3>2, <4>2 DEF Meant
      <4>5. Meant' = Meant
        BY <3>1, <4>3 DEF Meant, AgentPanel
      <4>6. SnapshotFits'
        BY <2>10, <3>1, <3>2, <4>5 DEF SnapshotFits
      <4> QED BY <4>3, <4>4, <4>5, <4>6
    <3>3. SnapshotFits /\ Tried(p) => SnapshotFits' /\ Tried(to)'
      <4> SUFFICES ASSUME SnapshotFits, Tried(p)
                   PROVE  SnapshotFits' /\ Tried(to)'
        OBVIOUS
      <4>1. configOf = Found /\ p.panel = Calling.panel
        BY <1>1 DEF Tried
      <4>2. q = Meant /\ Meant' = Meant /\ SnapshotFits'
        BY <3>2, <4>1
      <4>3. to.panel = Meant /\ to.old = Found[Meant] /\ configOf' = [Found EXCEPT ![Meant] = to.config]
        BY <2>6, <2>9, <4>1, <4>2
      <4>4. Tried(to)'
        BY <2>6, <3>1, <4>2, <4>3 DEF Tried
      <4> QED BY <4>2, <4>4
    <3>4. ~Added(p)
      BY <1>1 DEF Added
    <3>5. SnapshotFits /\ RolledBack(p) => SnapshotFits' /\ RolledBack(to)'
      <4> SUFFICES ASSUME SnapshotFits, RolledBack(p)
                   PROVE  SnapshotFits' /\ RolledBack(to)'
        OBVIOUS
      <4>1. configOf = Found /\ p.panel = Calling.panel /\ p.config = Found[Meant]
        BY <1>1 DEF RolledBack
      <4>2. q = Meant /\ Meant' = Meant /\ SnapshotFits'
        BY <3>2, <4>1
      <4>3. to.panel = Meant /\ to.old = Found[Meant] /\ configOf' = Found /\ to.config = Found[Meant]
        BY <1>2, <2>6, <2>9, <4>1, <4>2
      <4>4. RolledBack(to)'
        BY <2>6, <3>1, <4>2, <4>3 DEF RolledBack
      <4> QED BY <4>2, <4>4
    <3> QED BY <2>10, <3>3, <3>4, <3>5, MyTool
  <2> QED BY <2>5, <2>6, <2>7, <2>8, <2>10, GoesTo
<1> QED BY <1>3, <1>4

LEMMA RestoreEndsStep ==
  ASSUME ToolsInv, RestoreEnds
  PROVE  ToolsInv' /\ (turn # NoTurn => turn'.tool.step = turn.tool.step)
<1>1. PICK p \in promises :
        /\ p.kind = "restore" /\ p.state = "committed"
        /\ IF p.config \in FailingConfigs
           THEN /\ Goes(p, [p EXCEPT !.state = "failed"])
                /\ configOf' = IF configOf[p.panel] = Absent \/ p.old = Absent THEN configOf
                               ELSE [configOf EXCEPT ![p.panel] = p.old]
                /\ UNCHANGED activePanel
           ELSE /\ Goes(p, [p EXCEPT !.state = IF configOf[p.panel] = Absent THEN "failed" ELSE "ok"])
                /\ UNCHANGED <<configOf, activePanel>>
  BY DEF RestoreEnds
<1>2. IsPromise(p) /\ configOf \in [AgentPanels -> Configs] /\ prompts' = prompts /\ PanelsInv /\ activePanel' = activePanel
  BY <1>1, PromiseIs DEF Goes, slotVars, ToolsInv
<1>3. p.panel \in AgentPanels /\ p.config \in PanelConfigs /\ p.config # Absent /\ p.old \in Configs
  BY <1>1, <1>2, ConfigsFit DEF IsPromise
<1>4. PICK state : /\ Goes(p, [p EXCEPT !.state = state])
                   /\ IF p.config \in FailingConfigs THEN state = "failed"
                      ELSE state = IF configOf[p.panel] = Absent THEN "failed" ELSE "ok"
  BY <1>1
<1>5. PICK to : to = [p EXCEPT !.state = state]
  OBVIOUS
<1>6. /\ to.owner = p.owner /\ to.kind = "restore" /\ to.state = state /\ to.config = p.config /\ to.panel = p.panel
      /\ to.old = p.old /\ DOMAIN to = DOMAIN p /\ state # "queued" /\ state # "committed"
  BY <1>1, <1>2, <1>4, <1>5 DEF IsPromise
<1>7. Goes(p, to) /\ IsPromise(to)'
  BY <1>1, <1>2, <1>4, <1>5, <1>6 DEF IsPromise
<1>8. /\ configOf' \in [AgentPanels -> Configs] /\ OpenPanels' = OpenPanels
      /\ configOf' = configOf \/ (p.config \in FailingConfigs /\ configOf' = [configOf EXCEPT ![p.panel] = p.old])
  <2>1. CASE p.config \notin FailingConfigs \/ configOf[p.panel] = Absent \/ p.old = Absent
    BY <1>1, <1>2, <2>1 DEF OpenPanels
  <2>2. CASE p.config \in FailingConfigs /\ configOf[p.panel] # Absent /\ p.old # Absent
    <3>1. configOf' = [configOf EXCEPT ![p.panel] = p.old]
      BY <1>1, <2>2
    <3> QED BY <1>2, <1>3, <2>2, <3>1 DEF OpenPanels
  <2> QED BY <2>1, <2>2
<1>9. PanelsInv'
  BY <1>2, <1>8 DEF PanelsInv
<1>10. ASSUME turn # NoTurn, p.owner = turn.prompt, turn' = turn, Mine = {p}, Mine' = {to}
       PROVE  ToolInv'
  <2>1. Calling' = Calling /\ Meant' = Meant /\ Found' = Found
    BY <1>2, <1>10 DEF Calling, Meant, Found, AgentPanel
  <2>2. SnapshotFits => SnapshotFits'
    BY <1>10, <2>1 DEF SnapshotFits
  <2>7. turn.tool.step \in {"trying", "rolling"} /\ turn # NoTurn
    BY <1>10 DEF ToolsInv, CallInv
  <2>8. Found \in [AgentPanels -> Configs]
    BY <2>7 DEF ToolsInv, TurnInv
  <2>3. SnapshotFits /\ Tried(p) => Tried(to)'
    <3> SUFFICES ASSUME SnapshotFits, Tried(p)
                 PROVE  Tried(to)'
      OBVIOUS
    <3>1. p.panel = Meant /\ p.old = Found[Meant] /\ configOf = [Found EXCEPT ![Meant] = p.config]
      BY <1>1 DEF Tried
    <3>2. Meant \in AgentPanels /\ Found[Meant] # Absent
      BY DEF SnapshotFits
    <3>3. configOf[p.panel] = p.config
      BY <2>8, <3>1, <3>2
    <3>4. state = "failed" => configOf' = Found
      <4>1. state = "failed" => p.config \in FailingConfigs
        BY <1>3, <1>4, <3>3
      <4>2. p.config \in FailingConfigs => configOf' = [configOf EXCEPT ![p.panel] = p.old]
        BY <1>1, <1>3, <3>1, <3>2, <3>3
      <4>3. [configOf EXCEPT ![p.panel] = p.old] = Found
        BY <2>8, <3>1, <3>2
      <4> QED BY <4>1, <4>2, <4>3
    <3> QED BY <1>6, <2>1, <3>4 DEF Tried
  <2>4. ~Added(p)
    BY <1>1 DEF Added
  <2>5. SnapshotFits /\ RolledBack(p) => RolledBack(to)'
    <3> SUFFICES ASSUME SnapshotFits, RolledBack(p)
                 PROVE  RolledBack(to)'
      OBVIOUS
    <3>1. p.panel = Meant /\ p.old = Found[Meant] /\ configOf = Found /\ p.config = Found[Meant]
      BY <1>1 DEF RolledBack
    <3>2. configOf' = Found
      BY <1>2, <1>8, <3>1
    <3> QED BY <1>6, <2>1, <3>1, <3>2 DEF RolledBack
  <2> QED BY <1>10, <2>2, <2>3, <2>4, <2>5, MyTool
<1> QED BY <1>6, <1>7, <1>9, <1>10, GoesTo

LEMMA AddCommitsStep ==
  ASSUME ToolsInv, AddCommits
  PROVE  ToolsInv' /\ (turn # NoTurn => turn'.tool.step = turn.tool.step)
<1>1. PICK p \in promises :
        /\ p.kind = "add" /\ p.state = "queued" /\ OpenPanels # AgentPanels
        /\ Goes(p, [p EXCEPT !.state = "committed", !.panel = FreshPanel])
        /\ WithPanel(FreshPanel, p.config)
  BY DEF AddCommits
<1>2. PICK q : q = FreshPanel
  OBVIOUS
<1>3. IsPromise(p) /\ configOf \in [AgentPanels -> Configs] /\ prompts' = prompts /\ PanelsInv
  BY <1>1, PromiseIs DEF Goes, slotVars, ToolsInv
<1>4. PICK to : to = [p EXCEPT !.state = "committed", !.panel = q]
  OBVIOUS
<1>5. /\ to.owner = p.owner /\ to.kind = "add" /\ to.state = "committed" /\ to.config = p.config /\ to.panel = q
      /\ to.old = p.old /\ DOMAIN to = DOMAIN p
  BY <1>1, <1>3, <1>4 DEF IsPromise
<1>6. q \in AgentPanels \ OpenPanels /\ p.config \in PanelConfigs
  BY <1>1, <1>2, <1>3, FreshFits DEF IsPromise
<1>7. Goes(p, to) /\ WithPanel(q, p.config) /\ IsPromise(to)'
  BY <1>1, <1>2, <1>3, <1>4, <1>5, <1>6 DEF IsPromise
<1>8. PanelsInv' /\ configOf' = [configOf EXCEPT ![q] = p.config]
  BY <1>3, <1>6, <1>7, WithFits DEF WithPanel
<1>9. ASSUME turn # NoTurn, p.owner = turn.prompt, turn' = turn, Mine = {p}, Mine' = {to}
      PROVE  ToolInv'
  <2>1. ~Tried(p) /\ ~RolledBack(p)
    BY <1>1 DEF Tried, RolledBack
  <2>2. Found' = Found
    BY <1>9 DEF Found
  <2>3. Added(p) => Added(to)'
    <3> SUFFICES ASSUME Added(p)
                 PROVE  Added(to)'
      OBVIOUS
    <3>1. configOf = Found
      BY <1>1 DEF Added
    <3>2. q \in AgentPanels \ OpenIn(Found)
      BY <1>6, <3>1 DEF OpenIn, OpenPanels
    <3>3. \A k \in AgentPanels \ {q} : configOf'[k] = Found[k]
      BY <1>3, <1>8, <3>1
    <3> QED BY <1>5, <2>2, <3>2, <3>3 DEF Added
  <2> QED BY <1>9, <2>1, <2>3, MyTool
<1> QED BY <1>5, <1>7, <1>8, <1>9, GoesTo

LEMMA AddEndsStep ==
  ASSUME ToolsInv, AddEnds
  PROVE  ToolsInv' /\ (turn # NoTurn => turn'.tool.step = turn.tool.step)
<1>1. PICK p \in promises :
        /\ p.kind = "add" /\ p.state = "committed"
        /\ Goes(p, [p EXCEPT !.state = IF p.config \in FailingConfigs \/ configOf[p.panel] = Absent THEN "failed" ELSE "ok"])
        /\ UNCHANGED <<configOf, activePanel>>
  BY DEF AddEnds
<1>2. PICK state \in {"failed", "ok"} : Goes(p, [p EXCEPT !.state = state])
  BY <1>1
<1>3. IsPromise(p) /\ prompts' = prompts /\ PanelsInv
  BY <1>1, PromiseIs DEF Goes, slotVars, ToolsInv
<1>4. PICK to : to = [p EXCEPT !.state = state]
  OBVIOUS
<1>5. /\ to.owner = p.owner /\ to.kind = "add" /\ to.state = state /\ to.config = p.config /\ to.panel = p.panel
      /\ to.old = p.old /\ DOMAIN to = DOMAIN p
  BY <1>1, <1>3, <1>4 DEF IsPromise
<1>6. Goes(p, to) /\ IsPromise(to)'
  BY <1>1, <1>2, <1>3, <1>4, <1>5 DEF IsPromise
<1>7. PanelsInv'
  BY <1>1, <1>3 DEF PanelsInv, OpenPanels
<1>8. ASSUME turn # NoTurn, p.owner = turn.prompt, turn' = turn, Mine = {p}, Mine' = {to}
      PROVE  ToolInv'
  <2>1. ~Tried(p) /\ ~RolledBack(p)
    BY <1>1 DEF Tried, RolledBack
  <2>2. Found' = Found
    BY <1>8 DEF Found
  <2>3. Added(p) => Added(to)'
    BY <1>1, <1>5, <2>2 DEF Added
  <2> QED BY <1>8, <2>1, <2>3, MyTool
<1> QED BY <1>5, <1>6, <1>7, <1>8, GoesTo

LEMMA RenderedStep ==
  ASSUME ToolsInv, Rendered
  PROVE  ToolsInv' /\ (turn # NoTurn => turn'.tool.step = turn.tool.step)
<1>1. PICK p \in promises :
        /\ p.kind \in {"remove_panel", "activate_panel"} /\ p.state = "queued"
        /\ Goes(p, [p EXCEPT !.state = "ok"])
        /\ IF ~KnownPanel(p.panel) THEN UNCHANGED <<configOf, activePanel>>
           ELSE IF p.kind = "remove_panel" THEN WithoutPanel(AgentPanel(p.panel))
           ELSE activePanel' = AgentPanel(p.panel) /\ UNCHANGED configOf
  BY DEF Rendered
<1>2. IsPromise(p) /\ prompts' = prompts /\ PanelsInv
  BY <1>1, PromiseIs DEF Goes, slotVars, ToolsInv
<1>3. PICK to : to = [p EXCEPT !.state = "ok"]
  OBVIOUS
<1>4. /\ to.owner = p.owner /\ to.kind = p.kind /\ to.state = "ok" /\ DOMAIN to = DOMAIN p /\ to.old = p.old
  BY <1>2, <1>3 DEF IsPromise
<1>5. Goes(p, to) /\ IsPromise(to)'
  BY <1>1, <1>2, <1>3, <1>4 DEF IsPromise
<1>6. PanelsInv'
  <2>1. CASE ~KnownPanel(p.panel)
    BY <1>1, <1>2, <2>1 DEF PanelsInv, OpenPanels
  <2>2. CASE KnownPanel(p.panel)
    <3>1. AgentPanel(p.panel) \in OpenPanels /\ AgentPanel(p.panel) \in AgentPanels
      BY <2>2 DEF KnownPanel, OpenPanels
    <3>2. CASE p.kind = "remove_panel"
      BY <1>1, <1>2, <2>2, <3>1, <3>2, WithoutFits
    <3>3. CASE p.kind # "remove_panel"
      <4>1. activePanel' = AgentPanel(p.panel) /\ configOf' = configOf
        BY <1>1, <2>2, <3>3
      <4>2. activePanel' \in AgentPanels /\ activePanel' # 0
        BY <3>1, <4>1, AgentAssumption
      <4> QED BY <1>2, <4>1, <4>2 DEF PanelsInv, OpenPanels
    <3> QED BY <3>2, <3>3
  <2> QED BY <2>1, <2>2
<1>7. ASSUME turn # NoTurn, p.owner = turn.prompt, turn' = turn, Mine = {p}, Mine' = {to}
      PROVE  ToolInv'
  <2>1. ~Tried(p) /\ ~RolledBack(p) /\ ~Added(p)
    BY <1>1 DEF Tried, RolledBack, Added
  <2> QED BY <1>7, <2>1, MyTool
<1> QED BY <1>4, <1>5, <1>6, <1>7, GoesTo

LEMMA SweepOneStep ==
  ASSUME ToolsInv, SweepOne
  PROVE  ToolsInv' /\ turn'.tool.step = "sweeping"
<1>1. /\ turn # NoTurn /\ turn.phase = "tools" /\ turn.tool.step = "sweeping"
      /\ UNCHANGED <<promises, prompts, abortable>>
  BY DEF SweepOne, Going, slotVars
<1>2. PICK p \in turn.tool.panels : turn' = [turn EXCEPT !.tool.panels = turn.tool.panels \ {p}] /\ WithoutPanel(p)
  BY DEF SweepOne
<1>3. IsTurn(turn) /\ turn.tool.panels \subseteq AgentPanels /\ PanelsInv /\ Found \in [AgentPanels -> Configs]
  BY <1>1, TurnTypes DEF ToolsInv, CallInv, InTool, TurnInv
<1>4. PICK v : v = turn.tool.panels \ {p}
  OBVIOUS
<1>5. turn' = [turn EXCEPT !.tool.panels = v]
  BY <1>2, <1>4
<1>6. /\ IsTurn(turn') /\ SameRest(turn, turn') /\ turn'.tool.step = "sweeping" /\ turn'.tool.found = turn.tool.found
      /\ turn'.tool.panels = v /\ (turn'.tool.touched <=> turn.tool.touched)
  BY <1>1, <1>3, <1>5 DEF IsTurn, IsTool, SameRest
<1>7. PanelsInv' /\ configOf' = [configOf EXCEPT ![p] = Absent]
  BY <1>2, <1>3, WithoutFits DEF WithoutPanel
<1>8. turn' # NoTurn /\ turn'.phase = "tools" /\ turn'.prompt = turn.prompt /\ turn'.calls = turn.calls /\ Found' = Found
  BY <1>1, <1>6, IsNotNoTurn DEF SameRest, Found
<1>9. TurnInv'
  BY <1>1, <1>3, <1>6, <1>8 DEF ToolsInv, TurnInv
<1>10. Mine = {} /\ Mine' = Mine
  BY <1>1, <1>8 DEF ToolsInv, CallInv, Mine
<1>11. CallInv'
  BY <1>3, <1>4, <1>6, <1>8, <1>10 DEF CallInv, InTool
<1>12. ToolInv'
  <2>1. Quiet("sweeping")' => Quiet("sweeping")
    BY <1>1, <1>6 DEF Quiet, InTool
  <2>2. Quiet("sweeping") =>
          /\ turn.tool.panels \subseteq AgentPanels \ OpenIn(Found)
          /\ \A q \in AgentPanels \ turn.tool.panels : configOf[q] = Found[q]
    BY DEF ToolsInv, ToolInv
  <2>3. ASSUME Quiet("sweeping"), NEW q \in AgentPanels \ v
        PROVE  configOf'[q] = Found[q]
    <3>1. CASE q = p
      <4>1. Found[p] = Absent
        BY <1>2, <1>3, <2>2, <2>3 DEF OpenIn
      <4> QED BY <1>3, <1>7, <3>1, <4>1 DEF PanelsInv
    <3>2. CASE q # p
      <4>1. configOf[q] = Found[q]
        BY <1>4, <2>2, <2>3, <3>2
      <4> QED BY <1>3, <1>7, <3>2, <4>1 DEF PanelsInv
    <3> QED BY <3>1, <3>2
  <2>4. Quiet("sweeping") => v \subseteq AgentPanels \ OpenIn(Found)
    BY <1>4, <2>2
  <2> QED BY <1>6, <1>8, <2>1, <2>3, <2>4 DEF ToolInv, Quiet, InTool
<1>13. \A q \in promises' : IsPromise(q)'
  BY <1>1 DEF ToolsInv, IsPromise
<1> QED BY <1>6, <1>7, <1>9, <1>11, <1>12, <1>13 DEF ToolsInv

LEMMA ForgetStep ==
  ASSUME ToolsInv, Forget
  PROVE  ToolsInv' /\ turn' = turn
<1>1. /\ UNCHANGED <<configOf, activePanel, prompts, turn, abortable>> /\ promises' \subseteq promises
      /\ \A p \in promises : turn # NoTurn /\ p.owner = turn.prompt => p \in promises'
  BY DEF Forget, slotVars
<1>2. PanelsInv' /\ \A p \in promises' : IsPromise(p)'
  BY <1>1, ViewerStays
<1>3. TurnInv'
  BY <1>1 DEF ToolsInv, TurnInv, Found
<1>4. turn # NoTurn => Mine' = Mine
  BY <1>1 DEF Mine
<1>5. Calling' = Calling /\ Meant' = Meant /\ Found' = Found
  BY <1>1 DEF Calling, Meant, AgentPanel, Found
<1>6. CallInv'
  <2>1. \A p : turn # NoTurn /\ Mine = {p} => p \in promises'
    BY <1>1 DEF Mine
  <2> QED BY <1>1, <1>4, <1>5, <2>1 DEF ToolsInv, CallInv, InTool
<1>7. ToolInv'
  <2>1. \A p : (Tried(p)' <=> Tried(p)) /\ (RolledBack(p)' <=> RolledBack(p)) /\ (Added(p)' <=> Added(p))
    BY <1>1, <1>5 DEF Tried, RolledBack, Added
  <2>2. SnapshotFits' <=> SnapshotFits
    BY <1>1, <1>5 DEF SnapshotFits
  <2>3. \A step : Quiet(step)' <=> Quiet(step)
    BY <1>1 DEF Quiet, InTool
  <2>4. \A step : Quiet(step) => Mine' = Mine
    BY <1>4, TurnTypes DEF Quiet, InTool
  <2> QED BY <1>1, <1>5, <2>1, <2>2, <2>3, <2>4 DEF ToolsInv, ToolInv
<1> QED BY <1>1, <1>2, <1>3, <1>6, <1>7 DEF ToolsInv

LEMMA UserStep ==
  ASSUME ToolsInv, User
  PROVE  ToolsInv' /\ (turn # NoTurn => turn'.tool.step = turn.tool.step)
<1> DEFINE Accepted == PanelConfigs \ (FailingConfigs \cup InvalidConfigs)
<1>1. turn' = Touched(0) /\ UNCHANGED <<promises, prompts, abortable>> /\ PanelsInv
  BY DEF User, slotVars, ToolsInv
<1>2. turn # NoTurn => turn.prompt # 0
  BY TurnTypes
<1>3. (turn # NoTurn => WasTouched) /\ (turn = NoTurn => turn' = NoTurn)
  BY <1>1, <1>2, TouchedTurn
<1>4. PanelsInv'
  <2>1. CASE \E p \in OpenPanels, c \in Accepted : c # configOf[p] /\ configOf' = [configOf EXCEPT ![p] = c] /\ UNCHANGED activePanel
    <3>1. PICK p \in OpenPanels, c \in Accepted : configOf' = [configOf EXCEPT ![p] = c] /\ UNCHANGED activePanel
      BY <2>1
    <3>2. c \in PanelConfigs /\ c \in Configs /\ c # Absent /\ p \in AgentPanels
      BY <3>1, ConfigsFit DEF OpenPanels
    <3>3. configOf' \in [AgentPanels -> Configs] /\ OpenPanels' = OpenPanels
      BY <1>1, <3>1, <3>2 DEF PanelsInv, OpenPanels
    <3> QED BY <1>1, <3>1, <3>3 DEF PanelsInv
  <2>2. CASE \E p \in OpenPanels : p # activePanel /\ activePanel' = p /\ UNCHANGED configOf
    <3>1. PICK p \in OpenPanels : activePanel' = p /\ configOf' = configOf
      BY <2>2
    <3>2. p \in AgentPanels /\ p # 0
      BY AgentAssumption DEF OpenPanels
    <3> QED BY <1>1, <3>1, <3>2 DEF PanelsInv, OpenPanels
  <2>3. CASE \E p \in OpenPanels : WithoutPanel(p)
    <3>1. PICK p \in OpenPanels : WithoutPanel(p)
      BY <2>3
    <3>2. p \in AgentPanels
      BY DEF OpenPanels
    <3> QED BY <1>1, <3>1, <3>2, WithoutFits
  <2>4. CASE \E c \in Accepted : OpenPanels # AgentPanels /\ WithPanel(FreshPanel, c)
    <3>1. PICK c \in Accepted : OpenPanels # AgentPanels /\ WithPanel(FreshPanel, c)
      BY <2>4
    <3>2. FreshPanel \in AgentPanels /\ c \in PanelConfigs
      BY <3>1, FreshFits
    <3> QED BY <1>1, <3>1, <3>2, WithFits
  <2> QED BY <2>1, <2>2, <2>3, <2>4 DEF User
<1>5. \A p \in promises' : IsPromise(p)'
  BY <1>1 DEF ToolsInv, IsPromise
<1>6. {p \in promises' : p.owner = turn.prompt} = Mine
  BY <1>1 DEF Mine
<1>7. ToolsInv'
  BY <1>1, <1>3, <1>4, <1>5, <1>6, SomebodyElse
<1> QED BY <1>3, <1>7 DEF WasTouched

LEMMA ToolsInit == AgentInit => ToolsInv
<1> SUFFICES ASSUME AgentInit PROVE ToolsInv
  OBVIOUS
<1>1. turn = NoTurn /\ turn.phase = "none" /\ prompts = 0 /\ promises = {} /\ abortable = FALSE
  BY DEF AgentInit, NoTurn
<1> DEFINE Accepted == PanelConfigs \ (FailingConfigs \cup InvalidConfigs)
           first == CHOOSE c \in Accepted : TRUE
<1>2. first \in Accepted
  BY AgentAssumption
<1>3. configOf = [p \in AgentPanels |-> IF p = 1 THEN first ELSE Absent] /\ activePanel = 1
  BY DEF AgentInit
<1>4. first \in PanelConfigs
  BY <1>2
<1> HIDE DEF first
<1>5. configOf \in [AgentPanels -> Configs]
  BY <1>3, <1>4 DEF Configs
<1>6. PanelsInv
  BY <1>3, <1>5, AgentAssumption DEF PanelsInv
<1>7. TurnInv /\ CallInv /\ ToolInv
  BY <1>1 DEF TurnInv, CallInv, ToolInv, InTool, Quiet
<1> QED BY <1>1, <1>6, <1>7 DEF ToolsInv

\* What RejectedToolsChangeNothing says of a step.
RejectedStep ==
    turn # NoTurn /\ turn.phase = "tools" /\ turn.tool.step \in {"rolling", "sweeping"} /\ ~turn.tool.touched
    /\ turn' # NoTurn /\ turn'.tool.step = "none"
    => configOf' = turn.tool.found

LEMMA ToolsNext ==
  ASSUME ToolsInv, [AgentNext]_agentVars
  PROVE  ToolsInv' /\ RejectedStep
<1>1. CASE Configure \/ StopTurn \/ Aborted \/ AgentReset \/ ResetDone \/ ReadDocs \/ RequestFails \/ AnswerText
           \/ BudgetExhausted
  BY <1>1, SlotSteps DEF RejectedStep
<1>2. CASE Prompt
  BY <1>2, PromptStep DEF RejectedStep, Prompt
<1>3. CASE Begin
  BY <1>3, BeginStep DEF RejectedStep, Begin, Going
<1>4. CASE AnswerCalls
  BY <1>4, AnswerCallsStep DEF RejectedStep, AnswerCalls, Going
<1>5. CASE RefuseTool
  BY <1>5, RefuseStep DEF RejectedStep
<1>6. CASE Dispatch
  BY <1>6, DispatchStep DEF RejectedStep
<1>7. CASE ReadTool
  BY <1>7, ReadStep DEF RejectedStep
<1>8. CASE TakeSnapshot
  BY <1>8, TakeSnapshotStep DEF RejectedStep
<1>9. CASE SetConfig
  BY <1>9, SetConfigStep DEF RejectedStep
<1>10. CASE RollBack
  BY <1>10, RollBackStep DEF RejectedStep
<1>11. CASE AddPanelTool
  BY <1>11, AddPanelStep DEF RejectedStep
<1>12. CASE StartSweep
  BY <1>12, StartSweepStep DEF RejectedStep
<1>13. CASE SweepOne
  BY <1>13, SweepOneStep DEF RejectedStep
<1>14. CASE ChangeLayout
  BY <1>14, LayoutStep DEF RejectedStep
<1>15. CASE AnswerModel
  BY <1>15, AnswerModelStep DEF RejectedStep, Found
<1>16. CASE RestoreCommits
  BY <1>16, RestoreCommitsStep DEF RejectedStep
<1>17. CASE RestoreEnds
  BY <1>17, RestoreEndsStep DEF RejectedStep
<1>18. CASE AddCommits
  BY <1>18, AddCommitsStep DEF RejectedStep
<1>19. CASE AddEnds
  BY <1>19, AddEndsStep DEF RejectedStep
<1>20. CASE Rendered
  BY <1>20, RenderedStep DEF RejectedStep
<1>21. CASE Forget
  BY <1>21, ForgetStep DEF RejectedStep
<1>22. CASE User
  BY <1>22, UserStep DEF RejectedStep
<1>23. CASE UNCHANGED agentVars
  <2>1. UNCHANGED <<turn, abortable, configOf, activePanel, promises, prompts>>
    BY <1>23 DEF agentVars
  <2>2. ToolsInv'
    BY <2>1, TurnGoesOn, TurnTypes DEF SameRest
  <2> QED BY <2>1, <2>2 DEF RejectedStep
<1> QED BY <1>1, <1>2, <1>3, <1>4, <1>5, <1>6, <1>7, <1>8, <1>9, <1>10, <1>11, <1>12, <1>13, <1>14, <1>15, <1>16, <1>17,
           <1>18, <1>19, <1>20, <1>21, <1>22, <1>23 DEF AgentNext

\* A tool whose config was rejected leaves every panel as it found it.
THEOREM RejectionsLeaveNoTrace == AgentSpec => RejectedToolsChangeNothing
<1>1. ToolsInv /\ [AgentNext]_agentVars => ToolsInv'
  BY ToolsNext
<1>2. AgentSpec => []ToolsInv
  BY <1>1, ToolsInit, PTL DEF AgentSpec
<1>3. ToolsInv /\ [AgentNext]_agentVars => [RejectedStep]_agentVars
  BY ToolsNext
<1>4. AgentSpec => [][RejectedStep]_agentVars
  BY <1>2, <1>3, PTL DEF AgentSpec
<1> QED BY <1>4 DEF RejectedToolsChangeNothing, RejectedStep

----------------------------------------------------------------------------
(* The conversation.                                                       *)

\* What is kept of a conversation: messages whose calls so far are answered.
Messages == [role : {"system", "user", "assistant", "tool"}, text : Nat \cup {"nudge"}, calls : Seq(Nat),
             preamble : BOOLEAN, failed : BOOLEAN]
Chat(role, m) ==
    /\ m # <<>> /\ m[1].role = role
    /\ \A i \in DOMAIN m : m[i].preamble <=> i = 1
    /\ \A i \in DOMAIN m : \A k \in DOMAIN m[i].calls :
         /\ m[i].calls[k] = k
         /\ i + k <= Len(m) => m[i + k].role = "tool" /\ m[i + k].text = k
    /\ \A i \in DOMAIN m : m[i].role = "tool" => \E j \in DOMAIN m : j < i /\ i - j <= Len(m[j].calls)
    /\ \A i \in DOMAIN m : m[i].role = "user" /\ i # 1 => m[i - 1].role # "user"
Done(m) == \A i \in DOMAIN m : i + Len(m[i].calls) <= Len(m)
Pending(m, calls) ==
    \E a \in DOMAIN m :
       /\ Len(m[a].calls) = Len(m) - a + Len(calls)
       /\ \A i \in DOMAIN m : i # a => i + Len(m[i].calls) <= Len(m)
       /\ \A k \in DOMAIN calls : calls[k].id = Len(m) - a + k
Final(m) == m[Len(m)]
InOrder(m, n) ==
    /\ \A i \in DOMAIN m : m[i].role = "user" => m[i].text \in 1..n
    /\ \A i, j \in DOMAIN m : m[i].role = "user" /\ m[j].role = "user" /\ i < j => m[i].text < m[j].text

LEMMA AppendIs ==
  ASSUME NEW U, NEW m \in Seq(U), NEW x \in U
  PROVE  /\ Append(m, x) \in Seq(U) /\ Len(Append(m, x)) = Len(m) + 1 /\ DOMAIN Append(m, x) = 1..(Len(m) + 1)
         /\ \A i \in 1..Len(m) : Append(m, x)[i] = m[i]
         /\ Append(m, x)[Len(m) + 1] = x /\ Append(m, x) # <<>>
OBVIOUS

LEMMA MessageHas ==
  ASSUME NEW m \in Seq(Messages), NEW i \in DOMAIN m
  PROVE  /\ m[i] \in Messages /\ Len(m[i].calls) \in Nat /\ DOMAIN m[i].calls = 1..Len(m[i].calls)
         /\ i \in 1..Len(m) /\ Len(m) \in Nat
<1>1. m[i] \in Messages /\ i \in 1..Len(m) /\ Len(m) \in Nat
  OBVIOUS
<1>2. m[i].calls \in Seq(Nat)
  BY <1>1 DEF Messages
<1> QED BY <1>1, <1>2

LEMMA PlainFits ==
  ASSUME NEW role, NEW m \in Seq(Messages), Chat(role, m), Done(m),
         NEW x \in Messages, x.calls = <<>>, ~x.preamble, x.role # "tool", x.role = "user" => Final(m).role # "user"
  PROVE  Chat(role, Append(m, x)) /\ Done(Append(m, x)) /\ Final(Append(m, x)) = x
<1> DEFINE l == Len(m)
           w == Append(m, x)
<1>1. /\ w \in Seq(Messages) /\ Len(w) = l + 1 /\ DOMAIN w = 1..(l + 1) /\ l \in Nat /\ DOMAIN m = 1..l
      /\ \A i \in 1..l : w[i] = m[i]
      /\ w[l + 1] = x /\ w # <<>>
  BY AppendIs
<1>2. l # 0
  BY DEF Chat
<1>3. \A i \in 1..l : Len(m[i].calls) \in Nat /\ DOMAIN m[i].calls = 1..Len(m[i].calls) /\ i + Len(m[i].calls) <= l
  BY <1>1, MessageHas DEF Done
<1>4. DOMAIN x.calls = {} /\ Len(x.calls) = 0
  OBVIOUS
<1> HIDE DEF w, l
<1>5. w # <<>> /\ w[1].role = role
  BY <1>1, <1>2 DEF Chat, l
<1>6. ASSUME NEW i \in DOMAIN w
      PROVE  w[i].preamble <=> i = 1
  BY <1>1, <1>2 DEF Chat
<1>7. ASSUME NEW i \in DOMAIN w, NEW k \in DOMAIN w[i].calls
      PROVE  w[i].calls[k] = k /\ (i + k <= Len(w) => w[i + k].role = "tool" /\ w[i + k].text = k)
  <2>1. i \in 1..l /\ w[i] = m[i]
    BY <1>1, <1>4
  <2>2. k \in Nat /\ k >= 1 /\ i + k <= l
    BY <1>1, <1>3, <2>1
  <2>3. w[i + k] = m[i + k]
    BY <1>1, <2>1, <2>2
  <2> QED BY <1>1, <2>1, <2>2, <2>3 DEF Chat, l
<1>8. ASSUME NEW i \in DOMAIN w, w[i].role = "tool"
      PROVE  \E j \in DOMAIN w : j < i /\ i - j <= Len(w[j].calls)
  <2>1. i \in 1..l /\ w[i] = m[i]
    BY <1>1, <1>8
  <2>2. PICK j \in 1..l : j < i /\ i - j <= Len(m[j].calls)
    BY <1>1, <1>8, <2>1 DEF Chat
  <2> QED BY <1>1, <2>1, <2>2
<1>9. ASSUME NEW i \in DOMAIN w, w[i].role = "user", i # 1
      PROVE  w[i - 1].role # "user"
  <2>1. i - 1 \in 1..l /\ w[i - 1] = m[i - 1]
    BY <1>1, <1>9
  <2>2. CASE i = l + 1
    BY <1>1, <1>9, <2>1, <2>2 DEF Final, l
  <2>3. CASE i \in 1..l
    BY <1>1, <1>9, <2>1, <2>3 DEF Chat
  <2> QED BY <1>1, <2>2, <2>3
<1>10. Chat(role, w)
  BY <1>5, <1>6, <1>7, <1>8, <1>9 DEF Chat
<1>11. Done(w)
  <2> SUFFICES ASSUME NEW i \in DOMAIN w
               PROVE  i + Len(w[i].calls) <= Len(w)
    BY DEF Done
  <2> QED BY <1>1, <1>3, <1>4
<1>12. Final(w) = x
  BY <1>1 DEF Final
<1> QED BY <1>10, <1>11, <1>12 DEF w

\* The assistant calls n tools.
LEMMA CallsFit ==
  ASSUME NEW role, NEW m \in Seq(Messages), Chat(role, m), Done(m), NEW n \in Nat,
         NEW x \in Messages, x.calls = [k \in 1..n |-> k], ~x.preamble, x.role = "assistant",
         NEW calls \in Seq(StreamedCalls), Len(calls) = n, \A k \in DOMAIN calls : calls[k].id = k
  PROVE  Chat(role, Append(m, x)) /\ Pending(Append(m, x), calls)
<1> DEFINE l == Len(m)
           w == Append(m, x)
<1>1. /\ w \in Seq(Messages) /\ Len(w) = l + 1 /\ DOMAIN w = 1..(l + 1) /\ l \in Nat /\ DOMAIN m = 1..l
      /\ \A i \in 1..l : w[i] = m[i]
      /\ w[l + 1] = x /\ w # <<>>
  BY AppendIs
<1>2. l # 0
  BY DEF Chat
<1>3. \A i \in 1..l : Len(m[i].calls) \in Nat /\ DOMAIN m[i].calls = 1..Len(m[i].calls) /\ i + Len(m[i].calls) <= l
  BY <1>1, MessageHas DEF Done
<1>4. DOMAIN x.calls = 1..n /\ Len(x.calls) = n /\ \A k \in 1..n : x.calls[k] = k
  OBVIOUS
<1> HIDE DEF w, l
<1>5. w # <<>> /\ w[1].role = role
  BY <1>1, <1>2 DEF Chat, l
<1>6. ASSUME NEW i \in DOMAIN w
      PROVE  w[i].preamble <=> i = 1
  BY <1>1, <1>2 DEF Chat
<1>7. ASSUME NEW i \in DOMAIN w, NEW k \in DOMAIN w[i].calls
      PROVE  w[i].calls[k] = k /\ (i + k <= Len(w) => w[i + k].role = "tool" /\ w[i + k].text = k)
  <2>1. CASE i = l + 1
    BY <1>1, <1>4, <2>1
  <2>2. CASE i # l + 1
    <3>1. i \in 1..l /\ w[i] = m[i]
      BY <1>1, <2>2
    <3>2. k \in Nat /\ k >= 1 /\ i + k <= l
      BY <1>1, <1>3, <3>1
    <3>3. w[i + k] = m[i + k]
      BY <1>1, <3>1, <3>2
    <3> QED BY <1>1, <3>1, <3>2, <3>3 DEF Chat, l
  <2> QED BY <2>1, <2>2
<1>8. ASSUME NEW i \in DOMAIN w, w[i].role = "tool"
      PROVE  \E j \in DOMAIN w : j < i /\ i - j <= Len(w[j].calls)
  <2>1. i \in 1..l /\ w[i] = m[i]
    BY <1>1, <1>8
  <2>2. PICK j \in 1..l : j < i /\ i - j <= Len(m[j].calls)
    BY <1>1, <1>8, <2>1 DEF Chat
  <2> QED BY <1>1, <2>1, <2>2
<1>9. ASSUME NEW i \in DOMAIN w, w[i].role = "user", i # 1
      PROVE  w[i - 1].role # "user"
  BY <1>1, <1>9 DEF Chat
<1>10. Chat(role, w)
  BY <1>5, <1>6, <1>7, <1>8, <1>9 DEF Chat
<1>11. Pending(w, calls)
  <2>1. Len(w[l + 1].calls) = Len(w) - (l + 1) + Len(calls)
    BY <1>1, <1>4
  <2>2. \A i \in DOMAIN w : i # l + 1 => i + Len(w[i].calls) <= Len(w)
    BY <1>1, <1>3
  <2>4. DOMAIN calls = 1..n
    OBVIOUS
  <2>3. ASSUME NEW k \in DOMAIN calls
        PROVE  calls[k].id = Len(w) - (l + 1) + k
    <3>1. calls[k].id = k /\ k \in Nat
      BY <2>4
    <3> QED BY <1>1, <3>1
  <2> QED BY <1>1, <2>1, <2>2, <2>3 DEF Pending
<1> QED BY <1>10, <1>11 DEF w

LEMMA TailIs ==
  ASSUME NEW U, NEW s \in Seq(U), Len(s) > 1
  PROVE  Len(Tail(s)) = Len(s) - 1 /\ DOMAIN Tail(s) = 1..(Len(s) - 1) /\ \A k \in 1..(Len(s) - 1) : Tail(s)[k] = s[k + 1]
OBVIOUS

\* The result of the next call.
LEMMA ResultFits ==
  ASSUME NEW role, NEW m \in Seq(Messages), Chat(role, m), NEW calls \in Seq(StreamedCalls), calls # <<>>, Pending(m, calls),
         NEW x \in Messages, x.calls = <<>>, ~x.preamble, x.role = "tool", x.text = Head(calls).id
  PROVE  /\ Chat(role, Append(m, x)) /\ Final(Append(m, x)) = x
         /\ Len(calls) > 1 => Pending(Append(m, x), Tail(calls))
         /\ ~(Len(calls) > 1) => Done(Append(m, x))
<1> DEFINE l == Len(m)
           w == Append(m, x)
           n == Len(calls)
<1>1. /\ w \in Seq(Messages) /\ Len(w) = l + 1 /\ DOMAIN w = 1..(l + 1) /\ l \in Nat /\ DOMAIN m = 1..l
      /\ \A i \in 1..l : w[i] = m[i]
      /\ w[l + 1] = x /\ w # <<>>
  BY AppendIs
<1>2. l # 0 /\ n \in Nat /\ n >= 1 /\ DOMAIN calls = 1..n /\ Head(calls) = calls[1]
  BY DEF Chat
<1>3. \A i \in 1..l : Len(m[i].calls) \in Nat /\ DOMAIN m[i].calls = 1..Len(m[i].calls)
  BY <1>1, MessageHas
<1>4. DOMAIN x.calls = {} /\ Len(x.calls) = 0
  OBVIOUS
<1>13. PICK a \in 1..l :
        /\ Len(m[a].calls) = l - a + n
        /\ \A i \in 1..l : i # a => i + Len(m[i].calls) <= l
        /\ \A k \in 1..n : calls[k].id = l - a + k
  BY <1>1, <1>2 DEF Pending
<1> HIDE DEF w, l, n
<1>16. l \in Int /\ n \in Int /\ a \in Int /\ Len(w) = l + 1
  BY <1>1, <1>2
<1>14. x.text = l + 1 - a
  BY <1>1, <1>2, <1>13
<1>5. w # <<>> /\ w[1].role = role
  BY <1>1, <1>2 DEF Chat, l
<1>6. ASSUME NEW i \in DOMAIN w
      PROVE  w[i].preamble <=> i = 1
  BY <1>1, <1>2 DEF Chat
<1>7. ASSUME NEW i \in DOMAIN w, NEW k \in DOMAIN w[i].calls
      PROVE  w[i].calls[k] = k /\ (i + k <= Len(w) => w[i + k].role = "tool" /\ w[i + k].text = k)
  <2>1. i \in 1..l /\ w[i] = m[i]
    BY <1>1, <1>4
  <2>2. k \in Nat /\ k >= 1 /\ k <= Len(m[i].calls) /\ k \in DOMAIN m[i].calls
    BY <1>1, <1>3, <2>1
  <2>3. m[i].calls[k] = k /\ (i + k <= l => m[i + k].role = "tool" /\ m[i + k].text = k)
    BY <1>1, <2>1, <2>2 DEF Chat, l
  <2>4. CASE i + k <= l
    <3>1. w[i + k] = m[i + k]
      BY <1>1, <2>1, <2>2, <2>4
    <3> QED BY <2>1, <2>3, <2>4, <3>1
  <2>5. CASE i + k = l + 1
    <3>1. i = a
      BY <1>1, <1>13, <2>1, <2>2, <2>5
    <3>2. k = l + 1 - a
      BY <1>1, <2>1, <2>2, <2>5, <3>1
    <3> QED BY <1>1, <1>14, <2>1, <2>3, <2>5, <3>2
  <2>6. CASE i + k > l + 1
    BY <1>1, <2>1, <2>2, <2>3, <2>6
  <2>7. i + k <= l \/ i + k = l + 1 \/ i + k > l + 1
    <3>1. i \in Int /\ k \in Int /\ l \in Int
      BY <1>16, <2>1, <2>2
    <3> QED BY <3>1
  <2> QED BY <2>4, <2>5, <2>6, <2>7
<1>8. ASSUME NEW i \in DOMAIN w, w[i].role = "tool"
      PROVE  \E j \in DOMAIN w : j < i /\ i - j <= Len(w[j].calls)
  <2>1. CASE i = l + 1
    <3>1. a \in DOMAIN w /\ a < i /\ i - a <= Len(w[a].calls)
      BY <1>1, <1>2, <1>13, <2>1
    <3> QED BY <3>1
  <2>2. CASE i # l + 1
    <3>1. i \in 1..l /\ w[i] = m[i]
      BY <1>1, <2>2
    <3>2. PICK j \in 1..l : j < i /\ i - j <= Len(m[j].calls)
      BY <1>1, <1>8, <3>1 DEF Chat
    <3> QED BY <1>1, <3>1, <3>2
  <2> QED BY <2>1, <2>2
<1>9. ASSUME NEW i \in DOMAIN w, w[i].role = "user", i # 1
      PROVE  w[i - 1].role # "user"
  BY <1>1, <1>9 DEF Chat
<1>10. Chat(role, w)
  BY <1>5, <1>6, <1>7, <1>8, <1>9 DEF Chat
<1>11. Final(w) = x
  BY <1>1 DEF Final
<1>12. ASSUME n > 1
       PROVE  Pending(w, Tail(calls))
  <2>0. PICK left : left = Tail(calls)
    OBVIOUS
  <2>1. Len(left) = n - 1 /\ DOMAIN left = 1..(n - 1) /\ \A k \in 1..(n - 1) : left[k] = calls[k + 1]
    <3>1. Len(calls) > 1
      BY <1>12 DEF n
    <3>2. Len(Tail(calls)) = Len(calls) - 1 /\ DOMAIN Tail(calls) = 1..(Len(calls) - 1)
          /\ \A k \in 1..(Len(calls) - 1) : Tail(calls)[k] = calls[k + 1]
      BY <3>1, TailIs, Zenon
    <3> QED BY <2>0, <3>2, Zenon DEF n
  <2>2. Len(w[a].calls) = Len(w) - a + Len(left)
    <3>1. w[a] = m[a]
      BY <1>1
    <3>2. Len(w[a].calls) = l - a + n
      BY <1>13, <3>1
    <3>3. (l + 1) - a + (n - 1) = l - a + n
      BY <1>16
    <3>4. Len(w) - a + Len(left) = (l + 1) - a + (n - 1)
      BY <1>16, <2>1
    <3> QED BY <3>2, <3>3, <3>4, Zenon
  <2>3. ASSUME NEW i \in DOMAIN w, i # a
        PROVE  i + Len(w[i].calls) <= Len(w)
    <3>1. CASE i = l + 1
      <4>1. w[i] = x
        BY <1>1, <3>1
      <4>2. Len(w[i].calls) = 0
        BY <1>4, <4>1
      <4> QED BY <1>16, <3>1, <4>2
    <3>2. CASE i # l + 1
      <4>1. i \in 1..l /\ w[i] = m[i]
        BY <1>1, <3>2
      <4>2. i + Len(m[i].calls) <= l /\ Len(m[i].calls) \in Nat
        BY <1>3, <1>13, <2>3, <4>1
      <4> QED BY <1>16, <4>1, <4>2
    <3> QED BY <3>1, <3>2
  <2>4. ASSUME NEW k \in DOMAIN left
        PROVE  left[k].id = Len(w) - a + k
    <3>1. k + 1 \in 1..n /\ left[k] = calls[k + 1] /\ k \in Int
      BY <1>2, <2>1
    <3>2. left[k].id = l - a + (k + 1)
      BY <1>13, <3>1
    <3>3. l - a + (k + 1) = (l + 1) - a + k
      BY <1>16, <3>1
    <3>4. Len(w) - a + k = (l + 1) - a + k
      BY <1>16, <3>1
    <3> QED BY <3>2, <3>3, <3>4, Zenon
  <2>5. Pending(w, left)
    <3>1. a \in DOMAIN w
      BY <1>1
    <3> QED BY <2>2, <2>3, <2>4, <3>1 DEF Pending
  <2> QED BY <2>0, <2>5
<1>15. ASSUME ~(n > 1)
       PROVE  Done(w)
  <2>1. n = 1
    BY <1>2, <1>15
  <2>2. ASSUME NEW i \in 1..(l + 1)
        PROVE  i + Len(w[i].calls) <= l + 1
    <3>1. CASE i = l + 1
      <4>1. w[i] = x
        BY <1>1, <3>1
      <4>2. Len(w[i].calls) = 0
        BY <1>4, <4>1
      <4>3. i + 0 = l + 1
        BY <1>16, <3>1
      <4> QED BY <1>16, <4>2, <4>3
    <3>2. CASE i = a
      <4>1. w[i] = m[a] /\ Len(m[a].calls) = l - a + 1
        BY <1>1, <1>13, <2>1, <3>2
      <4> QED BY <1>1, <3>2, <4>1
    <3>3. CASE i # a /\ i # l + 1
      <4>1. i \in 1..l /\ w[i] = m[i]
        BY <1>1, <3>3
      <4> QED BY <1>1, <1>3, <1>13, <3>3, <4>1
    <3> QED BY <3>1, <3>2, <3>3
  <2> QED BY <1>1, <2>2 DEF Done
<1> QED BY <1>10, <1>11, <1>12, <1>15 DEF w, n

\* One more message of the user, or of somebody else.
LEMMA InOrderGrows ==
  ASSUME NEW m \in Seq(Messages), NEW n \in Nat, NEW k \in Nat, k <= n, InOrder(m, k), NEW x \in Messages,
         x.role = "user" => x.text = n /\ k < n
  PROVE  InOrder(Append(m, x), n)
<1> DEFINE l == Len(m)
           w == Append(m, x)
<1>1. /\ DOMAIN w = 1..(l + 1) /\ l \in Nat /\ DOMAIN m = 1..l /\ w[l + 1] = x
      /\ \A i \in 1..l : w[i] = m[i]
  BY AppendIs
<1> HIDE DEF w, l
<1>2. \A i \in DOMAIN w : w[i].role = "user" => w[i].text \in 1..n
  BY <1>1 DEF InOrder
<1>3. ASSUME NEW i \in DOMAIN w, NEW j \in DOMAIN w, w[i].role = "user", w[j].role = "user", i < j
      PROVE  w[i].text < w[j].text
  <2>1. i \in 1..l /\ w[i] = m[i] /\ m[i].text \in 1..k
    BY <1>1, <1>3 DEF InOrder
  <2>2. CASE j = l + 1
    BY <1>1, <1>3, <2>1, <2>2
  <2>3. CASE j \in 1..l
    BY <1>1, <1>3, <2>1, <2>3 DEF InOrder
  <2> QED BY <1>1, <2>2, <2>3
<1> QED BY <1>2, <1>3 DEF InOrder, w

\* A past that the next turn can start with.
Full(role, past) == (IF role = "system" THEN <<Preamble>> ELSE <<>>) \o past
PastFits(role, past) ==
    past # <<>> \/ role = "system" =>
        Chat(role, Full(role, past)) /\ Done(Full(role, past)) /\ Final(Full(role, past)).role # "user"
PutFirst(role, m) == role = "system" => m[1] = Preamble

Entries == [kind : {"user", "tool", "assistant", "stopped", "error"}, n : Nat]
IsShown(n) == \E j \in DOMAIN transcript : transcript[j] = Entry("user", n)
AllShown(m) == \A i \in DOMAIN m : m[i].role = "user" => IsShown(m[i].text)

LogInv ==
    /\ runtimes \in Seq(Setups) /\ transcript \in Seq(Entries)
    /\ history \in Seq(Seq(Messages)) /\ Len(history) = Installed
PastInv == \A g \in 1..Installed :
    /\ PastFits(runtimes[g].role, history[g])
    /\ InOrder(history[g], IF turn = NoTurn THEN prompts ELSE prompts - 1)
TalkInv == turn # NoTurn =>
    /\ turn.runtime \in 1..Installed /\ turn.role = runtimes[turn.runtime].role
    /\ turn.number \in 1..MaxModelTurns /\ (turn.phase = "docs" => turn.number = 1)
    /\ turn.messages \in Seq(Messages) /\ InOrder(turn.messages, prompts)
    /\ turn.phase # "docs" => Chat(turn.role, turn.messages) /\ PutFirst(turn.role, turn.messages)
    /\ turn.phase \in {"asking", "spent"} => Done(turn.messages) /\ Final(turn.messages).role # "assistant"
    /\ (turn.phase = "asking" /\ turn.number > 1) \/ turn.phase = "spent" => Final(turn.messages).role = "tool"
    /\ turn.phase = "tools" => Pending(turn.messages, turn.calls)
ShownInv ==
    /\ resetting \subseteq 1..Installed
    /\ \A g \in resetting : g = Installed \/ (history[Installed] = <<>> /\ (turn = NoTurn \/ turn.runtime # Installed))
    /\ Installed # 0 /\ Installed \notin resetting => AllShown(history[Installed])
    /\ Installed # 0 /\ Installed \notin resetting /\ turn # NoTurn /\ turn.runtime = Installed =>
         IsShown(turn.prompt) /\ AllShown(turn.messages)
ConvInv == LogInv /\ PastInv /\ TalkInv /\ ShownInv

----------------------------------------------------------------------------
(* Messages and what a turn starts with and leaves behind.                 *)

LEMMA MessagesAre ==
  /\ \A r \in {"system", "user", "assistant", "tool"}, n \in Nat \cup {"nudge"}, c \in Seq(Nat), b \in BOOLEAN :
       /\ ChatMessage(r, n, c, b) \in Messages
       /\ ChatMessage(r, n, c, b).role = r /\ ChatMessage(r, n, c, b).text = n /\ ChatMessage(r, n, c, b).calls = c
       /\ ChatMessage(r, n, c, b).preamble <=> b
  /\ \A n \in Nat : \A ok :
       /\ ToolMessage(n, ok) \in Messages
       /\ ToolMessage(n, ok).role = "tool" /\ ToolMessage(n, ok).text = n /\ ToolMessage(n, ok).calls = <<>>
       /\ ~ToolMessage(n, ok).preamble
<1>1. ASSUME NEW r \in {"system", "user", "assistant", "tool"}, NEW n \in Nat \cup {"nudge"}, NEW c \in Seq(Nat), NEW b \in BOOLEAN
      PROVE  /\ ChatMessage(r, n, c, b) \in Messages
             /\ ChatMessage(r, n, c, b).role = r /\ ChatMessage(r, n, c, b).text = n /\ ChatMessage(r, n, c, b).calls = c
             /\ ChatMessage(r, n, c, b).preamble <=> b
  BY DEF ChatMessage, Messages
<1>2. ASSUME NEW n \in Nat, NEW ok
      PROVE  /\ ToolMessage(n, ok) \in Messages
             /\ ToolMessage(n, ok).role = "tool" /\ ToolMessage(n, ok).text = n /\ ToolMessage(n, ok).calls = <<>>
             /\ ~ToolMessage(n, ok).preamble
  <2> DEFINE e == <<>>
  <2>1. e \in Seq(Nat)
    OBVIOUS
  <2> HIDE DEF e
  <2>2. PICK wrong \in BOOLEAN : wrong = ~ok
    BY Zenon
  <2>3. ToolMessage(n, ok) = [[role |-> "tool", text |-> n, calls |-> e, preamble |-> FALSE, failed |-> FALSE] EXCEPT !.failed = wrong]
    BY <2>2, Zenon DEF ToolMessage, ChatMessage, e
  <2>4. ToolMessage(n, ok) = [role |-> "tool", text |-> n, calls |-> e, preamble |-> FALSE, failed |-> wrong]
    BY <2>3
  <2>5. [role |-> "tool", text |-> n, calls |-> e, preamble |-> FALSE, failed |-> wrong] \in Messages
    BY <2>1 DEF Messages
  <2> QED BY <2>4, <2>5 DEF e
<1> QED BY <1>1, <1>2

LEMMA PreambleIs == Preamble \in Messages /\ Preamble.role = "system" /\ Preamble.calls = <<>> /\ Preamble.preamble
<1> DEFINE e == <<>>
<1>1. e \in Seq(Nat)
  OBVIOUS
<1> HIDE DEF e
<1>2. Preamble = [role |-> "system", text |-> 0, calls |-> e, preamble |-> TRUE, failed |-> FALSE]
  BY Zenon DEF Preamble, ChatMessage, e
<1>3. Preamble \in Messages
  BY <1>1, <1>2 DEF Messages
<1>4. Preamble.role = "system" /\ Preamble.calls = e /\ Preamble.preamble
  BY <1>2
<1> QED BY <1>3, <1>4 DEF e

LEMMA PutInFront ==
  ASSUME NEW U, NEW x \in U, NEW s \in Seq(U), NEW w, w = <<x>> \o s
  PROVE  /\ w \in Seq(U) /\ Len(w) = Len(s) + 1 /\ w[1] = x
         /\ \A i \in 1..Len(s) : w[i + 1] = s[i]
<1>1. <<x>> \in Seq(U) /\ Len(<<x>>) = 1 /\ <<x>>[1] = x
  OBVIOUS
<1> DEFINE f == <<x>>
<1>2. f \in Seq(U) /\ Len(f) = 1 /\ f[1] = x /\ w = f \o s
  BY <1>1
<1> HIDE DEF f
<1>3. w \in Seq(U) /\ Len(w) = 1 + Len(s) /\ \A i \in 1..(1 + Len(s)) : w[i] = IF i <= 1 THEN f[i] ELSE s[i - 1]
  BY <1>2
<1>4. Len(s) \in Nat
  OBVIOUS
<1>5. ASSUME NEW i \in 1..Len(s)
      PROVE  w[i + 1] = s[i]
  <2>1. i + 1 \in 1..(1 + Len(s)) /\ ~(i + 1 <= 1) /\ (i + 1) - 1 = i
    BY <1>4
  <2> QED BY <1>3, <2>1
<1>6. w[1] = x
  BY <1>2, <1>3, <1>4
<1> QED BY <1>3, <1>4, <1>5, <1>6

LEMMA FullIs ==
  ASSUME NEW role, NEW past \in Seq(Messages)
  PROVE  /\ Full(role, past) \in Seq(Messages)
         /\ role # "system" => Full(role, past) = past
         /\ role = "system" => /\ Full(role, past)[1] = Preamble /\ Len(Full(role, past)) = Len(past) + 1
                               /\ \A i \in 1..Len(past) : Full(role, past)[i + 1] = past[i]
<1>1. CASE role # "system"
  BY <1>1 DEF Full
<1>2. CASE role = "system"
  <2>1. Full(role, past) = <<Preamble>> \o past
    BY <1>2 DEF Full
  <2> QED BY <1>2, <2>1, PreambleIs, PutInFront
<1> QED BY <1>1, <1>2

\* What a turn starts with.
LEMMA StartFits ==
  ASSUME NEW role \in {"system", "user"}, NEW past \in Seq(Messages), PastFits(role, past), NEW n \in Nat \ {0},
         InOrder(past, n - 1), NEW w, w = StartMessages(role, past, n)
  PROVE  /\ w \in Seq(Messages) /\ Chat(role, w) /\ PutFirst(role, w) /\ Done(w) /\ Final(w).role = "user"
         /\ InOrder(w, n)
         /\ \A i \in DOMAIN w : w[i].role = "user" => w[i].text = n \/ \E j \in DOMAIN past : past[j].role = "user" /\ past[j].text = w[i].text
<1> DEFINE m == Full(role, past)
<1>0. PICK b \in BOOLEAN : b = (role = "user" /\ past = <<>>)
  BY Zenon
<1>1. PICK x : x = UserMessage(n, b)
  OBVIOUS
<1>2. x \in Messages /\ x.role = "user" /\ x.text = n /\ x.calls = <<>> /\ (x.preamble <=> b)
  <2> DEFINE e == <<>>
  <2>1. e \in Seq(Nat)
    OBVIOUS
  <2> HIDE DEF e
  <2>2. x = [role |-> "user", text |-> n, calls |-> e, preamble |-> b, failed |-> FALSE]
    BY <1>1, Zenon DEF UserMessage, ChatMessage, e
  <2>3. x \in Messages
    BY <2>1, <2>2 DEF Messages
  <2> QED BY <2>2, <2>3 DEF e
<1>3. w = m \o <<x>>
  BY <1>0, <1>1 DEF StartMessages, Full
<1>4. m \in Seq(Messages)
  BY FullIs
<1> HIDE DEF m
<1>5. w = Append(m, x)
  BY <1>2, <1>3, <1>4
<1>6. /\ w \in Seq(Messages) /\ Len(w) = Len(m) + 1 /\ DOMAIN w = 1..(Len(m) + 1)
      /\ \A i \in 1..Len(m) : w[i] = m[i]
      /\ w[Len(m) + 1] = x /\ w # <<>>
  BY <1>2, <1>4, <1>5, AppendIs
<1>7. CASE role = "user" /\ past = <<>>
  <2>0. b = TRUE
    BY <1>0, <1>7, Zenon
  <2>1. m = <<>> /\ Len(m) = 0 /\ b = TRUE
    <3>1. m = past
      BY <1>7, FullIs DEF m
    <3> QED BY <1>7, <2>0, <3>1
  <2>2. Len(w) = 1 /\ DOMAIN w = 1..1 /\ w[1] = x /\ \A i \in DOMAIN w : i = 1
    BY <1>6, <2>1
  <2>3. x.preamble /\ DOMAIN x.calls = {} /\ Len(x.calls) = 0
    BY <1>2, <2>1
  <2>4. Chat(role, w)
    BY <1>2, <1>6, <1>7, <2>2, <2>3 DEF Chat
  <2>5. Done(w) /\ Final(w).role = "user" /\ PutFirst(role, w)
    BY <1>2, <1>7, <2>2, <2>3 DEF Done, Final, PutFirst
  <2>6. InOrder(w, n)
    BY <1>2, <2>2 DEF InOrder
  <2> QED BY <1>2, <1>6, <2>2, <2>4, <2>5, <2>6
<1>8. CASE ~(role = "user" /\ past = <<>>)
  <2>1. Chat(role, m) /\ Done(m) /\ Final(m).role # "user" /\ b = FALSE
    BY <1>0, <1>8 DEF PastFits, m
  <2>2. Chat(role, w) /\ Done(w) /\ Final(w) = x
    BY <1>2, <1>4, <1>5, <2>1, PlainFits
  <2>3. Len(m) \in Nat /\ Len(m) # 0
    BY <1>4, <2>1 DEF Chat
  <2>4. PutFirst(role, w)
    BY <1>6, <2>3, FullIs DEF PutFirst, m
  <2>5. InOrder(m, n - 1) /\ \A i \in DOMAIN m : m[i].role = "user" => \E j \in DOMAIN past : past[j].role = "user" /\ past[j].text = m[i].text
    <3>1. CASE role # "system"
      BY <3>1, FullIs DEF m
    <3>2. CASE role = "system"
      <4>1. m[1].role = "system" /\ DOMAIN m = 1..(Len(past) + 1) /\ DOMAIN past = 1..Len(past) /\ Len(past) \in Nat
            /\ \A i \in 1..Len(past) : m[i + 1] = past[i]
        BY <1>4, <3>2, FullIs, PreambleIs DEF m
      <4>2. ASSUME NEW i \in DOMAIN m, m[i].role = "user"
            PROVE  i - 1 \in DOMAIN past /\ m[i] = past[i - 1] /\ i \in Nat
        <5>1. i # 1
          BY <4>1, <4>2
        <5>2. i - 1 \in 1..Len(past) /\ (i - 1) + 1 = i
          BY <4>1, <5>1
        <5> QED BY <4>1, <5>2
      <4>3. ASSUME NEW i \in DOMAIN m, NEW j \in DOMAIN m, m[i].role = "user", m[j].role = "user", i < j
            PROVE  m[i].text < m[j].text
        <5>1. i - 1 < j - 1
          BY <4>2, <4>3
        <5> QED BY <4>2, <4>3, <5>1 DEF InOrder
      <4>4. ASSUME NEW i \in DOMAIN m, m[i].role = "user"
            PROVE  m[i].text \in 1..(n - 1) /\ \E j \in DOMAIN past : past[j].role = "user" /\ past[j].text = m[i].text
        BY <4>2, <4>4 DEF InOrder
      <4> QED BY <4>3, <4>4 DEF InOrder
    <3> QED BY <3>1, <3>2
  <2>6. InOrder(w, n)
    <3>1. n - 1 \in Nat /\ n - 1 < n /\ n \in Nat /\ n - 1 <= n
      OBVIOUS
    <3> QED BY <1>2, <1>4, <1>5, <2>5, <3>1, InOrderGrows
  <2>7. ASSUME NEW i \in DOMAIN w, w[i].role = "user"
        PROVE  w[i].text = n \/ \E j \in DOMAIN past : past[j].role = "user" /\ past[j].text = w[i].text
    <3>1. CASE i = Len(m) + 1
      BY <1>2, <1>6, <3>1
    <3>2. CASE i # Len(m) + 1
      <4>1. i \in DOMAIN m /\ w[i] = m[i]
        BY <1>4, <1>6, <2>3, <3>2
      <4> QED BY <2>5, <2>7, <4>1
    <3> QED BY <3>1, <3>2
  <2> QED BY <1>2, <1>6, <2>2, <2>4, <2>6, <2>7
<1> QED BY <1>7, <1>8

\* What is kept of a turn.
LEMMA KeptFits ==
  ASSUME NEW t, NEW w \in Seq(Messages), t.messages = w, Chat(t.role, w), PutFirst(t.role, w), Done(w), Final(w).role # "user",
         NEW past, past = Kept(t), NEW n \in Nat, InOrder(w, n)
  PROVE  /\ past \in Seq(Messages) /\ PastFits(t.role, past) /\ InOrder(past, n)
         /\ \A i \in DOMAIN past : \E j \in DOMAIN w : past[i] = w[j]
<1>1. CASE t.role # "system"
  <2>1. past = w
    BY <1>1 DEF Kept
  <2>2. Full(t.role, past) = w
    BY <1>1, <2>1, FullIs
  <2> QED BY <2>1, <2>2 DEF PastFits
<1>2. CASE t.role = "system"
  <2>1. past = Tail(w)
    BY <1>2 DEF Kept
  <2>2. Len(w) \in Nat /\ Len(w) # 0 /\ DOMAIN w = 1..Len(w)
    BY DEF Chat
  <2>3. /\ past \in Seq(Messages) /\ Len(past) = Len(w) - 1 /\ DOMAIN past = 1..Len(past)
        /\ \A i \in 1..Len(past) : past[i] = w[i + 1]
    BY <2>1, <2>2
  <2>4. Full(t.role, past) = w
    <3>1. PICK f : f = Full(t.role, past)
      OBVIOUS
    <3>2. f \in Seq(Messages) /\ Len(f) = Len(w) /\ f[1] = Preamble /\ \A i \in 1..Len(past) : f[i + 1] = past[i]
      BY <1>2, <2>2, <2>3, <3>1, FullIs
    <3>3. ASSUME NEW i \in 1..Len(w)
          PROVE  f[i] = w[i]
      <4>1. CASE i = 1
        BY <1>2, <3>2, <4>1 DEF PutFirst
      <4>2. CASE i # 1
        <5>1. i - 1 \in 1..Len(past) /\ (i - 1) + 1 = i
          BY <2>2, <2>3, <3>3, <4>2
        <5> QED BY <2>3, <3>2, <5>1
      <4> QED BY <4>1, <4>2
    <3>4. f = w
      <4>1. f = [i \in 1..Len(w) |-> f[i]] /\ w = [i \in 1..Len(w) |-> w[i]]
        BY <2>2, <3>2
      <4> QED BY <3>3, <4>1
    <3> QED BY <3>1, <3>4
  <2>5. ASSUME NEW i \in DOMAIN past
        PROVE  i + 1 \in DOMAIN w /\ past[i] = w[i + 1] /\ i \in Nat
    BY <2>2, <2>3
  <2>6. InOrder(past, n)
    <3>1. ASSUME NEW i \in DOMAIN past, NEW j \in DOMAIN past, past[i].role = "user", past[j].role = "user", i < j
          PROVE  past[i].text < past[j].text
      <4>1. i + 1 < j + 1
        BY <2>5, <3>1
      <4> QED BY <2>5, <3>1, <4>1 DEF InOrder
    <3>2. ASSUME NEW i \in DOMAIN past, past[i].role = "user"
          PROVE  past[i].text \in 1..n
      BY <2>5, <3>2 DEF InOrder
    <3> QED BY <3>1, <3>2 DEF InOrder
  <2> QED BY <2>3, <2>4, <2>5, <2>6 DEF PastFits
<1> QED BY <1>1, <1>2

----------------------------------------------------------------------------
(* Steps of the conversation.                                              *)

LEMMA ConvTypes ==
  ASSUME ConvInv
  PROVE  /\ runtimes \in Seq(Setups) /\ Installed \in Nat /\ DOMAIN runtimes = 1..Installed
         /\ history \in Seq(Seq(Messages)) /\ Len(history) = Installed /\ DOMAIN history = 1..Installed
         /\ transcript \in Seq(Entries)
         /\ \A g \in 1..Installed : history[g] \in Seq(Messages) /\ runtimes[g] \in Setups /\ runtimes[g].role \in {"system", "user"}
<1>1. runtimes \in Seq(Setups) /\ history \in Seq(Seq(Messages)) /\ Len(history) = Installed /\ transcript \in Seq(Entries)
  BY DEF ConvInv, LogInv
<1>2. Installed \in Nat /\ DOMAIN runtimes = 1..Installed /\ \A g \in 1..Installed : runtimes[g] \in Setups
  BY <1>1 DEF Installed
<1>3. DOMAIN history = 1..Installed /\ \A g \in 1..Installed : history[g] \in Seq(Messages)
  BY <1>1, <1>2
<1> QED BY <1>1, <1>2, <1>3, AgentAssumption

\* Nothing is shown less.
LEMMA ShownStays ==
  ASSUME transcript \in Seq(Entries), transcript' = transcript \/ \E e \in Entries : transcript' = Append(transcript, e)
  PROVE  /\ transcript' \in Seq(Entries)
         /\ \A n : IsShown(n) => IsShown(n)'
         /\ \A m : AllShown(m) => \A i \in DOMAIN m : m[i].role = "user" => IsShown(m[i].text)'
<1>1. CASE transcript' = transcript
  BY <1>1 DEF IsShown, AllShown
<1>2. CASE \E e \in Entries : transcript' = Append(transcript, e)
  <2>1. PICK e \in Entries : transcript' = Append(transcript, e)
    BY <1>2
  <2>2. /\ transcript' \in Seq(Entries) /\ DOMAIN transcript = 1..Len(transcript) /\ Len(transcript) \in Nat
        /\ DOMAIN transcript' = 1..(Len(transcript) + 1)
        /\ \A i \in 1..Len(transcript) : transcript'[i] = transcript[i]
    BY <2>1, AppendIs
  <2>3. \A n : IsShown(n) => IsShown(n)'
    BY <2>2 DEF IsShown
  <2> QED BY <2>2, <2>3 DEF AllShown
<1> QED BY <1>1, <1>2

LEMMA InOrderWeakens ==
  ASSUME NEW m, NEW k \in Nat, NEW n \in Nat, k <= n, InOrder(m, k)
  PROVE  InOrder(m, n)
BY DEF InOrder

LEMMA EmptyFits ==
  ASSUME NEW role \in {"system", "user"}, NEW n, NEW e, e = <<>>
  PROVE  e \in Seq(Messages) /\ PastFits(role, e) /\ InOrder(e, n) /\ AllShown(e) /\ AllShown(e)'
<1>1. e \in Seq(Messages) /\ DOMAIN e = {} /\ Len(e) = 0
  OBVIOUS
<1>2. InOrder(e, n) /\ AllShown(e) /\ AllShown(e)'
  BY <1>1 DEF InOrder, AllShown
<1>3. PastFits(role, e)
  <2>1. CASE role = "user"
    BY <2>1 DEF PastFits
  <2>2. CASE role = "system"
    <3>1. PICK f : f = Full(role, e)
      OBVIOUS
    <3>0. f \in Seq(Messages) /\ f[1] = Preamble /\ Len(f) = Len(e) + 1
      BY <1>1, <2>2, <3>1, FullIs
    <3>7. Len(f) = 1
      BY <1>1, <3>0
    <3>2. f \in Seq(Messages) /\ Len(f) = 1 /\ f[1] = Preamble /\ DOMAIN f = 1..1 /\ \A i \in DOMAIN f : i = 1
      BY <3>0, <3>7
    <3>3. Preamble.role = "system" /\ Preamble.preamble /\ DOMAIN Preamble.calls = {} /\ Len(Preamble.calls) = 0
      BY PreambleIs
    <3>4. f # <<>>
      BY <3>2
    <3>5. Chat(role, f)
      BY <2>2, <3>2, <3>3, <3>4 DEF Chat
    <3>6. Done(f) /\ Final(f).role # "user"
      BY <2>2, <3>2, <3>3 DEF Done, Final
    <3> QED BY <3>1, <3>5, <3>6 DEF PastFits
  <2> QED BY <2>1, <2>2
<1> QED BY <1>1, <1>2, <1>3

\* The histories when a turn goes on or ends without one of its own.
LEMMA PastStays ==
  ASSUME ToolsInv, ConvInv, UNCHANGED <<runtimes, history, prompts>>,
         turn' = NoTurn \/ turn # NoTurn
  PROVE  PastInv'
<1>1. Installed' = Installed /\ prompts \in Nat /\ (turn # NoTurn => prompts # 0)
  BY TurnTypes DEF Installed, ToolsInv, TurnInv
<1>2. ASSUME NEW g \in 1..Installed
      PROVE  PastFits(runtimes[g].role, history[g]) /\ InOrder(history[g], IF turn' = NoTurn THEN prompts ELSE prompts - 1)
  <2>1. PastFits(runtimes[g].role, history[g]) /\ InOrder(history[g], IF turn = NoTurn THEN prompts ELSE prompts - 1)
    BY <1>2 DEF ConvInv, PastInv
  <2>2. CASE turn # NoTurn /\ turn' = NoTurn
    <3>1. prompts - 1 \in Nat /\ prompts - 1 <= prompts /\ InOrder(history[g], prompts - 1)
      BY <1>1, <2>1, <2>2
    <3> QED BY <1>1, <2>1, <2>2, <3>1, InOrderWeakens
  <2>3. CASE ~(turn # NoTurn /\ turn' = NoTurn)
    BY <2>1, <2>3
  <2> QED BY <2>2, <2>3
<1> QED BY <1>1, <1>2 DEF PastInv

\* A step that says nothing to the model.
LEMMA ConvGoesOn ==
  ASSUME ToolsInv, ConvInv, UNCHANGED <<runtimes, history, resetting, prompts>>,
         transcript' = transcript \/ \E e \in Entries : transcript' = Append(transcript, e),
         turn' = NoTurn \/ (turn # NoTurn /\ turn' # NoTurn /\ SameRest(turn, turn'))
  PROVE  ConvInv'
<1>1. transcript \in Seq(Entries) /\ Installed' = Installed
  BY ConvTypes DEF Installed
<1>2. LogInv'
  BY <1>1, ShownStays DEF ConvInv, LogInv, Installed
<1>3. PastInv'
  BY PastStays
<1>4. TalkInv'
  BY <1>1 DEF ConvInv, TalkInv, SameRest
<1>5. ShownInv'
  <2>1. /\ resetting' \subseteq 1..Installed'
        /\ \A g \in resetting' : g = Installed' \/ (history'[Installed'] = <<>> /\ (turn' = NoTurn \/ turn'.runtime # Installed'))
    BY <1>1 DEF ConvInv, ShownInv, SameRest
  <2>2. ASSUME Installed' # 0, Installed' \notin resetting'
        PROVE  AllShown(history[Installed])'
    <3>1. AllShown(history[Installed])
      BY <1>1, <2>2 DEF ConvInv, ShownInv
    <3> QED BY <1>1, <3>1, ShownStays DEF AllShown
  <2>3. ASSUME Installed' # 0, Installed' \notin resetting', turn' # NoTurn, turn'.runtime = Installed'
        PROVE  IsShown(turn.prompt)' /\ AllShown(turn.messages)'
    <3>0. turn'.runtime = turn.runtime /\ turn'.prompt = turn.prompt /\ turn'.messages = turn.messages
      BY <2>3 DEF SameRest
    <3>1. IsShown(turn.prompt) /\ AllShown(turn.messages)
      BY <1>1, <2>3, <3>0 DEF ConvInv, ShownInv
    <3> QED BY <1>1, <3>0, <3>1, ShownStays DEF AllShown, IsShown
  <2> QED BY <2>1, <2>2, <2>3 DEF ShownInv
<1> QED BY <1>2, <1>3, <1>4, <1>5 DEF ConvInv

\* The result of a tool.
LEMMA ConvAfterCall ==
  ASSUME ToolsInv, ConvInv, turn # NoTurn, turn.phase = "tools",
         UNCHANGED <<runtimes, history, resetting, prompts, transcript>>, NEW ok, turn' = AfterCall(turn, ok)
  PROVE  ConvInv'
<1> DEFINE m == turn.messages
           w == turn'.messages
           calls == turn.calls
           x == ToolMessage(Head(calls).id, ok)
<1>1. IsTurn(turn) /\ turn.prompt = prompts /\ prompts \in Nat \ {0} /\ calls \in Seq(StreamedCalls) /\ calls # <<>>
  BY TurnTypes DEF ToolsInv, TurnInv
<1>2. /\ w = Append(m, x) /\ turn'.calls = Tail(calls)
      /\ turn'.phase = IF Len(calls) > 1 THEN "tools" ELSE IF turn.number < MaxModelTurns THEN "asking" ELSE "spent"
      /\ turn'.number = IF Len(calls) > 1 \/ turn.number = MaxModelTurns THEN turn.number ELSE turn.number + 1
      /\ turn'.runtime = turn.runtime /\ turn'.prompt = turn.prompt /\ turn'.role = turn.role /\ IsTurn(turn')
  BY <1>1, AfterCallSet
<1>3. Head(calls).id \in Nat
  <2>1. Head(calls) \in StreamedCalls
    BY <1>1
  <2> QED BY <2>1 DEF StreamedCalls
<1>4. x \in Messages /\ x.role = "tool" /\ x.text = Head(calls).id /\ x.calls = <<>> /\ ~x.preamble
  BY <1>3, MessagesAre
<1>5. /\ turn.runtime \in 1..Installed /\ turn.role = runtimes[turn.runtime].role /\ turn.number \in 1..MaxModelTurns
      /\ m \in Seq(Messages) /\ InOrder(m, prompts) /\ Chat(turn.role, m) /\ PutFirst(turn.role, m) /\ Pending(m, calls)
  BY DEF ConvInv, TalkInv
<1> HIDE DEF x, calls
<1>6. /\ Chat(turn.role, w) /\ Final(w) = x
      /\ Len(calls) > 1 => Pending(w, Tail(calls))
      /\ ~(Len(calls) > 1) => Done(w)
  BY <1>1, <1>2, <1>4, <1>5, ResultFits
<1>7. /\ w \in Seq(Messages) /\ Len(w) = Len(m) + 1 /\ DOMAIN w = 1..(Len(m) + 1) /\ Len(m) \in Nat /\ Len(m) # 0 /\ DOMAIN m = 1..Len(m)
      /\ \A i \in 1..Len(m) : w[i] = m[i]
      /\ w[Len(m) + 1] = x
  BY <1>2, <1>4, <1>5, AppendIs DEF Chat
<1>8. InOrder(w, prompts)
  BY <1>1, <1>2, <1>4, <1>5, InOrderGrows
<1>9. PutFirst(turn.role, w)
  BY <1>5, <1>7 DEF PutFirst
<1>10. AllShown(m) => AllShown(w)
  BY <1>4, <1>7 DEF AllShown
<1>11. Installed' = Installed /\ turn' # NoTurn /\ MaxModelTurns \in Nat \ {0}
  BY <1>2, IsNotNoTurn, AgentAssumption DEF Installed
<1>12. turn'.number \in 1..MaxModelTurns
  BY <1>2, <1>5, <1>11
<1>13. LogInv' /\ PastInv'
  BY <1>11, PastStays DEF ConvInv, LogInv, Installed
<1>14. TalkInv'
  <2>1. turn'.phase = "tools" => Pending(turn'.messages, turn'.calls)
    BY <1>2, <1>6
  <2>2. turn'.phase \in {"asking", "spent"} => Done(turn'.messages) /\ Final(turn'.messages).role = "tool"
    BY <1>2, <1>4, <1>6
  <2>3. turn'.phase # "docs"
    BY <1>2
  <2> HIDE DEF w
  <2>4. /\ turn'.runtime \in 1..Installed' /\ turn'.role = runtimes'[turn'.runtime].role
        /\ turn'.messages \in Seq(Messages) /\ InOrder(turn'.messages, prompts')
        /\ Chat(turn'.role, turn'.messages) /\ PutFirst(turn'.role, turn'.messages)
    BY <1>2, <1>5, <1>6, <1>7, <1>8, <1>9, <1>11 DEF w
  <2> QED BY <1>11, <1>12, <2>1, <2>2, <2>3, <2>4 DEF TalkInv
<1>15. ShownInv'
  <2>0. \A n : IsShown(n)' <=> IsShown(n)
    BY DEF IsShown
  <2>1. AllShown(m) => AllShown(turn.messages)'
    BY <1>10, <2>0 DEF AllShown
  <2>2. AllShown(history[Installed])' <=> AllShown(history[Installed])
    BY <1>11 DEF AllShown, IsShown, Installed
  <2>3. IsShown(turn.prompt)' <=> IsShown(turn.prompt)
    BY <1>2 DEF IsShown
  <2>4. /\ resetting' \subseteq 1..Installed'
        /\ \A g \in resetting' : g = Installed' \/ (history'[Installed'] = <<>> /\ (turn' = NoTurn \/ turn'.runtime # Installed'))
    BY <1>2, <1>11 DEF ConvInv, ShownInv
  <2>5. ASSUME Installed' # 0, Installed' \notin resetting'
        PROVE  /\ AllShown(history[Installed])'
               /\ turn'.runtime = Installed' => IsShown(turn.prompt)' /\ AllShown(turn.messages)'
    BY <1>2, <1>11, <2>1, <2>2, <2>3, <2>5 DEF ConvInv, ShownInv
  <2> QED BY <2>4, <2>5 DEF ShownInv
<1> QED BY <1>13, <1>14, <1>15 DEF ConvInv

LEMMA AbortedRest ==
  ASSUME ToolsInv, turn' = AbortInFlight(turn)
  PROVE  turn' = turn \/ (turn # NoTurn /\ turn' # NoTurn /\ SameRest(turn, turn'))
<1>1. CASE turn = NoTurn
  <2>1. turn' = turn
    BY <1>1, TurnTypes DEF AbortInFlight
  <2> QED BY <2>1
<1>2. CASE turn # NoTurn
  <2>1. IsTurn(turn)
    BY <1>2, TurnTypes
  <2>2. CASE abortable
    BY <1>2, <2>1, <2>2, AbortedSet, IsNotNoTurn DEF AbortInFlight
  <2>3. CASE ~abortable
    BY <2>3 DEF AbortInFlight
  <2> QED BY <2>2, <2>3
<1> QED BY <1>1, <1>2

\* What is kept of a turn.
LEMMA ConvAborted ==
  ASSUME ToolsInv, ConvInv, turn' = AbortInFlight(turn)
  PROVE  /\ turn' = NoTurn <=> turn = NoTurn
         /\ turn' # NoTurn => SameRest(turn, turn')
<1>1. CASE turn' = turn
  BY <1>1 DEF SameRest
<1> QED BY <1>1, AbortedRest

LEMMA TalkStays ==
  ASSUME ConvInv, prompts' = prompts, \A g \in 1..Installed : g \in 1..Installed' /\ runtimes'[g] = runtimes[g],
         turn' # NoTurn => turn # NoTurn /\ SameRest(turn, turn')
  PROVE  TalkInv'
BY DEF ConvInv, TalkInv, SameRest

\* One more runtime, with an empty history.
LEMMA ConvConfigure ==
  ASSUME ToolsInv, ConvInv, Configure
  PROVE  ConvInv'
<1>1. PICK setup \in Setups : runtimes' = Append(runtimes, setup)
  BY DEF Configure
<1>2. PICK e : e = <<>>
  OBVIOUS
<1>3. /\ history' = Append(history, e) /\ transcript' = <<>> /\ turn' = AbortInFlight(turn)
      /\ resetting' = resetting /\ prompts' = prompts
  BY <1>2 DEF Configure
<1>4. setup.role \in {"system", "user"}
  BY AgentAssumption
<1>5. e \in Seq(Messages) /\ PastFits(setup.role, e) /\ InOrder(e, prompts) /\ InOrder(e, prompts - 1) /\ AllShown(e)'
  BY <1>2, <1>4, EmptyFits
<1>6. /\ runtimes' \in Seq(Setups) /\ Len(runtimes') = Installed + 1
      /\ \A g \in 1..Installed : runtimes'[g] = runtimes[g]
      /\ runtimes'[Installed + 1] = setup
  BY <1>1, ConvTypes, AppendIs DEF Installed
<1>7. /\ history' \in Seq(Seq(Messages)) /\ Len(history') = Installed + 1
      /\ \A g \in 1..Installed : history'[g] = history[g]
      /\ history'[Installed + 1] = e
  BY <1>3, <1>5, ConvTypes, AppendIs
<1>8. Installed' = Installed + 1 /\ Installed \in Nat /\ 1..Installed' = 1..Installed \cup {Installed + 1} /\ Installed' # 0
  BY <1>6, ConvTypes DEF Installed
<1>9. /\ turn' = NoTurn <=> turn = NoTurn
      /\ turn' # NoTurn => SameRest(turn, turn')
  BY <1>3, ConvAborted
<1>10. LogInv'
  BY <1>3, <1>6, <1>7, <1>8 DEF LogInv
<1>11. PastInv'
  <2>1. ASSUME NEW g \in 1..Installed
        PROVE  PastFits(runtimes'[g].role, history'[g]) /\ InOrder(history'[g], IF turn' = NoTurn THEN prompts' ELSE prompts' - 1)
    BY <1>3, <1>6, <1>7, <1>9 DEF ConvInv, PastInv
  <2>2. PastFits(runtimes'[Installed + 1].role, history'[Installed + 1])
        /\ InOrder(history'[Installed + 1], IF turn' = NoTurn THEN prompts' ELSE prompts' - 1)
    BY <1>3, <1>5, <1>6, <1>7
  <2> QED BY <1>8, <2>1, <2>2 DEF PastInv
<1>12. TalkInv'
  BY <1>3, <1>6, <1>8, <1>9, TalkStays
<1>13. ShownInv'
  <2>1. \A g \in resetting' : g \in 1..Installed /\ g \in 1..Installed'
    BY <1>3, <1>8 DEF ConvInv, ShownInv
  <2>2. turn' = NoTurn \/ turn'.runtime # Installed'
    BY <1>8, <1>9 DEF ConvInv, TalkInv, SameRest
  <2>3. history'[Installed'] = <<>> /\ AllShown(history[Installed])'
    BY <1>2, <1>5, <1>7, <1>8 DEF AllShown
  <2> QED BY <2>1, <2>2, <2>3 DEF ShownInv
<1> QED BY <1>10, <1>11, <1>12, <1>13 DEF ConvInv

\* A history that is emptied: nobody is using it.
LEMMA ConvCleared ==
  ASSUME ToolsInv, ConvInv, NEW g \in 1..Installed, ~HoldsHistory(g), Cleared(g), UNCHANGED <<runtimes, prompts>>,
         turn' = NoTurn <=> turn = NoTurn, turn' # NoTurn => SameRest(turn, turn'),
         resetting' = resetting \ {g}, g = Installed \/ g \in resetting
  PROVE  ConvInv'
<1>1. PICK e : e = <<>>
  OBVIOUS
<1>2. Installed' = Installed /\ history' = [history EXCEPT ![g] = e] /\ transcript' = <<>>
  BY <1>1 DEF Cleared, Installed
<1>3. e \in Seq(Messages) /\ AllShown(e)' /\ \A n : \A role \in {"system", "user"} : PastFits(role, e) /\ InOrder(e, n)
  BY <1>1, EmptyFits
<1>4. /\ history \in Seq(Seq(Messages)) /\ Len(history) = Installed /\ DOMAIN history = 1..Installed /\ Installed \in Nat
      /\ runtimes \in Seq(Setups) /\ \A k \in 1..Installed : runtimes[k].role \in {"system", "user"}
  BY ConvTypes
<1>5. /\ history' \in Seq(Seq(Messages)) /\ Len(history') = Installed /\ history'[g] = e
      /\ \A k \in 1..Installed : k # g => history'[k] = history[k]
  BY <1>2, <1>3, <1>4
<1>6. LogInv'
  <2>1. transcript' \in Seq(Entries)
    BY <1>2
  <2> QED BY <1>2, <1>4, <1>5, <2>1 DEF LogInv
<1>7. PastInv'
  <2>1. ASSUME NEW k \in 1..Installed
        PROVE  PastFits(runtimes[k].role, history'[k]) /\ InOrder(history'[k], IF turn' = NoTurn THEN prompts ELSE prompts - 1)
    <3>1. CASE k = g
      BY <1>3, <1>4, <1>5, <3>1
    <3>2. CASE k # g
      BY <1>5, <3>2 DEF ConvInv, PastInv
    <3> QED BY <3>1, <3>2
  <2> QED BY <1>2, <2>1 DEF PastInv
<1>8. TalkInv'
  BY <1>2, TalkStays
<1>9. ShownInv'
  <2>1. history'[Installed] = <<>> /\ (turn = NoTurn \/ turn.runtime # Installed)
    <3>1. CASE g = Installed
      BY <1>1, <1>5, <3>1 DEF HoldsHistory
    <3>2. CASE g # Installed
      <4>1. history[Installed] = <<>> /\ (turn = NoTurn \/ turn.runtime # Installed)
        BY <3>2 DEF ConvInv, ShownInv
      <4>2. Installed \in 1..Installed
        BY <1>4
      <4> QED BY <1>5, <3>2, <4>1, <4>2
    <3> QED BY <3>1, <3>2
  <2>2. \A k \in resetting' : k \in 1..Installed
    BY DEF ConvInv, ShownInv
  <2>3. turn' = NoTurn \/ turn'.runtime # Installed
    BY <2>1 DEF SameRest
  <2>4. AllShown(history[Installed])'
    <3>1. DOMAIN history'[Installed] = {}
      BY <2>1
    <3> QED BY <1>2, <3>1 DEF AllShown
  <2> QED BY <1>2, <2>1, <2>2, <2>3, <2>4 DEF ShownInv
<1> QED BY <1>6, <1>7, <1>8, <1>9 DEF ConvInv

LEMMA ConvReset ==
  ASSUME ToolsInv, ConvInv, AgentReset \/ ResetDone
  PROVE  ConvInv'
<1>1. CASE ResetDone
  <2>1. PICK g \in resetting : /\ ~HoldsHistory(g) /\ resetting' = resetting \ {g} /\ Cleared(g)
                              /\ UNCHANGED <<runtimes, turn, prompts>>
    BY <1>1 DEF ResetDone, viewerVars
  <2>2. g \in 1..Installed
    BY DEF ConvInv, ShownInv
  <2> QED BY <2>1, <2>2, ConvCleared DEF SameRest
<1>2. CASE AgentReset
  <2>1. /\ Installed # 0 /\ Installed \notin resetting /\ turn' = AbortInFlight(turn) /\ UNCHANGED <<runtimes, prompts>>
        /\ Installed' = Installed /\ Installed \in 1..Installed
    BY <1>2, ConvTypes DEF AgentReset, Installed
  <2>2. /\ turn' = NoTurn <=> turn = NoTurn
        /\ turn' # NoTurn => SameRest(turn, turn')
    BY <2>1, ConvAborted
  <2>3. CASE ~HoldsHistory(Installed)
    <3>1. resetting' = resetting \ {Installed} /\ Cleared(Installed)
      BY <1>2, <2>1, <2>3 DEF AgentReset
    <3> QED BY <2>1, <2>2, <2>3, <3>1, ConvCleared
  <2>4. CASE HoldsHistory(Installed)
    <3>1. resetting' = resetting \cup {Installed} /\ UNCHANGED <<history, transcript>>
      BY <1>2, <2>4 DEF AgentReset
    <3>2. LogInv'
      BY <2>1, <3>1 DEF ConvInv, LogInv
    <3>3. PastInv'
      BY <2>1, <2>2, <3>1, PastStays
    <3>4. TalkInv'
      BY <2>1, <2>2, TalkStays
    <3>5. ShownInv'
      <4>1. turn' = NoTurn \/ turn'.runtime = turn.runtime
        BY <2>2 DEF SameRest
      <4> QED BY <2>1, <2>2, <3>1, <4>1 DEF ConvInv, ShownInv
    <3> QED BY <3>2, <3>3, <3>4, <3>5 DEF ConvInv
  <2> QED BY <2>3, <2>4
<1> QED BY <1>1, <1>2

LEMMA ConvPrompt ==
  ASSUME ToolsInv, ConvInv, Prompt
  PROVE  ConvInv'
<1>1. /\ Installed # 0 /\ turn = NoTurn /\ resetting = {} /\ prompts' = prompts + 1 /\ UNCHANGED <<runtimes, history, resetting>>
      /\ transcript' = Append(transcript, Entry("user", prompts'))
      /\ turn' = [phase |-> "docs", runtime |-> Installed, prompt |-> prompts', number |-> 1, messages |-> <<>>,
                  calls |-> <<>>, role |-> runtimes[Installed].role, aborted |-> FALSE, tool |-> NoTool]
  BY DEF Prompt
<1>2. prompts \in Nat /\ prompts' \in Nat /\ prompts' # 0 /\ prompts' - 1 = prompts /\ Installed' = Installed
  BY <1>1 DEF ToolsInv, TurnInv, Installed
<1>3. Installed \in 1..Installed /\ runtimes[Installed].role \in {"system", "user"} /\ MaxModelTurns \in Nat \ {0}
  BY <1>1, ConvTypes, AgentAssumption
<1>4. PICK e : e = <<>>
  OBVIOUS
<1>5. e \in Seq(Messages) /\ InOrder(e, prompts') /\ AllShown(e)'
  BY <1>3, <1>4, EmptyFits
<1>6. /\ turn'.phase = "docs" /\ turn'.runtime = Installed /\ turn'.prompt = prompts' /\ turn'.number = 1
      /\ turn'.messages = e /\ turn'.role = runtimes[Installed].role /\ turn' # NoTurn
  BY <1>1, <1>4 DEF NoTurn
<1>7. PICK en : en = Entry("user", prompts')
  OBVIOUS
<1>8. en \in Entries /\ transcript' = Append(transcript, en) /\ transcript \in Seq(Entries)
  <2>1. en = [kind |-> "user", n |-> prompts']
    BY <1>7 DEF Entry
  <2>2. en \in Entries
    BY <1>2, <2>1 DEF Entries
  <2> QED BY <1>1, <1>7, <2>2, ConvTypes
<1>9. LogInv'
  BY <1>1, <1>2, <1>8, ShownStays DEF ConvInv, LogInv
<1>10. PastInv'
  BY <1>1, <1>2, <1>6 DEF ConvInv, PastInv
<1>11. TalkInv'
  BY <1>1, <1>2, <1>3, <1>5, <1>6 DEF TalkInv
<1>12. ShownInv'
  <2>1. IsShown(turn.prompt)'
    <3>1. Len(transcript) + 1 \in DOMAIN transcript' /\ transcript'[Len(transcript) + 1] = en
      BY <1>8, AppendIs
    <3> QED BY <1>6, <1>7, <3>1 DEF IsShown
  <2>2. AllShown(history[Installed])'
    <3>1. AllShown(history[Installed])
      BY <1>1 DEF ConvInv, ShownInv
    <3> QED BY <1>1, <1>2, <1>8, <3>1, ShownStays DEF AllShown
  <2>3. AllShown(turn.messages)'
    BY <1>5, <1>6 DEF AllShown
  <2> QED BY <1>1, <1>2, <2>1, <2>2, <2>3 DEF ShownInv
<1> QED BY <1>9, <1>10, <1>11, <1>12 DEF ConvInv

\* A turn that ends with a history of its own.
LEMMA ConvEnds ==
  ASSUME ToolsInv, ConvInv, turn # NoTurn, NEW w \in Seq(Messages), Chat(turn.role, w), PutFirst(turn.role, w), Done(w),
         Final(w).role # "user", InOrder(w, prompts), AllShown(turn.messages) => AllShown(w),
         NEW t, t.messages = w, t.role = turn.role, history' = [history EXCEPT ![turn.runtime] = Kept(t)],
         turn' = NoTurn, NEW e \in Entries, transcript' = Append(transcript, e), UNCHANGED <<runtimes, resetting, prompts>>
  PROVE  ConvInv'
<1>1. PICK past : past = Kept(t)
  OBVIOUS
<1>2. turn.runtime \in 1..Installed /\ turn.role = runtimes[turn.runtime].role /\ Installed' = Installed /\ prompts \in Nat \ {0}
  BY TurnTypes DEF ConvInv, TalkInv, Installed
<1>3. /\ past \in Seq(Messages) /\ PastFits(turn.role, past) /\ InOrder(past, prompts)
      /\ \A i \in DOMAIN past : \E j \in DOMAIN w : past[i] = w[j]
  BY <1>1, <1>2, KeptFits
<1>4. /\ history \in Seq(Seq(Messages)) /\ Len(history) = Installed /\ DOMAIN history = 1..Installed /\ Installed \in Nat
      /\ transcript \in Seq(Entries)
  BY ConvTypes
<1>5. /\ history' \in Seq(Seq(Messages)) /\ Len(history') = Installed /\ history'[turn.runtime] = past
      /\ \A k \in 1..Installed : k # turn.runtime => history'[k] = history[k]
  BY <1>1, <1>2, <1>3, <1>4
<1>6. LogInv'
  BY <1>2, <1>4, <1>5, ShownStays DEF ConvInv, LogInv
<1>7. PastInv'
  <2>1. ASSUME NEW k \in 1..Installed
        PROVE  PastFits(runtimes[k].role, history'[k]) /\ InOrder(history'[k], prompts)
    <3>1. CASE k = turn.runtime
      BY <1>2, <1>3, <1>5, <3>1
    <3>2. CASE k # turn.runtime
      <4>1. PastFits(runtimes[k].role, history[k]) /\ InOrder(history[k], prompts - 1)
        BY DEF ConvInv, PastInv
      <4>2. prompts - 1 \in Nat /\ prompts - 1 <= prompts /\ prompts \in Nat
        BY <1>2
      <4>3. InOrder(history[k], prompts)
        BY <4>1, <4>2, InOrderWeakens
      <4> QED BY <1>5, <3>2, <4>1, <4>3
    <3> QED BY <3>1, <3>2
  <2> QED BY <1>2, <2>1 DEF PastInv
<1>8. TalkInv'
  BY DEF TalkInv
<1>9. ShownInv'
  <2>1. /\ resetting' \subseteq 1..Installed
        /\ \A g \in resetting' : g = Installed \/ history'[Installed] = <<>>
    <3>1. ASSUME NEW g \in resetting, g # Installed
          PROVE  history'[Installed] = <<>>
      <4>1. history[Installed] = <<>> /\ turn.runtime # Installed /\ Installed \in 1..Installed
        BY <1>2, <1>4, <3>1 DEF ConvInv, ShownInv
      <4> QED BY <1>5, <4>1
    <3> QED BY <3>1 DEF ConvInv, ShownInv
  <2>2. ASSUME Installed # 0, Installed \notin resetting
        PROVE  AllShown(history[Installed])'
    <3>1. \A n : IsShown(n) => IsShown(n)'
      BY <1>4, ShownStays
    <3>2. CASE turn.runtime = Installed
      <4>1. AllShown(w)
        BY <2>2, <3>2 DEF ConvInv, ShownInv
      <4>2. AllShown(past)
        BY <1>3, <4>1 DEF AllShown
      <4> QED BY <1>2, <1>5, <3>1, <3>2, <4>2 DEF AllShown
    <3>3. CASE turn.runtime # Installed
      <4>1. AllShown(history[Installed]) /\ Installed \in 1..Installed
        BY <1>4, <2>2 DEF ConvInv, ShownInv
      <4> QED BY <1>2, <1>5, <3>1, <3>3, <4>1 DEF AllShown
    <3> QED BY <3>2, <3>3
  <2> QED BY <1>2, <2>1, <2>2 DEF ShownInv
<1> QED BY <1>6, <1>7, <1>8, <1>9 DEF ConvInv

LEMMA EntryFits == ASSUME NEW kind \in {"user", "tool", "assistant", "stopped", "error"}, NEW n \in Nat PROVE Entry(kind, n) \in Entries
BY DEF Entry, Entries

\* The end of a turn that keeps its history as it was.
LEMMA ConvStops ==
  ASSUME ToolsInv, ConvInv, Aborted \/ RequestFails
  PROVE  ConvInv'
<1>1. PICK kind \in {"stopped", "error"} : EndTurn(kind)
  BY DEF Aborted, RequestFails
<1>2. turn' = NoTurn /\ transcript' = Append(transcript, Entry(kind, 0)) /\ Entry(kind, 0) \in Entries
  BY <1>1, EntryFits DEF EndTurn
<1>3. UNCHANGED <<runtimes, history, resetting, prompts>>
  BY DEF Aborted, RequestFails, slotVars
<1> QED BY <1>2, <1>3, ConvGoesOn

LEMMA ConvBegin ==
  ASSUME ToolsInv, ConvInv, Begin
  PROVE  ConvInv'
<1>1. turn # NoTurn /\ turn.phase = "docs" /\ UNCHANGED <<runtimes, history, resetting, prompts, transcript>>
  BY DEF Begin, Going, slotVars
<1>2. IsTurn(turn) /\ turn.prompt = prompts /\ prompts \in Nat \ {0}
  BY <1>1, TurnTypes
<1>3. PICK w : w = StartMessages(turn.role, history[turn.runtime], turn.prompt)
  OBVIOUS
<1>4. turn' = [turn EXCEPT !.phase = "asking", !.messages = w]
  BY <1>3 DEF Begin
<1>5. /\ turn'.phase = "asking" /\ turn'.messages = w /\ turn'.runtime = turn.runtime /\ turn'.prompt = turn.prompt
      /\ turn'.number = turn.number /\ turn'.role = turn.role /\ turn' # NoTurn
  <2>1. IsTurn(turn')
    BY <1>1, <1>2, <1>4 DEF IsTurn, IsTool
  <2> QED BY <1>2, <1>4, <2>1, IsNotNoTurn DEF IsTurn
<1>6. turn.runtime \in 1..Installed /\ turn.role = runtimes[turn.runtime].role /\ turn.number = 1 /\ turn.number \in 1..MaxModelTurns
  BY <1>1 DEF ConvInv, TalkInv
<1>7. PICK past : past = history[turn.runtime]
  OBVIOUS
<1>8. past \in Seq(Messages) /\ turn.role \in {"system", "user"}
  BY <1>6, <1>7, ConvTypes
<1>9. PastFits(turn.role, past) /\ InOrder(past, prompts - 1)
  BY <1>1, <1>6, <1>7 DEF ConvInv, PastInv
<1>10. /\ w \in Seq(Messages) /\ Chat(turn.role, w) /\ PutFirst(turn.role, w) /\ Done(w) /\ Final(w).role = "user"
       /\ InOrder(w, prompts)
       /\ \A i \in DOMAIN w : w[i].role = "user" => w[i].text = prompts \/ \E j \in DOMAIN past : past[j].role = "user" /\ past[j].text = w[i].text
  BY <1>2, <1>3, <1>7, <1>8, <1>9, StartFits
<1>11. Installed' = Installed
  BY <1>1 DEF Installed
<1>12. LogInv' /\ PastInv'
  BY <1>1, <1>11, PastStays DEF ConvInv, LogInv
<1>13. TalkInv'
  BY <1>1, <1>5, <1>6, <1>10, <1>11 DEF TalkInv
<1>14. ShownInv'
  <2>0. \A n : IsShown(n)' <=> IsShown(n)
    BY <1>1 DEF IsShown
  <2>1. ASSUME Installed # 0, Installed \notin resetting, turn.runtime = Installed
        PROVE  IsShown(turn.prompt)' /\ AllShown(turn.messages)'
    <3>1. IsShown(prompts) /\ AllShown(past)
      BY <1>1, <1>2, <1>7, <2>1 DEF ConvInv, ShownInv
    <3>2. AllShown(w)
      BY <1>10, <3>1 DEF AllShown
    <3> QED BY <1>2, <1>5, <2>0, <3>1, <3>2 DEF AllShown
  <2>2. AllShown(history[Installed])' <=> AllShown(history[Installed])
    BY <1>1, <1>11, <2>0 DEF AllShown
  <2> QED BY <1>1, <1>5, <1>11, <2>1, <2>2 DEF ConvInv, ShownInv
<1> QED BY <1>12, <1>13, <1>14 DEF ConvInv

\* The assistant says something to a conversation that is done.
LEMMA AssistantFits ==
  ASSUME NEW c \in Seq(Nat)
  PROVE  /\ AssistantMessage(c) \in Messages /\ AssistantMessage(c).role = "assistant"
         /\ AssistantMessage(c).calls = c /\ ~AssistantMessage(c).preamble
<1>1. PICK x : x = AssistantMessage(c)
  OBVIOUS
<1>2. x = [role |-> "assistant", text |-> 0, calls |-> c, preamble |-> FALSE, failed |-> FALSE]
  BY <1>1 DEF AssistantMessage, ChatMessage
<1>3. x \in Messages
  BY <1>2 DEF Messages
<1> QED BY <1>1, <1>2, <1>3

LEMMA AssistantGrows ==
  ASSUME ToolsInv, ConvInv, turn # NoTurn, turn.phase = "asking",
         NEW x \in Messages, x.role = "assistant", NEW w, w = Append(turn.messages, x)
  PROVE  /\ w \in Seq(Messages) /\ PutFirst(turn.role, w) /\ InOrder(w, prompts) /\ (AllShown(turn.messages) => AllShown(w))
<1>1. /\ turn.messages \in Seq(Messages) /\ InOrder(turn.messages, prompts) /\ turn.messages # <<>>
      /\ PutFirst(turn.role, turn.messages) /\ prompts \in Nat
  BY DEF ConvInv, TalkInv, Chat, ToolsInv, TurnInv
<1>2. PICK m : m = turn.messages
  OBVIOUS
<1>3. /\ w \in Seq(Messages) /\ DOMAIN w = 1..(Len(m) + 1) /\ Len(m) \in Nat /\ Len(m) # 0 /\ DOMAIN m = 1..Len(m)
      /\ \A i \in 1..Len(m) : w[i] = m[i]
      /\ w[Len(m) + 1] = x
  BY <1>1, <1>2, AppendIs
<1>4. PutFirst(turn.role, w)
  BY <1>1, <1>2, <1>3 DEF PutFirst
<1>5. InOrder(w, prompts)
  BY <1>1, InOrderGrows
<1>6. AllShown(m) => AllShown(w)
  BY <1>3 DEF AllShown
<1> QED BY <1>2, <1>3, <1>4, <1>5, <1>6

LEMMA ConvAnswerText ==
  ASSUME ToolsInv, ConvInv, AnswerText
  PROVE  ConvInv'
<1>1. turn # NoTurn /\ turn.phase = "asking" /\ UNCHANGED <<runtimes, resetting, prompts>> /\ EndTurn("assistant")
  BY DEF AnswerText, Going
<1>2. PICK c : c = <<>>
  OBVIOUS
<1>3. PICK x : x = AssistantMessage(c)
  OBVIOUS
<1>4. x \in Messages /\ x.role = "assistant" /\ x.calls = <<>> /\ ~x.preamble
  <2>1. c \in Seq(Nat)
    BY <1>2
  <2> QED BY <1>2, <1>3, <2>1, AssistantFits
<1>5. PICK w : w = Append(turn.messages, x)
  OBVIOUS
<1>6. PICK t : t = [turn EXCEPT !.messages = w]
  OBVIOUS
<1>7. history' = [history EXCEPT ![turn.runtime] = Kept(t)]
  BY <1>2, <1>3, <1>5, <1>6 DEF AnswerText
<1>8. t.messages = w /\ t.role = turn.role
  BY <1>1, <1>6, TurnTypes DEF IsTurn
<1>9. w \in Seq(Messages) /\ PutFirst(turn.role, w) /\ InOrder(w, prompts) /\ (AllShown(turn.messages) => AllShown(w))
  BY <1>1, <1>4, <1>5, AssistantGrows
<1>10. Chat(turn.role, w) /\ Done(w) /\ Final(w) = x
  <2>1. turn.messages \in Seq(Messages) /\ Chat(turn.role, turn.messages) /\ Done(turn.messages)
    BY <1>1 DEF ConvInv, TalkInv
  <2> QED BY <1>4, <1>5, <2>1, PlainFits
<1>11. turn' = NoTurn /\ transcript' = Append(transcript, Entry("assistant", 0)) /\ Entry("assistant", 0) \in Entries
  BY <1>1, EntryFits DEF EndTurn
<1> QED BY <1>1, <1>4, <1>7, <1>8, <1>9, <1>10, <1>11, ConvEnds

LEMMA ConvBudget ==
  ASSUME ToolsInv, ConvInv, BudgetExhausted
  PROVE  ConvInv'
<1>1. turn # NoTurn /\ turn.phase = "spent" /\ UNCHANGED <<runtimes, resetting, prompts>> /\ EndTurn("error")
      /\ history' = [history EXCEPT ![turn.runtime] = Kept(turn)]
  BY DEF BudgetExhausted, Going
<1>2. PICK w : w = turn.messages
  OBVIOUS
<1>3. /\ w \in Seq(Messages) /\ InOrder(w, prompts) /\ Chat(turn.role, w) /\ PutFirst(turn.role, w) /\ Done(w)
      /\ Final(w).role = "tool"
  BY <1>1, <1>2 DEF ConvInv, TalkInv
<1>4. turn' = NoTurn /\ transcript' = Append(transcript, Entry("error", 0)) /\ Entry("error", 0) \in Entries
  BY <1>1, EntryFits DEF EndTurn
<1> QED BY <1>1, <1>2, <1>3, <1>4, ConvEnds

LEMMA ConvAnswerCalls ==
  ASSUME ToolsInv, ConvInv, AnswerCalls
  PROVE  ConvInv'
<1>1. turn # NoTurn /\ turn.phase = "asking" /\ UNCHANGED <<runtimes, history, resetting, prompts, transcript>>
  BY DEF AnswerCalls, Going, slotVars
<1>2. IsTurn(turn) /\ turn.prompt = prompts /\ prompts \in Nat \ {0}
  BY <1>1, TurnTypes
<1>3. PICK reply \in Replies : \E fragments \in StreamsOf(reply) :
        turn' = [turn EXCEPT !.phase = "tools", !.calls = Streamed(fragments),
                             !.messages = Append(@, AssistantMessage([k \in DOMAIN Streamed(fragments) |-> Streamed(fragments)[k].id]))]
  BY DEF AnswerCalls
<1>4. PICK fragments \in StreamsOf(reply) :
        turn' = [turn EXCEPT !.phase = "tools", !.calls = Streamed(fragments),
                             !.messages = Append(@, AssistantMessage([k \in DOMAIN Streamed(fragments) |-> Streamed(fragments)[k].id]))]
  BY <1>3
<1> DEFINE n == Len(reply)
<1>5. reply \in Seq(ToolCalls) /\ reply # <<>>
  BY AgentAssumption
<1>6. PICK calls : calls = Streamed(fragments)
  OBVIOUS
<1>7. calls = [k \in 1..n |-> [id |-> k, call |-> reply[k], arguments |-> TRUE]]
  BY <1>5, <1>6, StreamsArePutTogether
<1>8. n \in Nat /\ n # 0 /\ \A k \in 1..n : reply[k] \in ToolCalls
  BY <1>5
<1> HIDE DEF n
<1>9. calls \in Seq(StreamedCalls) /\ Len(calls) = n /\ DOMAIN calls = 1..n /\ \A k \in 1..n : calls[k].id = k
  <2>1. \A k \in 1..n : [id |-> k, call |-> reply[k], arguments |-> TRUE] \in StreamedCalls
    BY <1>8 DEF StreamedCalls
  <2>2. calls \in [1..n -> StreamedCalls]
    BY <1>7, <2>1
  <2> QED BY <1>7, <1>8, <2>2
<1>10. PICK c : c = [k \in 1..n |-> k]
  OBVIOUS
<1>11. c \in Seq(Nat) /\ [k \in DOMAIN calls |-> calls[k].id] = c
  BY <1>8, <1>9, <1>10
<1>12. PICK x : x = AssistantMessage(c)
  OBVIOUS
<1>13. x \in Messages /\ x.role = "assistant" /\ x.calls = [k \in 1..n |-> k] /\ ~x.preamble
  BY <1>10, <1>11, <1>12, AssistantFits
<1>14. PICK w : w = Append(turn.messages, x)
  OBVIOUS
<1>15. turn' = [turn EXCEPT !.phase = "tools", !.calls = calls, !.messages = w]
  BY <1>4, <1>6, <1>11, <1>12, <1>14
<1>16. /\ turn'.phase = "tools" /\ turn'.messages = w /\ turn'.calls = calls /\ turn'.runtime = turn.runtime
       /\ turn'.prompt = turn.prompt /\ turn'.number = turn.number /\ turn'.role = turn.role /\ turn' # NoTurn
  <2>1. IsTurn(turn')
    BY <1>1, <1>2, <1>15 DEF IsTurn, IsTool
  <2> QED BY <1>2, <1>15, <2>1, IsNotNoTurn DEF IsTurn
<1>17. w \in Seq(Messages) /\ PutFirst(turn.role, w) /\ InOrder(w, prompts) /\ (AllShown(turn.messages) => AllShown(w))
  BY <1>1, <1>13, <1>14, AssistantGrows
<1>18. /\ turn.messages \in Seq(Messages) /\ Chat(turn.role, turn.messages) /\ Done(turn.messages)
       /\ turn.runtime \in 1..Installed /\ turn.role = runtimes[turn.runtime].role /\ turn.number \in 1..MaxModelTurns
  BY <1>1 DEF ConvInv, TalkInv
<1>19. Chat(turn.role, w) /\ Pending(w, calls)
  BY <1>8, <1>9, <1>13, <1>14, <1>18, CallsFit
<1>20. Installed' = Installed
  BY <1>1 DEF Installed
<1>21. LogInv' /\ PastInv'
  BY <1>1, <1>20, PastStays DEF ConvInv, LogInv
<1>22. TalkInv'
  BY <1>1, <1>16, <1>17, <1>18, <1>19, <1>20 DEF TalkInv
<1>23. ShownInv'
  <2>0. \A k : IsShown(k)' <=> IsShown(k)
    BY <1>1 DEF IsShown
  <2>1. ASSUME Installed # 0, Installed \notin resetting, turn.runtime = Installed
        PROVE  IsShown(turn.prompt)' /\ AllShown(turn.messages)'
    <3>1. IsShown(turn.prompt) /\ AllShown(w)
      BY <1>1, <1>17, <2>1 DEF ConvInv, ShownInv
    <3> QED BY <1>16, <2>0, <3>1 DEF AllShown
  <2>2. AllShown(history[Installed])' <=> AllShown(history[Installed])
    BY <1>1, <1>20, <2>0 DEF AllShown
  <2> QED BY <1>1, <1>16, <1>20, <2>1, <2>2 DEF ConvInv, ShownInv
<1> QED BY <1>21, <1>22, <1>23 DEF ConvInv

LEMMA ConvInit == AgentInit => ConvInv
<1> SUFFICES ASSUME AgentInit PROVE ConvInv
  OBVIOUS
<1>1. /\ runtimes = <<>> /\ history = <<>> /\ transcript = <<>> /\ turn = NoTurn /\ resetting = {} /\ prompts = 0
  BY DEF AgentInit
<1>2. Len(<<>>) = 0 /\ Installed = 0 /\ 1..Installed = {}
  BY <1>1 DEF Installed
<1>3. LogInv
  BY <1>1, <1>2 DEF LogInv
<1>4. PastInv /\ TalkInv /\ ShownInv
  BY <1>1, <1>2 DEF PastInv, TalkInv, ShownInv
<1> QED BY <1>3, <1>4 DEF ConvInv

\* A tool goes on.
LEMMA ConvTool ==
  ASSUME ToolsInv, ConvInv, UNCHANGED <<runtimes, history, resetting, prompts>>,
         transcript' = transcript \/ \E e \in Entries : transcript' = Append(transcript, e),
         turn # NoTurn, NEW tool, turn' = [turn EXCEPT !.tool = tool]
  PROVE  ConvInv'
<1>1. IsTurn(turn)
  BY TurnTypes
<1>2. SameRest(turn, turn') /\ DOMAIN turn' = DOMAIN turn
  BY <1>1 DEF IsTurn, SameRest
<1>3. turn' # NoTurn
  BY <1>1, <1>2 DEF IsTurn, NoTurn
<1> QED BY <1>2, <1>3, ConvGoesOn

LEMMA ConvMoves ==
  ASSUME ToolsInv, ConvInv, UNCHANGED <<runtimes, history, resetting, prompts, transcript>>,
         turn # NoTurn, NEW s, NEW v, NEW w,
         \/ turn' = [turn EXCEPT !.tool.step = s]
         \/ turn' = [turn EXCEPT !.tool.panels = v]
         \/ turn' = [turn EXCEPT !.tool.step = s, !.tool.panels = v]
         \/ turn' = [turn EXCEPT !.tool.step = s, !.tool.snapshot = w]
  PROVE  ConvInv'
<1>1. IsTurn(turn)
  BY TurnTypes
<1>2. SameRest(turn, turn') /\ DOMAIN turn' = DOMAIN turn
  BY <1>1 DEF IsTurn, IsTool, SameRest
<1>3. turn' # NoTurn
  BY <1>1, <1>2 DEF IsTurn, NoTurn
<1> QED BY <1>2, <1>3, ConvGoesOn

LEMMA ConvDispatch ==
  ASSUME ToolsInv, ConvInv, Dispatch
  PROVE  ConvInv'
<1>1. PICK tool : turn' = [turn EXCEPT !.tool = tool]
  BY DEF Dispatch
<1>2. transcript' = Append(transcript, Entry("tool", 0)) /\ Entry("tool", 0) \in Entries
      /\ turn # NoTurn /\ UNCHANGED <<runtimes, history, resetting, prompts>>
  BY EntryFits DEF Dispatch, AtCall, Going, slotVars
<1> QED BY <1>1, <1>2, ConvTool

\* A promise of the viewer moves on, or the user does something.
LEMMA ConvTouched ==
  ASSUME ToolsInv, ConvInv, UNCHANGED <<runtimes, history, resetting, prompts, transcript>>, NEW owner, turn' = Touched(owner)
  PROVE  ConvInv'
<1>1. CASE turn # NoTurn /\ turn.prompt # owner
  <2>1. IsTurn(turn') /\ SameRest(turn, turn')
    BY <1>1, TouchedTurn DEF WasTouched
  <2> QED BY <1>1, <2>1, IsNotNoTurn, ConvGoesOn
<1>2. CASE turn = NoTurn \/ turn.prompt = owner
  <2>1. turn' = turn
    BY <1>2, TouchedTurn
  <2> QED BY <2>1, ConvGoesOn DEF SameRest
<1> QED BY <1>1, <1>2

LEMMA ConvViewer ==
  ASSUME ToolsInv, ConvInv, RestoreCommits \/ RestoreEnds \/ AddCommits \/ AddEnds \/ Rendered \/ User
  PROVE  ConvInv'
<1>1. CASE User
  BY <1>1, ConvTouched DEF User, slotVars
<1>2. CASE RestoreCommits \/ RestoreEnds \/ AddCommits \/ AddEnds \/ Rendered
  <2>1. PICK p \in promises : \E to : Goes(p, to)
    <3>1. CASE RestoreCommits
      BY <3>1 DEF RestoreCommits
    <3>2. CASE RestoreEnds
      BY <3>2 DEF RestoreEnds
    <3>3. CASE AddCommits
      BY <3>3 DEF AddCommits
    <3>4. CASE AddEnds
      BY <3>4 DEF AddEnds
    <3>5. CASE Rendered
      BY <3>5 DEF Rendered
    <3> QED BY <1>2, <3>1, <3>2, <3>3, <3>4, <3>5
  <2>2. UNCHANGED <<runtimes, history, resetting, prompts, transcript>> /\ turn' = Touched(p.owner)
    BY <2>1 DEF Goes, slotVars
  <2> QED BY <2>2, ConvTouched
<1> QED BY <1>1, <1>2

LEMMA ConvEnding ==
  ASSUME ToolsInv, ConvInv, turn # NoTurn, turn.phase = "tools", NEW ok, ToolEnds(ok)
  PROVE  ConvInv'
BY ConvAfterCall DEF ToolEnds, slotVars

LEMMA ConvTools ==
  ASSUME ToolsInv, ConvInv,
         RefuseTool \/ ReadTool \/ TakeSnapshot \/ SetConfig \/ RollBack \/ AddPanelTool \/ StartSweep \/ SweepOne \/ ChangeLayout
         \/ AnswerModel
  PROVE  ConvInv'
<1>1. CASE RefuseTool
  BY <1>1, ConvAfterCall DEF RefuseTool, AtCall, Going, slotVars
<1>2. CASE ReadTool
  <2>1. turn # NoTurn /\ turn.phase = "tools" /\ \E ok : ToolEnds(ok)
    BY <1>2 DEF ReadTool, Going
  <2> QED BY <2>1, ConvEnding
<1>3. CASE TakeSnapshot
  <2>1. turn # NoTurn /\ turn.phase = "tools"
    BY <1>3 DEF TakeSnapshot, AtStep, Going
  <2>2. \/ turn' = [turn EXCEPT !.tool.step = "snapshot", !.tool.snapshot = configOf[AgentPanel(Calling.panel)]]
           /\ UNCHANGED <<runtimes, history, resetting, prompts, transcript>>
        \/ ToolEnds(FALSE)
    BY <1>3 DEF TakeSnapshot, slotVars
  <2> QED BY <2>1, <2>2, ConvEnding, ConvMoves
<1>4. CASE SetConfig
  <2>1. /\ turn # NoTurn /\ turn' = [turn EXCEPT !.tool.step = "trying"]
        /\ UNCHANGED <<runtimes, history, resetting, prompts, transcript>>
    BY <1>4 DEF SetConfig, AtStep, Going, Await, slotVars
  <2> QED BY <2>1, ConvMoves
<1>5. CASE RollBack
  <2>1. /\ turn # NoTurn /\ turn' = [turn EXCEPT !.tool.step = "rolling"]
        /\ UNCHANGED <<runtimes, history, resetting, prompts, transcript>>
    BY <1>5 DEF RollBack, AtStep, Going, slotVars
  <2> QED BY <2>1, ConvMoves
<1>6. CASE AddPanelTool
  <2>1. turn # NoTurn /\ turn.phase = "tools"
    BY <1>6 DEF AddPanelTool, AtStep, Going
  <2>2. \/ turn' = [turn EXCEPT !.tool.step = "trying", !.tool.panels = OpenPanels]
           /\ UNCHANGED <<runtimes, history, resetting, prompts, transcript>>
        \/ ToolEnds(FALSE)
    BY <1>6 DEF AddPanelTool, slotVars
  <2> QED BY <2>1, <2>2, ConvEnding, ConvMoves
<1>7. CASE StartSweep
  <2>1. PICK v : turn' = [turn EXCEPT !.tool.step = "sweeping", !.tool.panels = v]
    BY <1>7 DEF StartSweep
  <2>2. turn # NoTurn /\ UNCHANGED <<runtimes, history, resetting, prompts, transcript>>
    BY <1>7 DEF StartSweep, AtStep, Going, slotVars
  <2> QED BY <2>1, <2>2, ConvMoves
<1>8. CASE SweepOne
  <2>1. PICK v : turn' = [turn EXCEPT !.tool.panels = v]
    BY <1>8 DEF SweepOne
  <2>2. turn # NoTurn /\ UNCHANGED <<runtimes, history, resetting, prompts, transcript>>
    BY <1>8 DEF SweepOne, Going, slotVars
  <2> QED BY <2>1, <2>2, ConvMoves
<1>9. CASE ChangeLayout
  <2>1. turn # NoTurn /\ turn.phase = "tools"
    BY <1>9 DEF ChangeLayout, AtStep, Going
  <2>2. \/ turn' = [turn EXCEPT !.tool.step = "trying"]
           /\ UNCHANGED <<runtimes, history, resetting, prompts, transcript>>
        \/ ToolEnds(FALSE)
    BY <1>9 DEF ChangeLayout, Await, slotVars
  <2> QED BY <2>1, <2>2, ConvEnding, ConvMoves
<1>10. CASE AnswerModel
  <2>1. turn # NoTurn /\ turn.phase = "tools" /\ \E ok : ToolEnds(ok)
    BY <1>10 DEF AnswerModel, Going
  <2> QED BY <2>1, ConvEnding
<1> QED BY <1>1, <1>2, <1>3, <1>4, <1>5, <1>6, <1>7, <1>8, <1>9, <1>10

LEMMA ConvNext ==
  ASSUME ToolsInv, ConvInv, [AgentNext]_agentVars
  PROVE  ConvInv'
<1>1. CASE StopTurn
  <2>1. UNCHANGED <<runtimes, history, resetting, prompts, transcript>> /\ turn' = AbortInFlight(turn)
    BY <1>1 DEF StopTurn
  <2> QED BY <2>1, ConvAborted, ConvGoesOn
<1>2. CASE ReadDocs \/ Forget \/ UNCHANGED agentVars
  <2>1. UNCHANGED <<runtimes, history, resetting, prompts, transcript, turn>>
    BY <1>2 DEF ReadDocs, Forget, agentVars, slotVars
  <2> QED BY <2>1, ConvGoesOn DEF SameRest
<1> QED BY <1>1, <1>2, ConvConfigure, ConvReset, ConvPrompt, ConvStops, ConvBegin, ConvAnswerText, ConvAnswerCalls, ConvBudget,
           ConvDispatch, ConvTools, ConvViewer DEF AgentNext

----------------------------------------------------------------------------
(* What the invariant says of requests and of what is shown.               *)

LEMMA ChatIsWellFormed ==
  ASSUME NEW role, NEW m \in Seq(Messages), Chat(role, m), Done(m), Final(m).role # "assistant"
  PROVE  WellFormed(role, m)
<1>1. Len(m) \in Nat /\ DOMAIN m = 1..Len(m)
  OBVIOUS
<1>2. ASSUME NEW i \in DOMAIN m, NEW k \in DOMAIN m[i].calls
      PROVE  m[i].calls[k] = k /\ i + k <= Len(m) /\ m[i + k].role = "tool" /\ m[i + k].text = k
  <2>1. /\ Len(m[i].calls) \in Nat /\ DOMAIN m[i].calls = 1..Len(m[i].calls) /\ i \in Nat
        /\ i + Len(m[i].calls) <= Len(m)
    BY <1>1, MessageHas DEF Done
  <2>2. i + k <= Len(m)
    BY <1>1, <2>1
  <2> QED BY <2>2 DEF Chat
<1>3. ASSUME NEW i \in 1..(Len(m) - 1)
      PROVE  ~(m[i].role = "user" /\ m[i + 1].role = "user")
  <2>1. i + 1 \in DOMAIN m /\ i + 1 # 1 /\ (i + 1) - 1 = i
    BY <1>1
  <2>2. m[i + 1].role = "user" => m[(i + 1) - 1].role # "user"
    BY <2>1 DEF Chat
  <2> QED BY <2>1, <2>2
<1> QED BY <1>2, <1>3 DEF Chat, WellFormed, Final

LEMMA NudgeFits ==
  ASSUME NEW role \in {"system", "user"}, NEW x,
         x = [role |-> role, text |-> "nudge", calls |-> <<>>, preamble |-> FALSE, failed |-> FALSE]
  PROVE  x \in Messages /\ x.role = role /\ x.calls = <<>> /\ ~x.preamble
<1> DEFINE e == <<>>
           n == "nudge"
<1>1. e \in Seq(Nat) /\ n \in Nat \cup {"nudge"}
  OBVIOUS
<1> HIDE DEF e, n
<1>2. x = [role |-> role, text |-> n, calls |-> e, preamble |-> FALSE, failed |-> FALSE]
  BY Zenon DEF e, n
<1>3. x \in Messages
  BY <1>1, <1>2 DEF Messages
<1>4. x.role = role /\ x.calls = e /\ ~x.preamble
  BY <1>2
<1> QED BY <1>3, <1>4 DEF e

LEMMA RequestsFit ==
  ASSUME ConvInv
  PROVE  RequestsAreWellFormed
<1> SUFFICES ASSUME turn # NoTurn, turn.phase = "asking"
             PROVE  WellFormed(turn.role, RequestMessages(turn))
  BY DEF RequestsAreWellFormed
<1>1. /\ turn.messages \in Seq(Messages) /\ Chat(turn.role, turn.messages) /\ Done(turn.messages)
      /\ Final(turn.messages).role # "assistant" /\ turn.number \in 1..MaxModelTurns
      /\ turn.number > 1 => Final(turn.messages).role = "tool"
      /\ turn.runtime \in 1..Installed /\ turn.role = runtimes[turn.runtime].role
  BY DEF ConvInv, TalkInv
<1>2. CASE ~(turn.number = MaxModelTurns /\ MaxModelTurns > 1)
  BY <1>1, <1>2, ChatIsWellFormed DEF RequestMessages
<1>3. CASE turn.number = MaxModelTurns /\ MaxModelTurns > 1
  <2>1. turn.role \in {"system", "user"}
    BY <1>1, ConvTypes
  <2>2. PICK x : x = [role |-> turn.role, text |-> "nudge", calls |-> <<>>, preamble |-> FALSE, failed |-> FALSE]
    OBVIOUS
  <2>3. x \in Messages /\ x.role = turn.role /\ x.calls = <<>> /\ ~x.preamble
    BY <2>1, <2>2, NudgeFits
  <2>4. PICK w : w = Append(turn.messages, x)
    OBVIOUS
  <2>5. RequestMessages(turn) = w
    <3>1. RequestMessages(turn) = turn.messages \o <<x>>
      BY <1>3, <2>2 DEF RequestMessages, ChatMessage
    <3>2. turn.messages \o <<x>> = Append(turn.messages, x)
      BY <1>1, <2>3
    <3> QED BY <2>4, <3>1, <3>2
  <2>6. Chat(turn.role, w) /\ Done(w) /\ Final(w) = x
    BY <1>1, <1>3, <2>1, <2>3, <2>4, PlainFits
  <2>7. w \in Seq(Messages)
    BY <1>1, <2>3, <2>4, AppendIs
  <2> QED BY <2>1, <2>3, <2>5, <2>6, <2>7, ChatIsWellFormed
<1> QED BY <1>2, <1>3

LEMMA HistoryFits ==
  ASSUME ConvInv
  PROVE  HistoryIsShown
<1> SUFFICES ASSUME turn = NoTurn, resetting = {}, Installed # 0, NEW past, past = history[Installed]
             PROVE  /\ \A i \in DOMAIN past : past[i].role = "user" => IsShown(past[i].text)
                    /\ \A i, j \in DOMAIN past : past[i].role = "user" /\ past[j].role = "user" /\ i < j => past[i].text < past[j].text
  BY DEF HistoryIsShown, IsShown
<1>1. Installed \in 1..Installed
  BY ConvTypes
<1>2. AllShown(past) /\ InOrder(past, prompts)
  BY <1>1 DEF ConvInv, ShownInv, PastInv
<1> QED BY <1>2 DEF AllShown, InOrder

\* Every request to the model is well formed, and with no turn in flight the
\* chat panel shows every prompt the model will be told of.
THEOREM ConversationStaysSound == AgentSpec => []ConversationIsSound
<1>1. AgentInit => ToolsInv /\ ConvInv
  BY ToolsInit, ConvInit
<1>2. ToolsInv /\ ConvInv /\ [AgentNext]_agentVars => ToolsInv' /\ ConvInv'
  BY ToolsNext, ConvNext
<1>3. ConvInv => ConversationIsSound
  BY RequestsFit, HistoryFits DEF ConversationIsSound
<1> QED BY <1>1, <1>2, <1>3, PTL DEF AgentSpec
=============================================================================
