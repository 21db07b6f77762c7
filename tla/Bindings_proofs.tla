--------------------------- MODULE Bindings_proofs ---------------------------
(***************************************************************************)
(* Proof that every call of a Python program returns and that what it      *)
(* caused is told, for any number of threads, sessions and calls. The      *)
(* invariant says of the list of each thread that it can run from the      *)
(* state of the interpreter's lock it finds, and what it holds of sessions *)
(* that can be closed, of polls to come and of messages to come.           *)
(***************************************************************************)
EXTENDS Bindings, FiniteSetTheorems, TLAPS

(***************************************************************************)
(* The lists of steps of the threads of a Python program.                  *)
(***************************************************************************)

Effects == {"reads", "updates", "watches"}
Ops == {"take", "drop", "convert", "poll", "onPoll", "deliver", "callback", "unread",
        "write", "takeOption", "closeSession"} \union Effects
Steps == [op : Ops, s : PySessions, n : Nat] \union [op : {"read"}, s : Remotes, n : Effects]

\* What a step asks of the interpreter's lock, and leaves of it.
Keeps(op, x, y) ==
    CASE op = "take" -> ~x /\ y
      [] op = "drop" -> x /\ ~y
      [] op \in {"read", "unread", "write", "takeOption"} -> ~x /\ ~y
      [] op = "callback" -> x /\ y
      [] OTHER -> x = y

\* A list can run from one state of that lock to another.
Runs(q, a, b) ==
    \E h \in [1 .. Len(q) + 1 -> BOOLEAN] :
        /\ h[1] = a /\ h[Len(q) + 1] = b
        /\ \A i \in 1 .. Len(q) : Keeps(q[i].op, h[i], h[i + 1])

(* The elements of a list put before another.                              *)
LEMMA Joined ==
    ASSUME NEW p \in Seq(Steps), NEW q \in Seq(Steps)
    PROVE  /\ p \o q \in Seq(Steps) /\ Len(p \o q) = Len(p) + Len(q)
           /\ \A i \in 1 .. Len(p) : i \in 1 .. Len(p \o q) /\ (p \o q)[i] = p[i]
           /\ \A i \in 1 .. Len(q) : i + Len(p) \in 1 .. Len(p \o q) /\ (p \o q)[i + Len(p)] = q[i]
           /\ \A i \in 1 .. Len(p \o q) : i \in 1 .. Len(p) \/ (i - Len(p) \in 1 .. Len(q) /\ i = (i - Len(p)) + Len(p))
<1>1. p \o q \in Seq(Steps) /\ Len(p \o q) = Len(p) + Len(q) /\ Len(p) \in Nat /\ Len(q) \in Nat
  OBVIOUS
<1>2. \A i \in 1 .. Len(p) : i \in 1 .. Len(p \o q) /\ (p \o q)[i] = p[i]
  BY <1>1
<1>3. \A i \in 1 .. Len(q) : i + Len(p) \in 1 .. Len(p \o q) /\ (p \o q)[i + Len(p)] = q[i]
  BY <1>1
<1>4. \A i \in 1 .. Len(p \o q) : i \in 1 .. Len(p) \/ (i - Len(p) \in 1 .. Len(q) /\ i = (i - Len(p)) + Len(p))
  BY <1>1
<1> QED
  BY <1>1, <1>2, <1>3, <1>4

(* The elements of a list without its first.                               *)
LEMMA Rest ==
    ASSUME NEW q \in Seq(Steps), q # <<>>
    PROVE  /\ Tail(q) \in Seq(Steps) /\ Len(q) \in Nat /\ Len(q) >= 1 /\ Len(Tail(q)) = Len(q) - 1
           /\ Head(q) = q[1] /\ q[1] \in Steps
           /\ \A i \in 1 .. Len(Tail(q)) : i + 1 \in 1 .. Len(q) /\ Tail(q)[i] = q[i + 1]
           /\ \A i \in 1 .. Len(q) : i = 1 \/ (i - 1 \in 1 .. Len(Tail(q)) /\ i = (i - 1) + 1)
<1>1. Tail(q) \in Seq(Steps) /\ Len(q) \in Nat /\ Len(q) >= 1 /\ Len(Tail(q)) = Len(q) - 1
  OBVIOUS
<1>2. Head(q) = q[1] /\ q[1] \in Steps
  BY <1>1
<1>3. \A i \in 1 .. Len(Tail(q)) : i + 1 \in 1 .. Len(q) /\ Tail(q)[i] = q[i + 1]
  BY <1>1
<1>4. \A i \in 1 .. Len(q) : i = 1 \/ (i - 1 \in 1 .. Len(Tail(q)) /\ i = (i - 1) + 1)
  BY <1>1
<1> QED
  BY <1>1, <1>2, <1>3, <1>4

LEMMA RunsNone == ASSUME NEW a \in BOOLEAN PROVE Runs(<<>>, a, a)
<1> DEFINE h == [i \in {1} |-> a]
<1>1. h \in [1 .. Len(<<>>) + 1 -> BOOLEAN] /\ h[1] = a /\ h[Len(<<>>) + 1] = a
  <2>1. Len(<<>>) + 1 = 1 /\ 1 .. 1 = {1}
    OBVIOUS
  <2> QED
    BY <2>1
<1>2. \A i \in 1 .. Len(<<>>) : Keeps(<<>>[i].op, h[i], h[i + 1])
  OBVIOUS
<1> HIDE DEF h
<1> QED
  BY <1>1, <1>2 DEF Runs

LEMMA RunsOne ==
    ASSUME NEW x \in Steps, NEW a \in BOOLEAN, NEW b \in BOOLEAN, Keeps(x.op, a, b)
    PROVE  Runs(<<x>>, a, b)
<1> DEFINE h == [i \in 1 .. 2 |-> IF i = 1 THEN a ELSE b]
<1>1. Len(<<x>>) = 1 /\ <<x>>[1] = x
  OBVIOUS
<1>2. h \in [1 .. 2 -> BOOLEAN] /\ h[1] = a /\ h[2] = b
  OBVIOUS
<1> HIDE DEF h
<1>3. h \in [1 .. Len(<<x>>) + 1 -> BOOLEAN] /\ h[Len(<<x>>) + 1] = b
  BY <1>1, <1>2
<1>4. \A i \in 1 .. Len(<<x>>) : Keeps(<<x>>[i].op, h[i], h[i + 1])
  <2>1. \A i \in 1 .. Len(<<x>>) : i = 1
    BY <1>1
  <2> QED
    BY <1>1, <1>2, <2>1
<1> QED
  BY <1>2, <1>3, <1>4 DEF Runs

LEMMA RunsBoth ==
    ASSUME NEW p \in Seq(Steps), NEW q \in Seq(Steps),
           NEW a \in BOOLEAN, NEW b \in BOOLEAN, NEW c \in BOOLEAN, Runs(p, a, b), Runs(q, b, c)
    PROVE  Runs(p \o q, a, c)
<1>1. PICK g \in [1 .. Len(p) + 1 -> BOOLEAN] :
        /\ g[1] = a /\ g[Len(p) + 1] = b
        /\ \A i \in 1 .. Len(p) : Keeps(p[i].op, g[i], g[i + 1])
  BY DEF Runs
<1>2. PICK h \in [1 .. Len(q) + 1 -> BOOLEAN] :
        /\ h[1] = b /\ h[Len(q) + 1] = c
        /\ \A i \in 1 .. Len(q) : Keeps(q[i].op, h[i], h[i + 1])
  BY DEF Runs
<1>3. Len(p) \in Nat /\ Len(q) \in Nat
  OBVIOUS
<1> DEFINE k == [i \in 1 .. Len(p) + Len(q) + 1 |-> IF i <= Len(p) THEN g[i] ELSE h[i - Len(p)]]
<1>4. k \in [1 .. Len(p) + Len(q) + 1 -> BOOLEAN]
  <2>1. ASSUME NEW i \in 1 .. Len(p) + Len(q) + 1
        PROVE  (IF i <= Len(p) THEN g[i] ELSE h[i - Len(p)]) \in BOOLEAN
    <3>1. i <= Len(p) => i \in 1 .. Len(p) + 1
      BY <1>3
    <3>2. ~(i <= Len(p)) => i - Len(p) \in 1 .. Len(q) + 1
      BY <1>3
    <3> QED
      BY <3>1, <3>2
  <2> QED
    BY <2>1
<1>5. \A i \in 1 .. Len(p) + 1 : i \in 1 .. Len(p) + Len(q) + 1 /\ k[i] = g[i]
  <2>1. \A i \in 1 .. Len(p) : i \in 1 .. Len(p) + Len(q) + 1 /\ k[i] = g[i]
    BY <1>3
  <2>2. Len(p) + 1 \in 1 .. Len(p) + Len(q) + 1 /\ k[Len(p) + 1] = h[1]
    <3>1. Len(p) + 1 \in 1 .. Len(p) + Len(q) + 1 /\ ~(Len(p) + 1 <= Len(p)) /\ (Len(p) + 1) - Len(p) = 1
      BY <1>3
    <3> QED
      BY <3>1
  <2>3. \A i \in 1 .. Len(p) + 1 : i \in 1 .. Len(p) \/ i = Len(p) + 1
    BY <1>3
  <2> QED
    BY <1>1, <1>2, <2>1, <2>2, <2>3
<1>6. \A i \in 1 .. Len(q) + 1 : i + Len(p) \in 1 .. Len(p) + Len(q) + 1 /\ k[i + Len(p)] = h[i]
  <2>1. \A i \in 1 .. Len(q) + 1 : i + Len(p) \in 1 .. Len(p) + Len(q) + 1 /\ ~(i + Len(p) <= Len(p)) /\ (i + Len(p)) - Len(p) = i
    BY <1>3
  <2> QED
    BY <2>1
<1> HIDE DEF k
<1>7. Len(p \o q) = Len(p) + Len(q)
  OBVIOUS
<1>8. k \in [1 .. Len(p \o q) + 1 -> BOOLEAN]
  BY <1>4, <1>7
<1>9. k[1] = a /\ k[Len(p \o q) + 1] = c
  <2>1. 1 \in 1 .. Len(p) + 1 /\ Len(q) + 1 \in 1 .. Len(q) + 1 /\ (Len(q) + 1) + Len(p) = Len(p \o q) + 1
    BY <1>3, <1>7
  <2> QED
    BY <1>1, <1>2, <1>5, <1>6, <2>1
<1>10. ASSUME NEW i \in 1 .. Len(p \o q) PROVE Keeps((p \o q)[i].op, k[i], k[i + 1])
  <2>1. CASE i \in 1 .. Len(p)
    <3>1. i \in 1 .. Len(p) + 1 /\ i + 1 \in 1 .. Len(p) + 1
      BY <1>3, <2>1
    <3>2. k[i] = g[i] /\ k[i + 1] = g[i + 1] /\ (p \o q)[i] = p[i]
      BY <1>5, <2>1, <3>1, Joined
    <3> QED
      BY <1>1, <2>1, <3>2
  <2>2. CASE i - Len(p) \in 1 .. Len(q) /\ i = (i - Len(p)) + Len(p)
    <3> DEFINE j == i - Len(p)
    <3>1. j \in 1 .. Len(q) /\ j \in 1 .. Len(q) + 1 /\ j + 1 \in 1 .. Len(q) + 1 /\ i = j + Len(p) /\ i + 1 = (j + 1) + Len(p)
      BY <1>3, <2>2
    <3> HIDE DEF j
    <3>2. k[i] = h[j] /\ k[i + 1] = h[j + 1]
      BY <1>6, <3>1
    <3>3. (p \o q)[i] = q[j]
      BY <3>1, Joined
    <3> QED
      BY <1>2, <3>1, <3>2, <3>3
  <2> QED
    BY <2>1, <2>2, Joined
<1> QED
  BY <1>8, <1>9, <1>10 DEF Runs

LEMMA RunsRest ==
    ASSUME NEW q \in Seq(Steps), q # <<>>, NEW a \in BOOLEAN, NEW c \in BOOLEAN, Runs(q, a, c)
    PROVE  \E b \in BOOLEAN : Keeps(Head(q).op, a, b) /\ Runs(Tail(q), b, c)
<1>1. PICK h \in [1 .. Len(q) + 1 -> BOOLEAN] :
        /\ h[1] = a /\ h[Len(q) + 1] = c
        /\ \A i \in 1 .. Len(q) : Keeps(q[i].op, h[i], h[i + 1])
  BY DEF Runs
<1>2. /\ Tail(q) \in Seq(Steps) /\ Len(q) \in Nat /\ Len(q) >= 1 /\ Len(Tail(q)) = Len(q) - 1
      /\ Head(q) = q[1]
      /\ \A i \in 1 .. Len(Tail(q)) : i + 1 \in 1 .. Len(q) /\ Tail(q)[i] = q[i + 1]
  BY Rest
<1> DEFINE k == [i \in 1 .. Len(Tail(q)) + 1 |-> h[i + 1]]
<1>3. \A i \in 1 .. Len(Tail(q)) + 1 : i + 1 \in 1 .. Len(q) + 1 /\ k[i] = h[i + 1]
  BY <1>2
<1>4. k \in [1 .. Len(Tail(q)) + 1 -> BOOLEAN]
  BY <1>3
<1> HIDE DEF k
<1>5. k[1] = h[2] /\ k[Len(Tail(q)) + 1] = c /\ h[2] \in BOOLEAN
  <2>1. 1 \in 1 .. Len(Tail(q)) + 1 /\ 1 + 1 = 2 /\ 2 \in 1 .. Len(q) + 1
        /\ Len(Tail(q)) + 1 \in 1 .. Len(Tail(q)) + 1 /\ (Len(Tail(q)) + 1) + 1 = Len(q) + 1
    BY <1>2
  <2> QED
    BY <1>1, <1>3, <2>1
<1>6. ASSUME NEW i \in 1 .. Len(Tail(q)) PROVE Keeps(Tail(q)[i].op, k[i], k[i + 1])
  <2>1. i \in 1 .. Len(Tail(q)) + 1 /\ i + 1 \in 1 .. Len(Tail(q)) + 1
    BY <1>2
  <2>2. k[i] = h[i + 1] /\ k[i + 1] = h[(i + 1) + 1] /\ i + 1 \in 1 .. Len(q) /\ Tail(q)[i] = q[i + 1]
    BY <1>2, <1>3, <2>1
  <2> QED
    BY <1>1, <2>2
<1>7. Runs(Tail(q), h[2], c)
  BY <1>4, <1>5, <1>6 DEF Runs
<1>8. Keeps(Head(q).op, a, h[2])
  <2>1. 1 \in 1 .. Len(q) /\ 1 + 1 = 2
    BY <1>2
  <2> QED
    BY <1>1, <1>2, <2>1
<1> QED
  BY <1>5, <1>7, <1>8

(* The steps of messages leave the interpreter's lock as it is.            *)
LEMMA RunsAlike ==
    ASSUME NEW q \in Seq(Steps), NEW a \in BOOLEAN, \A i \in 1 .. Len(q) : q[i].op = "deliver"
    PROVE  Runs(q, a, a)
<1> DEFINE h == [i \in 1 .. Len(q) + 1 |-> a]
<1>1. Len(q) \in Nat
  OBVIOUS
<1>2. h \in [1 .. Len(q) + 1 -> BOOLEAN] /\ \A i \in 1 .. Len(q) + 1 : h[i] = a
  OBVIOUS
<1> HIDE DEF h
<1>3. 1 \in 1 .. Len(q) + 1 /\ Len(q) + 1 \in 1 .. Len(q) + 1
      /\ \A i \in 1 .. Len(q) : i \in 1 .. Len(q) + 1 /\ i + 1 \in 1 .. Len(q) + 1
  BY <1>1
<1>4. \A i \in 1 .. Len(q) : Keeps(q[i].op, h[i], h[i + 1])
  BY <1>2, <1>3 DEF Keeps
<1> QED
  BY <1>2, <1>3, <1>4 DEF Runs

-----------------------------------------------------------------------------
(* The calls of local clients.                                             *)

\* Whatever makes an update is followed by a poll.
Followed(q) ==
    \A i \in 1 .. Len(q) : q[i].op = "updates" => \E j \in 1 .. Len(q) : i < j /\ q[j].op \in {"poll", "onPoll"}

\* Steps of a local client, which touch no session.
Quiet(x) == x.s = Local /\ x.op \in {"take", "drop", "convert", "poll", "onPoll"} \union Effects

Block(q, a, b) ==
    /\ q \in Seq(Steps) /\ Runs(q, a, b) /\ Followed(q)
    /\ \A i \in 1 .. Len(q) : Quiet(q[i])

LEMMA FollowedBoth ==
    ASSUME NEW p \in Seq(Steps), NEW q \in Seq(Steps), Followed(p), Followed(q)
    PROVE  Followed(p \o q)
<1>1. Len(p) \in Nat /\ Len(q) \in Nat
  OBVIOUS
<1> SUFFICES ASSUME NEW i \in 1 .. Len(p \o q), (p \o q)[i].op = "updates"
             PROVE  \E j \in 1 .. Len(p \o q) : i < j /\ (p \o q)[j].op \in {"poll", "onPoll"}
  BY DEF Followed
<1>2. CASE i \in 1 .. Len(p)
  <2>1. p[i].op = "updates"
    BY <1>2, Joined
  <2>2. PICK j \in 1 .. Len(p) : i < j /\ p[j].op \in {"poll", "onPoll"}
    BY <1>2, <2>1 DEF Followed
  <2> QED
    BY <2>2, Joined
<1>3. CASE i - Len(p) \in 1 .. Len(q) /\ i = (i - Len(p)) + Len(p)
  <2> DEFINE m == i - Len(p)
  <2>1. m \in 1 .. Len(q) /\ i = m + Len(p) /\ m \in Int
    BY <1>1, <1>3
  <2> HIDE DEF m
  <2>2. q[m].op = "updates"
    BY <2>1, Joined
  <2>3. PICK j \in 1 .. Len(q) : m < j /\ q[j].op \in {"poll", "onPoll"}
    BY <2>1, <2>2 DEF Followed
  <2>4. j + Len(p) \in 1 .. Len(p \o q) /\ (p \o q)[j + Len(p)] = q[j]
    BY Joined
  <2>5. i < j + Len(p)
    BY <1>1, <2>1, <2>3
  <2> QED
    BY <2>3, <2>4, <2>5
<1> QED
  BY <1>2, <1>3, Joined

LEMMA FollowedRest ==
    ASSUME NEW q \in Seq(Steps), q # <<>>, Followed(q)
    PROVE  Followed(Tail(q))
<1> SUFFICES ASSUME NEW i \in 1 .. Len(Tail(q)), Tail(q)[i].op = "updates"
             PROVE  \E j \in 1 .. Len(Tail(q)) : i < j /\ Tail(q)[j].op \in {"poll", "onPoll"}
  BY DEF Followed
<1>1. i + 1 \in 1 .. Len(q) /\ q[i + 1].op = "updates"
  BY Rest
<1>2. PICK j \in 1 .. Len(q) : i + 1 < j /\ q[j].op \in {"poll", "onPoll"}
  BY <1>1 DEF Followed
<1>3. j # 1 /\ i < j - 1
  BY <1>2
<1>4. j - 1 \in 1 .. Len(Tail(q)) /\ (j - 1) + 1 = j
  BY <1>3, Rest
<1>5. Tail(q)[j - 1] = q[j]
  BY <1>4, Rest
<1> QED
  BY <1>2, <1>3, <1>4, <1>5

LEMMA BlockBoth ==
    ASSUME NEW a \in BOOLEAN, NEW b \in BOOLEAN, NEW c \in BOOLEAN,
           NEW p, NEW q, Block(p, a, b), Block(q, b, c)
    PROVE  Block(p \o q, a, c)
<1>1. p \in Seq(Steps) /\ q \in Seq(Steps)
  BY DEF Block
<1>2. Runs(p \o q, a, c)
  BY <1>1, RunsBoth DEF Block
<1>3. Followed(p \o q)
  BY <1>1, FollowedBoth DEF Block
<1>4. ASSUME NEW i \in 1 .. Len(p \o q) PROVE Quiet((p \o q)[i])
  <2>1. CASE i \in 1 .. Len(p)
    BY <1>1, <2>1, Joined DEF Block
  <2>2. CASE i - Len(p) \in 1 .. Len(q) /\ i = (i - Len(p)) + Len(p)
    <3>1. (p \o q)[i] = q[i - Len(p)]
      BY <1>1, <2>2, Joined
    <3> QED
      BY <2>2, <3>1 DEF Block
  <2> QED
    BY <1>1, <2>1, <2>2, Joined
<1>5. p \o q \in Seq(Steps)
  BY <1>1, Joined
<1> QED
  BY <1>2, <1>3, <1>4, <1>5 DEF Block

LEMMA BlockNone == ASSUME NEW a \in BOOLEAN PROVE Block(<<>>, a, a)
<1>1. <<>> \in Seq(Steps) /\ Len(<<>>) = 0 /\ 1 .. 0 = {}
  OBVIOUS
<1> QED
  BY <1>1, RunsNone DEF Block, Followed

LEMMA BlockOne ==
    ASSUME NEW x \in Steps, Quiet(x), x.op # "updates",
           NEW a \in BOOLEAN, NEW b \in BOOLEAN, Keeps(x.op, a, b)
    PROVE  Block(<<x>>, a, b)
<1>1. <<x>> \in Seq(Steps) /\ \A i \in 1 .. Len(<<x>>) : <<x>>[i] = x
  OBVIOUS
<1>2. Runs(<<x>>, a, b)
  BY RunsOne
<1> QED
  BY <1>1, <1>2 DEF Block, Followed

\* The steps of local calls.
LEMMA LocalSteps ==
    /\ Take \in Steps /\ Quiet(Take) /\ Take.op = "take"
    /\ Drop \in Steps /\ Quiet(Drop) /\ Drop.op = "drop"
    /\ \A op \in {"take", "drop", "convert", "poll", "onPoll"} \union Effects :
          Step(op, Local, 0) \in Steps /\ Quiet(Step(op, Local, 0)) /\ Step(op, Local, 0).op = op
BY DEF Take, Drop, Step, Steps, Quiet, Ops, Effects, PySessions

LEMMA TakeBlock == Block(<<Take>>, FALSE, TRUE)
BY LocalSteps, BlockOne DEF Keeps

LEMMA DropBlock == Block(<<Drop>>, TRUE, FALSE)
BY LocalSteps, BlockOne DEF Keeps

LEMMA ConvertBlock == ASSUME NEW a \in BOOLEAN PROVE Block(Convert, a, a)
BY LocalSteps, BlockOne DEF Keeps, Convert

(* A request to the engine, with its poll, in any state of the lock.       *)
LEMMA RequestRuns ==
    ASSUME NEW s \in PySessions, NEW effect \in Effects, NEW a \in BOOLEAN
    PROVE  /\ LocalRequest(s, effect) \in Seq(Steps) /\ Len(LocalRequest(s, effect)) = 2
           /\ LocalRequest(s, effect)[1] = Step(effect, s, 0)
           /\ LocalRequest(s, effect)[2].s = s /\ LocalRequest(s, effect)[2].op \in {"poll", "onPoll"}
           /\ Runs(LocalRequest(s, effect), a, a) /\ Followed(LocalRequest(s, effect))
<1> DEFINE x == Step(effect, s, 0)
           y == Step(IF onPoll THEN "onPoll" ELSE "poll", s, 0)
<1>1. LocalRequest(s, effect) = <<x, y>> /\ <<x, y>> = <<x>> \o <<y>>
  BY DEF LocalRequest
<1>2. x \in Steps /\ y \in Steps /\ x.op = effect /\ y.op \in {"poll", "onPoll"} /\ y.s = s
  BY DEF Step, Steps, Ops, Effects
<1>3. Keeps(x.op, a, a) /\ Keeps(y.op, a, a)
  BY <1>2 DEF Keeps, Effects
<1> HIDE DEF y
<1>4. Runs(<<x>>, a, a) /\ Runs(<<y>>, a, a)
  BY <1>2, <1>3, RunsOne
<1>5. Runs(<<x, y>>, a, a)
  <2>1. <<x>> \in Seq(Steps) /\ <<y>> \in Seq(Steps)
    BY <1>2
  <2> QED
    BY <1>1, <1>4, <2>1, RunsBoth
<1>6. <<x, y>> \in Seq(Steps) /\ Len(<<x, y>>) = 2 /\ <<x, y>>[1] = x /\ <<x, y>>[2] = y /\ 1 .. 2 = {1, 2}
  BY <1>2
<1>7. Followed(<<x, y>>)
  <2>1. \A i \in 1 .. 2 : <<x, y>>[i].op = "updates" => i < 2
    BY <1>2, <1>6
  <2>2. 2 \in 1 .. 2
    OBVIOUS
  <2> QED
    BY <1>2, <1>6, <2>1, <2>2 DEF Followed
<1> QED
  BY <1>1, <1>2, <1>5, <1>6, <1>7

LEMMA LocalRequestBlock ==
    ASSUME NEW effect \in Effects, NEW a \in BOOLEAN
    PROVE  Block(LocalRequest(Local, effect), a, a)
<1> DEFINE q == LocalRequest(Local, effect)
<1>1. Local \in PySessions
  BY DEF PySessions
<1>2. q \in Seq(Steps) /\ Len(q) = 2 /\ q[1] = Step(effect, Local, 0) /\ q[2].s = Local
      /\ q[2].op \in {"poll", "onPoll"} /\ Runs(q, a, a) /\ Followed(q)
  BY <1>1, RequestRuns
<1> HIDE DEF q
<1>3. Quiet(q[1]) /\ Quiet(q[2]) /\ 1 .. 2 = {1, 2}
  <2>1. effect \in {"take", "drop", "convert", "poll", "onPoll"} \union Effects
    OBVIOUS
  <2>2. Quiet(q[1])
    BY <1>2, <2>1, LocalSteps
  <2>3. Quiet(q[2])
    BY <1>2 DEF Quiet
  <2> QED
    BY <2>2, <2>3
<1>4. Block(q, a, a)
  BY <1>2, <1>3 DEF Block
<1> QED
  BY <1>4 DEF q

Methods == [takes : BOOLEAN, effect : Effects, gives : BOOLEAN, allows : BOOLEAN]

(* A method leaves the lock as it found it.                                *)
LEMMA BodyBlock ==
    ASSUME NEW m \in Methods, NEW held \in BOOLEAN
    PROVE  Block(Body(m, held), held, held)
<1> DEFINE request == LocalRequest(Local, m.effect)
           first == IF m.takes THEN Convert ELSE <<>>
           second == IF ~m.allows THEN request
                     ELSE IF held THEN <<Drop>> \o request \o <<Take>> ELSE Convert \o request \o Convert
           third == IF m.gives THEN Convert ELSE <<>>
<1>1. Body(m, held) = first \o second \o third
  BY DEF Body
<1>2. Block(first, held, held) /\ Block(third, held, held)
  BY ConvertBlock, BlockNone
<1>3. Block(request, held, held) /\ Block(request, FALSE, FALSE)
  BY LocalRequestBlock DEF Methods
<1> HIDE DEF request
<1>4. Block(second, held, held)
  <2>1. CASE ~m.allows
    BY <1>3, <2>1
  <2>2. CASE m.allows /\ held
    <3>1. Block(<<Drop>> \o request, TRUE, FALSE)
      BY <1>3, DropBlock, BlockBoth
    <3>2. Block((<<Drop>> \o request) \o <<Take>>, TRUE, TRUE)
      BY <3>1, TakeBlock, BlockBoth
    <3> QED
      BY <2>2, <3>2
  <2>3. CASE m.allows /\ ~held
    <3>1. Block(Convert \o request, held, held)
      BY <1>3, ConvertBlock, BlockBoth
    <3>2. Block((Convert \o request) \o Convert, held, held)
      BY <3>1, ConvertBlock, BlockBoth
    <3> QED
      BY <2>3, <3>2
  <2> QED
    BY <2>1, <2>2, <2>3
<1> HIDE DEF first, second, third
<1>5. Block(first \o second, held, held)
  BY <1>2, <1>4, BlockBoth
<1>6. Block((first \o second) \o third, held, held)
  BY <1>2, <1>5, BlockBoth
<1> QED
  BY <1>1, <1>6

LEMMA BlockOnBlock == ASSUME NEW m \in Methods PROVE Block(BlockOn(m), TRUE, TRUE)
<1>1. Block(Body(m, FALSE), FALSE, FALSE)
  BY BodyBlock
<1>2. Block(<<Drop>> \o Body(m, FALSE), TRUE, FALSE)
  BY <1>1, DropBlock, BlockBoth
<1>3. Block((<<Drop>> \o Body(m, FALSE)) \o <<Take>>, TRUE, TRUE)
  BY <1>2, TakeBlock, BlockBoth
<1> QED
  BY <1>3 DEF BlockOn

LEMMA MethodsAre ==
    /\ AsyncClient \subseteq Methods /\ AsyncTable \subseteq Methods /\ AsyncView \subseteq Methods
    /\ TableCalls \subseteq Methods /\ TableQueries \subseteq Methods /\ TableWriters \subseteq Methods
    /\ TableUpdate \subseteq Methods /\ ViewCalls \subseteq Methods /\ ViewSizes \subseteq Methods
    /\ ViewWatches \subseteq Methods /\ ViewExports \subseteq Methods /\ PyMethod(FALSE, "reads", FALSE) \in Methods
<1>1. \A takes, gives \in BOOLEAN, effect \in Effects : PyMethod(takes, effect, gives) \in Methods
  BY DEF PyMethod, Methods
<1>2. MakeTable \subseteq Methods /\ ClientCalls \subseteq Methods /\ SystemCalls \subseteq Methods
  BY <1>1 DEF MakeTable, ClientCalls, SystemCalls, Effects
<1>3. TableCalls \subseteq Methods /\ TableQueries \subseteq Methods /\ TableWriters \subseteq Methods
  BY <1>1 DEF TableCalls, TableQueries, TableWriters, Effects
<1>4. TableUpdate \subseteq Methods
  BY DEF TableUpdate, PyMethod, Methods, Effects
<1>5. ViewCalls \subseteq Methods /\ ViewSizes \subseteq Methods /\ ViewWatches \subseteq Methods /\ ViewExports \subseteq Methods
  BY <1>1 DEF ViewCalls, ViewSizes, ViewWatches, ViewExports, Effects
<1>6. PyMethod(FALSE, "reads", FALSE) \in Methods
  BY <1>1 DEF Effects
<1> QED
  BY <1>2, <1>3, <1>4, <1>5, <1>6 DEF AsyncClient, AsyncTable, AsyncView

LEMMA LocalCallBlock == ASSUME NEW steps \in LocalCalls PROVE Block(steps, TRUE, TRUE)
<1>1. \E m \in Methods : steps = BlockOn(m) \/ steps = Body(m, TRUE)
  <2>1. CASE \E m \in UNION {AsyncClient, AsyncTable, AsyncView} : steps = Body(m, TRUE)
    BY <2>1, MethodsAre
  <2>2. CASE steps \in SyncClient \union SyncTable \union SyncWriters
    <3>1. \E m \in AsyncClient \union TableCalls \union TableQueries \union TableWriters \union TableUpdate : steps = BlockOn(m)
      BY <2>2 DEF SyncClient, SyncTable, SyncWriters
    <3> QED
      BY <3>1, MethodsAre
  <2>3. CASE steps \in SyncView \union SyncViewCalls
    <3>1. \E m \in ViewExports \union {PyMethod(FALSE, "reads", FALSE)} \union ViewCalls \union ViewSizes \union ViewWatches :
             steps = BlockOn(m)
      BY <2>3 DEF SyncView, SyncViewCalls
    <3> QED
      BY <3>1, MethodsAre
  <2>4. steps \in (UNION {SyncClient, SyncTable, SyncWriters, SyncView, SyncViewCalls})
        \/ steps \in {Body(m, TRUE) : m \in UNION {AsyncClient, AsyncTable, AsyncView}}
    BY DEF LocalCalls
  <2>5. CASE steps \in UNION {SyncClient, SyncTable, SyncWriters, SyncView, SyncViewCalls}
    <3>1. steps \in SyncClient \union SyncTable \union SyncWriters \/ steps \in SyncView \union SyncViewCalls
      BY <2>5
    <3> QED
      BY <2>2, <2>3, <3>1
  <2> QED
    BY <2>1, <2>4, <2>5
<1> QED
  BY <1>1, BlockOnBlock, BodyBlock

-----------------------------------------------------------------------------
(* What the lists hold of the sessions that can be closed.                 *)

\* The steps of a read guard, and those that stand for a request of it that
\* is not answered yet.
IsUnread(x, s) == x.op = "unread" /\ x.s = s
IsOwed(x, s) == x.s = s /\ (x.op \in Effects \/ (x.op \in {"deliver", "callback"} /\ x.n = 0))
HasUnread(q, s) == \E i \in 1 .. Len(q) : IsUnread(q[i], s)
HasOwed(q, s) == \E i \in 1 .. Len(q) : IsOwed(q[i], s)

\* A list has one guard of a session and one request, which ends before it.
MarksOnce(q, s) ==
    /\ \A i, j \in 1 .. Len(q) : IsUnread(q[i], s) /\ IsUnread(q[j], s) => i = j
    /\ \A i, j \in 1 .. Len(q) : IsOwed(q[i], s) /\ IsOwed(q[j], s) => i = j
    /\ \A i \in 1 .. Len(q) : IsOwed(q[i], s) => \E j \in 1 .. Len(q) : i < j /\ IsUnread(q[j], s)

(* Some steps take the place of the first.                                 *)
LEMMA MarksAfter ==
    ASSUME NEW q \in Seq(Steps), q # <<>>, NEW S \in Seq(Steps), NEW s, MarksOnce(q, s),
           ~HasUnread(S, s),
           \A i, j \in 1 .. Len(S) : IsOwed(S[i], s) /\ IsOwed(S[j], s) => i = j,
           HasOwed(S, s) => IsOwed(Head(q), s)
    PROVE  /\ MarksOnce(S \o Tail(q), s)
           /\ HasUnread(S \o Tail(q), s) <=> (HasUnread(q, s) /\ ~IsUnread(Head(q), s))
           /\ HasOwed(S \o Tail(q), s) <=> (HasOwed(S, s) \/ (HasOwed(q, s) /\ ~IsOwed(Head(q), s)))
<1> DEFINE r == S \o Tail(q)
           k == Len(S)
<1>1. Tail(q) \in Seq(Steps)
  BY Rest
<1>2. r \in Seq(Steps) /\ k \in Nat /\ Len(q) \in Nat /\ Len(q) >= 1 /\ Len(r) \in Nat
  BY <1>1, Joined, Rest
<1>3. \A i \in 1 .. k : i \in 1 .. Len(r) /\ r[i] = S[i]
  BY <1>1, Joined
<1>4. ASSUME NEW j \in 1 .. Len(q), j # 1 PROVE j - 1 + k \in 1 .. Len(r) /\ r[j - 1 + k] = q[j]
  <2>1. j - 1 \in 1 .. Len(Tail(q)) /\ (j - 1) + 1 = j
    BY <1>4, Rest
  <2>2. Tail(q)[j - 1] = q[j]
    BY <2>1, Rest
  <2>3. (j - 1) + k \in 1 .. Len(r) /\ r[(j - 1) + k] = Tail(q)[j - 1]
    BY <1>1, <2>1, Joined
  <2> QED
    BY <2>2, <2>3
<1>5. ASSUME NEW i \in 1 .. Len(r), ~(i \in 1 .. k)
      PROVE  i - k + 1 \in 1 .. Len(q) /\ i - k + 1 # 1 /\ r[i] = q[i - k + 1] /\ i - k \in 1 .. Len(Tail(q))
  <2>1. i - k \in 1 .. Len(Tail(q)) /\ i = (i - k) + k
    BY <1>1, <1>5, Joined
  <2>2. r[i] = Tail(q)[i - k]
    BY <1>1, <2>1, Joined
  <2>3. (i - k) + 1 \in 1 .. Len(q) /\ Tail(q)[i - k] = q[(i - k) + 1]
    BY <2>1, Rest
  <2> QED
    BY <1>2, <2>1, <2>2, <2>3
<1>6. Head(q) = q[1] /\ 1 \in 1 .. Len(q)
  BY <1>2, Rest
<1> HIDE DEF r, k
<1>7. \A i \in 1 .. Len(r) : i \in 1 .. k => ~IsUnread(r[i], s)
  BY <1>3 DEF HasUnread, k
<1>8. \A i, j \in 1 .. Len(r) : IsUnread(r[i], s) /\ IsUnread(r[j], s) => i = j
  <2> SUFFICES ASSUME NEW i \in 1 .. Len(r), NEW j \in 1 .. Len(r), IsUnread(r[i], s), IsUnread(r[j], s) PROVE i = j
    OBVIOUS
  <2>1. ~(i \in 1 .. k) /\ ~(j \in 1 .. k)
    BY <1>7
  <2>2. i - k + 1 \in 1 .. Len(q) /\ j - k + 1 \in 1 .. Len(q) /\ IsUnread(q[i - k + 1], s) /\ IsUnread(q[j - k + 1], s)
    BY <1>5, <2>1
  <2>3. i - k + 1 = j - k + 1
    BY <2>2 DEF MarksOnce
  <2> QED
    BY <1>2, <2>3
<1>9. ASSUME NEW i \in 1 .. Len(r), i \in 1 .. k, IsOwed(r[i], s), NEW j \in 1 .. Len(r), IsOwed(r[j], s) PROVE i = j
  <2>1. IsOwed(S[i], s) /\ IsOwed(q[1], s)
    <3>1. IsOwed(S[i], s)
      BY <1>3, <1>9
    <3>2. HasOwed(S, s)
      BY <1>9, <3>1 DEF HasOwed, k
    <3> QED
      BY <1>6, <3>1, <3>2
  <2>2. j \in 1 .. k
    <3> SUFFICES ASSUME ~(j \in 1 .. k) PROVE FALSE
      OBVIOUS
    <3>1. j - k + 1 \in 1 .. Len(q) /\ j - k + 1 # 1 /\ IsOwed(q[j - k + 1], s)
      BY <1>5, <1>9
    <3> QED
      BY <1>6, <2>1, <3>1 DEF MarksOnce
  <2> QED
    BY <1>3, <1>9, <2>1, <2>2 DEF k
<1>10. \A i, j \in 1 .. Len(r) : IsOwed(r[i], s) /\ IsOwed(r[j], s) => i = j
  <2> SUFFICES ASSUME NEW i \in 1 .. Len(r), NEW j \in 1 .. Len(r), IsOwed(r[i], s), IsOwed(r[j], s) PROVE i = j
    OBVIOUS
  <2>1. CASE i \in 1 .. k \/ j \in 1 .. k
    BY <1>9, <2>1
  <2>2. CASE ~(i \in 1 .. k) /\ ~(j \in 1 .. k)
    <3>1. i - k + 1 \in 1 .. Len(q) /\ j - k + 1 \in 1 .. Len(q) /\ IsOwed(q[i - k + 1], s) /\ IsOwed(q[j - k + 1], s)
      BY <1>5, <2>2
    <3>2. i - k + 1 = j - k + 1
      BY <3>1 DEF MarksOnce
    <3> QED
      BY <1>2, <3>2
  <2> QED
    BY <2>1, <2>2
<1>11. ASSUME NEW i \in 1 .. Len(r), IsOwed(r[i], s) PROVE \E j \in 1 .. Len(r) : i < j /\ IsUnread(r[j], s)
  <2>1. CASE i \in 1 .. k
    <3>1. IsOwed(q[1], s)
      BY <1>3, <1>6, <1>11, <2>1 DEF HasOwed, k
    <3>2. PICK j \in 1 .. Len(q) : 1 < j /\ IsUnread(q[j], s)
      BY <1>6, <3>1 DEF MarksOnce
    <3>3. j - 1 + k \in 1 .. Len(r) /\ r[j - 1 + k] = q[j]
      BY <1>4, <3>2
    <3>4. i < j - 1 + k
      BY <1>2, <2>1, <3>2
    <3> QED
      BY <3>2, <3>3, <3>4
  <2>2. CASE ~(i \in 1 .. k)
    <3>1. i - k + 1 \in 1 .. Len(q) /\ i - k + 1 # 1 /\ IsOwed(q[i - k + 1], s)
      BY <1>5, <1>11, <2>2
    <3>2. PICK j \in 1 .. Len(q) : i - k + 1 < j /\ IsUnread(q[j], s)
      BY <3>1 DEF MarksOnce
    <3>3. j # 1 /\ i < j - 1 + k
      BY <1>2, <3>1, <3>2
    <3>4. j - 1 + k \in 1 .. Len(r) /\ r[j - 1 + k] = q[j]
      BY <1>4, <3>3
    <3> QED
      BY <3>2, <3>3, <3>4
  <2> QED
    BY <2>1, <2>2
<1>12. HasUnread(r, s) <=> (HasUnread(q, s) /\ ~IsUnread(Head(q), s))
  <2>1. ASSUME HasUnread(r, s) PROVE HasUnread(q, s) /\ ~IsUnread(q[1], s)
    <3>1. PICK i \in 1 .. Len(r) : IsUnread(r[i], s)
      BY <2>1 DEF HasUnread
    <3>2. i - k + 1 \in 1 .. Len(q) /\ i - k + 1 # 1 /\ IsUnread(q[i - k + 1], s)
      BY <1>5, <1>7, <3>1
    <3> QED
      BY <1>6, <3>2 DEF HasUnread, MarksOnce
  <2>2. ASSUME HasUnread(q, s), ~IsUnread(q[1], s) PROVE HasUnread(r, s)
    <3>1. PICK j \in 1 .. Len(q) : IsUnread(q[j], s)
      BY <2>2 DEF HasUnread
    <3>2. j - 1 + k \in 1 .. Len(r) /\ r[j - 1 + k] = q[j]
      BY <1>4, <2>2, <3>1
    <3> QED
      BY <3>1, <3>2 DEF HasUnread
  <2> QED
    BY <1>6, <2>1, <2>2
<1>13. HasOwed(r, s) <=> (HasOwed(S, s) \/ (HasOwed(q, s) /\ ~IsOwed(Head(q), s)))
  <2>1. ASSUME HasOwed(r, s), ~HasOwed(S, s) PROVE HasOwed(q, s) /\ ~IsOwed(q[1], s)
    <3>1. PICK i \in 1 .. Len(r) : IsOwed(r[i], s)
      BY <2>1 DEF HasOwed
    <3>2. ~(i \in 1 .. k)
      BY <1>3, <2>1, <3>1 DEF HasOwed, k
    <3>3. i - k + 1 \in 1 .. Len(q) /\ i - k + 1 # 1 /\ IsOwed(q[i - k + 1], s)
      BY <1>5, <3>1, <3>2
    <3> QED
      BY <1>6, <3>3 DEF HasOwed, MarksOnce
  <2>2. ASSUME HasOwed(S, s) PROVE HasOwed(r, s)
    BY <1>3, <2>2 DEF HasOwed, k
  <2>3. ASSUME HasOwed(q, s), ~IsOwed(q[1], s) PROVE HasOwed(r, s)
    <3>1. PICK j \in 1 .. Len(q) : IsOwed(q[j], s)
      BY <2>3 DEF HasOwed
    <3>2. j - 1 + k \in 1 .. Len(r) /\ r[j - 1 + k] = q[j]
      BY <1>4, <2>3, <3>1
    <3> QED
      BY <3>1, <3>2 DEF HasOwed
  <2> QED
    BY <1>6, <2>1, <2>2, <2>3
<1>14. MarksOnce(r, s)
  BY <1>8, <1>10, <1>11 DEF MarksOnce
<1> QED
  BY <1>12, <1>13, <1>14 DEF r

\* Nothing of a list waits for a session that can be closed.
Clear(q, c) ==
    \A i \in 1 .. Len(q) : q[i].op \notin {"write", "takeOption"} /\ ~(q[i].op = "read" /\ q[i].s \in c)

\* What a thread that makes such a call has still to do.
Closings(s) ==
    {<<Drop, Step("write", s, 0), Step("takeOption", s, 0), Take, Drop>>,
     <<Step("write", s, 0), Step("takeOption", s, 0), Take, Drop>>,
     <<Step("takeOption", s, 0), Take, Drop>>}
Reading(s, effect) == [op |-> "read", s |-> s, n |-> effect]
Readings(s, effect) ==
    {<<Drop, Reading(s, effect), Take, Drop>>, <<Reading(s, effect), Take, Drop>>}

\* Only a thread that has just begun a call waits for such a session.
CallsFirst(q, c) ==
    \/ Clear(q, c)
    \/ \E s \in c : q \in Closings(s)
    \/ \E s \in c, effect \in Effects : q \in Readings(s, effect)

LEMMA ClearBoth ==
    ASSUME NEW c, NEW p \in Seq(Steps), NEW q \in Seq(Steps), Clear(p, c), Clear(q, c)
    PROVE  Clear(p \o q, c)
<1> SUFFICES ASSUME NEW i \in 1 .. Len(p \o q)
             PROVE  (p \o q)[i].op \notin {"write", "takeOption"} /\ ~((p \o q)[i].op = "read" /\ (p \o q)[i].s \in c)
  BY DEF Clear
<1>1. CASE i \in 1 .. Len(p)
  <2>1. (p \o q)[i] = p[i]
    BY <1>1, Joined
  <2> QED
    BY <1>1, <2>1 DEF Clear
<1>2. CASE i - Len(p) \in 1 .. Len(q) /\ i = (i - Len(p)) + Len(p)
  <2>1. (p \o q)[i] = q[i - Len(p)]
    BY <1>2, Joined
  <2> QED
    BY <1>2, <2>1 DEF Clear
<1> QED
  BY <1>1, <1>2, Joined

LEMMA ClearRest == ASSUME NEW c, NEW q \in Seq(Steps), q # <<>>, Clear(q, c) PROVE Clear(Tail(q), c)
BY Rest DEF Clear

LEMMA ClearEnds == ASSUME NEW c PROVE Clear(<<Take, Drop>>, c) /\ Clear(<<Drop>>, c) /\ Clear(<<>>, c)
<1>1. \A i \in 1 .. 2 : i = 1 \/ i = 2
  OBVIOUS
<1>2. \A i \in 1 .. 1 : i = 1
  OBVIOUS
<1> QED
  BY <1>1, <1>2 DEF Clear, Take, Drop, Step

LEMMA CallsFirstRest ==
    ASSUME NEW c, NEW q \in Seq(Steps), q # <<>>, CallsFirst(q, c)
    PROVE  CallsFirst(Tail(q), c) /\ (Head(q).op \notin {"drop", "write"} => Clear(Tail(q), c))
<1>1. CASE Clear(q, c)
  BY <1>1, ClearRest DEF CallsFirst
<1>2. ASSUME NEW s \in c, q \in Closings(s)
      PROVE  CallsFirst(Tail(q), c) /\ (Head(q).op \notin {"drop", "write"} => Clear(Tail(q), c))
  <2> DEFINE w == Step("write", s, 0)
             o == Step("takeOption", s, 0)
  <2>1. CASE q = <<Drop, w, o, Take, Drop>>
    <3>1. Tail(q) = <<w, o, Take, Drop>> /\ Head(q).op = "drop"
      BY <2>1 DEF Drop, Step
    <3> QED
      BY <3>1 DEF CallsFirst, Closings
  <2>2. CASE q = <<w, o, Take, Drop>>
    <3>1. Tail(q) = <<o, Take, Drop>> /\ Head(q).op = "write"
      BY <2>2 DEF Step
    <3> QED
      BY <3>1 DEF CallsFirst, Closings
  <2>3. CASE q = <<o, Take, Drop>>
    <3>1. Tail(q) = <<Take, Drop>>
      BY <2>3
    <3> QED
      BY <3>1, ClearEnds DEF CallsFirst
  <2> QED
    BY <1>2, <2>1, <2>2, <2>3 DEF Closings
<1>3. ASSUME NEW s \in c, NEW effect \in Effects, q \in Readings(s, effect)
      PROVE  CallsFirst(Tail(q), c) /\ (Head(q).op \notin {"drop", "write"} => Clear(Tail(q), c))
  <2> DEFINE r == Reading(s, effect)
  <2>1. CASE q = <<Drop, r, Take, Drop>>
    <3>1. Tail(q) = <<r, Take, Drop>> /\ Head(q).op = "drop"
      BY <2>1 DEF Drop, Step
    <3> QED
      BY <3>1 DEF CallsFirst, Readings
  <2>2. CASE q = <<r, Take, Drop>>
    <3>1. Tail(q) = <<Take, Drop>>
      BY <2>2
    <3> QED
      BY <3>1, ClearEnds DEF CallsFirst
  <2> QED
    BY <1>3, <2>1, <2>2 DEF Readings
<1> QED
  BY <1>1, <1>2, <1>3 DEF CallsFirst

(* Such a thread holds no guard and owes no answer.                        *)
LEMMA CallsFirstMarks ==
    ASSUME NEW c, NEW q \in Seq(Steps), CallsFirst(q, c), ~Clear(q, c), NEW s
    PROVE  ~HasUnread(q, s) /\ ~HasOwed(q, s)
<1>1. ASSUME NEW x \in c, q \in Closings(x) PROVE \A i \in 1 .. Len(q) : q[i].op \in {"drop", "take", "write", "takeOption"}
  <2> DEFINE w == Step("write", x, 0)
             o == Step("takeOption", x, 0)
  <2>1. Drop.op = "drop" /\ Take.op = "take" /\ w.op = "write" /\ o.op = "takeOption"
    BY DEF Drop, Take, Step
  <2> HIDE DEF w, o
  <2>2. CASE q = <<Drop, w, o, Take, Drop>>
    <3>1. Len(q) = 5 /\ \A i \in 1 .. 5 : i \in {1, 2, 3, 4, 5}
      BY <2>2
    <3> QED
      BY <2>1, <2>2, <3>1
  <2>3. CASE q = <<w, o, Take, Drop>>
    <3>1. Len(q) = 4 /\ \A i \in 1 .. 4 : i \in {1, 2, 3, 4}
      BY <2>3
    <3> QED
      BY <2>1, <2>3, <3>1
  <2>4. CASE q = <<o, Take, Drop>>
    <3>1. Len(q) = 3 /\ \A i \in 1 .. 3 : i \in {1, 2, 3}
      BY <2>4
    <3> QED
      BY <2>1, <2>4, <3>1
  <2> QED
    BY <1>1, <2>2, <2>3, <2>4 DEF Closings, w, o
<1>2. ASSUME NEW x \in c, NEW effect \in Effects, q \in Readings(x, effect)
      PROVE  \A i \in 1 .. Len(q) : q[i].op \in {"drop", "take", "read"}
  <2> DEFINE r == Reading(x, effect)
  <2>1. Drop.op = "drop" /\ Take.op = "take" /\ r.op = "read"
    BY DEF Drop, Take, Step, Reading
  <2> HIDE DEF r
  <2>2. CASE q = <<Drop, r, Take, Drop>>
    <3>1. Len(q) = 4 /\ \A i \in 1 .. 4 : i \in {1, 2, 3, 4}
      BY <2>2
    <3> QED
      BY <2>1, <2>2, <3>1
  <2>3. CASE q = <<r, Take, Drop>>
    <3>1. Len(q) = 3 /\ \A i \in 1 .. 3 : i \in {1, 2, 3}
      BY <2>3
    <3> QED
      BY <2>1, <2>3, <3>1
  <2> QED
    BY <1>2, <2>2, <2>3 DEF Readings, r
<1>3. \A i \in 1 .. Len(q) : q[i].op \in {"drop", "take", "read", "write", "takeOption"}
  BY <1>1, <1>2 DEF CallsFirst
<1> QED
  BY <1>3 DEF HasUnread, HasOwed, IsUnread, IsOwed, Effects

-----------------------------------------------------------------------------
(* The inductive invariant.                                                *)

\* A step is one that the state of the sessions allows for: v is the last
\* update, c are the sessions that can be closed, a those that are not.
Fits(x, v, c, a) ==
    /\ x.op \in {"deliver", "callback"} => x.n <= v
    /\ x.op = "unread" => x.s \in Remotes
    /\ x.op \in {"write", "takeOption", "closeSession"} => x.s \in c
    /\ x.op = "closeSession" => x.s \notin a

ThreadIsSound(q, held, v, c, a) ==
    /\ \A i \in 1 .. Len(q) : Fits(q[i], v, c, a)
    /\ Runs(q, held, FALSE)
    /\ Followed(q)
    /\ CallsFirst(q, c)
    /\ \A s \in c : MarksOnce(q, s)

Polls(q) == \E i \in 1 .. Len(q) : q[i].op \in {"poll", "onPoll"}
Tells(q, s, v) == \E i \in 1 .. Len(q) : q[i].op \in {"deliver", "callback"} /\ q[i].s = s /\ q[i].n = v

Owing(s) == {t \in Threads : HasOwed(todo[t], s)}

BindingTypes ==
    /\ gil \in Threads \union {NoThread} /\ todo \in [Threads -> Seq(Steps)]
    /\ readers \in [Remotes -> [Threads -> Int]] /\ writer \in [Remotes -> Threads \union {NoThread}]
    /\ alive \subseteq Remotes /\ closable \subseteq Remotes /\ callbacks \subseteq PySessions
    /\ watching \subseteq callbacks /\ version \in Nat /\ dirty \in BOOLEAN /\ pollAsked \in BOOLEAN
    /\ told \in [PySessions -> Nat] /\ answers \in [PySessions -> Int]

ThreadsAreSound == \A t \in Threads : ThreadIsSound(todo[t], gil = t, version, closable, alive)

\* Locks and answers are those that the lists say.
SessionsAgree ==
    /\ Remotes \ closable \subseteq alive /\ alive \subseteq callbacks /\ Local \in callbacks
    /\ \A s \in closable, t \in Threads : readers[s][t] = IF HasUnread(todo[t], s) THEN 1 ELSE 0
    /\ \A s \in closable \ alive, t \in Threads : ~HasUnread(todo[t], s)
    /\ \A s \in Remotes, t \in Threads :
          writer[s] = t => todo[t] # <<>> /\ Head(todo[t]) = Step("takeOption", s, 0)
    /\ \A s \in closable : answers[s] = Cardinality(Owing(s))
    /\ unanswered = {}

\* Rows that wait have a poll to come, and an update that was processed has a
\* message to come for each session that was not told of it.
UpdatesAreOwed ==
    /\ dirty => version > 0 /\ (pollAsked \/ \E t \in Threads : Polls(todo[t]))
    /\ \A s \in PySessions : told[s] <= version
    /\ \A s \in watching : told[s] = version \/ dirty \/ \E t \in Threads : Tells(todo[t], s, version)

BindingsInv == BindingTypes /\ ThreadsAreSound /\ SessionsAgree /\ UpdatesAreOwed

-----------------------------------------------------------------------------
(* A thread takes a step: what becomes of its list, and of the rest.       *)

LEMMA SoundAfter ==
    ASSUME NEW q \in Seq(Steps), q # <<>>, NEW S \in Seq(Steps), NEW held \in BOOLEAN, NEW held2 \in BOOLEAN,
           NEW v \in Nat, NEW v2 \in Nat, v <= v2, NEW c, NEW a, NEW a2, a2 \subseteq a,
           ThreadIsSound(q, held, v, c, a),
           \A i \in 1 .. Len(S) : Fits(S[i], v2, c, a2),
           \A b \in BOOLEAN : Keeps(Head(q).op, held, b) => Runs(S, held2, b),
           Followed(S),
           S = <<>> \/ (Clear(S, c) /\ Head(q).op \notin {"drop", "write"}),
           \A s \in c : MarksOnce(S \o Tail(q), s)
    PROVE  ThreadIsSound(S \o Tail(q), held2, v2, c, a2)
<1>1. Tail(q) \in Seq(Steps)
  BY Rest
<1>2. \A i \in 1 .. Len(Tail(q)) : Fits(Tail(q)[i], v2, c, a2)
  <2> SUFFICES ASSUME NEW i \in 1 .. Len(Tail(q)) PROVE Fits(Tail(q)[i], v2, c, a2)
    OBVIOUS
  <2>1. i + 1 \in 1 .. Len(q) /\ Tail(q)[i] = q[i + 1]
    BY Rest
  <2>2. Fits(q[i + 1], v, c, a) /\ q[i + 1] \in Steps
    BY <2>1 DEF ThreadIsSound
  <2>3. q[i + 1].op \in {"deliver", "callback"} => q[i + 1].n \in Nat
    BY <2>2 DEF Steps, Ops, Effects
  <2>4. q[i + 1].op \in {"deliver", "callback"} => q[i + 1].n <= v2
    BY <2>2, <2>3 DEF Fits
  <2> QED
    BY <2>1, <2>2, <2>4 DEF Fits
<1>3. \A i \in 1 .. Len(S \o Tail(q)) : Fits((S \o Tail(q))[i], v2, c, a2)
  <2> SUFFICES ASSUME NEW i \in 1 .. Len(S \o Tail(q)) PROVE Fits((S \o Tail(q))[i], v2, c, a2)
    OBVIOUS
  <2>1. CASE i \in 1 .. Len(S)
    <3>1. (S \o Tail(q))[i] = S[i]
      BY <1>1, <2>1, Joined
    <3> QED
      BY <2>1, <3>1
  <2>2. CASE i - Len(S) \in 1 .. Len(Tail(q)) /\ i = (i - Len(S)) + Len(S)
    <3>1. (S \o Tail(q))[i] = Tail(q)[i - Len(S)]
      BY <1>1, <2>2, Joined
    <3> QED
      BY <1>2, <2>2, <3>1
  <2> QED
    BY <1>1, <2>1, <2>2, Joined
<1>4. Runs(S \o Tail(q), held2, FALSE)
  <2>1. Runs(q, held, FALSE)
    BY DEF ThreadIsSound
  <2>2. PICK b \in BOOLEAN : Keeps(Head(q).op, held, b) /\ Runs(Tail(q), b, FALSE)
    BY <2>1, RunsRest
  <2>3. Runs(S, held2, b)
    BY <2>2
  <2> QED
    BY <1>1, <2>2, <2>3, RunsBoth
<1>5. Followed(S \o Tail(q))
  <2>1. Followed(Tail(q))
    BY FollowedRest DEF ThreadIsSound
  <2> QED
    BY <1>1, <2>1, FollowedBoth
<1>6. CallsFirst(S \o Tail(q), c)
  <2>1. CallsFirst(Tail(q), c) /\ (Head(q).op \notin {"drop", "write"} => Clear(Tail(q), c))
    BY CallsFirstRest DEF ThreadIsSound
  <2>2. CASE S = <<>>
    <3>1. S \o Tail(q) = Tail(q)
      BY <1>1, <2>2
    <3> QED
      BY <2>1, <3>1
  <2>3. CASE Clear(S, c) /\ Head(q).op \notin {"drop", "write"}
    <3>1. Clear(S \o Tail(q), c)
      BY <1>1, <2>1, <2>3, ClearBoth
    <3> QED
      BY <3>1 DEF CallsFirst
  <2> QED
    BY <2>2, <2>3
<1> QED
  BY <1>3, <1>4, <1>5, <1>6 DEF ThreadIsSound

(* What was said of the other threads still holds.                         *)
LEMMA StillFits ==
    ASSUME NEW q \in Seq(Steps), NEW held, NEW v \in Nat, NEW v2 \in Nat, v <= v2, NEW c, NEW a, NEW a2, a2 \subseteq a,
           ThreadIsSound(q, held, v, c, a)
    PROVE  ThreadIsSound(q, held, v2, c, a2)
<1>1. ASSUME NEW i \in 1 .. Len(q) PROVE Fits(q[i], v2, c, a2)
  <2>1. Fits(q[i], v, c, a) /\ q[i] \in Steps
    BY DEF ThreadIsSound
  <2>2. q[i].op \in {"deliver", "callback"} => q[i].n \in Nat
    BY <2>1 DEF Steps, Ops, Effects
  <2>3. q[i].op \in {"deliver", "callback"} => q[i].n <= v2
    BY <2>1, <2>2 DEF Fits
  <2> QED
    BY <2>1, <2>3 DEF Fits
<1> QED
  BY <1>1 DEF ThreadIsSound

LEMMA ThreadsAfter ==
    ASSUME BindingTypes, ThreadsAreSound, NEW t \in Threads, NEW new \in Seq(Steps),
           todo' = [todo EXCEPT ![t] = new],
           version' \in Nat, version <= version', closable' = closable, alive' \subseteq alive,
           \A u \in Threads \ {t} : (gil' = u) = (gil = u),
           ThreadIsSound(new, gil' = t, version', closable, alive')
    PROVE  /\ todo' \in [Threads -> Seq(Steps)] /\ todo'[t] = new
           /\ \A u \in Threads \ {t} : todo'[u] = todo[u]
           /\ ThreadsAreSound'
<1>1. todo' \in [Threads -> Seq(Steps)] /\ todo'[t] = new /\ \A u \in Threads \ {t} : todo'[u] = todo[u]
  BY DEF BindingTypes
<1>2. ASSUME NEW u \in Threads PROVE ThreadIsSound(todo'[u], gil' = u, version', closable', alive')
  <2>1. CASE u = t
    BY <1>1, <2>1
  <2>2. CASE u # t
    <3>1. ThreadIsSound(todo[u], gil = u, version, closable, alive) /\ todo[u] \in Seq(Steps) /\ version \in Nat
      BY DEF ThreadsAreSound, BindingTypes
    <3>2. ThreadIsSound(todo[u], gil = u, version', closable, alive')
      BY <3>1, StillFits
    <3> QED
      BY <1>1, <2>2, <3>2
  <2> QED
    BY <2>1, <2>2
<1> QED
  BY <1>1, <1>2 DEF ThreadsAreSound

(* The requests that are not answered are counted.                         *)
LEMMA OwingAfter ==
    ASSUME BindingTypes, SessionsAgree, NEW t \in Threads, NEW new \in Seq(Steps),
           todo' = [todo EXCEPT ![t] = new], NEW s \in closable,
           answers'[s] = answers[s] + (IF HasOwed(new, s) THEN 1 ELSE 0) - (IF HasOwed(todo[t], s) THEN 1 ELSE 0)
    PROVE  answers'[s] = Cardinality(Owing(s)')
<1>1. todo' \in [Threads -> Seq(Steps)] /\ todo'[t] = new /\ \A u \in Threads \ {t} : todo'[u] = todo[u]
  BY DEF BindingTypes
<1>2. IsFiniteSet(Owing(s)) /\ Cardinality(Owing(s)) \in Nat
  <2>1. Owing(s) \subseteq Threads
    BY DEF Owing
  <2>2. IsFiniteSet(Owing(s))
    BY <2>1, BindingsAssumption, FS_Subset
  <2> QED
    BY <2>2, FS_CardinalityType
<1>3. answers[s] = Cardinality(Owing(s))
  BY DEF SessionsAgree
<1>4. \A u \in Threads \ {t} : (u \in Owing(s)' <=> u \in Owing(s))
  BY <1>1 DEF Owing
<1>5. (t \in Owing(s)' <=> HasOwed(new, s)) /\ (t \in Owing(s) <=> HasOwed(todo[t], s))
  BY <1>1 DEF Owing
<1>6. Owing(s) \subseteq Threads /\ Owing(s)' \subseteq Threads
  BY DEF Owing
<1>7. CASE HasOwed(new, s) /\ ~HasOwed(todo[t], s)
  <2>1. Owing(s)' = Owing(s) \union {t} /\ t \notin Owing(s)
    BY <1>4, <1>5, <1>6, <1>7
  <2>2. Cardinality(Owing(s) \union {t}) = Cardinality(Owing(s)) + 1
    BY <1>2, <2>1, FS_AddElement
  <2> QED
    BY <1>2, <1>3, <1>7, <2>1, <2>2
<1>8. CASE ~HasOwed(new, s) /\ HasOwed(todo[t], s)
  <2>1. Owing(s)' = Owing(s) \ {t} /\ t \in Owing(s)
    BY <1>4, <1>5, <1>6, <1>8
  <2>2. Cardinality(Owing(s) \ {t}) = Cardinality(Owing(s)) - 1
    BY <1>2, <2>1, FS_RemoveElement
  <2> QED
    BY <1>2, <1>3, <1>8, <2>1, <2>2
<1>9. CASE HasOwed(new, s) <=> HasOwed(todo[t], s)
  <2>0. t \in Owing(s)' <=> t \in Owing(s)
    BY <1>5, <1>9
  <2>1. Owing(s)' = Owing(s)
    <3>1. \A u \in Threads : (u \in Owing(s)' <=> u \in Owing(s))
      BY <1>4, <2>0
    <3>2. \A u : (u \in Owing(s)' <=> u \in Owing(s))
      BY <1>6, <3>1
    <3> QED
      BY <3>2
  <2>2. answers'[s] = answers[s]
    BY <1>2, <1>3, <1>9
  <2> QED
    BY <1>3, <2>1, <2>2
<1> QED
  BY <1>7, <1>8, <1>9

(* Sessions agree after a step of a thread, if what it changes of them is  *)
(* what it changes of its list.                                            *)
LEMMA SessionsAfter ==
    ASSUME BindingTypes, SessionsAgree, NEW t \in Threads, NEW new \in Seq(Steps),
           todo' = [todo EXCEPT ![t] = new],
           UNCHANGED <<writer, alive, callbacks, closable, unanswered>>,
           \A s \in closable : readers'[s][t] = IF HasUnread(new, s) THEN 1 ELSE 0,
           \A s \in closable, u \in Threads \ {t} : readers'[s][u] = readers[s][u],
           \A s \in closable \ alive : ~HasUnread(new, s),
           \A s \in closable :
              answers'[s] = answers[s] + (IF HasOwed(new, s) THEN 1 ELSE 0) - (IF HasOwed(todo[t], s) THEN 1 ELSE 0),
           todo[t] = <<>> \/ Head(todo[t]).op # "takeOption"
    PROVE  SessionsAgree'
<1>1. todo' \in [Threads -> Seq(Steps)] /\ todo'[t] = new /\ \A u \in Threads \ {t} : todo'[u] = todo[u]
  BY DEF BindingTypes
<1>2. \A s \in closable, u \in Threads : readers'[s][u] = IF HasUnread(todo'[u], s) THEN 1 ELSE 0
  BY <1>1 DEF SessionsAgree
<1>3. \A s \in closable \ alive, u \in Threads : ~HasUnread(todo'[u], s)
  BY <1>1 DEF SessionsAgree
<1>4. \A s \in Remotes, u \in Threads : writer'[s] = u => todo'[u] # <<>> /\ Head(todo'[u]) = Step("takeOption", s, 0)
  <2> SUFFICES ASSUME NEW s \in Remotes, NEW u \in Threads, writer[s] = u
               PROVE  todo'[u] # <<>> /\ Head(todo'[u]) = Step("takeOption", s, 0)
    OBVIOUS
  <2>1. todo[u] # <<>> /\ Head(todo[u]) = Step("takeOption", s, 0)
    BY DEF SessionsAgree
  <2>2. u # t
    BY <2>1 DEF Step
  <2> QED
    BY <1>1, <2>1, <2>2
<1>5. \A s \in closable : answers'[s] = Cardinality(Owing(s)')
  BY OwingAfter
<1>6. UNCHANGED <<alive, closable, callbacks, unanswered>>
  OBVIOUS
<1> QED
  BY <1>2, <1>3, <1>4, <1>5, <1>6 DEF SessionsAgree

LEMMA UpdatesAfter ==
    ASSUME BindingTypes, UpdatesAreOwed, NEW t \in Threads, NEW new \in Seq(Steps),
           todo' = [todo EXCEPT ![t] = new],
           version' = version, dirty' = dirty, watching' \subseteq watching, pollAsked => pollAsked',
           \A s \in PySessions : told'[s] <= version /\ (told[s] = version => told'[s] = version),
           dirty /\ Polls(todo[t]) => Polls(new) \/ pollAsked',
           \A s \in watching' : Tells(todo[t], s, version) => Tells(new, s, version) \/ told'[s] = version
    PROVE  UpdatesAreOwed'
<1>1. todo' \in [Threads -> Seq(Steps)] /\ todo'[t] = new /\ \A u \in Threads \ {t} : todo'[u] = todo[u]
  BY DEF BindingTypes
<1>2. dirty' => version' > 0 /\ (pollAsked' \/ \E u \in Threads : Polls(todo'[u]))
  <2> SUFFICES ASSUME dirty PROVE version' > 0 /\ (pollAsked' \/ \E u \in Threads : Polls(todo'[u]))
    OBVIOUS
  <2>1. version > 0 /\ (pollAsked \/ \E u \in Threads : Polls(todo[u]))
    BY DEF UpdatesAreOwed
  <2>2. CASE pollAsked
    BY <2>1, <2>2
  <2>3. ASSUME NEW u \in Threads, Polls(todo[u]) PROVE pollAsked' \/ \E w \in Threads : Polls(todo'[w])
    BY <1>1, <2>3
  <2> QED
    BY <2>1, <2>2, <2>3
<1>3. ASSUME NEW s \in watching' PROVE told'[s] = version' \/ dirty' \/ \E u \in Threads : Tells(todo'[u], s, version')
  <2>0. s \in PySessions
    BY <1>3 DEF BindingTypes
  <2>1. told[s] = version \/ dirty \/ \E u \in Threads : Tells(todo[u], s, version)
    BY <1>3 DEF UpdatesAreOwed
  <2>2. ASSUME NEW u \in Threads, Tells(todo[u], s, version) PROVE Tells(todo'[u], s, version) \/ told'[s] = version
    BY <1>1, <1>3, <2>2
  <2> QED
    BY <2>0, <2>1, <2>2
<1>4. \A s \in PySessions : told'[s] <= version'
  OBVIOUS
<1> QED
  BY <1>2, <1>3, <1>4 DEF UpdatesAreOwed

(* Polls and messages to come are still to come, unless they were first.   *)
LEMMA StillToCome ==
    ASSUME NEW q \in Seq(Steps), q # <<>>, NEW S \in Seq(Steps)
    PROVE  /\ Polls(S) => Polls(S \o Tail(q))
           /\ Polls(q) /\ Head(q).op \notin {"poll", "onPoll"} => Polls(S \o Tail(q))
           /\ \A s, v : Tells(S, s, v) => Tells(S \o Tail(q), s, v)
           /\ \A s, v : Tells(q, s, v) /\ ~(Head(q).op \in {"deliver", "callback"} /\ Head(q).s = s /\ Head(q).n = v)
                          => Tells(S \o Tail(q), s, v)
<1>1. Tail(q) \in Seq(Steps)
  BY Rest
<1>2. \A i \in 1 .. Len(S) : i \in 1 .. Len(S \o Tail(q)) /\ (S \o Tail(q))[i] = S[i]
  BY <1>1, Joined
<1>3. ASSUME NEW j \in 1 .. Len(q), j # 1
      PROVE  (j - 1) + Len(S) \in 1 .. Len(S \o Tail(q)) /\ (S \o Tail(q))[(j - 1) + Len(S)] = q[j]
  <2>1. j - 1 \in 1 .. Len(Tail(q)) /\ (j - 1) + 1 = j
    BY <1>3, Rest
  <2>2. Tail(q)[j - 1] = q[j]
    BY <2>1, Rest
  <2> QED
    BY <1>1, <2>1, <2>2, Joined
<1>4. Head(q) = q[1]
  BY Rest
<1>5. Polls(S) => Polls(S \o Tail(q))
  BY <1>2 DEF Polls
<1>6. Polls(q) /\ Head(q).op \notin {"poll", "onPoll"} => Polls(S \o Tail(q))
  BY <1>3, <1>4 DEF Polls
<1>7. \A s, v : Tells(S, s, v) => Tells(S \o Tail(q), s, v)
  BY <1>2 DEF Tells
<1>8. \A s, v : Tells(q, s, v) /\ ~(Head(q).op \in {"deliver", "callback"} /\ Head(q).s = s /\ Head(q).n = v)
                          => Tells(S \o Tail(q), s, v)
  BY <1>3, <1>4 DEF Tells
<1> QED
  BY <1>5, <1>6, <1>7, <1>8

-----------------------------------------------------------------------------
(* A step of a thread: some steps take the place of the first, and of the  *)
(* sessions what changes is what the first step stands for.                *)
LEMMA ListStep ==
    ASSUME BindingsInv, NEW t \in Threads, todo[t] # <<>>, NEW S \in Seq(Steps), Continue(t, S),
           UNCHANGED <<writer, alive, callbacks, closable, unanswered>>,
           version' \in Nat, version <= version',
           gil' \in Threads \union {NoThread}, \A u \in Threads \ {t} : (gil' = u) = (gil = u),
           \A b \in BOOLEAN : Keeps(Head(todo[t]).op, gil = t, b) => Runs(S, gil' = t, b),
           \A i \in 1 .. Len(S) : Fits(S[i], version', closable, alive),
           Followed(S),
           S = <<>> \/ (Clear(S, closable) /\ Head(todo[t]).op \notin {"drop", "write"}),
           Head(todo[t]).op # "takeOption",
           \A s \in closable : ~HasUnread(S, s) /\ (HasOwed(S, s) => IsOwed(Head(todo[t]), s)),
           \A s \in closable : \A i, j \in 1 .. Len(S) : IsOwed(S[i], s) /\ IsOwed(S[j], s) => i = j,
           \A s \in closable :
              answers'[s] = answers[s] - (IF IsOwed(Head(todo[t]), s) /\ ~HasOwed(S, s) THEN 1 ELSE 0),
           \A s \in closable : readers'[s][t] = readers[s][t] - (IF IsUnread(Head(todo[t]), s) THEN 1 ELSE 0),
           \A s \in closable, u \in Threads \ {t} : readers'[s][u] = readers[s][u]
    PROVE  /\ S \o Tail(todo[t]) \in Seq(Steps) /\ todo' = [todo EXCEPT ![t] = S \o Tail(todo[t])]
           /\ todo' \in [Threads -> Seq(Steps)] /\ ThreadsAreSound' /\ SessionsAgree'
<1> DEFINE q == todo[t]
           new == S \o Tail(q)
<1>1. q \in Seq(Steps) /\ version \in Nat /\ BindingTypes /\ ThreadsAreSound /\ SessionsAgree
  BY DEF BindingsInv, BindingTypes
<1>2. Tail(q) \in Seq(Steps) /\ new \in Seq(Steps)
  BY <1>1, Rest, Joined
<1>3. ThreadIsSound(q, gil = t, version, closable, alive)
  BY <1>1 DEF ThreadsAreSound
<1>4. ASSUME NEW s \in closable
      PROVE  /\ MarksOnce(new, s)
             /\ HasUnread(new, s) <=> (HasUnread(q, s) /\ ~IsUnread(Head(q), s))
             /\ HasOwed(new, s) <=> (HasOwed(S, s) \/ (HasOwed(q, s) /\ ~IsOwed(Head(q), s)))
  <2>1. MarksOnce(q, s) /\ ~HasUnread(S, s) /\ (HasOwed(S, s) => IsOwed(Head(q), s))
    BY <1>3, <1>4 DEF ThreadIsSound
  <2>2. \A i, j \in 1 .. Len(S) : IsOwed(S[i], s) /\ IsOwed(S[j], s) => i = j
    BY <1>4
  <2> QED
    BY <1>1, <2>1, <2>2, MarksAfter
<1>5. todo' = [todo EXCEPT ![t] = new]
  BY DEF Continue
<1>6. \A s : (IsUnread(Head(q), s) => HasUnread(q, s)) /\ (IsOwed(Head(q), s) => HasOwed(q, s))
  <2>1. Head(q) = q[1] /\ 1 \in 1 .. Len(q)
    BY <1>1, Rest
  <2> QED
    BY <2>1 DEF HasUnread, HasOwed
<1> HIDE DEF new
<1>7. ThreadIsSound(new, gil' = t, version', closable, alive)
  <2> DEFINE held == gil = t
             held2 == gil' = t
             v2 == version'
  <2>1. held \in BOOLEAN /\ held2 \in BOOLEAN /\ v2 \in Nat /\ version <= v2 /\ alive \subseteq alive
    BY <1>1
  <2>2. \A s \in closable : MarksOnce(S \o Tail(q), s)
    BY <1>4 DEF new
  <2>3. ThreadIsSound(q, held, version, closable, alive)
    BY <1>3
  <2>4. \A b \in BOOLEAN : Keeps(Head(q).op, held, b) => Runs(S, held2, b)
    OBVIOUS
  <2>5. q # <<>> /\ (S = <<>> \/ (Clear(S, closable) /\ Head(q).op \notin {"drop", "write"}))
    OBVIOUS
  <2>6. \A i \in 1 .. Len(S) : Fits(S[i], v2, closable, alive)
    OBVIOUS
  <2> HIDE DEF held, held2, q, v2
  <2>7. ThreadIsSound(S \o Tail(q), held2, v2, closable, alive)
    BY <1>1, <2>1, <2>2, <2>3, <2>4, <2>5, <2>6, SoundAfter
  <2> QED
    BY <2>7 DEF new, held2, v2
<1>8. todo' \in [Threads -> Seq(Steps)] /\ ThreadsAreSound'
  <2>1. closable' = closable /\ alive' \subseteq alive /\ alive' = alive
    OBVIOUS
  <2>2. ThreadIsSound(new, gil' = t, version', closable, alive')
    BY <1>7, <2>1
  <2> QED
    BY <1>1, <1>2, <1>5, <2>1, <2>2, ThreadsAfter
<1>9. SessionsAgree'
  <2>1. ASSUME NEW s \in closable PROVE readers'[s][t] = IF HasUnread(new, s) THEN 1 ELSE 0
    <3>1. readers[s][t] = (IF HasUnread(q, s) THEN 1 ELSE 0)
      BY <1>1, <2>1 DEF SessionsAgree
    <3>2. readers'[s][t] = readers[s][t] - (IF IsUnread(Head(q), s) THEN 1 ELSE 0)
      BY <2>1
    <3>3. (HasUnread(new, s) <=> (HasUnread(q, s) /\ ~IsUnread(Head(q), s))) /\ (IsUnread(Head(q), s) => HasUnread(q, s))
      BY <1>4, <1>6, <2>1
    <3> QED
      BY <3>1, <3>2, <3>3
  <2>2. \A s \in closable, u \in Threads \ {t} : readers'[s][u] = readers[s][u]
    OBVIOUS
  <2>3. \A s \in closable \ alive : ~HasUnread(new, s)
    BY <1>1, <1>4 DEF SessionsAgree
  <2>4. ASSUME NEW s \in closable
        PROVE  answers'[s] = answers[s] + (IF HasOwed(new, s) THEN 1 ELSE 0) - (IF HasOwed(todo[t], s) THEN 1 ELSE 0)
    <3>1. answers[s] \in Int
      BY <1>1, <2>4 DEF BindingTypes, PySessions
    <3>2. answers'[s] = answers[s] - (IF IsOwed(Head(q), s) /\ ~HasOwed(S, s) THEN 1 ELSE 0)
      BY <2>4
    <3>3. /\ HasOwed(new, s) <=> (HasOwed(S, s) \/ (HasOwed(q, s) /\ ~IsOwed(Head(q), s)))
          /\ (HasOwed(S, s) => IsOwed(Head(q), s)) /\ (IsOwed(Head(q), s) => HasOwed(q, s))
      BY <1>4, <1>6, <2>4
    <3> QED
      BY <3>1, <3>2, <3>3
  <2> QED
    BY <1>1, <1>2, <1>5, <2>1, <2>2, <2>3, <2>4, SessionsAfter
<1> QED
  BY <1>2, <1>5, <1>8, <1>9 DEF new

(* Such a step that makes no update and processes none.                    *)
LEMMA QuietStep ==
    ASSUME BindingsInv, NEW t \in Threads, todo[t] # <<>>, NEW S \in Seq(Steps), Continue(t, S),
           UNCHANGED <<writer, alive, callbacks, watching, closable, unanswered, version, dirty>>,
           readers' \in [Remotes -> [Threads -> Int]], answers' \in [PySessions -> Int], told' \in [PySessions -> Nat],
           \A s \in PySessions : told'[s] <= version /\ (told[s] = version => told'[s] = version),
           pollAsked' \in BOOLEAN, pollAsked => pollAsked',
           gil' \in Threads \union {NoThread}, \A u \in Threads \ {t} : (gil' = u) = (gil = u),
           \A b \in BOOLEAN : Keeps(Head(todo[t]).op, gil = t, b) => Runs(S, gil' = t, b),
           \A i \in 1 .. Len(S) : Fits(S[i], version, closable, alive),
           Followed(S),
           S = <<>> \/ (Clear(S, closable) /\ Head(todo[t]).op \notin {"drop", "write"}),
           Head(todo[t]).op # "takeOption",
           \A s \in closable : ~HasUnread(S, s) /\ (HasOwed(S, s) => IsOwed(Head(todo[t]), s)),
           \A s \in closable : \A i, j \in 1 .. Len(S) : IsOwed(S[i], s) /\ IsOwed(S[j], s) => i = j,
           \A s \in closable :
              answers'[s] = answers[s] - (IF IsOwed(Head(todo[t]), s) /\ ~HasOwed(S, s) THEN 1 ELSE 0),
           \A s \in closable : readers'[s][t] = readers[s][t] - (IF IsUnread(Head(todo[t]), s) THEN 1 ELSE 0),
           \A s \in closable, u \in Threads \ {t} : readers'[s][u] = readers[s][u],
           Head(todo[t]).op \in {"poll", "onPoll"} => Polls(S) \/ pollAsked' \/ ~dirty,
           \A s \in watching : Head(todo[t]).op \in {"deliver", "callback"} /\ Head(todo[t]).s = s /\ Head(todo[t]).n = version
                                 => Tells(S, s, version) \/ told'[s] = version
    PROVE  BindingsInv'
<1> DEFINE q == todo[t]
           new == S \o Tail(q)
<1>1. q \in Seq(Steps) /\ version \in Nat /\ BindingTypes /\ UpdatesAreOwed
  BY DEF BindingsInv, BindingTypes
<1>2. version' \in Nat /\ version <= version' /\ (\A i \in 1 .. Len(S) : Fits(S[i], version', closable, alive))
      /\ UNCHANGED <<writer, alive, callbacks, closable, unanswered>>
  BY <1>1
<1>3. /\ new \in Seq(Steps) /\ todo' = [todo EXCEPT ![t] = new]
      /\ todo' \in [Threads -> Seq(Steps)] /\ ThreadsAreSound' /\ SessionsAgree'
  BY <1>2, ListStep
<1> HIDE DEF new
<1>4. UpdatesAreOwed'
  <2>1. dirty /\ Polls(q) => Polls(new) \/ pollAsked'
    BY <1>1, StillToCome DEF new
  <2>2. \A s \in watching' : Tells(q, s, version) => Tells(new, s, version) \/ told'[s] = version
    BY <1>1, StillToCome DEF new
  <2>3. version' = version /\ dirty' = dirty /\ watching' \subseteq watching
    OBVIOUS
  <2> QED
    BY <1>1, <1>3, <2>1, <2>2, <2>3, UpdatesAfter
<1>5. BindingTypes'
  BY <1>1, <1>3 DEF BindingTypes
<1> QED
  BY <1>3, <1>4, <1>5 DEF BindingsInv

(* What the invariant says of the step that a thread takes.                *)
LEMMA HeadIsSound ==
    ASSUME BindingsInv, NEW t \in Threads, todo[t] # <<>>
    PROVE  /\ todo[t] \in Seq(Steps) /\ Head(todo[t]) \in Steps /\ Head(todo[t]) = todo[t][1] /\ 1 \in 1 .. Len(todo[t])
           /\ Fits(Head(todo[t]), version, closable, alive)
           /\ \E b \in BOOLEAN : Keeps(Head(todo[t]).op, gil = t, b)
           /\ ThreadIsSound(todo[t], gil = t, version, closable, alive)
<1>1. todo[t] \in Seq(Steps) /\ ThreadIsSound(todo[t], gil = t, version, closable, alive)
  BY DEF BindingsInv, BindingTypes, ThreadsAreSound
<1>2. Head(todo[t]) \in Steps /\ Head(todo[t]) = todo[t][1] /\ 1 \in 1 .. Len(todo[t])
  BY <1>1, Rest
<1>3. Fits(Head(todo[t]), version, closable, alive)
  BY <1>1, <1>2 DEF ThreadIsSound
<1>4. \E b \in BOOLEAN : Keeps(Head(todo[t]).op, gil = t, b)
  <2> DEFINE held == gil = t
  <2>1. held \in BOOLEAN /\ Runs(todo[t], held, FALSE)
    BY <1>1 DEF ThreadIsSound
  <2> HIDE DEF held
  <2>2. \E b \in BOOLEAN : Keeps(Head(todo[t]).op, held, b) /\ Runs(Tail(todo[t]), b, FALSE)
    BY <1>1, <2>1, RunsRest
  <2>3. \E b \in BOOLEAN : Keeps(Head(todo[t]).op, held, b)
    BY <2>2
  <2> QED
    BY <2>3 DEF held
<1> QED
  BY <1>1, <1>2, <1>3, <1>4

\* A step that is neither of a session nor of the engine.
Plain(x) == x.op \in {"take", "drop", "convert"}

LEMMA PlainStep ==
    ASSUME BindingsInv, NEW t \in Threads, todo[t] # <<>>, Continue(t, <<>>), Plain(Head(todo[t])),
           UNCHANGED <<readers, writer, alive, engine, pyCalls>>,
           gil' \in Threads \union {NoThread}, \A u \in Threads \ {t} : (gil' = u) = (gil = u),
           \A b \in BOOLEAN : Keeps(Head(todo[t]).op, gil = t, b) => b = (gil' = t)
    PROVE  BindingsInv'
<1>1. <<>> \in Seq(Steps) /\ (\A i \in 1 .. Len(<<>>) : FALSE)
  OBVIOUS
<1>2. UNCHANGED <<writer, alive, callbacks, watching, closable, unanswered, version, dirty>>
      /\ readers' = readers /\ answers' = answers /\ told' = told /\ pollAsked' = pollAsked
  BY DEF engine
<1>3. readers' \in [Remotes -> [Threads -> Int]] /\ answers' \in [PySessions -> Int] /\ told' \in [PySessions -> Nat]
  BY <1>2 DEF BindingsInv, BindingTypes
<1>4. /\ \A s \in closable : answers'[s] = answers[s] - 0
      /\ \A s \in closable, u \in Threads : readers'[s][u] = readers[s][u] - 0
      /\ \A s \in closable, u \in Threads \ {t} : readers'[s][u] = readers[s][u]
  BY <1>2 DEF BindingsInv, BindingTypes, PySessions
<1>5. \A s \in PySessions : told'[s] <= version /\ (told[s] = version => told'[s] = version)
  BY <1>2 DEF BindingsInv, UpdatesAreOwed
<1>6. pollAsked' \in BOOLEAN /\ (pollAsked => pollAsked')
  BY <1>2 DEF BindingsInv, BindingTypes
<1>7. \A b \in BOOLEAN : Keeps(Head(todo[t]).op, gil = t, b) => Runs(<<>>, gil' = t, b)
  BY RunsNone
<1>8. (\A i \in 1 .. Len(<<>>) : Fits(<<>>[i], version, closable, alive)) /\ Followed(<<>>)
  BY <1>1 DEF Followed
<1>9. Head(todo[t]).op \notin {"takeOption", "poll", "onPoll", "deliver", "callback"}
  BY DEF Plain
<1>10. \A s \in closable : ~HasUnread(<<>>, s) /\ ~HasOwed(<<>>, s) /\ ~IsUnread(Head(todo[t]), s) /\ ~IsOwed(Head(todo[t]), s)
  BY <1>1 DEF HasUnread, HasOwed, IsUnread, IsOwed, Plain, Effects
<1>11. \A s \in closable : \A i, j \in 1 .. Len(<<>>) : IsOwed(<<>>[i], s) /\ IsOwed(<<>>[j], s) => i = j
  BY <1>1
<1>12. /\ \A s \in closable :
            answers'[s] = answers[s] - (IF IsOwed(Head(todo[t]), s) /\ ~HasOwed(<<>>, s) THEN 1 ELSE 0)
       /\ \A s \in closable : readers'[s][t] = readers[s][t] - (IF IsUnread(Head(todo[t]), s) THEN 1 ELSE 0)
  BY <1>4, <1>10
<1> QED
  BY <1>1, <1>2, <1>3, <1>4, <1>5, <1>6, <1>7, <1>8, <1>9, <1>10, <1>11, <1>12, QuietStep

LEMMA TakeGilSound == ASSUME BindingsInv, NEW t \in Threads, TakeGil(t) PROVE BindingsInv'
<1>1. todo[t] # <<>> /\ Head(todo[t]).op = "take" /\ gil = NoThread /\ gil' = t /\ Continue(t, <<>>)
      /\ UNCHANGED <<readers, writer, alive, engine, pyCalls>>
  BY DEF TakeGil, At1, Head1
<1>2. \A u \in Threads \ {t} : (gil' = u) = (gil = u)
  BY <1>1, BindingsAssumption
<1>3. \A b \in BOOLEAN : Keeps(Head(todo[t]).op, gil = t, b) => b = (gil' = t)
  BY <1>1 DEF Keeps
<1> QED
  BY <1>1, <1>2, <1>3, PlainStep DEF Plain

LEMMA DropGilSound == ASSUME BindingsInv, NEW t \in Threads, DropGil(t) PROVE BindingsInv'
<1>1. todo[t] # <<>> /\ Head(todo[t]).op = "drop" /\ gil' = NoThread /\ Continue(t, <<>>)
      /\ UNCHANGED <<readers, writer, alive, engine, pyCalls>>
  BY DEF DropGil, At1, Head1
<1>2. gil = t
  BY <1>1, HeadIsSound DEF Keeps
<1>3. \A u \in Threads \ {t} : (gil' = u) = (gil = u)
  BY <1>1, <1>2, BindingsAssumption
<1>4. \A b \in BOOLEAN : Keeps(Head(todo[t]).op, gil = t, b) => b = (gil' = t)
  BY <1>1, BindingsAssumption DEF Keeps
<1> QED
  BY <1>1, <1>3, <1>4, PlainStep DEF Plain

LEMMA ConvertGilSound == ASSUME BindingsInv, NEW t \in Threads, ConvertGil(t) PROVE BindingsInv'
<1>1. todo[t] # <<>> /\ Head(todo[t]).op = "convert" /\ gil' = gil /\ Continue(t, <<>>)
      /\ UNCHANGED <<readers, writer, alive, engine, pyCalls>>
  BY DEF ConvertGil, At1, Head1, locks
<1>2. gil' \in Threads \union {NoThread} /\ \A u \in Threads \ {t} : (gil' = u) = (gil = u)
  BY <1>1 DEF BindingsInv, BindingTypes
<1>3. \A b \in BOOLEAN : Keeps(Head(todo[t]).op, gil = t, b) => b = (gil' = t)
  BY <1>1 DEF Keeps
<1> QED
  BY <1>1, <1>2, <1>3, PlainStep DEF Plain

-----------------------------------------------------------------------------
(* Steps that leave the locks alone.                                       *)

LEMMA OneStep ==
    ASSUME NEW x \in Steps
    PROVE  /\ <<x>> \in Seq(Steps) /\ Len(<<x>>) = 1 /\ <<x>>[1] = x
           /\ \A i \in 1 .. Len(<<x>>) : i = 1 /\ <<x>>[i] = x
OBVIOUS

LEMMA ThreeSteps ==
    ASSUME NEW x \in Steps, NEW y \in Steps, NEW z \in Steps
    PROVE  /\ <<x, y, z>> \in Seq(Steps) /\ Len(<<x, y, z>>) = 3 /\ 2 \in 1 .. Len(<<x, y, z>>) /\ <<x, y, z>>[2] = y
           /\ \A i \in 1 .. Len(<<x, y, z>>) :
                 (i = 1 /\ <<x, y, z>>[i] = x) \/ (i = 2 /\ <<x, y, z>>[i] = y) \/ (i = 3 /\ <<x, y, z>>[i] = z)
OBVIOUS

LEMMA RunsThree ==
    ASSUME NEW x \in Steps, NEW y \in Steps, NEW z \in Steps,
           NEW a \in BOOLEAN, NEW b \in BOOLEAN, NEW c \in BOOLEAN, NEW d \in BOOLEAN,
           Keeps(x.op, a, b), Keeps(y.op, b, c), Keeps(z.op, c, d)
    PROVE  Runs(<<x, y, z>>, a, d)
<1> DEFINE h == [i \in 1 .. 4 |-> IF i = 1 THEN a ELSE IF i = 2 THEN b ELSE IF i = 3 THEN c ELSE d]
           q == <<x, y, z>>
<1>1. Len(q) = 3 /\ q[1] = x /\ q[2] = y /\ q[3] = z
  OBVIOUS
<1>2. h \in [1 .. 4 -> BOOLEAN] /\ h[1] = a /\ h[2] = b /\ h[3] = c /\ h[4] = d
  OBVIOUS
<1> HIDE DEF h, q
<1>3. h \in [1 .. Len(q) + 1 -> BOOLEAN] /\ h[Len(q) + 1] = d
  BY <1>1, <1>2
<1>4. \A i \in 1 .. Len(q) : Keeps(q[i].op, h[i], h[i + 1])
  <2>1. \A i \in 1 .. Len(q) : i = 1 \/ i = 2 \/ i = 3
    BY <1>1
  <2>2. 1 + 1 = 2 /\ 2 + 1 = 3 /\ 3 + 1 = 4
    OBVIOUS
  <2> QED
    BY <1>1, <1>2, <2>1, <2>2
<1>5. Runs(q, a, d)
  BY <1>2, <1>3, <1>4 DEF Runs
<1> QED
  BY <1>5 DEF q

(* A request of a session that can be closed, and is not answered: the     *)
(* session is not closed, for its guard is held.                           *)
LEMMA OwedIsAlive ==
    ASSUME BindingsInv, NEW t \in Threads, todo[t] # <<>>, NEW s \in closable, IsOwed(Head(todo[t]), s)
    PROVE  s \in alive
<1>1. HasUnread(todo[t], s)
  <2>1. MarksOnce(todo[t], s) /\ Head(todo[t]) = todo[t][1] /\ 1 \in 1 .. Len(todo[t])
    BY HeadIsSound DEF ThreadIsSound
  <2>2. IsOwed(todo[t][1], s)
    BY <2>1
  <2> QED
    BY <2>1, <2>2 DEF MarksOnce, HasUnread
<1> QED
  BY <1>1 DEF BindingsInv, SessionsAgree

LEMMA KeptStep ==
    ASSUME BindingsInv, NEW t \in Threads, todo[t] # <<>>, NEW S \in Seq(Steps), Continue(t, S),
           UNCHANGED <<locks, onPoll, closable, callbacks, watching, version, dirty, unanswered>>,
           Head(todo[t]).op \in {"onPoll", "deliver", "callback"},
           answers' \in [PySessions -> Int], told' \in [PySessions -> Nat],
           \A s \in PySessions : told'[s] <= version /\ (told[s] = version => told'[s] = version),
           pollAsked' \in BOOLEAN, pollAsked => pollAsked',
           \A b \in BOOLEAN : Keeps(Head(todo[t]).op, gil = t, b) => Runs(S, gil = t, b),
           \A i \in 1 .. Len(S) : Fits(S[i], version, closable, alive),
           Followed(S), Clear(S, closable),
           \A s \in closable : ~HasUnread(S, s) /\ (HasOwed(S, s) => IsOwed(Head(todo[t]), s)),
           \A s \in closable : \A i, j \in 1 .. Len(S) : IsOwed(S[i], s) /\ IsOwed(S[j], s) => i = j,
           \A s \in closable :
              answers'[s] = answers[s] - (IF IsOwed(Head(todo[t]), s) /\ ~HasOwed(S, s) THEN 1 ELSE 0),
           Head(todo[t]).op = "onPoll" => Polls(S) \/ pollAsked',
           \A s \in watching : Head(todo[t]).s = s /\ Head(todo[t]).n = version
                                 => Head(todo[t]).op = "onPoll" \/ Tells(S, s, version) \/ told'[s] = version
    PROVE  BindingsInv'
<1>1. gil' = gil /\ readers' = readers /\ UNCHANGED <<writer, alive, callbacks, watching, closable, unanswered, version, dirty>>
  BY DEF locks
<1>2. readers' \in [Remotes -> [Threads -> Int]] /\ gil' \in Threads \union {NoThread}
  BY <1>1 DEF BindingsInv, BindingTypes
<1>3. \A u \in Threads \ {t} : (gil' = u) = (gil = u)
  BY <1>1
<1>4. \A b \in BOOLEAN : Keeps(Head(todo[t]).op, gil = t, b) => Runs(S, gil' = t, b)
  BY <1>1
<1>5. Head(todo[t]).op \notin {"drop", "write", "takeOption", "poll"}
  OBVIOUS
<1>6. \A s : ~IsUnread(Head(todo[t]), s)
  BY DEF IsUnread
<1>7. /\ \A s \in closable : readers'[s][t] = readers[s][t] - (IF IsUnread(Head(todo[t]), s) THEN 1 ELSE 0)
      /\ \A s \in closable, u \in Threads \ {t} : readers'[s][u] = readers[s][u]
  <2>1. \A s \in closable : readers[s][t] \in Int
    BY DEF BindingsInv, BindingTypes
  <2>2. \A s \in closable : readers[s][t] - 0 = readers[s][t]
    BY <2>1
  <2> QED
    BY <1>1, <1>6, <2>2
<1>8. Head(todo[t]).op \in {"poll", "onPoll"} => Polls(S) \/ pollAsked' \/ ~dirty
  BY <1>5
<1>9. \A s \in watching : Head(todo[t]).op \in {"deliver", "callback"} /\ Head(todo[t]).s = s /\ Head(todo[t]).n = version
                            => Tells(S, s, version) \/ told'[s] = version
  OBVIOUS
<1> QED
  BY <1>1, <1>2, <1>3, <1>4, <1>5, <1>7, <1>8, <1>9, QuietStep

LEMMA OnPollRequestSound == ASSUME BindingsInv, NEW t \in Threads, OnPollRequest(t) PROVE BindingsInv'
<1> DEFINE x == Head(todo[t])
           p == Step("poll", Local, 0)
<1>1. /\ todo[t] # <<>> /\ x.op = "onPoll"
      /\ UNCHANGED <<locks, onPoll, closable, callbacks, watching, version, dirty, unanswered>> /\ told' = told /\ answers' = answers
      /\ \/ gil # t /\ Continue(t, <<Take, x, Drop>>) /\ UNCHANGED pollAsked
         \/ gil = t /\ Continue(t, ServerPoll) /\ UNCHANGED pollAsked
         \/ gil = t /\ Continue(t, <<>>) /\ pollAsked' = TRUE
  BY DEF OnPollRequest, At1, Head1
<1>2. x \in Steps /\ p \in Steps /\ Take \in Steps /\ Drop \in Steps /\ p.op = "poll" /\ Take.op = "take" /\ Drop.op = "drop"
  BY <1>1, HeadIsSound, LocalSteps DEF Step
<1>3. /\ answers' \in [PySessions -> Int] /\ told' \in [PySessions -> Nat] /\ pollAsked \in BOOLEAN
      /\ \A s \in PySessions : told'[s] <= version /\ (told[s] = version => told'[s] = version)
      /\ \A s \in closable : answers[s] \in Int
  BY <1>1 DEF BindingsInv, BindingTypes, UpdatesAreOwed, PySessions
<1>4. \A s : ~IsOwed(x, s) /\ ~IsUnread(x, s)
  BY <1>1 DEF IsOwed, IsUnread, Effects
<1>5. \A S, s : answers'[s] = answers[s] - (IF IsOwed(x, s) /\ ~HasOwed(S, s) THEN 1 ELSE 0) <=> answers'[s] = answers[s] - 0
  BY <1>4
<1>6. \A S : \A s \in closable : answers'[s] = answers[s] - (IF IsOwed(x, s) /\ ~HasOwed(S, s) THEN 1 ELSE 0)
  <2>1. \A s \in closable : answers'[s] = answers[s] - 0
    BY <1>1, <1>3
  <2> QED
    BY <1>5, <2>1
<1>7. \A b \in BOOLEAN : Keeps(x.op, gil = t, b) => b = (gil = t)
  BY <1>1 DEF Keeps
<1> DEFINE Harmless(S) == \A i \in 1 .. Len(S) : S[i].op \in {"take", "drop", "poll", "onPoll"}
<1>8. ASSUME NEW S \in Seq(Steps), Harmless(S), Continue(t, S), Runs(S, gil = t, gil = t), pollAsked' \in BOOLEAN,
             pollAsked => pollAsked', Polls(S) \/ pollAsked'
      PROVE  BindingsInv'
  <2>1. \A i \in 1 .. Len(S) : Fits(S[i], version, closable, alive)
    BY <1>8 DEF Fits
  <2>2. Followed(S) /\ Clear(S, closable)
    BY <1>8 DEF Followed, Clear
  <2>3. /\ \A s \in closable : ~HasUnread(S, s) /\ ~HasOwed(S, s)
        /\ \A s \in closable : \A i, j \in 1 .. Len(S) : ~IsOwed(S[i], s)
    BY <1>8 DEF HasUnread, HasOwed, IsUnread, IsOwed, Effects
  <2>4. \A b \in BOOLEAN : Keeps(x.op, gil = t, b) => Runs(S, gil = t, b)
    BY <1>7, <1>8
  <2> HIDE DEF Harmless, x
  <2>5. \A s \in closable : answers'[s] = answers[s] - (IF IsOwed(x, s) /\ ~HasOwed(S, s) THEN 1 ELSE 0)
    BY <1>6
  <2>6. x.op \in {"onPoll", "deliver", "callback"}
    BY <1>1
  <2>7. /\ \A s \in closable : ~HasUnread(S, s) /\ (HasOwed(S, s) => IsOwed(x, s))
        /\ \A s \in closable : \A i, j \in 1 .. Len(S) : IsOwed(S[i], s) /\ IsOwed(S[j], s) => i = j
    BY <2>3
  <2>8. \A s \in watching : x.s = s /\ x.n = version => x.op = "onPoll" \/ Tells(S, s, version) \/ told'[s] = version
    BY <1>1
  <2> QED
    BY <1>1, <1>3, <1>8, <2>1, <2>2, <2>4, <2>5, <2>6, <2>7, <2>8, KeptStep DEF x
<1>9. CASE gil # t /\ Continue(t, <<Take, x, Drop>>) /\ UNCHANGED pollAsked
  <2> DEFINE S == <<Take, x, Drop>>
  <2>1. Keeps(Take.op, FALSE, TRUE) /\ Keeps(x.op, TRUE, TRUE) /\ Keeps(Drop.op, TRUE, FALSE)
    BY <1>1, <1>2 DEF Keeps
  <2>2. Runs(S, FALSE, FALSE)
    BY <1>2, <2>1, RunsThree
  <2>3. S \in Seq(Steps) /\ Harmless(S) /\ Polls(S)
    BY <1>1, <1>2, ThreeSteps DEF Polls
  <2>4. Runs(S, gil = t, gil = t)
    <3>1. (gil = t) = FALSE
      BY <1>9
    <3> QED
      BY <2>2, <3>1
  <2> QED
    BY <1>3, <1>8, <1>9, <2>3, <2>4
<1>10. CASE gil = t /\ Continue(t, ServerPoll) /\ UNCHANGED pollAsked
  <2> DEFINE S == <<Drop, p, Take>>
  <2>1. Keeps(Take.op, FALSE, TRUE) /\ Keeps(p.op, FALSE, FALSE) /\ Keeps(Drop.op, TRUE, FALSE)
    BY <1>2 DEF Keeps
  <2>2. Runs(S, TRUE, TRUE)
    BY <1>2, <2>1, RunsThree
  <2>3. S \in Seq(Steps) /\ Harmless(S) /\ Polls(S) /\ S = ServerPoll
    BY <1>2, ThreeSteps DEF Polls, ServerPoll
  <2>4. Runs(S, gil = t, gil = t)
    <3>1. (gil = t) = TRUE
      BY <1>10
    <3> QED
      BY <2>2, <3>1
  <2> QED
    BY <1>3, <1>8, <1>10, <2>3, <2>4
<1>11. CASE gil = t /\ Continue(t, <<>>) /\ pollAsked' = TRUE
  <2>1. <<>> \in Seq(Steps) /\ Harmless(<<>>)
    OBVIOUS
  <2>2. Runs(<<>>, gil = t, gil = t)
    BY RunsNone
  <2> QED
    BY <1>8, <1>11, <2>1, <2>2
<1> QED
  BY <1>1, <1>9, <1>10, <1>11

\* A response or a message on its way to a session.
Message(x) ==
    /\ x \in Steps /\ x.op \in {"deliver", "callback"}
    /\ x.s \in PySessions /\ x.n \in Nat /\ x.n <= version

LEMMA MessageHead ==
    ASSUME BindingsInv, NEW t \in Threads, todo[t] # <<>>, Head(todo[t]).op \in {"deliver", "callback"}
    PROVE  Message(Head(todo[t])) /\ \A s : (IsOwed(Head(todo[t]), s) <=> (Head(todo[t]).s = s /\ Head(todo[t]).n = 0))
<1>1. Head(todo[t]) \in Steps /\ Fits(Head(todo[t]), version, closable, alive)
  BY HeadIsSound
<1>2. Message(Head(todo[t]))
  BY <1>1 DEF Message, Fits, Steps, Ops, Effects
<1>3. \A s : (IsOwed(Head(todo[t]), s) <=> (Head(todo[t]).s = s /\ Head(todo[t]).n = 0))
  BY DEF IsOwed, Effects
<1> QED
  BY <1>2, <1>3

LEMMA DeliverSound == ASSUME BindingsInv, NEW t \in Threads, Deliver(t) PROVE BindingsInv'
<1> DEFINE x == Head(todo[t])
           call == Step("callback", x.s, x.n)
<1>1. /\ todo[t] # <<>> /\ x.op = "deliver"
      /\ UNCHANGED <<locks, onPoll, closable, callbacks, watching, version, dirty, unanswered>> /\ pollAsked' = pollAsked
  BY DEF Deliver, At1, Head1
<1>2. \/ x.s \notin callbacks /\ Continue(t, <<>>) /\ told' = told /\ answers' = answers
      \/ x.s = Local /\ x.n = 0 /\ Continue(t, <<>>) /\ Tell(x.s, x.n)
      \/ x.s \in callbacks /\ Continue(t, IF gil = t THEN <<call>> ELSE <<Take, call, Drop>>) /\ told' = told /\ answers' = answers
  BY DEF Deliver, At1, Head1
<1>3. Message(x) /\ \A s : (IsOwed(x, s) <=> (x.s = s /\ x.n = 0))
  BY <1>1, MessageHead
<1>4. /\ answers \in [PySessions -> Int] /\ told \in [PySessions -> Nat] /\ pollAsked \in BOOLEAN /\ version \in Nat
      /\ \A s \in PySessions : told[s] <= version
      /\ \A s \in closable : answers[s] \in Int /\ s \in Remotes /\ s # Local
      /\ watching \subseteq callbacks /\ alive \subseteq callbacks /\ watching \subseteq PySessions
  <2>1. closable \subseteq Remotes
    BY DEF BindingsInv, BindingTypes
  <2>2. \A s \in closable : s \in Remotes /\ s # Local /\ s \in PySessions
    BY <2>1, BindingsAssumption DEF PySessions
  <2> QED
    BY <2>2 DEF BindingsInv, BindingTypes, UpdatesAreOwed, SessionsAgree
<1>5. \A b \in BOOLEAN : Keeps(x.op, gil = t, b) => b = (gil = t)
  BY <1>1 DEF Keeps
<1>6. ASSUME NEW S \in Seq(Steps), S = <<>>, Continue(t, S), told' = told, answers' = answers,
             \A s \in closable : ~IsOwed(x, s), \A s \in watching : x.s = s /\ x.n = version => told[s] = version
      PROVE  BindingsInv'
  <2>1. \A i \in 1 .. Len(S) : FALSE
    BY <1>6
  <2>2. Followed(S) /\ Clear(S, closable) /\ \A i \in 1 .. Len(S) : Fits(S[i], version, closable, alive)
    BY <2>1 DEF Followed, Clear
  <2>3. /\ \A s \in closable : ~HasUnread(S, s) /\ ~HasOwed(S, s)
        /\ \A s \in closable : \A i, j \in 1 .. Len(S) : IsOwed(S[i], s) /\ IsOwed(S[j], s) => i = j
    BY <2>1 DEF HasUnread, HasOwed
  <2>4. \A b \in BOOLEAN : Keeps(x.op, gil = t, b) => Runs(S, gil = t, b)
    BY <1>5, <1>6, RunsNone
  <2>5. \A s \in closable : answers'[s] = answers[s] - (IF IsOwed(x, s) /\ ~HasOwed(S, s) THEN 1 ELSE 0)
    <3>1. \A s \in closable : answers[s] - 0 = answers[s]
      BY <1>4
    <3> QED
      BY <1>6, <3>1
  <2>6. \A s \in PySessions : told'[s] <= version /\ (told[s] = version => told'[s] = version)
    BY <1>4, <1>6
  <2>7. answers' \in [PySessions -> Int] /\ told' \in [PySessions -> Nat] /\ pollAsked' \in BOOLEAN /\ (pollAsked => pollAsked')
    BY <1>1, <1>4, <1>6
  <2>8. \A s \in watching : x.s = s /\ x.n = version => x.op = "onPoll" \/ Tells(S, s, version) \/ told'[s] = version
    BY <1>6
  <2>9. x.op \in {"onPoll", "deliver", "callback"} /\ (x.op = "onPoll" => Polls(S) \/ pollAsked')
    BY <1>1
  <2>10. \A s \in closable : ~HasUnread(S, s) /\ (HasOwed(S, s) => IsOwed(x, s))
    BY <2>3
  <2> HIDE DEF x
  <2> QED
    BY <1>1, <1>6, <2>2, <2>3, <2>4, <2>5, <2>6, <2>7, <2>8, <2>9, <2>10, KeptStep DEF x
<1>7. <<>> \in Seq(Steps)
  OBVIOUS
<1>8. CASE x.s \notin callbacks /\ Continue(t, <<>>) /\ told' = told /\ answers' = answers
  <2>1. ASSUME NEW s \in closable, IsOwed(x, s) PROVE FALSE
    <3>1. s \in alive /\ x.s = s
      BY <1>1, <1>3, <2>1, OwedIsAlive
    <3> QED
      BY <1>4, <1>8, <3>1
  <2>2. \A s \in watching : x.s # s
    BY <1>4, <1>8
  <2> QED
    BY <1>6, <1>7, <1>8, <2>1, <2>2
<1>9. CASE x.s = Local /\ x.n = 0 /\ Continue(t, <<>>) /\ Tell(x.s, x.n)
  <2>1. x.s \in PySessions /\ x.s \notin Remotes /\ told[x.s] \in Nat
    BY <1>3, <1>4, <1>9, BindingsAssumption DEF Message
  <2>2. told' = told /\ answers' = answers
    BY <1>9, <2>1 DEF Tell
  <2>3. \A s \in closable : ~IsOwed(x, s)
    BY <1>3, <1>4, <1>9
  <2>4. \A s \in watching : x.s = s /\ x.n = version => told[s] = version
    <3>1. told[x.s] <= version
      BY <1>4, <2>1
    <3>2. version = 0 => told[x.s] = 0
      BY <1>4, <2>1, <3>1
    <3> QED
      BY <1>9, <3>2
  <2> QED
    BY <1>6, <1>7, <1>9, <2>2, <2>3, <2>4
<1>10. ASSUME x.s \in callbacks, NEW S \in Seq(Steps), Continue(t, S), told' = told, answers' = answers, Runs(S, gil = t, gil = t),
              NEW k \in 1 .. Len(S), S[k] = call, \A i \in 1 .. Len(S) : i # k => S[i].op \in {"take", "drop"}
       PROVE  BindingsInv'
  <2>0. call.op = "callback" /\ call.s = x.s /\ call.n = x.n
    BY DEF Step
  <2> HIDE DEF call
  <2>1. \A i \in 1 .. Len(S) : Fits(S[i], version, closable, alive)
    <3>1. Fits(call, version, closable, alive)
      BY <1>3, <2>0 DEF Fits, Message
    <3>2. \A i \in 1 .. Len(S) : i # k => Fits(S[i], version, closable, alive)
      BY <1>10 DEF Fits
    <3> QED
      BY <1>10, <3>1, <3>2
  <2>2. Followed(S) /\ Clear(S, closable)
    <3>1. \A i \in 1 .. Len(S) : S[i].op \in {"take", "drop", "callback"}
      BY <1>10, <2>0
    <3> QED
      BY <3>1 DEF Followed, Clear
  <2>3. \A s : \A i \in 1 .. Len(S) : ~IsUnread(S[i], s) /\ (IsOwed(S[i], s) => i = k)
    <3>1. \A s : \A i \in 1 .. Len(S) : i # k => ~IsUnread(S[i], s) /\ ~IsOwed(S[i], s)
      BY <1>10 DEF IsUnread, IsOwed, Effects
    <3>2. \A s : ~IsUnread(call, s)
      BY <2>0 DEF IsUnread
    <3> QED
      BY <1>10, <3>1, <3>2
  <2>4. \A s : IsOwed(S[k], s) <=> IsOwed(x, s)
    BY <1>1, <1>10, <2>0 DEF IsOwed, Effects
  <2>5. \A s : ~HasUnread(S, s) /\ (HasOwed(S, s) <=> IsOwed(x, s))
    BY <2>3, <2>4 DEF HasUnread, HasOwed
  <2>6. \A s \in closable : \A i, j \in 1 .. Len(S) : IsOwed(S[i], s) /\ IsOwed(S[j], s) => i = j
    BY <2>3
  <2>7. \A b \in BOOLEAN : Keeps(x.op, gil = t, b) => Runs(S, gil = t, b)
    BY <1>5, <1>10
  <2>8. \A s \in closable : answers'[s] = answers[s] - (IF IsOwed(x, s) /\ ~HasOwed(S, s) THEN 1 ELSE 0)
    <3>1. \A s \in closable : answers[s] - 0 = answers[s]
      BY <1>4
    <3> QED
      BY <1>10, <2>5, <3>1
  <2>9. \A s \in PySessions : told'[s] <= version /\ (told[s] = version => told'[s] = version)
    BY <1>4, <1>10
  <2>10. answers' \in [PySessions -> Int] /\ told' \in [PySessions -> Nat] /\ pollAsked' \in BOOLEAN /\ (pollAsked => pollAsked')
    BY <1>1, <1>4, <1>10
  <2>11. \A s \in watching : x.s = s /\ x.n = version => x.op = "onPoll" \/ Tells(S, s, version) \/ told'[s] = version
    BY <1>10, <2>0 DEF Tells
  <2>12. x.op \in {"onPoll", "deliver", "callback"} /\ (x.op = "onPoll" => Polls(S) \/ pollAsked')
    BY <1>1
  <2>13. \A s \in closable : ~HasUnread(S, s) /\ (HasOwed(S, s) => IsOwed(x, s))
    BY <2>5
  <2> HIDE DEF x
  <2> QED
    BY <1>1, <1>10, <2>1, <2>2, <2>6, <2>7, <2>8, <2>9, <2>10, <2>11, <2>12, <2>13, KeptStep DEF x
<1>11. CASE x.s \in callbacks /\ Continue(t, IF gil = t THEN <<call>> ELSE <<Take, call, Drop>>) /\ told' = told /\ answers' = answers
  <2>1. call \in Steps /\ call.op = "callback"
    BY <1>3 DEF Message, Steps, Ops, Step
  <2>2. Take \in Steps /\ Drop \in Steps /\ Take.op = "take" /\ Drop.op = "drop"
    BY LocalSteps
  <2> HIDE DEF call
  <2>3. CASE gil = t
    <3>1. Keeps(call.op, TRUE, TRUE)
      BY <2>1 DEF Keeps
    <3>2. Runs(<<call>>, TRUE, TRUE)
      BY <2>1, <3>1, RunsOne
    <3>3. Runs(<<call>>, gil = t, gil = t)
      <4>1. (gil = t) = TRUE
        BY <2>3
      <4> QED
        BY <3>2, <4>1
    <3>4. <<call>> \in Seq(Steps) /\ 1 \in 1 .. Len(<<call>>) /\ <<call>>[1] = call /\ \A i \in 1 .. Len(<<call>>) : i = 1
      BY <2>1, OneStep
    <3> QED
      BY <1>10, <1>11, <2>3, <3>3, <3>4
  <2>4. CASE gil # t
    <3> DEFINE S == <<Take, call, Drop>>
    <3>1. Keeps(Take.op, FALSE, TRUE) /\ Keeps(call.op, TRUE, TRUE) /\ Keeps(Drop.op, TRUE, FALSE)
      BY <2>1, <2>2 DEF Keeps
    <3>2. Runs(S, FALSE, FALSE)
      BY <2>1, <2>2, <3>1, RunsThree
    <3>3. Runs(S, gil = t, gil = t)
      <4>1. (gil = t) = FALSE
        BY <2>4
      <4> QED
        BY <3>2, <4>1
    <3>4. S \in Seq(Steps) /\ 2 \in 1 .. Len(S) /\ S[2] = call
      BY <2>1, <2>2, ThreeSteps
    <3>5. \A i \in 1 .. Len(S) : i # 2 => S[i].op \in {"take", "drop"}
      BY <2>1, <2>2, ThreeSteps
    <3>6. Continue(t, S)
      BY <1>11, <2>4
    <3> HIDE DEF S
    <3> QED
      BY <1>10, <1>11, <3>3, <3>4, <3>5, <3>6
  <2> QED
    BY <2>3, <2>4
<1> QED
  BY <1>2, <1>8, <1>9, <1>11

(* What a callback runs leaves the sessions alone that can be closed.      *)
Aside(S) ==
    /\ S \in Seq(Steps) /\ Runs(S, TRUE, TRUE) /\ Followed(S) /\ Clear(S, closable)
    /\ \A i \in 1 .. Len(S) : Fits(S[i], version, closable, alive)
    /\ \A s \in closable : ~HasUnread(S, s) /\ ~HasOwed(S, s)

LEMMA AsideNone == Aside(<<>>)
<1>1. <<>> \in Seq(Steps) /\ \A i \in 1 .. Len(<<>>) : FALSE
  OBVIOUS
<1>2. Runs(<<>>, TRUE, TRUE)
  BY RunsNone
<1> QED
  BY <1>1, <1>2 DEF Aside, Followed, Clear, HasUnread, HasOwed

LEMMA AsideBlock ==
    ASSUME BindingsInv, NEW S, Block(S, TRUE, TRUE)
    PROVE  Aside(S)
<1>1. \A i \in 1 .. Len(S) : S[i].s = Local /\ S[i].op \in {"take", "drop", "convert", "poll", "onPoll"} \union Effects
  BY DEF Block, Quiet
<1>2. Local \notin closable
  BY BindingsAssumption DEF BindingsInv, BindingTypes
<1>3. Clear(S, closable) /\ \A i \in 1 .. Len(S) : Fits(S[i], version, closable, alive)
  BY <1>1 DEF Clear, Fits, Effects
<1>4. \A s \in closable : ~HasUnread(S, s) /\ ~HasOwed(S, s)
  BY <1>1, <1>2 DEF HasUnread, HasOwed, IsUnread, IsOwed, Effects
<1> QED
  BY <1>3, <1>4 DEF Aside, Block

(* A request of a session, in a thread that has the interpreter.           *)
LEMMA SessionSteps ==
    ASSUME NEW s \in Remotes, NEW effect \in Effects
    PROVE  /\ SessionRequest(s, effect) = <<Drop, Reading(s, effect), Take>>
           /\ Reading(s, effect) \in Steps /\ Reading(s, effect).op = "read" /\ Reading(s, effect).s = s
           /\ SessionRequest(s, effect) \in Seq(Steps) /\ Runs(SessionRequest(s, effect), TRUE, TRUE)
           /\ \A i \in 1 .. Len(SessionRequest(s, effect)) :
                 SessionRequest(s, effect)[i] \in {Drop, Reading(s, effect), Take}
<1> DEFINE r == Reading(s, effect)
<1>1. SessionRequest(s, effect) = <<Drop, r, Take>>
  BY DEF SessionRequest, Reading
<1>2. r \in Steps /\ r.op = "read" /\ r.s = s
  BY DEF Steps, Reading
<1>3. Take \in Steps /\ Drop \in Steps /\ Take.op = "take" /\ Drop.op = "drop"
  BY LocalSteps
<1> HIDE DEF r
<1>4. Keeps(Drop.op, TRUE, FALSE) /\ Keeps(r.op, FALSE, FALSE) /\ Keeps(Take.op, FALSE, TRUE)
  BY <1>2, <1>3 DEF Keeps
<1>5. Runs(<<Drop, r, Take>>, TRUE, TRUE)
  BY <1>2, <1>3, <1>4, RunsThree
<1>6. <<Drop, r, Take>> \in Seq(Steps) /\ \A i \in 1 .. Len(<<Drop, r, Take>>) : <<Drop, r, Take>>[i] \in {Drop, r, Take}
  BY <1>2, <1>3, ThreeSteps
<1> QED
  BY <1>1, <1>2, <1>5, <1>6 DEF r

LEMMA AsideRequest ==
    ASSUME BindingsInv, NEW s \in Remotes \ closable, NEW effect \in Effects
    PROVE  Aside(SessionRequest(s, effect))
<1> DEFINE S == SessionRequest(s, effect)
           r == Reading(s, effect)
<1>1. S \in Seq(Steps) /\ Runs(S, TRUE, TRUE) /\ (\A i \in 1 .. Len(S) : S[i] \in {Drop, r, Take}) /\ r.op = "read" /\ r.s = s
  BY SessionSteps
<1>2. Take.op = "take" /\ Drop.op = "drop"
  BY LocalSteps
<1> HIDE DEF S, r
<1>3. \A i \in 1 .. Len(S) : S[i].op \in {"take", "drop", "read"} /\ (S[i].op = "read" => S[i].s \notin closable)
  BY <1>1, <1>2
<1>4. Clear(S, closable) /\ Followed(S) /\ \A i \in 1 .. Len(S) : Fits(S[i], version, closable, alive)
  BY <1>3 DEF Clear, Followed, Fits
<1>5. \A x \in closable : ~HasUnread(S, x) /\ ~HasOwed(S, x)
  BY <1>3 DEF HasUnread, HasOwed, IsUnread, IsOwed, Effects
<1>6. Aside(S)
  BY <1>1, <1>4, <1>5 DEF Aside
<1> QED
  BY <1>6 DEF S

LEMMA CallbackSound == ASSUME Careful, BindingsInv, NEW t \in Threads, Callback(t) PROVE BindingsInv'
<1> DEFINE x == Head(todo[t])
<1>1. /\ todo[t] # <<>> /\ x.op = "callback" /\ Tell(x.s, x.n)
      /\ UNCHANGED <<locks, onPoll, closable, callbacks, watching, version, dirty, unanswered>> /\ pollAsked' = pollAsked
  BY DEF Callback, At1, Head1
<1>2. \E S : Continue(t, S) /\ Aside(S)
  <2>1. \/ Continue(t, <<>>)
        \/ \E m \in TableCalls : Continue(t, BlockOn(m))
        \/ \E r \in Remotes \ closable : Continue(t, SessionRequest(r, "reads"))
    BY DEF Callback
  <2>2. ASSUME NEW m \in TableCalls PROVE Aside(BlockOn(m))
    BY <2>2, MethodsAre, BlockOnBlock, AsideBlock
  <2>3. ASSUME NEW r \in Remotes \ closable PROVE Aside(SessionRequest(r, "reads"))
    BY <2>3, AsideRequest DEF Effects
  <2> QED
    BY <2>1, <2>2, <2>3, AsideNone
<1>3. PICK S : Continue(t, S) /\ Aside(S)
  BY <1>2
<1>4. Message(x) /\ \A s : (IsOwed(x, s) <=> (x.s = s /\ x.n = 0))
  BY <1>1, MessageHead
<1>5. gil = t /\ \A b \in BOOLEAN : Keeps(x.op, gil = t, b) => b = TRUE
  BY <1>1, HeadIsSound DEF Keeps
<1>6. /\ answers \in [PySessions -> Int] /\ told \in [PySessions -> Nat] /\ pollAsked \in BOOLEAN /\ version \in Nat
      /\ watching \subseteq PySessions /\ closable \subseteq Remotes /\ closable \subseteq PySessions
      /\ \A s \in PySessions : told[s] <= version
  BY DEF BindingsInv, BindingTypes, UpdatesAreOwed, PySessions
<1>7. x.s \in PySessions /\ x.n \in Nat /\ x.n <= version /\ told[x.s] \in Nat
  BY <1>4, <1>6 DEF Message
<1>8. told' \in [PySessions -> Nat] /\ \A s \in PySessions : told'[s] = IF s = x.s /\ x.n > told[s] THEN x.n ELSE told[s]
  BY <1>1, <1>6, <1>7 DEF Tell
<1>9. \A s \in PySessions : told'[s] <= version /\ (told[s] = version => told'[s] = version)
  BY <1>6, <1>7, <1>8
<1>10. \A s \in watching : x.s = s /\ x.n = version => x.op = "onPoll" \/ Tells(S, s, version) \/ told'[s] = version
  <2>1. \A s \in PySessions : x.s = s /\ x.n = version => told'[s] = version
    <3> SUFFICES ASSUME x.n = version PROVE told'[x.s] = version
      BY <1>7
    <3>1. told[x.s] <= version /\ told'[x.s] = IF version > told[x.s] THEN version ELSE told[x.s]
      BY <1>6, <1>7, <1>8
    <3> QED
      BY <1>6, <1>7, <3>1
  <2> QED
    BY <1>6, <2>1
<1>11. answers' \in [PySessions -> Int] /\ \A s \in PySessions :
          answers'[s] = answers[s] - IF s = x.s /\ x.n = 0 /\ s \in Remotes THEN 1 ELSE 0
  <2>1. answers' = IF x.n = 0 /\ x.s \in Remotes THEN [answers EXCEPT ![x.s] = answers[x.s] - 1] ELSE answers
    BY <1>1 DEF Tell
  <2>2. answers \in [PySessions -> Int] /\ x.s \in PySessions
    BY <1>6, <1>7
  <2> HIDE DEF x
  <2>3. CASE x.n = 0 /\ x.s \in Remotes
    <3>1. answers' = [answers EXCEPT ![x.s] = answers[x.s] - 1] /\ answers[x.s] - 1 \in Int
      BY <2>1, <2>2, <2>3
    <3>2. answers' \in [PySessions -> Int] /\ answers'[x.s] = answers[x.s] - 1
          /\ \A s \in PySessions : s # x.s => answers'[s] = answers[s]
      BY <2>2, <3>1
    <3>3. \A s \in PySessions : answers[s] - 0 = answers[s]
      BY <2>2
    <3> QED
      BY <2>3, <3>2, <3>3
  <2>4. CASE ~(x.n = 0 /\ x.s \in Remotes)
    <3>1. answers' = answers
      BY <2>1, <2>4
    <3>2. \A s \in PySessions : answers[s] - 0 = answers[s]
      BY <2>2
    <3> QED
      BY <2>2, <2>4, <3>1, <3>2
  <2> QED
    BY <2>3, <2>4
<1>12. \A s \in closable : answers'[s] = answers[s] - (IF IsOwed(x, s) /\ ~HasOwed(S, s) THEN 1 ELSE 0)
  <2>1. \A s \in closable : ~HasOwed(S, s)
    BY <1>3 DEF Aside
  <2> QED
    BY <1>4, <1>6, <1>11, <2>1
<1>13. S \in Seq(Steps) /\ Followed(S) /\ Clear(S, closable) /\ \A i \in 1 .. Len(S) : Fits(S[i], version, closable, alive)
  BY <1>3 DEF Aside
<1>14. /\ \A s \in closable : ~HasUnread(S, s) /\ (HasOwed(S, s) => IsOwed(x, s))
       /\ \A s \in closable : \A i, j \in 1 .. Len(S) : IsOwed(S[i], s) /\ IsOwed(S[j], s) => i = j
  <2>1. \A s \in closable : ~HasUnread(S, s) /\ ~HasOwed(S, s)
    BY <1>3 DEF Aside
  <2>2. \A s \in closable : \A i \in 1 .. Len(S) : ~IsOwed(S[i], s)
    BY <2>1 DEF HasOwed
  <2> QED
    BY <2>1, <2>2
<1>15. \A b \in BOOLEAN : Keeps(x.op, gil = t, b) => Runs(S, gil = t, b)
  <2>1. (gil = t) = TRUE /\ Runs(S, TRUE, TRUE)
    BY <1>3, <1>5 DEF Aside
  <2>2. Runs(S, gil = t, TRUE)
    BY <2>1
  <2> QED
    BY <1>5, <2>2
<1>16. x.op \in {"onPoll", "deliver", "callback"} /\ (x.op = "onPoll" => Polls(S) \/ pollAsked')
       /\ pollAsked' \in BOOLEAN /\ (pollAsked => pollAsked')
  BY <1>1, <1>6
<1> HIDE DEF x
<1> QED
  BY <1>1, <1>3, <1>8, <1>9, <1>10, <1>11, <1>12, <1>13, <1>14, <1>15, <1>16, KeptStep DEF x

-----------------------------------------------------------------------------
(* Readers of sessions.                                                    *)

LEMMA OneReader ==
    ASSUME NEW r \in [Remotes -> [Threads -> Int]], NEW s \in Remotes, NEW t \in Threads, NEW n \in Int
    PROVE  /\ [r EXCEPT ![s][t] = n] \in [Remotes -> [Threads -> Int]]
           /\ [r EXCEPT ![s][t] = n][s][t] = n
           /\ \A x \in Remotes, u \in Threads : x # s \/ u # t => [r EXCEPT ![s][t] = n][x][u] = r[x][u]
<1> DEFINE row == [r[s] EXCEPT ![t] = n]
<1>1. r[s] \in [Threads -> Int]
  OBVIOUS
<1>2. row \in [Threads -> Int] /\ row[t] = n /\ \A u \in Threads : u # t => row[u] = r[s][u]
  BY <1>1
<1>3. [r EXCEPT ![s][t] = n] = [r EXCEPT ![s] = row]
  OBVIOUS
<1> HIDE DEF row
<1>4. [r EXCEPT ![s] = row] \in [Remotes -> [Threads -> Int]]
  BY <1>2
<1>5. [r EXCEPT ![s] = row][s] = row /\ \A x \in Remotes : x # s => [r EXCEPT ![s] = row][x] = r[x]
  OBVIOUS
<1> QED
  BY <1>2, <1>3, <1>4, <1>5

LEMMA UnreadSessionSound == ASSUME BindingsInv, NEW t \in Threads, UnreadSession(t) PROVE BindingsInv'
<1> DEFINE x == Head(todo[t])
<1>1. /\ todo[t] # <<>> /\ x.op = "unread" /\ readers' = [readers EXCEPT ![x.s][t] = @ - 1] /\ Continue(t, <<>>)
      /\ gil' = gil /\ UNCHANGED <<writer, alive, callbacks, watching, closable, unanswered, version, dirty>>
      /\ answers' = answers /\ told' = told /\ pollAsked' = pollAsked
  BY DEF UnreadSession, At1, Head1, engine
<1>2. x.s \in Remotes /\ gil # t
  BY <1>1, HeadIsSound DEF Fits, Keeps
<1>3. /\ readers \in [Remotes -> [Threads -> Int]] /\ answers \in [PySessions -> Int] /\ told \in [PySessions -> Nat]
      /\ pollAsked \in BOOLEAN /\ closable \subseteq Remotes /\ closable \subseteq PySessions /\ gil \in Threads \union {NoThread}
      /\ \A s \in PySessions : told[s] <= version
  BY DEF BindingsInv, BindingTypes, UpdatesAreOwed, PySessions
<1>4. <<>> \in Seq(Steps) /\ \A i \in 1 .. Len(<<>>) : FALSE
  OBVIOUS
<1>5. Followed(<<>>) /\ \A i \in 1 .. Len(<<>>) : Fits(<<>>[i], version, closable, alive)
  BY <1>4 DEF Followed
<1>6. \A s : ~HasUnread(<<>>, s) /\ ~HasOwed(<<>>, s) /\ ~IsOwed(x, s) /\ (IsUnread(x, s) <=> s = x.s)
  BY <1>1, <1>4 DEF HasUnread, HasOwed, IsOwed, IsUnread, Effects
<1>7. readers' \in [Remotes -> [Threads -> Int]] /\ readers'[x.s][t] = readers[x.s][t] - 1
      /\ (\A s \in Remotes, u \in Threads : s # x.s \/ u # t => readers'[s][u] = readers[s][u])
  <2>1. readers' = [readers EXCEPT ![x.s][t] = readers[x.s][t] - 1]
    BY <1>1
  <2>2. readers[x.s][t] - 1 \in Int
    BY <1>2, <1>3
  <2> HIDE DEF x
  <2> QED
    BY <1>2, <1>3, <2>1, <2>2, OneReader
<1>8. \A s \in closable : readers'[s][t] = readers[s][t] - (IF IsUnread(x, s) THEN 1 ELSE 0)
  <2> SUFFICES ASSUME NEW s \in closable PROVE readers'[s][t] = readers[s][t] - (IF IsUnread(x, s) THEN 1 ELSE 0)
    OBVIOUS
  <2>1. readers[s][t] - 0 = readers[s][t] /\ s \in Remotes
    BY <1>3
  <2> HIDE DEF x
  <2>2. CASE s = x.s
    <3>1. IsUnread(x, s)
      BY <1>6, <2>2
    <3>2. readers'[s][t] = readers[s][t] - 1
      BY <1>7, <2>2
    <3> QED
      BY <3>1, <3>2
  <2>3. CASE s # x.s
    <3>1. ~IsUnread(x, s)
      BY <1>6, <2>3
    <3>2. readers'[s][t] = readers[s][t]
      BY <1>7, <2>1, <2>3
    <3> QED
      BY <2>1, <3>1, <3>2
  <2> QED
    BY <2>2, <2>3
<1>9. \A s \in closable, u \in Threads \ {t} : readers'[s][u] = readers[s][u]
  BY <1>3, <1>7
<1>10. \A s \in closable : answers'[s] = answers[s] - (IF IsOwed(x, s) /\ ~HasOwed(<<>>, s) THEN 1 ELSE 0)
  <2>1. \A s \in closable : answers[s] - 0 = answers[s]
    BY <1>3
  <2> QED
    BY <1>1, <1>6, <2>1
<1>11. \A b \in BOOLEAN : Keeps(x.op, gil = t, b) => Runs(<<>>, gil' = t, b)
  <2>1. \A b \in BOOLEAN : Keeps(x.op, gil = t, b) => b = (gil' = t)
    BY <1>1, <1>2 DEF Keeps
  <2> QED
    BY <2>1, RunsNone
<1>12. \A s \in PySessions : told'[s] <= version /\ (told[s] = version => told'[s] = version)
  BY <1>1, <1>3
<1>13. x.op \notin {"poll", "onPoll", "deliver", "callback", "takeOption"}
  BY <1>1
<1>14. \A s \in closable : \A i, j \in 1 .. Len(<<>>) : IsOwed(<<>>[i], s) /\ IsOwed(<<>>[j], s) => i = j
  BY <1>4
<1>15. gil' \in Threads \union {NoThread} /\ (\A u \in Threads \ {t} : (gil' = u) = (gil = u))
       /\ answers' \in [PySessions -> Int] /\ told' \in [PySessions -> Nat] /\ pollAsked' \in BOOLEAN /\ (pollAsked => pollAsked')
  BY <1>1, <1>3
<1>16. \A s \in closable : ~HasUnread(<<>>, s) /\ (HasOwed(<<>>, s) => IsOwed(x, s))
  BY <1>6
<1> HIDE DEF x
<1> QED
  BY <1>1, <1>4, <1>5, <1>7, <1>8, <1>9, <1>10, <1>11, <1>12, <1>13, <1>14, <1>15, <1>16, QuietStep DEF x

(* A request, and the guard that it gives up.                              *)
Guarded(s, effect) == LocalRequest(s, effect) \o <<Step("unread", s, 0)>>

IsGuarded(S, s, effect) ==
    /\ S \in Seq(Steps) /\ Len(S) = 3 /\ Runs(S, FALSE, FALSE) /\ Followed(S)
    /\ S[1].op = effect /\ S[1].s = s /\ S[2].op \in {"poll", "onPoll"} /\ S[2].s = s
    /\ S[3].op = "unread" /\ S[3].s = s

LEMMA GuardedSteps ==
    ASSUME NEW s \in Remotes, NEW effect \in Effects
    PROVE  IsGuarded(Guarded(s, effect), s, effect)
<1> DEFINE p == LocalRequest(s, effect)
           u == Step("unread", s, 0)
           r == p \o <<u>>
<1>1. /\ p \in Seq(Steps) /\ Len(p) = 2 /\ p[1].op = effect /\ p[1].s = s /\ p[2].s = s /\ p[2].op \in {"poll", "onPoll"}
      /\ Runs(p, FALSE, FALSE) /\ Followed(p)
  <2>1. s \in PySessions
    BY DEF PySessions
  <2>2. Step(effect, s, 0).op = effect /\ Step(effect, s, 0).s = s
    BY DEF Step
  <2>3. /\ p \in Seq(Steps) /\ Len(p) = 2 /\ p[1] = Step(effect, s, 0) /\ p[2].s = s /\ p[2].op \in {"poll", "onPoll"}
        /\ Runs(p, FALSE, FALSE) /\ Followed(p)
    BY <2>1, RequestRuns
  <2> QED
    BY <2>2, <2>3
<1>2. u \in Steps /\ u.op = "unread" /\ u.s = s
  BY DEF Steps, Ops, Step, PySessions
<1> HIDE DEF p, u
<1>3. <<u>> \in Seq(Steps) /\ Len(<<u>>) = 1 /\ <<u>>[1] = u /\ \A i \in 1 .. Len(<<u>>) : <<u>>[i] = u
  BY <1>2, OneStep
<1>4. r \in Seq(Steps) /\ Len(r) = 3 /\ r[1] = p[1] /\ r[2] = p[2] /\ r[3] = u
  <2>1. r \in Seq(Steps) /\ Len(r) = Len(p) + Len(<<u>>)
    BY <1>1, <1>3, Joined
  <2>2. r[1] = p[1] /\ r[2] = p[2]
    <3>1. 1 \in 1 .. Len(p) /\ 2 \in 1 .. Len(p)
      BY <1>1
    <3> QED
      BY <1>1, <1>3, <3>1, Joined
  <2>3. r[3] = u
    <3>1. 1 \in 1 .. Len(<<u>>) /\ 1 + Len(p) = 3
      BY <1>1, <1>3
    <3>2. r[1 + Len(p)] = <<u>>[1]
      BY <1>1, <1>3, <3>1, Joined
    <3> QED
      BY <1>3, <3>1, <3>2
  <2> QED
    BY <1>1, <1>3, <2>1, <2>2, <2>3
<1>5. Runs(r, FALSE, FALSE)
  <2>1. Runs(<<u>>, FALSE, FALSE)
    BY <1>2, RunsOne DEF Keeps
  <2> QED
    BY <1>1, <1>3, <2>1, RunsBoth
<1>6. Followed(r)
  <2>1. Followed(<<u>>)
    BY <1>2, <1>3 DEF Followed
  <2> QED
    BY <1>1, <1>3, <2>1, FollowedBoth
<1>7. IsGuarded(r, s, effect)
  BY <1>1, <1>2, <1>4, <1>5, <1>6 DEF IsGuarded
<1> QED
  BY <1>7 DEF Guarded, p, u

\* Such a request of a session that cannot be closed, or is closed already.
LEMMA ReadAside ==
    ASSUME BindingsInv, NEW t \in Threads, ReadSession(t), Head(todo[t]).s \notin closable \intersect alive
    PROVE  BindingsInv'
<1> DEFINE x == Head(todo[t])
<1>1. /\ todo[t] # <<>> /\ x.op = "read"
      /\ gil' = gil /\ UNCHANGED <<writer, alive, callbacks, watching, closable, unanswered, version, dirty>>
      /\ told' = told /\ pollAsked' = pollAsked
      /\ \/ x.s \in alive /\ readers' = [readers EXCEPT ![x.s][t] = @ + 1] /\ answers' = [answers EXCEPT ![x.s] = @ + 1]
            /\ Continue(t, Guarded(x.s, x.n))
         \/ Continue(t, <<>>) /\ readers' = readers /\ answers' = answers
  BY DEF ReadSession, At1, Head1, Guarded
<1>2. x.s \in Remotes /\ x.n \in Effects /\ gil # t
  <2>1. x \in Steps /\ gil # t
    BY <1>1, HeadIsSound DEF Keeps
  <2> QED
    BY <1>1, <2>1 DEF Steps, Ops, Effects
<1>3. /\ readers \in [Remotes -> [Threads -> Int]] /\ answers \in [PySessions -> Int] /\ told \in [PySessions -> Nat]
      /\ pollAsked \in BOOLEAN /\ closable \subseteq Remotes /\ closable \subseteq PySessions /\ gil \in Threads \union {NoThread}
      /\ \A s \in PySessions : told[s] <= version
  BY DEF BindingsInv, BindingTypes, UpdatesAreOwed, PySessions
<1>4. (gil' = t) = FALSE /\ (gil = t) = FALSE /\ \A b \in BOOLEAN : Keeps(x.op, gil = t, b) => b = FALSE
  BY <1>1, <1>2 DEF Keeps
<1>5. x.op \notin {"drop", "write", "takeOption", "poll", "onPoll", "deliver", "callback"} /\ \A s : ~IsOwed(x, s) /\ ~IsUnread(x, s)
  BY <1>1 DEF IsOwed, IsUnread, Effects
<1>6. /\ gil' \in Threads \union {NoThread} /\ (\A u \in Threads \ {t} : (gil' = u) = (gil = u))
      /\ told' \in [PySessions -> Nat] /\ pollAsked' \in BOOLEAN /\ (pollAsked => pollAsked')
      /\ \A s \in PySessions : told'[s] <= version /\ (told[s] = version => told'[s] = version)
  BY <1>1, <1>3
<1>7. ASSUME NEW S \in Seq(Steps), Continue(t, S), Runs(S, FALSE, FALSE), Followed(S), Clear(S, closable),
             \A i \in 1 .. Len(S) : Fits(S[i], version, closable, alive),
             \A s \in closable : ~HasUnread(S, s) /\ ~HasOwed(S, s),
             readers' \in [Remotes -> [Threads -> Int]], answers' \in [PySessions -> Int],
             \A s \in closable : answers'[s] = answers[s] /\ \A u \in Threads : readers'[s][u] = readers[s][u]
      PROVE  BindingsInv'
  <2>1. \A b \in BOOLEAN : Keeps(x.op, gil = t, b) => Runs(S, gil' = t, b)
    <3>1. Runs(S, gil' = t, FALSE)
      BY <1>4, <1>7
    <3> QED
      BY <1>4, <3>1
  <2>2. \A s \in closable : answers'[s] = answers[s] - (IF IsOwed(x, s) /\ ~HasOwed(S, s) THEN 1 ELSE 0)
    <3>1. \A s \in closable : answers[s] - 0 = answers[s]
      BY <1>3
    <3> QED
      BY <1>5, <1>7, <3>1
  <2>3. \A s \in closable : readers'[s][t] = readers[s][t] - (IF IsUnread(x, s) THEN 1 ELSE 0)
    <3>1. \A s \in closable : readers[s][t] - 0 = readers[s][t]
      BY <1>3
    <3> QED
      BY <1>5, <1>7, <3>1
  <2>4. \A s \in closable : \A i, j \in 1 .. Len(S) : IsOwed(S[i], s) /\ IsOwed(S[j], s) => i = j
    BY <1>7 DEF HasOwed
  <2>5. \A s \in closable : ~HasUnread(S, s) /\ (HasOwed(S, s) => IsOwed(x, s))
    BY <1>7
  <2>6. \A s \in closable, u \in Threads \ {t} : readers'[s][u] = readers[s][u]
    BY <1>7
  <2> HIDE DEF x
  <2> QED
    BY <1>1, <1>5, <1>6, <1>7, <2>1, <2>2, <2>3, <2>4, <2>5, <2>6, QuietStep DEF x
<1>8. CASE Continue(t, <<>>) /\ readers' = readers /\ answers' = answers
  <2>1. <<>> \in Seq(Steps) /\ \A i \in 1 .. Len(<<>>) : FALSE
    OBVIOUS
  <2>2. Followed(<<>>) /\ Clear(<<>>, closable) /\ (\A i \in 1 .. Len(<<>>) : Fits(<<>>[i], version, closable, alive))
        /\ \A s \in closable : ~HasUnread(<<>>, s) /\ ~HasOwed(<<>>, s)
    BY <2>1 DEF Followed, Clear, HasUnread, HasOwed
  <2>3. Runs(<<>>, FALSE, FALSE)
    BY RunsNone
  <2> HIDE DEF x
  <2> QED
    BY <1>3, <1>7, <1>8, <2>1, <2>2, <2>3
<1>9. CASE x.s \in alive /\ readers' = [readers EXCEPT ![x.s][t] = @ + 1] /\ answers' = [answers EXCEPT ![x.s] = @ + 1]
           /\ Continue(t, Guarded(x.s, x.n))
  <2> DEFINE S == Guarded(x.s, x.n)
  <2>1. x.s \notin closable
    BY <1>9
  <2>2. /\ S \in Seq(Steps) /\ Len(S) = 3 /\ Runs(S, FALSE, FALSE) /\ Followed(S)
        /\ S[1].op \in Effects /\ S[1].s = x.s /\ S[2].op \in {"poll", "onPoll"} /\ S[2].s = x.s
        /\ S[3].op = "unread" /\ S[3].s = x.s
    <3>1. IsGuarded(S, x.s, x.n)
      BY <1>2, GuardedSteps
    <3> HIDE DEF S
    <3> QED
      BY <1>2, <3>1 DEF IsGuarded
  <2> HIDE DEF S
  <2>3. \A i \in 1 .. Len(S) : S[i].op \in {"poll", "onPoll", "unread"} \union Effects /\ S[i].s = x.s
    <3>1. \A i \in 1 .. Len(S) : i = 1 \/ i = 2 \/ i = 3
      BY <2>2
    <3> QED
      BY <2>2, <3>1
  <2>4. Clear(S, closable) /\ \A i \in 1 .. Len(S) : Fits(S[i], version, closable, alive)
    BY <1>2, <2>3 DEF Clear, Fits, Effects
  <2>5. \A s \in closable : ~HasUnread(S, s) /\ ~HasOwed(S, s)
    BY <2>1, <2>3 DEF HasUnread, HasOwed, IsUnread, IsOwed
  <2>6. readers' \in [Remotes -> [Threads -> Int]] /\ answers' \in [PySessions -> Int]
    <3>1. /\ readers' = [readers EXCEPT ![x.s][t] = readers[x.s][t] + 1]
          /\ answers' = [answers EXCEPT ![x.s] = answers[x.s] + 1]
      BY <1>9
    <3>a. x.s \in Remotes /\ readers \in [Remotes -> [Threads -> Int]] /\ answers \in [PySessions -> Int]
      BY <1>2, <1>3
    <3> HIDE DEF x
    <3>b. readers[x.s][t] + 1 \in Int
      BY <3>a
    <3>2. readers' \in [Remotes -> [Threads -> Int]]
      BY <3>1, <3>a, <3>b, OneReader
    <3>3. answers[x.s] + 1 \in Int
      BY <3>a DEF PySessions
    <3>4. answers' \in [PySessions -> Int]
      BY <3>1, <3>3, <3>a
    <3> QED
      BY <3>2, <3>4
  <2>7. \A s \in closable : answers'[s] = answers[s] /\ \A u \in Threads : readers'[s][u] = readers[s][u]
    BY <1>2, <1>3, <1>9, <2>1
  <2>8. Continue(t, S)
    BY <1>9 DEF S
  <2> HIDE DEF x
  <2> QED
    BY <1>7, <2>2, <2>4, <2>5, <2>6, <2>7, <2>8
<1> QED
  BY <1>1, <1>8, <1>9

\* What is left of a call of a session that can be closed.
LEMMA LastSteps ==
    /\ <<Take, Drop>> \in Seq(Steps) /\ \A i \in 1 .. Len(<<Take, Drop>>) : <<Take, Drop>>[i].op \in {"take", "drop"}
    /\ Clear(<<Take, Drop>>, closable) /\ \A s : ~HasUnread(<<Take, Drop>>, s) /\ ~HasOwed(<<Take, Drop>>, s)
<1>1. Take \in Steps /\ Drop \in Steps /\ Take.op = "take" /\ Drop.op = "drop"
  BY LocalSteps
<1>2. <<Take, Drop>> \in Seq(Steps) /\ Len(<<Take, Drop>>) = 2 /\ <<Take, Drop>>[1] = Take /\ <<Take, Drop>>[2] = Drop
  BY <1>1
<1>3. \A i \in 1 .. 2 : i = 1 \/ i = 2
  OBVIOUS
<1>4. \A i \in 1 .. Len(<<Take, Drop>>) : <<Take, Drop>>[i].op \in {"take", "drop"}
  BY <1>1, <1>2, <1>3
<1>5. Clear(<<Take, Drop>>, closable) /\ \A s : ~HasUnread(<<Take, Drop>>, s) /\ ~HasOwed(<<Take, Drop>>, s)
  BY <1>4 DEF Clear, HasUnread, HasOwed, IsUnread, IsOwed, Effects
<1> QED
  BY <1>2, <1>4, <1>5

(* The first step waits for a session that can be closed: the list is that *)
(* of a call.                                                              *)
LEMMA ReadHead ==
    ASSUME BindingsInv, NEW t \in Threads, todo[t] # <<>>, Head(todo[t]).op = "read", Head(todo[t]).s \in closable
    PROVE  Tail(todo[t]) = <<Take, Drop>> /\ \A s : ~HasUnread(todo[t], s) /\ ~HasOwed(todo[t], s)
<1> DEFINE q == todo[t]
           x == Head(q)
<1>1. q \in Seq(Steps) /\ CallsFirst(q, closable) /\ x = q[1] /\ 1 \in 1 .. Len(q)
  BY HeadIsSound DEF ThreadIsSound
<1>2. ~Clear(q, closable)
  BY <1>1 DEF Clear
<1>3. \A s : ~HasUnread(q, s) /\ ~HasOwed(q, s)
  BY <1>1, <1>2, CallsFirstMarks
<1>4. ASSUME NEW s \in closable, q \in Closings(s) PROVE FALSE
  <2>1. Drop.op = "drop" /\ Step("write", s, 0).op = "write" /\ Step("takeOption", s, 0).op = "takeOption"
    BY DEF Drop, Step
  <2>2. x.op \in {"drop", "write", "takeOption"}
    BY <1>4, <2>1 DEF Closings
  <2> QED
    BY <2>2
<1>5. ASSUME NEW s \in closable, NEW effect \in Effects, q \in Readings(s, effect) PROVE Tail(q) = <<Take, Drop>>
  <2> DEFINE r == Reading(s, effect)
  <2>1. CASE q = <<Drop, r, Take, Drop>>
    <3>1. Head(q) = Drop /\ Drop.op = "drop"
      BY <2>1 DEF Drop, Step
    <3> QED
      BY <3>1
  <2>2. CASE q = <<r, Take, Drop>>
    BY <2>2
  <2> QED
    BY <1>5, <2>1, <2>2 DEF Readings
<1> QED
  BY <1>1, <1>2, <1>3, <1>4, <1>5 DEF CallsFirst

LEMMA GuardedMarks ==
    ASSUME NEW S, NEW s \in Remotes, NEW effect \in Effects, IsGuarded(S, s, effect), NEW c
    PROVE  /\ MarksOnce(S \o <<Take, Drop>>, c)
           /\ HasUnread(S \o <<Take, Drop>>, c) <=> c = s
           /\ HasOwed(S \o <<Take, Drop>>, c) <=> c = s
<1> DEFINE e == <<Take, Drop>>
           q == S \o e
<1>1. S \in Seq(Steps) /\ Len(S) = 3 /\ e \in Seq(Steps) /\ \A i \in 1 .. Len(e) : e[i].op \in {"take", "drop"}
  BY LastSteps DEF IsGuarded
<1>2. /\ S[1].op \in Effects /\ S[1].s = s /\ S[2].op \in {"poll", "onPoll"} /\ S[2].s = s
      /\ S[3].op = "unread" /\ S[3].s = s
  BY DEF IsGuarded
<1> HIDE DEF e
<1>3. q \in Seq(Steps) /\ 1 \in 1 .. Len(q) /\ 3 \in 1 .. Len(q) /\ q[1] = S[1] /\ q[2] = S[2] /\ q[3] = S[3]
  <2>1. 1 \in 1 .. Len(S) /\ 2 \in 1 .. Len(S) /\ 3 \in 1 .. Len(S)
    BY <1>1
  <2>2. S \o e \in Seq(Steps) /\ \A i \in 1 .. Len(S) : i \in 1 .. Len(S \o e) /\ (S \o e)[i] = S[i]
    BY <1>1, Joined
  <2> QED
    BY <2>1, <2>2
<1>4. \A i \in 1 .. Len(q) : i = 1 \/ i = 2 \/ i = 3 \/ q[i].op \in {"take", "drop"}
  <2>1. ASSUME NEW i \in 1 .. Len(q), ~(i \in 1 .. Len(S)) PROVE q[i].op \in {"take", "drop"}
    <3>1. i - Len(S) \in 1 .. Len(e) /\ i = (i - Len(S)) + Len(S)
      BY <1>1, <2>1, Joined
    <3>2. q[(i - Len(S)) + Len(S)] = e[i - Len(S)]
      BY <1>1, <3>1, Joined
    <3> QED
      BY <1>1, <3>1, <3>2
  <2>2. \A i \in 1 .. Len(S) : i = 1 \/ i = 2 \/ i = 3
    BY <1>1
  <2> QED
    BY <2>1, <2>2
<1> HIDE DEF q
<1>5. ASSUME NEW i \in 1 .. Len(q) PROVE (IsUnread(q[i], c) => i = 3 /\ c = s) /\ (IsOwed(q[i], c) => i = 1 /\ c = s)
  <2>1. CASE i = 1
    BY <1>2, <1>3, <2>1 DEF IsUnread, IsOwed, Effects
  <2>2. CASE i = 2
    BY <1>2, <1>3, <2>2 DEF IsUnread, IsOwed, Effects
  <2>3. CASE i = 3
    BY <1>2, <1>3, <2>3 DEF IsUnread, IsOwed, Effects
  <2>4. CASE q[i].op \in {"take", "drop"}
    BY <2>4 DEF IsUnread, IsOwed, Effects
  <2> QED
    BY <1>4, <2>1, <2>2, <2>3, <2>4
<1>6. c = s => IsUnread(q[3], c) /\ IsOwed(q[1], c)
  BY <1>2, <1>3 DEF IsUnread, IsOwed
<1>7. MarksOnce(q, c)
  <2>1. ASSUME NEW i \in 1 .. Len(q), IsOwed(q[i], c) PROVE i < 3 /\ IsUnread(q[3], c)
    BY <1>5, <1>6, <2>1
  <2> QED
    BY <1>3, <1>5, <2>1 DEF MarksOnce
<1>8. (HasUnread(q, c) <=> c = s) /\ (HasOwed(q, c) <=> c = s)
  BY <1>3, <1>5, <1>6 DEF HasUnread, HasOwed
<1> QED
  BY <1>7, <1>8 DEF q, e

LEMMA ReadOwn ==
    ASSUME BindingsInv, NEW t \in Threads, ReadSession(t), Head(todo[t]).s \in closable \intersect alive
    PROVE  BindingsInv'
<1> DEFINE q == todo[t]
           x == Head(q)
           s == x.s
           S == Guarded(s, x.n)
           new == S \o Tail(q)
<1>1. /\ q # <<>> /\ x.op = "read"
      /\ gil' = gil /\ UNCHANGED <<writer, alive, callbacks, watching, closable, unanswered, version, dirty>>
      /\ told' = told /\ pollAsked' = pollAsked
      /\ readers' = [readers EXCEPT ![s][t] = @ + 1] /\ answers' = [answers EXCEPT ![s] = @ + 1] /\ Continue(t, S)
  BY DEF ReadSession, At1, Head1, Guarded
<1>2. x \in Steps /\ gil # t /\ q \in Seq(Steps)
  BY <1>1, HeadIsSound DEF Keeps
<1>3. s \in Remotes /\ x.n \in Effects
  BY <1>1, <1>2 DEF Steps, Ops, Effects
<1>4. /\ BindingTypes /\ ThreadsAreSound /\ SessionsAgree /\ UpdatesAreOwed /\ version \in Nat
      /\ readers \in [Remotes -> [Threads -> Int]] /\ answers \in [PySessions -> Int]
      /\ closable \subseteq Remotes /\ closable \subseteq PySessions
      /\ \A c \in PySessions : told[c] <= version
  BY DEF BindingsInv, BindingTypes, UpdatesAreOwed, PySessions
<1>5. Tail(q) = <<Take, Drop>> /\ \A c : ~HasUnread(q, c) /\ ~HasOwed(q, c)
  BY <1>1, ReadHead
<1>6. IsGuarded(S, s, x.n)
  BY <1>3, GuardedSteps
<1>7. ThreadIsSound(q, gil = t, version, closable, alive)
  BY <1>1, HeadIsSound
<1> DEFINE n == x.n
<1>8. n \in Effects /\ IsGuarded(S, s, n) /\ x.op = "read" /\ s \in closable /\ s \in alive
  BY <1>1, <1>3, <1>6
<1> HIDE DEF q, x, s, S, new, n
<1>9. S \in Seq(Steps) /\ Len(S) = 3 /\ Runs(S, FALSE, FALSE) /\ Followed(S)
  BY <1>8 DEF IsGuarded
<1>10. \A i \in 1 .. Len(S) : S[i].op \in {"poll", "onPoll", "unread"} \union Effects /\ S[i].s = s
  <2>1. \A i \in 1 .. Len(S) : i = 1 \/ i = 2 \/ i = 3
    BY <1>9
  <2> QED
    BY <1>8, <2>1 DEF IsGuarded
<1>11. Clear(S, closable) /\ \A i \in 1 .. Len(S) : Fits(S[i], version, closable, alive)
  BY <1>3, <1>10 DEF Clear, Fits, Effects
<1>12. ASSUME NEW c PROVE MarksOnce(new, c) /\ (HasUnread(new, c) <=> c = s) /\ (HasOwed(new, c) <=> c = s)
  BY <1>3, <1>5, <1>8, GuardedMarks DEF new
<1>13. Tail(q) \in Seq(Steps) /\ new \in Seq(Steps)
  <2>1. Tail(q) \in Seq(Steps)
    BY <1>5, LastSteps
  <2> QED
    BY <1>9, <2>1, Joined DEF new
<1>14. todo' = [todo EXCEPT ![t] = new]
  BY <1>1 DEF Continue, new, q
<1>15. ThreadIsSound(new, gil' = t, version, closable, alive)
  <2> DEFINE held == gil = t
  <2>1. held \in BOOLEAN /\ version <= version /\ alive \subseteq alive /\ (gil' = t) = FALSE /\ (gil = t) = FALSE
    BY <1>1, <1>2, <1>4
  <2>2. ThreadIsSound(q, held, version, closable, alive)
    BY <1>7
  <2>3. \A b \in BOOLEAN : Keeps(Head(q).op, held, b) => Runs(S, FALSE, b)
    <3>1. \A b \in BOOLEAN : Keeps(Head(q).op, held, b) => b = FALSE
      BY <1>8 DEF Keeps, x
    <3> QED
      BY <1>9, <3>1
  <2>4. \A c \in closable : MarksOnce(S \o Tail(q), c)
    BY <1>12 DEF new
  <2>5. q # <<>> /\ q \in Seq(Steps) /\ Head(q).op \notin {"drop", "write"}
    BY <1>1, <1>2, <1>8 DEF q, x
  <2> HIDE DEF held
  <2>6. ThreadIsSound(S \o Tail(q), FALSE, version, closable, alive)
    BY <1>4, <1>9, <1>11, <2>1, <2>2, <2>3, <2>4, <2>5, SoundAfter
  <2> QED
    BY <2>1, <2>6 DEF new
<1>16. todo' \in [Threads -> Seq(Steps)] /\ ThreadsAreSound'
  <2>1. version' \in Nat /\ version <= version' /\ closable' = closable /\ alive' \subseteq alive /\ alive' = alive
        /\ \A u \in Threads \ {t} : (gil' = u) = (gil = u)
    BY <1>1, <1>4
  <2>2. ThreadIsSound(new, gil' = t, version', closable, alive')
    BY <1>1, <1>15
  <2> QED
    BY <1>4, <1>13, <1>14, <2>1, <2>2, ThreadsAfter
<1>17. SessionsAgree'
  <2>1. \A c \in closable : readers'[c][t] = IF HasUnread(new, c) THEN 1 ELSE 0
    <3>1. \A c \in closable : readers[c][t] = 0
      BY <1>4, <1>5 DEF SessionsAgree, q
    <3>2. \A c \in closable : readers'[c][t] = IF c = s THEN readers[c][t] + 1 ELSE readers[c][t]
      BY <1>1, <1>3, <1>4
    <3> QED
      BY <1>12, <3>1, <3>2
  <2>2. \A c \in closable, u \in Threads \ {t} : readers'[c][u] = readers[c][u]
    BY <1>1, <1>3, <1>4
  <2>3. \A c \in closable \ alive : ~HasUnread(new, c)
    BY <1>8, <1>12
  <2>4. \A c \in closable :
           answers'[c] = answers[c] + (IF HasOwed(new, c) THEN 1 ELSE 0) - (IF HasOwed(todo[t], c) THEN 1 ELSE 0)
    <3>1. \A c \in closable : answers[c] \in Int /\ answers'[c] = IF c = s THEN answers[c] + 1 ELSE answers[c]
      BY <1>1, <1>3, <1>4 DEF PySessions
    <3>2. \A c \in closable : ~HasOwed(todo[t], c)
      BY <1>5 DEF q
    <3> QED
      BY <1>12, <3>1, <3>2
  <2>5. Head(todo[t]).op # "takeOption"
    BY <1>8 DEF x, q
  <2> QED
    BY <1>1, <1>4, <1>13, <1>14, <2>1, <2>2, <2>3, <2>4, <2>5, SessionsAfter
<1>18. UpdatesAreOwed'
  <2>1. q \in Seq(Steps) /\ q # <<>> /\ Head(q).op \notin {"poll", "onPoll", "deliver", "callback"}
    BY <1>1, <1>2, <1>8 DEF x
  <2>2. dirty /\ Polls(q) => Polls(new) \/ pollAsked'
    BY <1>9, <2>1, StillToCome DEF new
  <2>3. \A c \in watching' : Tells(q, c, version) => Tells(new, c, version) \/ told'[c] = version
    BY <1>9, <2>1, StillToCome DEF new
  <2>4. version' = version /\ dirty' = dirty /\ watching' \subseteq watching /\ (pollAsked => pollAsked')
        /\ \A c \in PySessions : told'[c] <= version /\ (told[c] = version => told'[c] = version)
    BY <1>1, <1>4
  <2> QED
    BY <1>4, <1>13, <1>14, <2>2, <2>3, <2>4, UpdatesAfter DEF q
<1>19. BindingTypes'
  <2>1. readers' \in [Remotes -> [Threads -> Int]] /\ answers' \in [PySessions -> Int]
    BY <1>1, <1>3, <1>4 DEF PySessions
  <2> QED
    BY <1>1, <1>4, <1>16, <2>1 DEF BindingTypes
<1> QED
  BY <1>16, <1>17, <1>18, <1>19 DEF BindingsInv

LEMMA ReadSessionSound == ASSUME BindingsInv, NEW t \in Threads, ReadSession(t) PROVE BindingsInv'
BY ReadAside, ReadOwn

-----------------------------------------------------------------------------
(* Closing a session.                                                      *)

LEMMA SameMarks ==
    ASSUME BindingTypes, SessionsAgree, NEW t \in Threads, NEW new \in Seq(Steps),
           todo' = [todo EXCEPT ![t] = new], readers' = readers, answers' = answers,
           \A s \in closable : (HasUnread(new, s) <=> HasUnread(todo[t], s)) /\ (HasOwed(new, s) <=> HasOwed(todo[t], s))
    PROVE  /\ \A s \in closable, u \in Threads : (HasUnread(todo'[u], s) <=> HasUnread(todo[u], s))
           /\ \A s \in closable, u \in Threads : readers'[s][u] = IF HasUnread(todo'[u], s) THEN 1 ELSE 0
           /\ \A s \in closable : answers'[s] = Cardinality(Owing(s)')
<1>1. todo'[t] = new /\ \A u \in Threads \ {t} : todo'[u] = todo[u]
  BY DEF BindingTypes
<1>2. \A s \in closable, u \in Threads : (HasUnread(todo'[u], s) <=> HasUnread(todo[u], s))
  BY <1>1
<1>3. \A s \in closable, u \in Threads : readers'[s][u] = IF HasUnread(todo'[u], s) THEN 1 ELSE 0
  BY <1>2 DEF SessionsAgree
<1>4. ASSUME NEW s \in closable PROVE answers'[s] = Cardinality(Owing(s)')
  <2>1. answers[s] \in Int
    BY <1>4 DEF BindingTypes, PySessions
  <2>2. answers'[s] = answers[s] + (IF HasOwed(new, s) THEN 1 ELSE 0) - (IF HasOwed(todo[t], s) THEN 1 ELSE 0)
    BY <1>4, <2>1
  <2> QED
    BY <1>4, <2>2, OwingAfter
<1> QED
  BY <1>2, <1>3, <1>4

(* The first step is not needed any more.                                  *)
LEMMA RestSound ==
    ASSUME NEW q \in Seq(Steps), q # <<>>, NEW held \in BOOLEAN, NEW held2 \in BOOLEAN,
           NEW v \in Nat, NEW c, NEW a, NEW a2, a2 \subseteq a,
           ThreadIsSound(q, held, v, c, a),
           \A b \in BOOLEAN : Keeps(Head(q).op, held, b) => b = held2,
           \A s \in c : ~IsUnread(Head(q), s) /\ ~IsOwed(Head(q), s)
    PROVE  /\ Tail(q) \in Seq(Steps) /\ ThreadIsSound(Tail(q), held2, v, c, a2)
           /\ \A s \in c : (HasUnread(Tail(q), s) <=> HasUnread(q, s)) /\ (HasOwed(Tail(q), s) <=> HasOwed(q, s))
<1> DEFINE S == <<>>
<1>1. S \in Seq(Steps) /\ (\A i \in 1 .. Len(S) : FALSE) /\ Tail(q) \in Seq(Steps) /\ S \o Tail(q) = Tail(q)
  <2>1. Tail(q) \in Seq(Steps)
    BY Rest
  <2> QED
    BY <2>1
<1>2. (\A i \in 1 .. Len(S) : Fits(S[i], v, c, a2)) /\ Followed(S) /\ \A s : ~HasUnread(S, s) /\ ~HasOwed(S, s)
  BY <1>1 DEF Followed, HasUnread, HasOwed
<1>3. \A b \in BOOLEAN : Keeps(Head(q).op, held, b) => Runs(S, held2, b)
  BY RunsNone
<1>4. \A s \in c : MarksOnce(q, s)
  BY DEF ThreadIsSound
<1> HIDE DEF S
<1>5. ASSUME NEW s \in c
      PROVE  /\ MarksOnce(S \o Tail(q), s)
             /\ (HasUnread(S \o Tail(q), s) <=> HasUnread(q, s)) /\ (HasOwed(S \o Tail(q), s) <=> HasOwed(q, s))
  <2>1. \A i, j \in 1 .. Len(S) : IsOwed(S[i], s) /\ IsOwed(S[j], s) => i = j
    BY <1>1
  <2>2. MarksOnce(q, s) /\ ~HasUnread(S, s) /\ (HasOwed(S, s) => IsOwed(Head(q), s)) /\ ~HasOwed(S, s)
    BY <1>2, <1>4, <1>5
  <2>3. /\ MarksOnce(S \o Tail(q), s)
        /\ HasUnread(S \o Tail(q), s) <=> (HasUnread(q, s) /\ ~IsUnread(Head(q), s))
        /\ HasOwed(S \o Tail(q), s) <=> (HasOwed(S, s) \/ (HasOwed(q, s) /\ ~IsOwed(Head(q), s)))
    BY <1>1, <2>1, <2>2, MarksAfter
  <2> QED
    BY <1>5, <2>2, <2>3
<1>6. ThreadIsSound(S \o Tail(q), held2, v, c, a2)
  <2>1. v <= v /\ S = <<>>
    BY DEF S
  <2>2. \A s \in c : MarksOnce(S \o Tail(q), s)
    BY <1>5
  <2> QED
    BY <1>1, <1>2, <1>3, <2>1, <2>2, SoundAfter
<1> QED
  BY <1>1, <1>5, <1>6

(* The list of a thread that closes a session.                             *)
LEMMA CloseHead ==
    ASSUME BindingsInv, NEW t \in Threads, todo[t] # <<>>, Head(todo[t]).op \in {"write", "takeOption"}
    PROVE  /\ Head(todo[t]).s \in closable
           /\ Head(todo[t]).op = "write" => Tail(todo[t]) = <<Step("takeOption", Head(todo[t]).s, 0), Take, Drop>>
           /\ Head(todo[t]).op = "takeOption" => Tail(todo[t]) = <<Take, Drop>> /\ todo[t] = <<Head(todo[t]), Take, Drop>>
           /\ \A s : ~HasUnread(todo[t], s) /\ ~HasOwed(todo[t], s)
<1> DEFINE q == todo[t]
           x == Head(q)
<1>1. q \in Seq(Steps) /\ CallsFirst(q, closable) /\ x = q[1] /\ 1 \in 1 .. Len(q) /\ Fits(x, version, closable, alive)
  BY HeadIsSound DEF ThreadIsSound
<1>2. ~Clear(q, closable)
  BY <1>1 DEF Clear
<1>3. \A s : ~HasUnread(q, s) /\ ~HasOwed(q, s)
  BY <1>1, <1>2, CallsFirstMarks
<1>4. ASSUME NEW s \in closable, NEW effect \in Effects, q \in Readings(s, effect) PROVE FALSE
  <2>1. Drop.op = "drop" /\ Reading(s, effect).op = "read"
    BY DEF Drop, Step, Reading
  <2>2. x.op \in {"drop", "read"}
    BY <1>4, <2>1 DEF Readings
  <2> QED
    BY <2>2
<1>5. ASSUME NEW s \in closable, q \in Closings(s)
      PROVE  /\ x.op = "write" => Tail(q) = <<Step("takeOption", x.s, 0), Take, Drop>>
             /\ x.op = "takeOption" => Tail(q) = <<Take, Drop>> /\ q = <<x, Take, Drop>>
  <2> DEFINE w == Step("write", s, 0)
             o == Step("takeOption", s, 0)
  <2>1. CASE q = <<Drop, w, o, Take, Drop>>
    <3>1. Head(q) = Drop /\ Drop.op = "drop"
      BY <2>1 DEF Drop, Step
    <3> QED
      BY <3>1
  <2>2. CASE q = <<w, o, Take, Drop>>
    <3>1. x = w /\ Tail(q) = <<o, Take, Drop>>
      BY <2>2
    <3>2. w.op = "write" /\ w.s = s
      BY DEF Step
    <3> QED
      BY <3>1, <3>2
  <2>3. CASE q = <<o, Take, Drop>>
    <3>1. x = o /\ Tail(q) = <<Take, Drop>> /\ q = <<x, Take, Drop>>
      BY <2>3
    <3>2. o.op = "takeOption" /\ o.s = s
      BY DEF Step
    <3> QED
      BY <3>1, <3>2
  <2> QED
    BY <1>5, <2>1, <2>2, <2>3 DEF Closings
<1>6. x.s \in closable
  BY <1>1 DEF Fits
<1> QED
  BY <1>1, <1>2, <1>3, <1>4, <1>5, <1>6 DEF CallsFirst

LEMMA UpdatesKept ==
    ASSUME BindingTypes, UpdatesAreOwed, NEW t \in Threads, NEW new \in Seq(Steps),
           todo' = [todo EXCEPT ![t] = new], UNCHANGED <<version, dirty, told, pollAsked>>, watching' \subseteq watching,
           Polls(todo[t]) => Polls(new), \A s : Tells(todo[t], s, version) => Tells(new, s, version)
    PROVE  UpdatesAreOwed'
<1>1. \A s \in PySessions : told'[s] <= version /\ (told[s] = version => told'[s] = version)
  BY DEF UpdatesAreOwed
<1>2. version' = version /\ dirty' = dirty /\ (pollAsked => pollAsked')
      /\ (dirty /\ Polls(todo[t]) => Polls(new) \/ pollAsked')
  OBVIOUS
<1>3. \A s \in watching' : Tells(todo[t], s, version) => Tells(new, s, version) \/ told'[s] = version
  OBVIOUS
<1> QED
  BY <1>1, <1>2, <1>3, UpdatesAfter

\* The first step is not needed any more.
LEMMA RestKeeps ==
    ASSUME NEW q \in Seq(Steps), q # <<>>, Head(q).op \notin {"poll", "onPoll", "deliver", "callback"}
    PROVE  (Polls(q) => Polls(Tail(q))) /\ \A s, v : Tells(q, s, v) => Tells(Tail(q), s, v)
<1>1. <<>> \in Seq(Steps) /\ <<>> \o Tail(q) = Tail(q)
  <2>1. Tail(q) \in Seq(Steps)
    BY Rest
  <2> QED
    BY <2>1
<1>2. (Polls(q) => Polls(<<>> \o Tail(q))) /\ \A s, v : Tells(q, s, v) => Tells(<<>> \o Tail(q), s, v)
  BY <1>1, StillToCome
<1> QED
  BY <1>1, <1>2

LEMMA ContinueNone ==
    ASSUME BindingTypes, NEW t \in Threads, todo[t] # <<>>, Continue(t, <<>>)
    PROVE  todo' = [todo EXCEPT ![t] = Tail(todo[t])]
<1>1. Tail(todo[t]) \in Seq(Steps)
  BY Rest DEF BindingTypes
<1>2. <<>> \o Tail(todo[t]) = Tail(todo[t])
  BY <1>1
<1> QED
  BY <1>2 DEF Continue

LEMMA WriteSessionSound == ASSUME BindingsInv, NEW t \in Threads, WriteSession(t) PROVE BindingsInv'
<1> DEFINE q == todo[t]
           x == Head(q)
           s == x.s
           new == Tail(q)
           o == Step("takeOption", s, 0)
<1>1. /\ q # <<>> /\ x.op = "write" /\ writer[s] = NoThread /\ writer' = [writer EXCEPT ![s] = t] /\ Continue(t, <<>>)
      /\ gil' = gil /\ UNCHANGED <<readers, alive, callbacks, watching, closable, unanswered, version, dirty, answers, told, pollAsked>>
  BY DEF WriteSession, At1, Head1, engine
<1>2. q \in Seq(Steps) /\ gil # t /\ ThreadIsSound(q, gil = t, version, closable, alive)
  BY <1>1, HeadIsSound DEF Keeps
<1>3. s \in closable /\ new = <<o, Take, Drop>>
  BY <1>1, CloseHead
<1>4. BindingTypes /\ ThreadsAreSound /\ SessionsAgree /\ UpdatesAreOwed /\ version \in Nat /\ closable \subseteq Remotes
  BY DEF BindingsInv, BindingTypes
<1>5. todo' = [todo EXCEPT ![t] = new]
  BY <1>1, <1>4, ContinueNone
<1> HIDE DEF q, x, s, new
<1>6. /\ new \in Seq(Steps) /\ ThreadIsSound(new, gil' = t, version, closable, alive)
      /\ \A c \in closable : (HasUnread(new, c) <=> HasUnread(q, c)) /\ (HasOwed(new, c) <=> HasOwed(q, c))
  <2> DEFINE held == gil = t
  <2>1. held \in BOOLEAN /\ held = FALSE /\ (gil' = t) = FALSE /\ alive \subseteq alive /\ ThreadIsSound(q, held, version, closable, alive)
    BY <1>1, <1>2
  <2>2. \A b \in BOOLEAN : Keeps(Head(q).op, held, b) => b = FALSE
    BY <1>1 DEF Keeps, x
  <2>3. \A c \in closable : ~IsUnread(Head(q), c) /\ ~IsOwed(Head(q), c)
    BY <1>1 DEF IsUnread, IsOwed, Effects, x
  <2> HIDE DEF held
  <2>4. /\ Tail(q) \in Seq(Steps) /\ ThreadIsSound(Tail(q), FALSE, version, closable, alive)
        /\ \A c \in closable : (HasUnread(Tail(q), c) <=> HasUnread(q, c)) /\ (HasOwed(Tail(q), c) <=> HasOwed(q, c))
    BY <1>1, <1>2, <1>4, <2>1, <2>2, <2>3, RestSound
  <2> QED
    BY <2>1, <2>4 DEF new
<1>7. todo' \in [Threads -> Seq(Steps)] /\ todo'[t] = new /\ (\A u \in Threads \ {t} : todo'[u] = todo[u]) /\ ThreadsAreSound'
  <2>1. version' \in Nat /\ version <= version' /\ closable' = closable /\ alive' \subseteq alive /\ alive' = alive
        /\ \A u \in Threads \ {t} : (gil' = u) = (gil = u)
    BY <1>1, <1>4
  <2>2. ThreadIsSound(new, gil' = t, version', closable, alive')
    BY <1>1, <1>6
  <2> QED
    BY <1>4, <1>5, <1>6, <2>1, <2>2, ThreadsAfter
<1>8. /\ \A c \in closable, u \in Threads : (HasUnread(todo'[u], c) <=> HasUnread(todo[u], c))
      /\ \A c \in closable, u \in Threads : readers'[c][u] = IF HasUnread(todo'[u], c) THEN 1 ELSE 0
      /\ \A c \in closable : answers'[c] = Cardinality(Owing(c)')
  <2>1. \A c \in closable : (HasUnread(new, c) <=> HasUnread(todo[t], c)) /\ (HasOwed(new, c) <=> HasOwed(todo[t], c))
    BY <1>6 DEF q
  <2> QED
    BY <1>1, <1>4, <1>5, <1>6, <2>1, SameMarks
<1>9. ASSUME NEW c \in Remotes, NEW u \in Threads, writer'[c] = u
      PROVE  todo'[u] # <<>> /\ Head(todo'[u]) = Step("takeOption", c, 0)
  <2>1. CASE c = s
    <3>1. u = t
      BY <1>1, <1>3, <1>4, <1>9, <2>1 DEF BindingTypes
    <3>2. Head(new) = o /\ new # <<>>
      BY <1>3
    <3> QED
      BY <1>7, <2>1, <3>1, <3>2
  <2>2. CASE c # s
    <3>1. writer[c] = u
      BY <1>1, <1>3, <1>4, <1>9, <2>2 DEF BindingTypes
    <3>2. todo[u] # <<>> /\ Head(todo[u]) = Step("takeOption", c, 0)
      BY <1>4, <3>1 DEF SessionsAgree
    <3>3. u # t
      BY <1>1, <3>2 DEF Step, x, q
    <3> QED
      BY <1>7, <3>2, <3>3
  <2> QED
    BY <2>1, <2>2
<1>10. SessionsAgree'
  <2>1. \A c \in closable \ alive, u \in Threads : ~HasUnread(todo'[u], c)
    BY <1>4, <1>8 DEF SessionsAgree
  <2>2. /\ closable' = closable /\ alive' = alive /\ unanswered' = {}
        /\ Remotes \ closable \subseteq alive /\ alive \subseteq callbacks' /\ Local \in callbacks'
    BY <1>1, <1>4 DEF SessionsAgree
  <2> QED
    BY <1>8, <1>9, <2>1, <2>2 DEF SessionsAgree
<1>11. UpdatesAreOwed'
  <2>1. (Polls(q) => Polls(new)) /\ \A c : Tells(q, c, version) => Tells(new, c, version)
    BY <1>1, <1>2, RestKeeps DEF new, x
  <2> QED
    BY <1>1, <1>4, <1>5, <1>6, <2>1, UpdatesKept DEF q
<1>12. BindingTypes'
  <2>1. writer' \in [Remotes -> Threads \union {NoThread}]
    BY <1>1, <1>3, <1>4 DEF BindingTypes
  <2> QED
    BY <1>1, <1>4, <1>7, <2>1 DEF BindingTypes
<1> QED
  BY <1>7, <1>10, <1>11, <1>12 DEF BindingsInv

\* What is to do once the Option was taken.
LEMMA ClosingList ==
    ASSUME NEW x \in Steps, NEW y \in Steps
    PROVE  LET q == <<x, Take, Drop>> IN <<q[2], y>> \o SubSeq(q, 3, Len(q)) = <<Take, y, Drop>>
<1> DEFINE q == <<x, Take, Drop>>
           p == <<q[2], y>>
           e == SubSeq(q, 3, Len(q))
           r == <<Take, y, Drop>>
<1>1. Take \in Steps /\ Drop \in Steps
  BY LocalSteps
<1>2. q \in Seq(Steps) /\ Len(q) = 3 /\ q[2] = Take /\ q[3] = Drop
  BY <1>1
<1>3. p \in Seq(Steps) /\ Len(p) = 2 /\ p[1] = Take /\ p[2] = y
  BY <1>1, <1>2
<1>4. r \in Seq(Steps) /\ Len(r) = 3 /\ r[1] = Take /\ r[2] = y /\ r[3] = Drop
  <2>1. r \in Seq(Steps) /\ Len(r) = 3
    BY <1>1, ThreeSteps
  <2>2. r[1] = Take /\ r[2] = y /\ r[3] = Drop
    OBVIOUS
  <2> QED
    BY <2>1, <2>2
<1> HIDE DEF q, p, r
<1>5. e \in Seq(Steps) /\ Len(e) = 1 /\ e[1] = Drop
  <2>1. \A i \in 3 .. 3 : q[i] \in Steps
    BY <1>1, <1>2
  <2>2. e = SubSeq(q, 3, 3)
    BY <1>2
  <2>3. /\ SubSeq(q, 3, 3) \in Seq(Steps) /\ Len(SubSeq(q, 3, 3)) = 1
        /\ SubSeq(q, 3, 3)[1] = q[3]
    BY <1>2, <2>1
  <2> QED
    BY <1>2, <2>2, <2>3
<1> HIDE DEF e
<1>6. p \o e \in Seq(Steps) /\ Len(p \o e) = 3
  <2>1. p \o e \in Seq(Steps) /\ Len(p \o e) = Len(p) + Len(e)
    BY <1>3, <1>5, Joined
  <2> QED
    BY <1>3, <1>5, <2>1
<1>7. (p \o e)[1] = Take /\ (p \o e)[2] = y /\ (p \o e)[3] = Drop
  <2>1. (p \o e)[1] = p[1] /\ (p \o e)[2] = p[2]
    <3>1. 1 \in 1 .. Len(p) /\ 2 \in 1 .. Len(p)
      BY <1>3
    <3> QED
      BY <1>3, <1>5, <3>1, Joined
  <2>2. (p \o e)[1 + Len(p)] = e[1] /\ 1 + Len(p) = 3
    <3>1. 1 \in 1 .. Len(e) /\ 1 + Len(p) = 3
      BY <1>3, <1>5
    <3> QED
      BY <1>3, <1>5, <3>1, Joined
  <2> QED
    BY <1>3, <1>5, <2>1, <2>2
<1>8. \A i \in 1 .. 3 : (p \o e)[i] = r[i]
  <2>1. \A i \in 1 .. 3 : i = 1 \/ i = 2 \/ i = 3
    OBVIOUS
  <2> QED
    BY <1>4, <1>7, <2>1
<1>9. p \o e = r
  BY <1>4, <1>6, <1>8
<1> QED
  BY <1>9 DEF p, e, q, r

(* The list of such a thread is sound, and holds no marks.                 *)
LEMMA ClosedSound ==
    ASSUME NEW s \in PySessions, NEW c \in SUBSET Remotes, s \in c, NEW v, NEW a, s \notin a, NEW new,
           new = <<Take, Step("closeSession", s, 0), Drop>> \/ new = <<Take, Drop>>
    PROVE  /\ new \in Seq(Steps) /\ ThreadIsSound(new, FALSE, v, c, a) /\ new # <<>>
           /\ \A x : ~HasUnread(new, x) /\ ~HasOwed(new, x)
<1> DEFINE y == Step("closeSession", s, 0)
<1>1. y \in Steps /\ y.op = "closeSession" /\ y.s = s
  BY DEF Steps, Ops, Step
<1>2. Take \in Steps /\ Drop \in Steps /\ Take.op = "take" /\ Drop.op = "drop"
  BY LocalSteps
<1>3. new = <<Take, y, Drop>> \/ new = <<Take, Drop>>
  OBVIOUS
<1> HIDE DEF y
<1>4. new \in Seq(Steps) /\ new # <<>> /\ \A i \in 1 .. Len(new) : new[i] \in {Take, y, Drop}
  <2>1. CASE new = <<Take, y, Drop>>
    BY <1>1, <1>2, <2>1, ThreeSteps
  <2>2. CASE new = <<Take, Drop>>
    <3>1. Len(new) = 2 /\ new[1] = Take /\ new[2] = Drop /\ new \in Seq(Steps)
      BY <1>2, <2>2
    <3>2. \A i \in 1 .. 2 : i = 1 \/ i = 2
      OBVIOUS
    <3> QED
      BY <3>1, <3>2
  <2> QED
    BY <1>3, <2>1, <2>2
<1>5. Runs(new, FALSE, FALSE)
  <2>1. CASE new = <<Take, y, Drop>>
    <3>1. Keeps(Take.op, FALSE, TRUE) /\ Keeps(y.op, TRUE, TRUE) /\ Keeps(Drop.op, TRUE, FALSE)
      BY <1>1, <1>2 DEF Keeps
    <3> QED
      BY <1>1, <1>2, <2>1, <3>1, RunsThree
  <2>2. CASE new = <<Take, Drop>>
    <3> DEFINE h == [i \in 1 .. 3 |-> IF i = 2 THEN TRUE ELSE FALSE]
               e == <<Take, Drop>>
    <3>1. Len(e) = 2 /\ e[1] = Take /\ e[2] = Drop
      OBVIOUS
    <3>2. h \in [1 .. 3 -> BOOLEAN] /\ h[1] = FALSE /\ h[2] = TRUE /\ h[3] = FALSE
      OBVIOUS
    <3>3. new = e
      BY <2>2
    <3> HIDE DEF h, e
    <3>4. h \in [1 .. Len(e) + 1 -> BOOLEAN] /\ h[Len(e) + 1] = FALSE
      BY <3>1, <3>2
    <3>5. \A i \in 1 .. Len(e) : Keeps(e[i].op, h[i], h[i + 1])
      <4>1. \A i \in 1 .. Len(e) : i = 1 \/ i = 2
        BY <3>1
      <4>2. Keeps(e[1].op, h[1], h[2]) /\ Keeps(e[2].op, h[2], h[3])
        BY <1>2, <3>1, <3>2 DEF Keeps
      <4>3. 1 + 1 = 2 /\ 2 + 1 = 3
        OBVIOUS
      <4> QED
        BY <4>1, <4>2, <4>3
    <3> QED
      BY <3>2, <3>3, <3>4, <3>5 DEF Runs
  <2> QED
    BY <1>3, <2>1, <2>2
<1>6. \A i \in 1 .. Len(new) : new[i].op \in {"take", "drop", "closeSession"} /\ (new[i].op = "closeSession" => new[i].s = s)
  BY <1>1, <1>2, <1>4
<1>7. Followed(new) /\ Clear(new, c) /\ \A i \in 1 .. Len(new) : Fits(new[i], v, c, a)
  BY <1>6 DEF Followed, Clear, Fits
<1>8. \A i \in 1 .. Len(new) : \A x : ~IsUnread(new[i], x) /\ ~IsOwed(new[i], x)
  BY <1>6 DEF IsUnread, IsOwed, Effects
<1>9. \A x : ~HasUnread(new, x) /\ ~HasOwed(new, x) /\ MarksOnce(new, x)
  BY <1>8 DEF HasUnread, HasOwed, MarksOnce
<1> QED
  BY <1>4, <1>5, <1>7, <1>9 DEF ThreadIsSound, CallsFirst

LEMMA TakeSessionSound == ASSUME BindingsInv, NEW t \in Threads, TakeSession(t) PROVE BindingsInv'
<1> DEFINE q == todo[t]
           x == Head(q)
           s == x.s
           y == Step("closeSession", s, 0)
           new == IF s \in alive THEN <<q[2], y>> \o SubSeq(q, 3, Len(q)) ELSE Tail(q)
<1>1. /\ q # <<>> /\ x.op = "takeOption" /\ (\A u \in Threads : readers[s][u] = 0)
      /\ writer' = [writer EXCEPT ![s] = NoThread] /\ alive' = alive \ {s} /\ todo' = [todo EXCEPT ![t] = new]
      /\ gil' = gil /\ UNCHANGED <<readers, callbacks, watching, closable, unanswered, version, dirty, answers, told, pollAsked>>
  BY DEF TakeSession, At1, Head1, engine
<1>2. x \in Steps /\ q \in Seq(Steps) /\ gil # t
  BY <1>1, HeadIsSound DEF Keeps
<1>3. s \in closable /\ Tail(q) = <<Take, Drop>> /\ q = <<x, Take, Drop>> /\ \A c : ~HasUnread(q, c) /\ ~HasOwed(q, c)
  BY <1>1, CloseHead
<1>4. /\ BindingTypes /\ ThreadsAreSound /\ SessionsAgree /\ UpdatesAreOwed /\ version \in Nat
      /\ closable \subseteq Remotes /\ closable \subseteq PySessions /\ alive \subseteq Remotes
  BY DEF BindingsInv, BindingTypes, PySessions
<1>5. new = <<Take, y, Drop>> \/ new = <<Take, Drop>>
  <2>1. y \in Steps
    BY <1>3, <1>4 DEF Steps, Ops, Step
  <2>2. <<q[2], y>> \o SubSeq(q, 3, Len(q)) = <<Take, y, Drop>>
    <3> HIDE DEF x, y, s
    <3>1. LET r == <<x, Take, Drop>> IN <<r[2], y>> \o SubSeq(r, 3, Len(r)) = <<Take, y, Drop>>
      BY <1>2, <2>1, ClosingList
    <3> QED
      BY <1>3, <3>1
  <2> QED
    BY <1>3, <2>2
<1>6. /\ new \in Seq(Steps) /\ ThreadIsSound(new, FALSE, version, closable, alive') /\ new # <<>>
      /\ \A c : ~HasUnread(new, c) /\ ~HasOwed(new, c)
  <2>1. closable \in SUBSET Remotes /\ s \in PySessions /\ s \notin alive' /\ s \in closable
    BY <1>1, <1>3, <1>4
  <2>2. new = <<Take, Step("closeSession", s, 0), Drop>> \/ new = <<Take, Drop>>
    BY <1>5
  <2> HIDE DEF s, new
  <2> QED
    BY <2>1, <2>2, ClosedSound
<1> HIDE DEF q, x, s, y, new
<1>7. todo' \in [Threads -> Seq(Steps)] /\ todo'[t] = new /\ (\A u \in Threads \ {t} : todo'[u] = todo[u]) /\ ThreadsAreSound'
  <2>1. version' \in Nat /\ version <= version' /\ closable' = closable /\ alive' \subseteq alive
        /\ \A u \in Threads \ {t} : (gil' = u) = (gil = u)
    BY <1>1, <1>4
  <2>2. ThreadIsSound(new, gil' = t, version', closable, alive')
    <3>1. (gil' = t) = FALSE
      BY <1>1, <1>2
    <3> QED
      BY <1>1, <1>6, <3>1
  <2> QED
    BY <1>1, <1>4, <1>6, <2>1, <2>2, ThreadsAfter
<1>8. /\ \A c \in closable, u \in Threads : (HasUnread(todo'[u], c) <=> HasUnread(todo[u], c))
      /\ \A c \in closable, u \in Threads : readers'[c][u] = IF HasUnread(todo'[u], c) THEN 1 ELSE 0
      /\ \A c \in closable : answers'[c] = Cardinality(Owing(c)')
  <2>1. \A c \in closable : (HasUnread(new, c) <=> HasUnread(todo[t], c)) /\ (HasOwed(new, c) <=> HasOwed(todo[t], c))
    BY <1>3, <1>6 DEF q
  <2> QED
    BY <1>1, <1>4, <1>6, <2>1, SameMarks
<1>9. ASSUME NEW c \in Remotes, NEW u \in Threads, writer'[c] = u
      PROVE  todo'[u] # <<>> /\ Head(todo'[u]) = Step("takeOption", c, 0)
  <2>1. c # s /\ writer[c] = u
    BY <1>1, <1>3, <1>4, <1>9, BindingsAssumption DEF BindingTypes
  <2>2. todo[u] # <<>> /\ Head(todo[u]) = Step("takeOption", c, 0)
    BY <1>4, <2>1 DEF SessionsAgree
  <2>3. u # t
    <3>1. Step("takeOption", c, 0).s = c
      BY DEF Step
    <3> QED
      BY <2>1, <2>2, <3>1 DEF x, s, q
  <2> QED
    BY <1>7, <2>2, <2>3
<1>10. SessionsAgree'
  <2>1. \A c \in closable \ alive', u \in Threads : ~HasUnread(todo'[u], c)
    <3>1. ASSUME NEW u \in Threads PROVE ~HasUnread(todo[u], s)
      <4>1. readers[s][u] = 0
        BY <1>1
      <4>2. readers[s][u] = IF HasUnread(todo[u], s) THEN 1 ELSE 0
        BY <1>3, <1>4 DEF SessionsAgree
      <4> QED
        BY <4>1, <4>2
    <3>2. \A c \in closable \ alive, u \in Threads : ~HasUnread(todo[u], c)
      BY <1>4 DEF SessionsAgree
    <3>3. \A c \in closable \ alive' : c = s \/ c \in closable \ alive
      BY <1>1
    <3>4. \A c \in closable \ alive', u \in Threads : ~HasUnread(todo[u], c)
      BY <3>1, <3>2, <3>3
    <3> QED
      BY <1>8, <3>4
  <2>2. /\ closable' = closable /\ unanswered' = {}
        /\ Remotes \ closable \subseteq alive' /\ alive' \subseteq callbacks' /\ Local \in callbacks'
    BY <1>1, <1>3, <1>4 DEF SessionsAgree
  <2> QED
    BY <1>8, <1>9, <2>1, <2>2 DEF SessionsAgree
<1>11. UpdatesAreOwed'
  <2>1. \A i \in 1 .. Len(q) : q[i].op \notin {"poll", "onPoll", "deliver", "callback"}
    <3>1. Take.op = "take" /\ Drop.op = "drop" /\ Take \in Steps /\ Drop \in Steps
      BY LocalSteps
    <3>2. \A i \in 1 .. Len(q) : q[i] = x \/ q[i] = Take \/ q[i] = Drop
      BY <1>2, <1>3, <3>1, ThreeSteps
    <3> QED
      BY <1>1, <3>1, <3>2
  <2>2. (Polls(q) => Polls(new)) /\ \A c : Tells(q, c, version) => Tells(new, c, version)
    BY <2>1 DEF Polls, Tells
  <2> QED
    BY <1>1, <1>4, <1>6, <2>2, UpdatesKept DEF q
<1>12. BindingTypes'
  <2>1. writer' \in [Remotes -> Threads \union {NoThread}] /\ alive' \subseteq Remotes
    BY <1>1, <1>3, <1>4 DEF BindingTypes
  <2> QED
    BY <1>1, <1>4, <1>7, <2>1 DEF BindingTypes
<1> QED
  BY <1>7, <1>10, <1>11, <1>12 DEF BindingsInv

LEMMA CloseSessionSound == ASSUME BindingsInv, NEW t \in Threads, CloseSession(t) PROVE BindingsInv'
<1> DEFINE q == todo[t]
           x == Head(q)
           s == x.s
           new == Tail(q)
<1>1. /\ q # <<>> /\ x.op = "closeSession" /\ callbacks' = callbacks \ {s} /\ watching' = watching \ {s}
      /\ unanswered' = (IF answers[s] > 0 THEN unanswered \union {s} ELSE unanswered) /\ Continue(t, <<>>)
      /\ gil' = gil /\ UNCHANGED <<writer, readers, alive, closable, version, dirty, answers, told, pollAsked>>
  BY DEF CloseSession, At1, Head1, locks
<1>2. q \in Seq(Steps) /\ ThreadIsSound(q, gil = t, version, closable, alive) /\ s \in closable /\ s \notin alive
  BY <1>1, HeadIsSound DEF Fits
<1>3. /\ BindingTypes /\ ThreadsAreSound /\ SessionsAgree /\ UpdatesAreOwed /\ version \in Nat
      /\ closable \subseteq Remotes /\ s # Local
  BY <1>2, BindingsAssumption DEF BindingsInv, BindingTypes
<1>4. todo' = [todo EXCEPT ![t] = new]
  BY <1>1, <1>3, ContinueNone
<1> HIDE DEF q, x, s, new
<1>5. /\ new \in Seq(Steps) /\ ThreadIsSound(new, gil' = t, version, closable, alive)
      /\ \A c \in closable : (HasUnread(new, c) <=> HasUnread(q, c)) /\ (HasOwed(new, c) <=> HasOwed(q, c))
  <2> DEFINE held == gil = t
  <2>1. held \in BOOLEAN /\ alive \subseteq alive /\ ThreadIsSound(q, held, version, closable, alive)
    BY <1>2
  <2>2. \A c \in closable : ~IsUnread(Head(q), c) /\ ~IsOwed(Head(q), c)
    BY <1>1 DEF IsUnread, IsOwed, Effects, x
  <2>3. (gil' = t) = held
    BY <1>1
  <2> HIDE DEF held
  <2>4. \A b \in BOOLEAN : Keeps(Head(q).op, held, b) => b = held
    BY <1>1, <2>1 DEF Keeps, x
  <2>5. /\ Tail(q) \in Seq(Steps) /\ ThreadIsSound(Tail(q), held, version, closable, alive)
        /\ \A c \in closable : (HasUnread(Tail(q), c) <=> HasUnread(q, c)) /\ (HasOwed(Tail(q), c) <=> HasOwed(q, c))
    BY <1>1, <1>2, <1>3, <2>1, <2>2, <2>4, RestSound
  <2> QED
    BY <2>3, <2>5 DEF new
<1>6. todo' \in [Threads -> Seq(Steps)] /\ todo'[t] = new /\ (\A u \in Threads \ {t} : todo'[u] = todo[u]) /\ ThreadsAreSound'
  <2>1. version' \in Nat /\ version <= version' /\ closable' = closable /\ alive' \subseteq alive /\ alive' = alive
        /\ \A u \in Threads \ {t} : (gil' = u) = (gil = u)
    BY <1>1, <1>3
  <2>2. ThreadIsSound(new, gil' = t, version', closable, alive')
    BY <1>1, <1>5
  <2> QED
    BY <1>3, <1>4, <1>5, <2>1, <2>2, ThreadsAfter
<1>7. /\ \A c \in closable, u \in Threads : (HasUnread(todo'[u], c) <=> HasUnread(todo[u], c))
      /\ \A c \in closable, u \in Threads : readers'[c][u] = IF HasUnread(todo'[u], c) THEN 1 ELSE 0
      /\ \A c \in closable : answers'[c] = Cardinality(Owing(c)')
  <2>1. \A c \in closable : (HasUnread(new, c) <=> HasUnread(todo[t], c)) /\ (HasOwed(new, c) <=> HasOwed(todo[t], c))
    BY <1>5 DEF q
  <2> QED
    BY <1>1, <1>3, <1>4, <1>5, <2>1, SameMarks
<1>8. unanswered' = {}
  <2>1. \A u \in Threads : ~HasUnread(todo[u], s)
    BY <1>2, <1>3 DEF SessionsAgree
  <2>2. ASSUME NEW u \in Threads PROVE ~HasOwed(todo[u], s)
    <3>1. MarksOnce(todo[u], s)
      BY <1>2, <1>3 DEF ThreadsAreSound, ThreadIsSound
    <3> QED
      BY <2>1, <3>1 DEF MarksOnce, HasOwed, HasUnread
  <2>3. Owing(s) = {}
    BY <2>2 DEF Owing
  <2>4. answers[s] = 0
    BY <1>2, <1>3, <2>3, FS_EmptySet DEF SessionsAgree
  <2> QED
    BY <1>1, <1>3, <2>4 DEF SessionsAgree
<1>9. ASSUME NEW c \in Remotes, NEW u \in Threads, writer'[c] = u
      PROVE  todo'[u] # <<>> /\ Head(todo'[u]) = Step("takeOption", c, 0)
  <2>1. writer[c] = u
    BY <1>1, <1>9
  <2>2. todo[u] # <<>> /\ Head(todo[u]) = Step("takeOption", c, 0)
    BY <1>3, <2>1 DEF SessionsAgree
  <2>3. u # t
    BY <1>1, <2>2 DEF x, q, Step
  <2> QED
    BY <1>6, <2>2, <2>3
<1>10. SessionsAgree'
  <2>1. \A c \in closable \ alive, u \in Threads : ~HasUnread(todo'[u], c)
    BY <1>3, <1>7 DEF SessionsAgree
  <2>2. /\ closable' = closable /\ alive' = alive
        /\ Remotes \ closable \subseteq alive /\ alive \subseteq callbacks' /\ Local \in callbacks'
    BY <1>1, <1>2, <1>3 DEF SessionsAgree
  <2> QED
    BY <1>7, <1>8, <1>9, <2>1, <2>2 DEF SessionsAgree
<1>11. UpdatesAreOwed'
  <2>1. (Polls(q) => Polls(new)) /\ \A c : Tells(q, c, version) => Tells(new, c, version)
    BY <1>1, <1>2, RestKeeps DEF new, x
  <2> QED
    BY <1>1, <1>3, <1>4, <1>5, <2>1, UpdatesKept DEF q
<1>12. BindingTypes'
  <2>1. callbacks' \subseteq PySessions /\ watching' \subseteq callbacks'
    BY <1>1, <1>3 DEF BindingTypes
  <2> QED
    BY <1>1, <1>3, <1>6, <2>1 DEF BindingTypes
<1> QED
  BY <1>6, <1>10, <1>11, <1>12 DEF BindingsInv

-----------------------------------------------------------------------------
(* The engine, and the messages of an update.                              *)

(* A finite set, as a sequence.                                            *)
LEMMA Enumerated ==
    ASSUME NEW W, IsFiniteSet(W), NEW f, f = Seqs!SetToSeq(W)
    PROVE  f \in Seq(W) /\ \A w \in W : \E i \in 1 .. Len(f) : f[i] = w
<1> DEFINE n == Cardinality(W)
<1>1. n \in Nat /\ ExistsBijection(1 .. n, W)
  BY FS_CardinalityType
<1>2. n = Seqs!Cardinality(W)
  BY DEF Cardinality, Seqs!Cardinality
<1> HIDE DEF n
<1>3. \E g \in [1 .. n -> W] : Seqs!IsInjective(g)
  BY <1>1 DEF ExistsBijection, Bijection, Injection, IsInjective, Seqs!IsInjective
<1>4. f = CHOOSE g \in [1 .. n -> W] : Seqs!IsInjective(g)
  BY <1>2 DEF Seqs!SetToSeq
<1>5. f \in [1 .. n -> W] /\ Seqs!IsInjective(f)
  BY <1>3, <1>4
<1>6. f \in Injection(1 .. n, W)
  BY <1>5 DEF Injection, IsInjective, Seqs!IsInjective
<1>7. Cardinality(1 .. n) = n
  <2>1. n = 0 => 1 .. n = {}
    OBVIOUS
  <2>2. CASE n = 0
    BY <2>1, <2>2, FS_EmptySet
  <2>3. CASE n # 0
    BY <1>1, <2>3, FS_Interval
  <2> QED
    BY <2>2, <2>3
<1>8. f \in Surjection(1 .. n, W)
  <2>1. Cardinality(1 .. n) = Cardinality(W)
    BY <1>7 DEF n
  <2> QED
    BY <1>6, <2>1, FS_Injection
<1>9. f \in Seq(W) /\ Len(f) = n
  BY <1>1, <1>5
<1> QED
  BY <1>8, <1>9 DEF Surjection

\* Messages to the sessions that watch, about one update.
IsMessages(S, v) ==
    /\ S \in Seq(Steps)
    /\ \A i \in 1 .. Len(S) : S[i].op = "deliver" /\ S[i].n = v

LEMMA MessagesAre ==
    ASSUME BindingTypes, NEW v \in Nat
    PROVE  IsMessages(Messages(v), v) /\ \A s \in watching : Tells(Messages(v), s, v)
<1> DEFINE ws == Seqs!SetToSeq(watching)
           S == [i \in DOMAIN ws |-> Step("deliver", ws[i], v)]
<1>1. IsFiniteSet(watching) /\ watching \subseteq PySessions
  <2>1. watching \subseteq PySessions
    BY DEF BindingTypes
  <2>2. IsFiniteSet(PySessions)
    BY BindingsAssumption, FS_AddElement DEF PySessions
  <2> QED
    BY <2>1, <2>2, FS_Subset
<1>2. ws \in Seq(watching) /\ \A w \in watching : \E i \in 1 .. Len(ws) : ws[i] = w
  <2>1. ws = Seqs!SetToSeq(watching)
    OBVIOUS
  <2> HIDE DEF ws
  <2> QED
    BY <1>1, <2>1, Enumerated
<1>3. Messages(v) = S
  BY DEF Messages
<1> HIDE DEF ws
<1>4. DOMAIN ws = 1 .. Len(ws) /\ Len(ws) \in Nat /\ \A i \in 1 .. Len(ws) : ws[i] \in PySessions
  BY <1>1, <1>2
<1>5. \A i \in 1 .. Len(ws) : S[i] = Step("deliver", ws[i], v)
  BY <1>4
<1>6. \A i \in 1 .. Len(ws) : Step("deliver", ws[i], v) \in Steps
  BY <1>4 DEF Step, Steps, Ops
<1>7. S \in Seq(Steps) /\ Len(S) = Len(ws)
  <2> DEFINE n == Len(ws)
  <2>1. S \in [1 .. n -> Steps] /\ n \in Nat
    BY <1>4, <1>6
  <2> HIDE DEF S, n
  <2>2. S \in Seq(Steps) /\ Len(S) = n
    BY <2>1
  <2> QED
    BY <2>2 DEF n
<1> HIDE DEF S
<1>8. \A i \in 1 .. Len(S) : S[i].op = "deliver" /\ S[i].n = v /\ S[i].s = ws[i]
  <2>1. \A i \in 1 .. Len(S) : S[i] = Step("deliver", ws[i], v)
    BY <1>5, <1>7
  <2>2. \A w : Step("deliver", w, v).op = "deliver" /\ Step("deliver", w, v).n = v /\ Step("deliver", w, v).s = w
    BY DEF Step
  <2> QED
    BY <2>1, <2>2
<1>9. \A s \in watching : Tells(S, s, v)
  BY <1>2, <1>7, <1>8 DEF Tells
<1> QED
  BY <1>3, <1>7, <1>8, <1>9 DEF IsMessages

(* What a list of messages is for the invariant.                           *)
LEMMA MessagesSound ==
    ASSUME NEW S, NEW v \in Nat, v > 0, IsMessages(S, v), NEW b \in BOOLEAN
    PROVE  /\ S \in Seq(Steps) /\ Runs(S, b, b) /\ Followed(S) /\ Clear(S, closable)
           /\ \A i \in 1 .. Len(S) : Fits(S[i], v, closable, alive)
           /\ \A c : \A i \in 1 .. Len(S) : ~IsUnread(S[i], c) /\ ~IsOwed(S[i], c)
<1>1. S \in Seq(Steps) /\ Len(S) \in Nat /\ \A i \in 1 .. Len(S) : S[i].op = "deliver" /\ S[i].n = v
  BY DEF IsMessages
<1>2. Runs(S, b, b)
  <2> DEFINE h == [i \in 1 .. Len(S) + 1 |-> b]
  <2>1. h \in [1 .. Len(S) + 1 -> BOOLEAN] /\ h[1] = b /\ h[Len(S) + 1] = b
    BY <1>1
  <2>2. \A i \in 1 .. Len(S) : h[i] = b /\ h[i + 1] = b
    BY <1>1
  <2> HIDE DEF h
  <2>3. \A i \in 1 .. Len(S) : Keeps(S[i].op, h[i], h[i + 1])
    BY <1>1, <2>2 DEF Keeps
  <2> QED
    BY <2>1, <2>3 DEF Runs
<1>3. Followed(S) /\ Clear(S, closable) /\ \A i \in 1 .. Len(S) : Fits(S[i], v, closable, alive)
  BY <1>1 DEF Followed, Clear, Fits
<1>4. \A c : \A i \in 1 .. Len(S) : ~IsUnread(S[i], c) /\ ~IsOwed(S[i], c)
  BY <1>1 DEF IsUnread, IsOwed, Effects
<1> QED
  BY <1>1, <1>2, <1>3, <1>4

(* What processing makes of the rows that wait.                            *)
LEMMA ProcessedAre ==
    ASSUME BindingsInv, NEW now \in BOOLEAN
    PROVE  /\ dirty /\ now => version > 0 /\ IsMessages(Processed(now), version)
                              /\ \A s \in watching : Tells(Processed(now), s, version)
           /\ ~(dirty /\ now) => Processed(now) = <<>>
<1>1. version \in Nat /\ (dirty => version > 0) /\ BindingTypes
  BY DEF BindingsInv, BindingTypes, UpdatesAreOwed
<1> QED
  BY <1>1, MessagesAre DEF Processed

LEMMA ProcessedSound ==
    ASSUME BindingsInv, NEW now \in BOOLEAN, NEW b \in BOOLEAN, NEW P, P = Processed(now)
    PROVE  /\ P \in Seq(Steps) /\ Runs(P, b, b) /\ Followed(P) /\ Clear(P, closable)
           /\ \A i \in 1 .. Len(P) : Fits(P[i], version, closable, alive)
           /\ \A c : \A i \in 1 .. Len(P) : ~IsUnread(P[i], c) /\ ~IsOwed(P[i], c)
<1>1. CASE dirty /\ now
  <2>1. version \in Nat /\ version > 0 /\ IsMessages(P, version)
    BY <1>1, ProcessedAre DEF BindingsInv, BindingTypes
  <2> QED
    BY <2>1, MessagesSound
<1>2. CASE ~(dirty /\ now)
  <2>1. P = <<>>
    BY <1>2, ProcessedAre
  <2>2. P \in Seq(Steps) /\ \A i \in 1 .. Len(P) : FALSE
    BY <2>1
  <2>3. Runs(P, b, b)
    BY <2>1, RunsNone
  <2> QED
    BY <2>2, <2>3 DEF Followed, Clear
<1> QED
  BY <1>1, <1>2

LEMMA PollEngineSound == ASSUME BindingsInv, NEW t \in Threads, PollEngine(t) PROVE BindingsInv'
<1> DEFINE q == todo[t]
           x == Head(q)
           S == Processed(TRUE)
           new == S \o Tail(q)
<1>1. /\ q # <<>> /\ x.op = "poll" /\ Continue(t, S) /\ dirty' = FALSE
      /\ gil' = gil /\ readers' = readers
      /\ UNCHANGED <<writer, alive, callbacks, watching, closable, unanswered, version, answers, told, pollAsked>>
  BY DEF PollEngine, At1, Head1, locks
<1>2. q \in Seq(Steps) /\ BindingTypes /\ UpdatesAreOwed /\ version \in Nat
  BY DEF BindingsInv, BindingTypes
<1> DEFINE held == gil = t
<1>3. held \in BOOLEAN /\ (gil' = t) = held
  BY <1>1
<1> HIDE DEF held
<1>4. /\ S \in Seq(Steps) /\ Runs(S, held, held) /\ Followed(S) /\ Clear(S, closable)
      /\ \A i \in 1 .. Len(S) : Fits(S[i], version, closable, alive)
      /\ \A c : \A i \in 1 .. Len(S) : ~IsUnread(S[i], c) /\ ~IsOwed(S[i], c)
  <2>1. S = Processed(TRUE) /\ TRUE \in BOOLEAN
    OBVIOUS
  <2> HIDE DEF S
  <2> QED
    BY <1>3, <2>1, ProcessedSound
<1>5. /\ dirty => \A s \in watching : Tells(S, s, version)
  BY ProcessedAre
<1> HIDE DEF S, x, new
<1>6. \A c : ~IsUnread(x, c) /\ ~IsOwed(x, c) /\ ~HasUnread(S, c) /\ ~HasOwed(S, c)
  BY <1>1, <1>4 DEF IsUnread, IsOwed, HasUnread, HasOwed, Effects
<1>7. /\ new \in Seq(Steps) /\ todo' = [todo EXCEPT ![t] = new]
      /\ todo' \in [Threads -> Seq(Steps)] /\ ThreadsAreSound' /\ SessionsAgree'
  <2>1. \A b \in BOOLEAN : Keeps(x.op, gil = t, b) => Runs(S, gil' = t, b)
    <3>1. \A b \in BOOLEAN : Keeps(x.op, held, b) => b = held
      BY <1>1, <1>3 DEF Keeps
    <3>2. \A b \in BOOLEAN : Keeps(x.op, held, b) => Runs(S, held, b)
      BY <1>4, <3>1
    <3> QED
      BY <1>3, <3>2 DEF held
  <2>2. version' \in Nat /\ version <= version' /\ gil' \in Threads \union {NoThread}
        /\ (\A u \in Threads \ {t} : (gil' = u) = (gil = u)) /\ x.op \notin {"drop", "write", "takeOption"}
    BY <1>1, <1>2 DEF BindingTypes
  <2>3. \A i \in 1 .. Len(S) : Fits(S[i], version', closable, alive)
    BY <1>1, <1>4
  <2>4. \A s \in closable : answers'[s] = answers[s] - (IF IsOwed(x, s) /\ ~HasOwed(S, s) THEN 1 ELSE 0)
    <3>1. \A s \in closable : answers[s] - 0 = answers[s]
      BY <1>2 DEF BindingTypes, PySessions
    <3> QED
      BY <1>1, <1>6, <3>1
  <2>5. /\ \A s \in closable : readers'[s][t] = readers[s][t] - (IF IsUnread(x, s) THEN 1 ELSE 0)
        /\ \A s \in closable, u \in Threads \ {t} : readers'[s][u] = readers[s][u]
    <3>1. \A s \in closable : readers[s][t] - 0 = readers[s][t]
      BY <1>2 DEF BindingTypes
    <3> QED
      BY <1>1, <1>6, <3>1
  <2>6. /\ \A s \in closable : ~HasUnread(S, s) /\ (HasOwed(S, s) => IsOwed(x, s))
        /\ \A s \in closable : \A i, j \in 1 .. Len(S) : IsOwed(S[i], s) /\ IsOwed(S[j], s) => i = j
    BY <1>4, <1>6
  <2> QED
    BY <1>1, <1>4, <2>1, <2>2, <2>3, <2>4, <2>5, <2>6, ListStep DEF x, new
<1>8. UpdatesAreOwed'
  <2>1. \A s \in PySessions : told'[s] <= version'
    BY <1>1, <1>2 DEF UpdatesAreOwed
  <2>2. todo'[t] = new
    BY <1>2, <1>7 DEF BindingTypes
  <2>3. ASSUME NEW s \in watching' PROVE told'[s] = version' \/ \E u \in Threads : Tells(todo'[u], s, version')
    <3>1. told[s] = version \/ dirty \/ \E u \in Threads : Tells(todo[u], s, version)
      BY <1>1, <1>2, <2>3 DEF UpdatesAreOwed
    <3>2. CASE dirty
      <4>1. Tells(S, s, version)
        BY <1>1, <1>5, <2>3, <3>2
      <4>2. Tells(new, s, version)
        BY <1>1, <1>2, <1>4, <4>1, StillToCome DEF new
      <4> QED
        BY <1>1, <2>2, <4>2
    <3>3. ASSUME NEW u \in Threads, Tells(todo[u], s, version) PROVE Tells(todo'[u], s, version)
      <4>1. CASE u = t
        <5>1. Tells(q, s, version) /\ ~(Head(q).op \in {"deliver", "callback"})
          BY <1>1, <3>3, <4>1 DEF x
        <5>2. Tells(new, s, version)
          BY <1>1, <1>2, <1>4, <5>1, StillToCome DEF new
        <5> QED
          BY <2>2, <4>1, <5>2
      <4>2. CASE u # t
        BY <1>2, <1>7, <3>3, <4>2 DEF BindingTypes
      <4> QED
        BY <4>1, <4>2
    <3> QED
      BY <1>1, <3>1, <3>2, <3>3
  <2> QED
    BY <1>1, <2>1, <2>3 DEF UpdatesAreOwed
<1>9. BindingTypes'
  BY <1>1, <1>2, <1>7 DEF BindingTypes
<1> QED
  BY <1>7, <1>8, <1>9 DEF BindingsInv

\* The messages of a request, and the response of the request itself.
EngineList(s, now) == Processed(now) \o <<Step("deliver", s, 0)>>

IsEngineList(S, s, now, b, v) ==
    /\ S \in Seq(Steps) /\ Runs(S, b, b) /\ Followed(S) /\ Clear(S, closable)
    /\ \A i \in 1 .. Len(S) : Fits(S[i], v, closable, alive)
    /\ \A c : ~HasUnread(S, c) /\ (HasOwed(S, c) <=> c = s)
    /\ \A c : \A i, j \in 1 .. Len(S) : IsOwed(S[i], c) /\ IsOwed(S[j], c) => i = j
    /\ dirty /\ now => \A w \in watching : Tells(S, w, version)

LEMMA EngineListSound ==
    ASSUME BindingsInv, NEW now \in BOOLEAN, NEW b \in BOOLEAN, NEW s \in PySessions, NEW S, S = EngineList(s, now),
           NEW v \in Nat, version <= v
    PROVE  IsEngineList(S, s, now, b, v)
<1> DEFINE P == Processed(now)
           d == Step("deliver", s, 0)
           k == Len(P) + 1
<1>1. /\ P \in Seq(Steps) /\ Runs(P, b, b) /\ Followed(P) /\ Clear(P, closable)
      /\ \A i \in 1 .. Len(P) : Fits(P[i], version, closable, alive)
      /\ \A c : \A i \in 1 .. Len(P) : ~IsUnread(P[i], c) /\ ~IsOwed(P[i], c)
  <2>1. P = Processed(now)
    OBVIOUS
  <2> HIDE DEF P
  <2> QED
    BY <2>1, ProcessedSound
<1>2. dirty /\ now => \A w \in watching : Tells(P, w, version)
  BY ProcessedAre
<1>3. d \in Steps /\ d.op = "deliver" /\ d.s = s /\ d.n = 0
  BY DEF Steps, Ops, Step
<1>4. S = P \o <<d>>
  BY DEF EngineList
<1> HIDE DEF P, d
<1>5. <<d>> \in Seq(Steps) /\ Len(<<d>>) = 1 /\ <<d>>[1] = d /\ \A i \in 1 .. Len(<<d>>) : i = 1 /\ <<d>>[i] = d
  BY <1>3, OneStep
<1>6. Runs(<<d>>, b, b)
  BY <1>3, RunsOne DEF Keeps
<1>7. Followed(<<d>>) /\ Clear(<<d>>, closable)
  BY <1>3, <1>5 DEF Followed, Clear
<1>8. S \in Seq(Steps) /\ Runs(S, b, b) /\ Followed(S) /\ Clear(S, closable)
  <2>1. S \in Seq(Steps)
    BY <1>1, <1>4, <1>5, Joined
  <2>2. Runs(S, b, b)
    BY <1>1, <1>4, <1>5, <1>6, RunsBoth
  <2>3. Followed(S)
    BY <1>1, <1>4, <1>5, <1>7, FollowedBoth
  <2>4. Clear(S, closable)
    BY <1>1, <1>4, <1>5, <1>7, ClearBoth
  <2> QED
    BY <2>1, <2>2, <2>3, <2>4
<1>9. k \in 1 .. Len(S) /\ S[k] = d /\ \A i \in 1 .. Len(S) : i = k \/ (i \in 1 .. Len(P) /\ S[i] = P[i])
  <2>1. 1 \in 1 .. Len(<<d>>) /\ Len(P) \in Nat
    BY <1>1, <1>5
  <2>2. 1 + Len(P) \in 1 .. Len(S) /\ S[1 + Len(P)] = <<d>>[1]
    BY <1>1, <1>4, <1>5, <2>1, Joined
  <2>3. k = 1 + Len(P)
    BY <2>1
  <2>4. ASSUME NEW i \in 1 .. Len(S), ~(i \in 1 .. Len(P)) PROVE i = k
    <3>1. i - Len(P) \in 1 .. Len(<<d>>) /\ i = (i - Len(P)) + Len(P)
      BY <1>1, <1>4, <1>5, <2>4, Joined
    <3>2. i - Len(P) = 1
      BY <1>5, <3>1
    <3> QED
      BY <2>1, <3>1, <3>2
  <2>5. \A i \in 1 .. Len(P) : S[i] = P[i]
    BY <1>1, <1>4, <1>5, Joined
  <2> QED
    BY <1>5, <2>2, <2>3, <2>4, <2>5
<1> HIDE DEF k
<1>10. ASSUME NEW i \in 1 .. Len(S) PROVE Fits(S[i], v, closable, alive)
  <2>1. CASE i = k
    BY <1>3, <1>9, <2>1 DEF Fits
  <2>2. CASE i \in 1 .. Len(P) /\ S[i] = P[i]
    <3>1. Fits(P[i], version, closable, alive) /\ P[i] \in Steps /\ version \in Nat
      BY <1>1, <2>2 DEF BindingsInv, BindingTypes
    <3>2. P[i].op \in {"deliver", "callback"} => P[i].n \in Nat
      BY <3>1 DEF Steps, Ops, Effects
    <3>3. P[i].op \in {"deliver", "callback"} => P[i].n <= v
      BY <3>1, <3>2 DEF Fits
    <3> QED
      BY <2>2, <3>1, <3>3 DEF Fits
  <2> QED
    BY <1>9, <2>1, <2>2
<1>11. \A c : ~IsUnread(d, c) /\ (IsOwed(d, c) <=> c = s)
  BY <1>3 DEF IsUnread, IsOwed, Effects
<1>12. \A c : \A i \in 1 .. Len(S) : ~IsUnread(S[i], c) /\ (IsOwed(S[i], c) => i = k /\ c = s)
  BY <1>1, <1>9, <1>11
<1>13. \A c : ~HasUnread(S, c) /\ (HasOwed(S, c) <=> c = s)
  BY <1>9, <1>11, <1>12 DEF HasUnread, HasOwed
<1>14. \A c : \A i, j \in 1 .. Len(S) : IsOwed(S[i], c) /\ IsOwed(S[j], c) => i = j
  BY <1>12
<1>15. dirty /\ now => \A w \in watching : Tells(S, w, version)
  <2>1. \A i \in 1 .. Len(P) : i \in 1 .. Len(S) /\ S[i] = P[i]
    BY <1>1, <1>4, <1>5, Joined
  <2> SUFFICES ASSUME dirty, now, NEW w \in watching PROVE Tells(S, w, version)
    OBVIOUS
  <2>2. Tells(P, w, version)
    BY <1>2
  <2>3. PICK i \in 1 .. Len(P) : P[i].op \in {"deliver", "callback"} /\ P[i].s = w /\ P[i].n = version
    BY <2>2 DEF Tells
  <2>4. i \in 1 .. Len(S) /\ S[i] = P[i]
    BY <2>1, <2>3
  <2> QED
    BY <2>3, <2>4 DEF Tells
<1> QED
  BY <1>8, <1>10, <1>13, <1>14, <1>15 DEF IsEngineList

LEMMA EngineSound == ASSUME BindingsInv, NEW t \in Threads, Engine(t) PROVE BindingsInv'
<1> DEFINE q == todo[t]
           x == Head(q)
           s == x.s
           effect == x.op
           now == effect = "reads" /\ ~onPoll
           S == EngineList(s, now)
           new == S \o Tail(q)
<1>1. /\ q # <<>> /\ effect \in {"reads", "updates", "watches"} /\ Continue(t, S)
      /\ dirty' = (CASE effect = "updates" -> TRUE [] effect = "reads" /\ ~onPoll -> FALSE [] OTHER -> dirty)
      /\ version' = (IF effect = "updates" THEN version + 1 ELSE version)
      /\ watching' = (IF effect = "watches" THEN watching \union {s} ELSE watching)
      /\ told' = (IF effect = "watches" /\ s \notin watching THEN [told EXCEPT ![s] = version] ELSE told)
      /\ gil' = gil /\ readers' = readers
      /\ UNCHANGED <<writer, alive, callbacks, closable, unanswered, answers, pollAsked>>
  BY DEF Engine, Head1, locks, EngineList
<1>2. /\ q \in Seq(Steps) /\ x \in Steps /\ BindingTypes /\ UpdatesAreOwed /\ SessionsAgree /\ version \in Nat
      /\ ThreadIsSound(q, gil = t, version, closable, alive) /\ x = q[1] /\ 1 \in 1 .. Len(q)
  BY <1>1, HeadIsSound DEF BindingsInv, BindingTypes
<1>3. s \in PySessions
  BY <1>2 DEF Steps, PySessions
<1> DEFINE held == gil = t
           v2 == version'
<1>4. held \in BOOLEAN /\ (gil' = t) = held /\ v2 \in Nat /\ version <= v2 /\ now \in BOOLEAN
  <2>1. version' = version \/ version' = version + 1
    BY <1>1
  <2>2. v2 \in Nat /\ version <= v2
    BY <1>2, <2>1
  <2>3. held \in BOOLEAN /\ now \in BOOLEAN
    OBVIOUS
  <2>4. (gil' = t) = held
    BY <1>1
  <2> QED
    BY <2>2, <2>3, <2>4
<1> HIDE DEF held, v2
<1>a. IsEngineList(S, s, now, held, v2)
  BY <1>3, <1>4, EngineListSound
<1>s. S = EngineList(s, now) /\ now = (effect = "reads" /\ ~onPoll) /\ s = x.s /\ effect = x.op
  OBVIOUS
<1> HIDE DEF S
<1>5. /\ S \in Seq(Steps) /\ Runs(S, held, held) /\ Followed(S) /\ Clear(S, closable)
      /\ \A i \in 1 .. Len(S) : Fits(S[i], v2, closable, alive)
      /\ \A c : ~HasUnread(S, c) /\ (HasOwed(S, c) <=> c = s)
      /\ \A c : \A i, j \in 1 .. Len(S) : IsOwed(S[i], c) /\ IsOwed(S[j], c) => i = j
      /\ dirty /\ now => \A w \in watching : Tells(S, w, version)
  BY <1>a DEF IsEngineList
<1>6. \A c : ~IsUnread(x, c) /\ (IsOwed(x, c) <=> c = s)
  BY <1>1 DEF IsUnread, IsOwed, Effects
<1> HIDE DEF new
<1>7. /\ new \in Seq(Steps) /\ todo' = [todo EXCEPT ![t] = new]
      /\ todo' \in [Threads -> Seq(Steps)] /\ ThreadsAreSound' /\ SessionsAgree'
  <2>1. \A b \in BOOLEAN : Keeps(x.op, gil = t, b) => Runs(S, gil' = t, b)
    <3>1. \A b \in BOOLEAN : Keeps(x.op, held, b) => b = held
      BY <1>1, <1>4 DEF Keeps
    <3>2. \A b \in BOOLEAN : Keeps(x.op, held, b) => Runs(S, held, b)
      BY <1>5, <3>1
    <3> QED
      BY <1>4, <3>2 DEF held
  <2>2. version' \in Nat /\ version <= version' /\ gil' \in Threads \union {NoThread}
        /\ (\A u \in Threads \ {t} : (gil' = u) = (gil = u)) /\ x.op \notin {"drop", "write", "takeOption"}
    BY <1>1, <1>2, <1>4 DEF BindingTypes, v2
  <2>3. \A i \in 1 .. Len(S) : Fits(S[i], version', closable, alive)
    BY <1>5 DEF v2
  <2>4. \A c \in closable : answers'[c] = answers[c] - (IF IsOwed(x, c) /\ ~HasOwed(S, c) THEN 1 ELSE 0)
    <3>1. \A c \in closable : answers[c] - 0 = answers[c]
      BY <1>2 DEF BindingTypes, PySessions
    <3>2. \A c : ~(IsOwed(x, c) /\ ~HasOwed(S, c))
      BY <1>5, <1>6
    <3> QED
      BY <1>1, <3>1, <3>2
  <2>5. /\ \A c \in closable : readers'[c][t] = readers[c][t] - (IF IsUnread(x, c) THEN 1 ELSE 0)
        /\ \A c \in closable, u \in Threads \ {t} : readers'[c][u] = readers[c][u]
    <3>1. \A c \in closable : readers[c][t] - 0 = readers[c][t]
      BY <1>2 DEF BindingTypes
    <3> QED
      BY <1>1, <1>6, <3>1
  <2>6. /\ \A c \in closable : ~HasUnread(S, c) /\ (HasOwed(S, c) => IsOwed(x, c))
        /\ \A c \in closable : \A i, j \in 1 .. Len(S) : IsOwed(S[i], c) /\ IsOwed(S[j], c) => i = j
    BY <1>5, <1>6
  <2>7. q # <<>> /\ Continue(t, S) /\ UNCHANGED <<writer, alive, callbacks, closable, unanswered>>
    BY <1>1
  <2>8. S \in Seq(Steps) /\ Followed(S) /\ Clear(S, closable)
    BY <1>5
  <2> HIDE DEF x
  <2> QED
    BY <2>1, <2>2, <2>3, <2>4, <2>5, <2>6, <2>7, <2>8, ListStep DEF x, new
<1>8. todo'[t] = new /\ \A u \in Threads \ {t} : todo'[u] = todo[u]
  BY <1>2, <1>7 DEF BindingTypes
<1>9. s \in callbacks
  <2>1. CASE s \in closable
    <3>1. s \in alive
      BY <1>1, <1>6, <2>1, OwedIsAlive
    <3> QED
      BY <1>2, <3>1 DEF SessionsAgree
  <2>2. CASE s \notin closable
    BY <1>2, <1>3, <2>2 DEF SessionsAgree, PySessions
  <2> QED
    BY <2>1, <2>2
<1>10. BindingTypes'
  <2>1. version' \in Nat /\ dirty' \in BOOLEAN
    BY <1>1, <1>2, <1>4 DEF BindingTypes, v2
  <2>2. watching' \subseteq callbacks' /\ told' \in [PySessions -> Nat]
    BY <1>1, <1>2, <1>3, <1>9 DEF BindingTypes
  <2> QED
    BY <1>1, <1>2, <1>7, <2>1, <2>2 DEF BindingTypes
<1>11. \A c \in PySessions : told'[c] <= version'
  <2>1. \A c \in PySessions : told[c] \in Nat /\ told[c] <= version
    BY <1>2 DEF BindingTypes, UpdatesAreOwed
  <2>2. \A c \in PySessions : told'[c] = told[c] \/ told'[c] = version
    BY <1>1, <1>2, <1>3 DEF BindingTypes
  <2>3. version \in Nat /\ version' \in Nat /\ version <= version'
    BY <1>2, <1>4 DEF v2
  <2> QED
    BY <2>1, <2>2, <2>3
<1>12. (Polls(q) => Polls(new)) /\ \A c, v : Tells(q, c, v) => Tells(new, c, v)
  <2>1. Head(q).op \notin {"poll", "onPoll", "deliver", "callback"}
    BY <1>1
  <2> QED
    BY <1>1, <1>2, <1>5, <2>1, StillToCome DEF new
<1>13. UpdatesAreOwed'
  <2>1. CASE effect = "updates"
    <3>1. dirty' = TRUE /\ version' > 0
      BY <1>1, <1>2, <2>1
    <3>2. Polls(q)
      <4>1. Followed(q) /\ q[1].op = "updates"
        BY <1>2, <2>1 DEF ThreadIsSound
      <4> QED
        BY <1>2, <4>1 DEF Followed, Polls
    <3>3. Polls(todo'[t])
      BY <1>8, <1>12, <3>2
    <3> QED
      BY <1>11, <3>1, <3>3 DEF UpdatesAreOwed
  <2>2. CASE effect = "reads" /\ ~onPoll
    <3>1. dirty' = FALSE /\ version' = version /\ watching' = watching /\ told' = told
      BY <1>1, <2>2
    <3>2. ASSUME NEW w \in watching PROVE told[w] = version \/ \E u \in Threads : Tells(todo'[u], w, version)
      <4>1. told[w] = version \/ dirty \/ \E u \in Threads : Tells(todo[u], w, version)
        BY <1>2, <3>2 DEF UpdatesAreOwed
      <4>2. CASE dirty
        <5>1. Tells(S, w, version)
          BY <1>5, <2>2, <3>2, <4>2
        <5>2. Tells(new, w, version)
          BY <1>1, <1>2, <1>5, <5>1, StillToCome DEF new
        <5> QED
          BY <1>8, <5>2
      <4>3. ASSUME NEW u \in Threads, Tells(todo[u], w, version) PROVE Tells(todo'[u], w, version)
        BY <1>8, <1>12, <4>3
      <4> QED
        BY <4>1, <4>2, <4>3
    <3> QED
      BY <1>11, <3>1, <3>2 DEF UpdatesAreOwed
  <2>3. CASE effect # "updates" /\ ~(effect = "reads" /\ ~onPoll)
    <3>1. dirty' = dirty /\ version' = version
      BY <1>1, <2>3
    <3>2. ASSUME dirty PROVE version > 0 /\ (pollAsked \/ \E u \in Threads : Polls(todo'[u]))
      <4>1. version > 0 /\ (pollAsked \/ \E u \in Threads : Polls(todo[u]))
        BY <1>2, <3>2 DEF UpdatesAreOwed
      <4>2. ASSUME NEW u \in Threads, Polls(todo[u]) PROVE Polls(todo'[u])
        BY <1>8, <1>12, <4>2
      <4> QED
        BY <4>1, <4>2
    <3>3. ASSUME NEW w \in watching' PROVE told'[w] = version \/ dirty \/ \E u \in Threads : Tells(todo'[u], w, version)
      <4>1. CASE w \in watching
        <5>1. told'[w] = told[w]
          BY <1>1, <1>2, <1>3, <4>1 DEF BindingTypes
        <5>2. told[w] = version \/ dirty \/ \E u \in Threads : Tells(todo[u], w, version)
          BY <1>2, <4>1 DEF UpdatesAreOwed
        <5>3. ASSUME NEW u \in Threads, Tells(todo[u], w, version) PROVE Tells(todo'[u], w, version)
          BY <1>8, <1>12, <5>3
        <5> QED
          BY <5>1, <5>2, <5>3
      <4>2. CASE w \notin watching
        <5>1. effect = "watches" /\ w = s
          BY <1>1, <3>3, <4>2
        <5> QED
          BY <1>1, <1>2, <1>3, <4>2, <5>1 DEF BindingTypes
      <4> QED
        BY <4>1, <4>2
    <3>4. pollAsked' = pollAsked
      BY <1>1
    <3>5. dirty' => version' > 0 /\ (pollAsked' \/ \E u \in Threads : Polls(todo'[u]))
      BY <3>1, <3>2, <3>4
    <3>6. \A w \in watching' : told'[w] = version' \/ dirty' \/ \E u \in Threads : Tells(todo'[u], w, version')
      BY <3>1, <3>3
    <3> QED
      BY <1>11, <3>5, <3>6 DEF UpdatesAreOwed
  <2> QED
    BY <2>1, <2>2, <2>3
<1> QED
  BY <1>7, <1>10, <1>13 DEF BindingsInv


-----------------------------------------------------------------------------
(* A thread begins a call.                                                 *)

\* What a thread that is in no call may begin.
Opening(new) ==
    /\ new \in Seq(Steps) /\ ThreadIsSound(new, TRUE, version, closable, alive)
    /\ \A s \in closable : ~HasUnread(new, s) /\ ~HasOwed(new, s)

LEMMA Opened ==
    ASSUME NEW S \in Seq(Steps), Runs(S, TRUE, TRUE), Followed(S),
           \A i \in 1 .. Len(S) : Fits(S[i], version, closable, alive),
           \A s \in closable : ~HasUnread(S, s) /\ ~HasOwed(S, s),
           CallsFirst(S \o <<Drop>>, closable)
    PROVE  Opening(S \o <<Drop>>)
<1> DEFINE e == <<Drop>>
           new == S \o e
<1>1. Drop \in Steps /\ Drop.op = "drop"
  BY LocalSteps
<1>2. e \in Seq(Steps) /\ Len(e) = 1 /\ e[1] = Drop /\ \A i \in 1 .. Len(e) : i = 1 /\ e[i] = Drop
  BY <1>1, OneStep
<1>3. Runs(e, TRUE, FALSE) /\ Followed(e)
  BY DropBlock DEF Block
<1>4. Fits(Drop, version, closable, alive) /\ \A s : ~IsUnread(Drop, s) /\ ~IsOwed(Drop, s)
  BY <1>1 DEF Fits, IsUnread, IsOwed, Effects
<1> HIDE DEF e
<1>5. new \in Seq(Steps) /\ Runs(new, TRUE, FALSE) /\ Followed(new)
  <2>1. new \in Seq(Steps)
    BY <1>2, Joined
  <2>2. Runs(new, TRUE, FALSE)
    BY <1>2, <1>3, RunsBoth
  <2>3. Followed(new)
    BY <1>2, <1>3, FollowedBoth
  <2> QED
    BY <2>1, <2>2, <2>3
<1>6. ASSUME NEW i \in 1 .. Len(new)
      PROVE  Fits(new[i], version, closable, alive) /\ \A s \in closable : ~IsUnread(new[i], s) /\ ~IsOwed(new[i], s)
  <2>1. CASE i \in 1 .. Len(S)
    <3>1. new[i] = S[i]
      BY <1>2, <2>1, Joined
    <3>2. \A s \in closable : ~IsUnread(S[i], s) /\ ~IsOwed(S[i], s)
      BY <2>1 DEF HasUnread, HasOwed
    <3> QED
      BY <2>1, <3>1, <3>2
  <2>2. CASE ~(i \in 1 .. Len(S))
    <3>1. i - Len(S) \in 1 .. Len(e) /\ i = (i - Len(S)) + Len(S)
      BY <1>2, <2>2, Joined
    <3>2. new[i] = e[i - Len(S)]
      BY <1>2, <3>1, Joined
    <3>3. new[i] = Drop
      BY <1>2, <3>1, <3>2
    <3> QED
      BY <1>4, <3>3
  <2> QED
    BY <2>1, <2>2
<1>7. \A s \in closable : MarksOnce(new, s) /\ ~HasUnread(new, s) /\ ~HasOwed(new, s)
  BY <1>6 DEF MarksOnce, HasUnread, HasOwed
<1>8. CallsFirst(new, closable)
  BY DEF e
<1> HIDE DEF new
<1>9. Opening(new)
  BY <1>5, <1>6, <1>7, <1>8 DEF Opening, ThreadIsSound
<1> QED
  BY <1>9 DEF new, e

LEMMA OpenAside ==
    ASSUME NEW S, Aside(S)
    PROVE  Opening(S \o <<Drop>>)
<1>1. S \in Seq(Steps) /\ Clear(S, closable) /\ <<Drop>> \in Seq(Steps)
  BY LocalSteps DEF Aside
<1>2. Clear(<<Drop>>, closable)
  BY ClearEnds
<1>3. Clear(S \o <<Drop>>, closable)
  BY <1>1, <1>2, ClearBoth
<1>4. CallsFirst(S \o <<Drop>>, closable)
  BY <1>3 DEF CallsFirst
<1> QED
  BY <1>4, Opened DEF Aside

LEMMA SameList ==
    ASSUME NEW p \in Seq(Steps), NEW q \in Seq(Steps), Len(p) = Len(q), \A i \in 1 .. Len(p) : p[i] = q[i]
    PROVE  p = q
<1>1. DOMAIN p = 1 .. Len(p) /\ DOMAIN q = 1 .. Len(q)
  OBVIOUS
<1>2. p = [i \in DOMAIN p |-> p[i]] /\ q = [i \in DOMAIN q |-> q[i]]
  OBVIOUS
<1> QED
  BY <1>1, <1>2

LEMMA FourSteps ==
    ASSUME NEW a \in Steps, NEW b \in Steps, NEW c \in Steps, NEW d \in Steps
    PROVE  <<a, b, c>> \o <<d>> = <<a, b, c, d>>
<1> DEFINE p == <<a, b, c>>
           e == <<d>>
           q == <<a, b, c, d>>
<1>1. p \in Seq(Steps) /\ Len(p) = 3 /\ p[1] = a /\ p[2] = b /\ p[3] = c
  OBVIOUS
<1>2. e \in Seq(Steps) /\ Len(e) = 1 /\ e[1] = d
  OBVIOUS
<1>3. q \in Seq(Steps) /\ Len(q) = 4 /\ q[1] = a /\ q[2] = b /\ q[3] = c /\ q[4] = d
  OBVIOUS
<1> HIDE DEF p, e, q
<1>4. p \o e \in Seq(Steps) /\ Len(p \o e) = 4
  <2>1. p \o e \in Seq(Steps) /\ Len(p \o e) = Len(p) + Len(e)
    BY <1>1, <1>2, Joined
  <2> QED
    BY <1>1, <1>2, <2>1
<1>5. (p \o e)[1] = a /\ (p \o e)[2] = b /\ (p \o e)[3] = c
  <2>1. 1 \in 1 .. Len(p) /\ 2 \in 1 .. Len(p) /\ 3 \in 1 .. Len(p)
    BY <1>1
  <2> QED
    BY <1>1, <1>2, <2>1, Joined
<1>6. (p \o e)[4] = d
  <2>1. 1 \in 1 .. Len(e) /\ 1 + Len(p) = 4
    BY <1>1, <1>2
  <2>2. (p \o e)[1 + Len(p)] = e[1]
    BY <1>1, <1>2, <2>1, Joined
  <2> QED
    BY <1>2, <2>1, <2>2
<1>7. \A i \in 1 .. Len(p \o e) : (p \o e)[i] = q[i]
  <2>1. \A i \in 1 .. Len(p \o e) : i \in {1, 2, 3, 4}
    BY <1>4
  <2> QED
    BY <1>3, <1>5, <1>6, <2>1
<1>8. p \o e = q
  BY <1>3, <1>4, <1>7, SameList
<1> QED
  BY <1>8 DEF p, e, q

LEMMA FiveSteps ==
    ASSUME NEW a \in Steps, NEW b \in Steps, NEW c \in Steps, NEW d \in Steps, NEW f \in Steps
    PROVE  <<a, b, c, d>> \o <<f>> = <<a, b, c, d, f>>
<1> DEFINE p == <<a, b, c, d>>
           e == <<f>>
           q == <<a, b, c, d, f>>
<1>1. p \in Seq(Steps) /\ Len(p) = 4 /\ p[1] = a /\ p[2] = b /\ p[3] = c /\ p[4] = d
  OBVIOUS
<1>2. e \in Seq(Steps) /\ Len(e) = 1 /\ e[1] = f
  OBVIOUS
<1>3. q \in Seq(Steps) /\ Len(q) = 5 /\ q[1] = a /\ q[2] = b /\ q[3] = c /\ q[4] = d /\ q[5] = f
  OBVIOUS
<1> HIDE DEF p, e, q
<1>4. p \o e \in Seq(Steps) /\ Len(p \o e) = 5
  <2>1. p \o e \in Seq(Steps) /\ Len(p \o e) = Len(p) + Len(e)
    BY <1>1, <1>2, Joined
  <2> QED
    BY <1>1, <1>2, <2>1
<1>5. (p \o e)[1] = a /\ (p \o e)[2] = b /\ (p \o e)[3] = c /\ (p \o e)[4] = d
  <2>1. 1 \in 1 .. Len(p) /\ 2 \in 1 .. Len(p) /\ 3 \in 1 .. Len(p) /\ 4 \in 1 .. Len(p)
    BY <1>1
  <2> QED
    BY <1>1, <1>2, <2>1, Joined
<1>6. (p \o e)[5] = f
  <2>1. 1 \in 1 .. Len(e) /\ 1 + Len(p) = 5
    BY <1>1, <1>2
  <2>2. (p \o e)[1 + Len(p)] = e[1]
    BY <1>1, <1>2, <2>1, Joined
  <2> QED
    BY <1>2, <2>1, <2>2
<1>7. \A i \in 1 .. Len(p \o e) : (p \o e)[i] = q[i]
  <2>1. \A i \in 1 .. Len(p \o e) : i \in {1, 2, 3, 4, 5}
    BY <1>4
  <2> QED
    BY <1>3, <1>5, <1>6, <2>1
<1>8. p \o e = q
  BY <1>3, <1>4, <1>7, SameList
<1> QED
  BY <1>8 DEF p, e, q

LEMMA OpenRead ==
    ASSUME BindingsInv, NEW s \in closable, NEW effect \in Effects
    PROVE  Opening(SessionRequest(s, effect) \o <<Drop>>)
<1> DEFINE S == SessionRequest(s, effect)
           r == Reading(s, effect)
<1>1. s \in Remotes
  BY DEF BindingsInv, BindingTypes
<1>2. /\ S = <<Drop, r, Take>> /\ S \in Seq(Steps) /\ Runs(S, TRUE, TRUE) /\ (\A i \in 1 .. Len(S) : S[i] \in {Drop, r, Take})
      /\ r.op = "read" /\ r.s = s /\ r \in Steps
  BY <1>1, SessionSteps
<1>3. Take.op = "take" /\ Drop.op = "drop" /\ Take \in Steps /\ Drop \in Steps
  BY LocalSteps
<1>4. S \o <<Drop>> = <<Drop, r, Take, Drop>>
  BY <1>2, <1>3, FourSteps
<1>5. CallsFirst(S \o <<Drop>>, closable)
  BY <1>4 DEF CallsFirst, Readings
<1> HIDE DEF S, r
<1>6. \A i \in 1 .. Len(S) : S[i].op \in {"take", "drop", "read"}
  BY <1>2, <1>3
<1>7. Followed(S) /\ \A i \in 1 .. Len(S) : Fits(S[i], version, closable, alive)
  BY <1>6 DEF Followed, Fits
<1>8. \A x \in closable : ~HasUnread(S, x) /\ ~HasOwed(S, x)
  BY <1>6 DEF HasUnread, HasOwed, IsUnread, IsOwed, Effects
<1>9. Opening(S \o <<Drop>>)
  BY <1>2, <1>5, <1>7, <1>8, Opened
<1> QED
  BY <1>9 DEF S

LEMMA OpenClose ==
    ASSUME BindingsInv, NEW s \in closable
    PROVE  Opening(Close(s) \o <<Drop>>)
<1> DEFINE w == Step("write", s, 0)
           o == Step("takeOption", s, 0)
           S == <<Drop, w, o, Take>>
<1>1. w \in Steps /\ o \in Steps /\ w.op = "write" /\ o.op = "takeOption" /\ w.s = s /\ o.s = s
  BY DEF BindingsInv, BindingTypes, Step, Steps, Ops, PySessions
<1>2. Take.op = "take" /\ Drop.op = "drop" /\ Take \in Steps /\ Drop \in Steps
  BY LocalSteps
<1>3. Close(s) = S
  BY DEF Close
<1>4. S \o <<Drop>> \in Closings(s)
  <2> HIDE DEF w, o
  <2>1. <<Drop, w, o, Take>> \o <<Drop>> = <<Drop, w, o, Take, Drop>>
    BY <1>1, <1>2, FiveSteps
  <2> QED
    BY <2>1 DEF Closings, w, o
<1>5. CallsFirst(S \o <<Drop>>, closable)
  BY <1>4 DEF CallsFirst
<1>6. S \in Seq(Steps) /\ Len(S) = 4 /\ S[1] = Drop /\ S[2] = w /\ S[3] = o /\ S[4] = Take
      /\ \A i \in 1 .. Len(S) : i \in {1, 2, 3, 4}
  <2> HIDE DEF w, o
  <2> QED
    BY <1>1, <1>2
<1>7. \A i \in 1 .. Len(S) : S[i].op \in {"take", "drop", "write", "takeOption"} /\ (S[i].op \in {"write", "takeOption"} => S[i].s = s)
  <2> HIDE DEF S, w, o
  <2>1. S[1].op = "drop" /\ S[2].op = "write" /\ S[2].s = s /\ S[3].op = "takeOption" /\ S[3].s = s /\ S[4].op = "take"
    BY <1>1, <1>2, <1>6
  <2> QED
    BY <1>6, <2>1
<1>8. Runs(S, TRUE, TRUE)
  <2> HIDE DEF S, w, o
  <2> DEFINE h == [i \in 1 .. 5 |-> IF i = 1 THEN TRUE ELSE IF i = 5 THEN TRUE ELSE FALSE]
  <2>1. h \in [1 .. Len(S) + 1 -> BOOLEAN]
    <3>1. Len(S) + 1 = 5
      BY <1>6
    <3>2. h \in [1 .. 5 -> BOOLEAN]
      OBVIOUS
    <3> HIDE DEF h
    <3> QED
      BY <3>1, <3>2
  <2>2. h[1] = TRUE /\ h[2] = FALSE /\ h[3] = FALSE /\ h[4] = FALSE /\ h[5] = TRUE
    OBVIOUS
  <2> HIDE DEF h
  <2>3. Keeps(S[1].op, h[1], h[2]) /\ Keeps(S[2].op, h[2], h[3]) /\ Keeps(S[3].op, h[3], h[4]) /\ Keeps(S[4].op, h[4], h[5])
    BY <1>1, <1>2, <1>6, <2>2 DEF Keeps
  <2>4. \A i \in 1 .. Len(S) : Keeps(S[i].op, h[i], h[i + 1])
    BY <1>6, <2>3
  <2>5. h[Len(S) + 1] = TRUE
    BY <1>6, <2>2
  <2> QED
    BY <2>1, <2>2, <2>4, <2>5 DEF Runs
<1> HIDE DEF S, w, o
<1>9. Followed(S) /\ \A i \in 1 .. Len(S) : Fits(S[i], version, closable, alive)
  BY <1>7 DEF Followed, Fits
<1>10. \A x \in closable : ~HasUnread(S, x) /\ ~HasOwed(S, x)
  BY <1>7 DEF HasUnread, HasOwed, IsUnread, IsOwed, Effects
<1> QED
  BY <1>3, <1>5, <1>6, <1>8, <1>9, <1>10, Opened

LEMMA BeginSound ==
    ASSUME BindingsInv, NEW t \in Threads, NEW S, Begin(t, S), Opening(S \o <<Drop>>),
           pollAsked' \in BOOLEAN, pollAsked => pollAsked' \/ Polls(S \o <<Drop>>)
    PROVE  BindingsInv'
<1> DEFINE new == S \o <<Drop>>
<1>1. /\ todo[t] = <<>> /\ gil = NoThread /\ gil' = t /\ todo' = [todo EXCEPT ![t] = new]
      /\ readers' = readers /\ answers' = answers
      /\ UNCHANGED <<writer, alive, closable, callbacks, watching, version, dirty, told, unanswered>>
  BY DEF Begin
<1>2. new \in Seq(Steps) /\ ThreadIsSound(new, TRUE, version, closable, alive)
      /\ \A s \in closable : ~HasUnread(new, s) /\ ~HasOwed(new, s)
  BY DEF Opening
<1>3. BindingTypes /\ ThreadsAreSound /\ SessionsAgree /\ UpdatesAreOwed /\ version \in Nat
  BY DEF BindingsInv, BindingTypes
<1>4. \A s : ~HasUnread(<<>>, s) /\ ~HasOwed(<<>>, s)
  BY DEF HasUnread, HasOwed
<1>5. \A s, v : ~Polls(<<>>) /\ ~Tells(<<>>, s, v)
  BY DEF Polls, Tells
<1>6. NoThread \notin Threads
  BY BindingsAssumption
<1> HIDE DEF new
<1>7. (\A u \in Threads \ {t} : (gil' = u) = (gil = u)) /\ (gil' = t) = TRUE
  BY <1>1, <1>6
<1>8. /\ todo' \in [Threads -> Seq(Steps)] /\ todo'[t] = new /\ (\A u \in Threads \ {t} : todo'[u] = todo[u])
      /\ ThreadsAreSound'
  <2>1. version' \in Nat /\ version <= version' /\ closable' = closable /\ alive' \subseteq alive
    BY <1>1, <1>3
  <2>2. ThreadIsSound(new, gil' = t, version', closable, alive')
    <3>1. version' = version /\ alive' = alive
      BY <1>1
    <3>2. ThreadIsSound(new, gil' = t, version, closable, alive)
      BY <1>2, <1>7
    <3> QED
      BY <3>1, <3>2
  <2> QED
    BY <1>1, <1>2, <1>3, <1>7, <2>1, <2>2, ThreadsAfter
<1>9. /\ \A s \in closable, u \in Threads : (HasUnread(todo'[u], s) <=> HasUnread(todo[u], s))
      /\ \A s \in closable, u \in Threads : readers'[s][u] = IF HasUnread(todo'[u], s) THEN 1 ELSE 0
      /\ \A s \in closable : answers'[s] = Cardinality(Owing(s)')
  <2>1. \A s \in closable : (HasUnread(new, s) <=> HasUnread(todo[t], s)) /\ (HasOwed(new, s) <=> HasOwed(todo[t], s))
    BY <1>1, <1>2, <1>4
  <2>2. readers' = readers /\ answers' = answers /\ todo' = [todo EXCEPT ![t] = new] /\ new \in Seq(Steps)
    BY <1>1, <1>2
  <2> QED
    BY <1>3, <2>1, <2>2, SameMarks
<1>10. BindingTypes'
  <2>1. gil' \in Threads \union {NoThread}
    BY <1>1
  <2> QED
    BY <1>1, <1>3, <1>8, <2>1 DEF BindingTypes
<1>11. SessionsAgree'
  <2>1. \A s \in closable \ alive, u \in Threads : ~HasUnread(todo'[u], s)
    BY <1>3, <1>9 DEF SessionsAgree
  <2>2. \A s \in Remotes, u \in Threads : writer[s] = u => todo'[u] # <<>> /\ Head(todo'[u]) = Step("takeOption", s, 0)
    BY <1>1, <1>3, <1>8 DEF SessionsAgree
  <2>3. /\ Remotes \ closable \subseteq alive /\ alive \subseteq callbacks /\ Local \in callbacks /\ unanswered = {}
        /\ writer' = writer /\ alive' = alive /\ closable' = closable /\ callbacks' = callbacks /\ unanswered' = unanswered
    BY <1>1, <1>3 DEF SessionsAgree
  <2> QED
    BY <1>9, <2>1, <2>2, <2>3 DEF SessionsAgree
<1>12. UpdatesAreOwed'
  <2>1. ASSUME NEW u \in Threads PROVE /\ Polls(todo[u]) => Polls(todo'[u])
                                       /\ \A s, v : Tells(todo[u], s, v) => Tells(todo'[u], s, v)
    BY <1>1, <1>5, <1>8
  <2>2. version' = version /\ dirty' = dirty /\ watching' = watching /\ told' = told
    BY <1>1
  <2>3. ASSUME dirty PROVE version > 0 /\ (pollAsked' \/ \E u \in Threads : Polls(todo'[u]))
    <3>1. version > 0 /\ (pollAsked \/ \E u \in Threads : Polls(todo[u]))
      BY <1>3, <2>3 DEF UpdatesAreOwed
    <3>2. CASE pollAsked
      <4>1. pollAsked' \/ Polls(todo'[t])
        BY <1>8, <3>2 DEF new
      <4> QED
        BY <3>1, <4>1
    <3>3. CASE \E u \in Threads : Polls(todo[u])
      BY <2>1, <3>1, <3>3
    <3> QED
      BY <3>1, <3>2, <3>3
  <2>4. ASSUME NEW w \in watching PROVE told[w] = version \/ dirty \/ \E u \in Threads : Tells(todo'[u], w, version)
    <3>1. told[w] = version \/ dirty \/ \E u \in Threads : Tells(todo[u], w, version)
      BY <1>3, <2>4 DEF UpdatesAreOwed
    <3> QED
      BY <2>1, <3>1
  <2>5. \A s \in PySessions : told[s] <= version
    BY <1>3 DEF UpdatesAreOwed
  <2> QED
    BY <2>2, <2>3, <2>4, <2>5 DEF UpdatesAreOwed
<1> QED
  BY <1>8, <1>10, <1>11, <1>12 DEF BindingsInv

LEMMA BeginCallSound == ASSUME BindingsInv, NEW t \in Threads, BeginCall(t) PROVE BindingsInv'
<1>1. pollAsked' = pollAsked /\ pollAsked \in BOOLEAN
  BY DEF BeginCall, BindingsInv, BindingTypes
<1>2. \/ \E steps \in LocalCalls : Begin(t, steps)
      \/ \E s \in Remotes, effect \in {"reads", "updates", "watches"} : Begin(t, SessionRequest(s, effect))
      \/ \E s \in closable : Begin(t, Close(s))
  BY DEF BeginCall
<1>3. ASSUME NEW steps \in LocalCalls, Begin(t, steps) PROVE BindingsInv'
  <2>1. Block(steps, TRUE, TRUE)
    BY LocalCallBlock
  <2>2. Aside(steps)
    BY <2>1, AsideBlock
  <2>3. Opening(steps \o <<Drop>>)
    BY <2>2, OpenAside
  <2> QED
    BY <1>1, <1>3, <2>3, BeginSound
<1>4. ASSUME NEW s \in Remotes, NEW effect \in Effects, Begin(t, SessionRequest(s, effect)) PROVE BindingsInv'
  <2>1. CASE s \in closable
    <3>1. Opening(SessionRequest(s, effect) \o <<Drop>>)
      BY <2>1, OpenRead
    <3> QED
      BY <1>1, <1>4, <3>1, BeginSound
  <2>2. CASE s \notin closable
    <3>1. Aside(SessionRequest(s, effect))
      BY <2>2, AsideRequest
    <3>2. Opening(SessionRequest(s, effect) \o <<Drop>>)
      BY <3>1, OpenAside
    <3> QED
      BY <1>1, <1>4, <3>2, BeginSound
  <2> QED
    BY <2>1, <2>2
<1>5. ASSUME NEW s \in closable, Begin(t, Close(s)) PROVE BindingsInv'
  <2>1. Opening(Close(s) \o <<Drop>>)
    BY OpenClose
  <2> QED
    BY <1>1, <1>5, <2>1, BeginSound
<1>6. Effects = {"reads", "updates", "watches"}
  BY DEF Effects
<1> QED
  BY <1>2, <1>3, <1>4, <1>5, <1>6

LEMMA BeginPollSound == ASSUME BindingsInv, NEW t \in Threads, BeginPoll(t) PROVE BindingsInv'
<1> DEFINE p == Step("poll", Local, 0)
           S == <<Drop, p, Take>>
<1>1. pollAsked' \in BOOLEAN /\ Begin(t, S)
  BY DEF BeginPoll, ServerPoll
<1>2. p \in Steps /\ Quiet(p) /\ p.op = "poll" /\ Take \in Steps /\ Drop \in Steps /\ Quiet(Take) /\ Quiet(Drop)
      /\ Take.op = "take" /\ Drop.op = "drop"
  BY LocalSteps
<1> HIDE DEF p
<1>3. /\ S \in Seq(Steps) /\ Len(S) = 3 /\ 2 \in 1 .. Len(S) /\ S[2] = p
      /\ \A i \in 1 .. Len(S) : S[i] = Drop \/ S[i] = p \/ S[i] = Take
  BY <1>2, ThreeSteps
<1>4. Runs(S, TRUE, TRUE)
  <2>1. Keeps(Drop.op, TRUE, FALSE) /\ Keeps(p.op, FALSE, FALSE) /\ Keeps(Take.op, FALSE, TRUE)
    BY <1>2 DEF Keeps
  <2> QED
    BY <1>2, <2>1, RunsThree
<1> HIDE DEF S
<1>5. Block(S, TRUE, TRUE)
  BY <1>2, <1>3, <1>4 DEF Block, Followed
<1>6. Opening(S \o <<Drop>>)
  <2>1. Aside(S)
    BY <1>5, AsideBlock
  <2> QED
    BY <2>1, OpenAside
<1>7. Polls(S \o <<Drop>>)
  <2>1. <<Drop>> \in Seq(Steps)
    BY <1>2
  <2>2. 2 \in 1 .. Len(S \o <<Drop>>) /\ (S \o <<Drop>>)[2] = p
    BY <1>3, <2>1, Joined
  <2> QED
    BY <1>2, <2>2 DEF Polls
<1> QED
  BY <1>1, <1>6, <1>7, BeginSound

-----------------------------------------------------------------------------
(* The invariant holds, and says that nobody is stuck nor owed anything.   *)

LEMMA InitIsSound == BindingsInit => BindingsInv
<1> SUFFICES ASSUME BindingsInit PROVE BindingsInv
  OBVIOUS
<1>1. /\ gil = NoThread /\ todo = [t \in Threads |-> <<>>] /\ readers = [s \in Remotes |-> [t \in Threads |-> 0]]
      /\ writer = [s \in Remotes |-> NoThread] /\ alive = Remotes /\ callbacks = PySessions /\ watching = {}
      /\ version = 0 /\ dirty = FALSE /\ told = [s \in PySessions |-> 0]
      /\ pollAsked = FALSE /\ answers = [s \in PySessions |-> 0] /\ unanswered = {} /\ closable \subseteq Remotes
  BY DEF BindingsInit
<1>2. NoThread \notin Threads
  BY BindingsAssumption
<1>3. (\A i \in 1 .. Len(<<>>) : FALSE) /\ <<>> \in Seq(Steps)
  OBVIOUS
<1>4. \A t \in Threads : todo[t] = <<>>
  BY <1>1
<1>5. BindingTypes
  <2>1. todo \in [Threads -> Seq(Steps)]
    BY <1>1, <1>3
  <2>2. readers \in [Remotes -> [Threads -> Int]] /\ writer \in [Remotes -> Threads \union {NoThread}]
    BY <1>1
  <2>3. told \in [PySessions -> Nat] /\ answers \in [PySessions -> Int]
    BY <1>1
  <2>4. alive \subseteq Remotes /\ callbacks \subseteq PySessions /\ watching \subseteq callbacks
    BY <1>1
  <2>5. version \in Nat /\ dirty \in BOOLEAN /\ pollAsked \in BOOLEAN /\ gil \in Threads \union {NoThread}
    BY <1>1
  <2> QED
    BY <1>1, <2>1, <2>2, <2>3, <2>4, <2>5 DEF BindingTypes
<1>6. ThreadsAreSound
  <2>1. Runs(<<>>, FALSE, FALSE)
    BY RunsNone
  <2>2. ThreadIsSound(<<>>, FALSE, version, closable, alive)
    BY <1>3, <2>1 DEF ThreadIsSound, Followed, CallsFirst, Clear, MarksOnce
  <2>3. \A t \in Threads : (gil = t) = FALSE
    BY <1>1, <1>2
  <2> QED
    BY <1>4, <2>2, <2>3 DEF ThreadsAreSound
<1>7. \A t \in Threads : \A s : ~HasUnread(todo[t], s) /\ ~HasOwed(todo[t], s)
  BY <1>3, <1>4 DEF HasUnread, HasOwed
<1>8. SessionsAgree
  <2>1. ASSUME NEW s \in closable PROVE answers[s] = Cardinality(Owing(s))
    <3>1. Owing(s) = {}
      BY <1>7 DEF Owing
    <3>2. answers[s] = 0
      BY <1>1 DEF PySessions
    <3> QED
      BY <3>1, <3>2, FS_EmptySet
  <2>2. \A s \in closable, t \in Threads : readers[s][t] = IF HasUnread(todo[t], s) THEN 1 ELSE 0
    BY <1>1, <1>7
  <2>3. \A s \in Remotes, t \in Threads : writer[s] # t
    BY <1>1, <1>2
  <2> QED
    BY <1>1, <1>7, <2>1, <2>2, <2>3 DEF SessionsAgree, PySessions
<1>9. UpdatesAreOwed
  BY <1>1 DEF UpdatesAreOwed
<1> QED
  BY <1>5, <1>6, <1>8, <1>9 DEF BindingsInv

LEMMA StutterIsSound == BindingsInv /\ UNCHANGED bindingVars => BindingsInv'
<1> SUFFICES ASSUME BindingsInv, UNCHANGED bindingVars PROVE BindingsInv'
  OBVIOUS
<1>1. UNCHANGED <<gil, todo, readers, writer, alive, callbacks, watching, version, dirty, told, pollAsked, answers, unanswered, closable>>
  BY DEF bindingVars
<1>2. BindingTypes'
  BY <1>1 DEF BindingsInv, BindingTypes
<1>3. ThreadsAreSound'
  BY <1>1 DEF BindingsInv, ThreadsAreSound
<1>4. \A s : Owing(s)' = Owing(s)
  BY <1>1 DEF Owing
<1>5. SessionsAgree'
  BY <1>1, <1>4 DEF BindingsInv, SessionsAgree
<1>6. UpdatesAreOwed'
  BY <1>1 DEF BindingsInv, UpdatesAreOwed
<1> QED
  BY <1>2, <1>3, <1>5, <1>6 DEF BindingsInv

LEMMA NextIsSound == ASSUME Careful, BindingsInv, BindingsNext PROVE BindingsInv'
<1>1. PICK t \in Threads :
         \/ BeginCall(t) \/ BeginPoll(t)
         \/ TakeGil(t) \/ DropGil(t) \/ ConvertGil(t)
         \/ ReadSession(t) \/ UnreadSession(t) \/ WriteSession(t) \/ TakeSession(t) \/ CloseSession(t)
         \/ Engine(t) \/ PollEngine(t) \/ OnPollRequest(t) \/ Deliver(t) \/ Callback(t)
  BY DEF BindingsNext
<1>2. CASE BeginCall(t) \/ BeginPoll(t)
  BY <1>2, BeginCallSound, BeginPollSound
<1>3. CASE TakeGil(t) \/ DropGil(t) \/ ConvertGil(t)
  BY <1>3, TakeGilSound, DropGilSound, ConvertGilSound
<1>4. CASE ReadSession(t) \/ UnreadSession(t) \/ WriteSession(t)
  BY <1>4, ReadSessionSound, UnreadSessionSound, WriteSessionSound
<1>5. CASE TakeSession(t) \/ CloseSession(t)
  BY <1>5, TakeSessionSound, CloseSessionSound
<1>6. CASE Engine(t) \/ PollEngine(t)
  BY <1>6, EngineSound, PollEngineSound
<1>7. CASE OnPollRequest(t) \/ Deliver(t) \/ Callback(t)
  BY <1>7, OnPollRequestSound, DeliverSound, CallbackSound
<1> QED
  BY <1>1, <1>2, <1>3, <1>4, <1>5, <1>6, <1>7

(* Whoever has the interpreter waits for nobody, so that those who wait for *)
(* it do not wait for one that waits.                                      *)
LEMMA WaitsForSession ==
    ASSUME BindingsInv, NEW S \in SUBSET Busy, \A t \in S : WaitsFor(t) \cap S # {}, NEW t \in S
    PROVE  /\ t \in Threads /\ todo[t] # <<>>
           /\ \/ /\ Head(todo[t]).op \in {"read", "write"}
                 /\ \E u \in S : writer[Head(todo[t]).s] = u
              \/ /\ Head(todo[t]).op = "takeOption"
                 /\ \E u \in S : readers[Head(todo[t]).s][u] > 0
<1>1. \A u \in S : u \in Threads /\ todo[u] # <<>>
  BY DEF Busy
<1>2. ASSUME NEW u \in S, gil = u PROVE FALSE
  <2>1. \E b \in BOOLEAN : Keeps(Head(todo[u]).op, gil = u, b)
    BY <1>1, HeadIsSound
  <2>2. Head(todo[u]).op \notin {"take", "read", "write", "takeOption"}
    BY <1>2, <2>1 DEF Keeps
  <2>3. Holders(u) \ {u} = {}
    BY <1>2 DEF Holders
  <2>4. WaitsFor(u) = {}
    BY <2>2, <2>3 DEF WaitsFor, At1, Head1
  <2> QED
    BY <2>4
<1>3. Holders(t) \cap S = {}
  BY <1>2 DEF Holders
<1>4. ~At1(t, "take") /\ ~At1(t, "convert")
  BY <1>3 DEF WaitsFor, At1
<1>5. CASE At1(t, "read") \/ At1(t, "write")
  <2>1. WaitsFor(t) = {u \in Threads : writer[Head1(t).s] = u}
    BY <1>5 DEF WaitsFor, At1
  <2> QED
    BY <1>1, <1>5, <2>1 DEF At1, Head1
<1>6. CASE At1(t, "takeOption")
  <2>1. WaitsFor(t) = {u \in Threads : readers[Head1(t).s][u] > 0}
    BY <1>6 DEF WaitsFor, At1
  <2> QED
    BY <1>1, <1>6, <2>1 DEF At1, Head1
<1>7. CASE ~(At1(t, "read") \/ At1(t, "write") \/ At1(t, "takeOption"))
  <2>1. WaitsFor(t) = {}
    BY <1>4, <1>7 DEF WaitsFor
  <2> QED
    BY <2>1
<1> QED
  BY <1>5, <1>6, <1>7

\* A thread that closes a session waits for the readers of it, who wait for
\* nobody: their requests and callbacks leave such sessions alone.
LEMMA SoundIsNotStuck == BindingsInv => NobodyIsStuck
<1> SUFFICES ASSUME BindingsInv PROVE NobodyIsStuck
  OBVIOUS
<1> SUFFICES ASSUME NEW S \in (SUBSET Busy) \ {{}} PROVE \E t \in S : WaitsFor(t) \cap S = {}
  BY DEF NobodyIsStuck
<1> SUFFICES ASSUME ~ \E t \in S : WaitsFor(t) \cap S = {} PROVE FALSE
  OBVIOUS
<1>0. S \in SUBSET Busy /\ S # {} /\ \A t \in S : WaitsFor(t) \cap S # {}
  OBVIOUS
<1>1. SessionsAgree /\ BindingTypes /\ closable \subseteq Remotes
  BY DEF BindingsInv, BindingTypes
<1>2. ASSUME NEW t \in S, Head(todo[t]).op \in {"read", "write"}
      PROVE  \E u \in S : /\ u \in Threads /\ todo[u] # <<>> /\ Head(todo[u]).op = "takeOption"
                          /\ Head(todo[u]).s = Head(todo[t]).s
  <2>1. PICK u \in S : writer[Head(todo[t]).s] = u
    BY <1>0, <1>2, WaitsForSession
  <2>2. t \in Threads /\ todo[t] # <<>> /\ u \in Threads
    BY <1>0, WaitsForSession
  <2>3. Head(todo[t]).s \in Remotes
    <3>1. CASE Head(todo[t]).op = "read"
      <4>1. Head(todo[t]) \in Steps
        BY <2>2, HeadIsSound
      <4> QED
        BY <3>1, <4>1 DEF Steps, Ops, Effects
    <3>2. CASE Head(todo[t]).op = "write"
      BY <1>1, <2>2, <3>2, CloseHead
    <3> QED
      BY <1>2, <3>1, <3>2
  <2>4. todo[u] # <<>> /\ Head(todo[u]) = Step("takeOption", Head(todo[t]).s, 0)
    BY <1>1, <2>1, <2>2, <2>3 DEF SessionsAgree
  <2> QED
    BY <2>2, <2>4 DEF Step
<1>3. PICK t \in S : Head(todo[t]).op = "takeOption"
  <2>1. PICK x \in S : TRUE
    BY <1>0
  <2>2. Head(todo[x]).op \in {"read", "write"} \/ Head(todo[x]).op = "takeOption"
    BY <1>0, WaitsForSession
  <2> QED
    BY <1>2, <2>2
<1>4. t \in Threads /\ todo[t] # <<>> /\ Head(todo[t]).s \in closable
  <2>1. t \in Threads /\ todo[t] # <<>>
    BY <1>0, WaitsForSession
  <2> QED
    BY <1>3, <2>1, CloseHead
<1>5. PICK u \in S : readers[Head(todo[t]).s][u] > 0
  BY <1>0, <1>3, WaitsForSession
<1>6. u \in Threads /\ todo[u] # <<>> /\ Head(todo[u]).op \in {"read", "write", "takeOption"}
  BY <1>0, WaitsForSession
<1>7. HasUnread(todo[u], Head(todo[t]).s)
  <2>1. readers[Head(todo[t]).s][u] = IF HasUnread(todo[u], Head(todo[t]).s) THEN 1 ELSE 0
    BY <1>1, <1>4, <1>6 DEF SessionsAgree
  <2> QED
    BY <1>5, <2>1
<1>8. CASE Head(todo[u]).op \in {"write", "takeOption"}
  BY <1>6, <1>7, <1>8, CloseHead
<1>9. CASE Head(todo[u]).op = "read" /\ Head(todo[u]).s \in closable
  BY <1>6, <1>7, <1>9, ReadHead
<1>10. CASE Head(todo[u]).op = "read" /\ Head(todo[u]).s \notin closable
  <2>1. PICK w \in S : /\ w \in Threads /\ todo[w] # <<>> /\ Head(todo[w]).op = "takeOption"
                       /\ Head(todo[w]).s = Head(todo[u]).s
    BY <1>2, <1>10
  <2>2. Head(todo[w]).s \in closable
    BY <2>1, CloseHead
  <2> QED
    BY <1>10, <2>1, <2>2
<1> QED
  BY <1>6, <1>8, <1>9, <1>10

LEMMA SoundIsNotOwed == BindingsInv => NothingIsOwed
<1> SUFFICES ASSUME BindingsInv PROVE NothingIsOwed
  OBVIOUS
<1>1. UpdatesAreOwed /\ unanswered = {}
  BY DEF BindingsInv, SessionsAgree
<1>2. ASSUME Busy = {}, ~pollAsked PROVE ~dirty /\ \A s \in watching : told[s] = version
  <2>1. \A t \in Threads : todo[t] = <<>>
    BY <1>2 DEF Busy
  <2>2. \A t \in Threads : \A s, v : ~Polls(todo[t]) /\ ~Tells(todo[t], s, v)
    BY <2>1 DEF Polls, Tells
  <2> QED
    BY <1>1, <1>2, <2>2 DEF UpdatesAreOwed
<1> QED
  BY <1>1, <1>2 DEF NothingIsOwed

(* For any set of threads and of sessions, whichever of the sessions may be *)
(* closed, and any number of calls: when callbacks send requests only to   *)
(* sessions that no thread closes, threads never wait for each other in a  *)
(* circle (perspective-python: py_block_on and the locks of PySession),    *)
(* no update is left in the engine or untold to whoever watches when no    *)
(* thread is in a call, and a session that close() has closed had its      *)
(* answers.                                                                *)
THEOREM CallsReturn == ASSUME Careful PROVE BindingsSpec => []CallsReturnAndTell
<1>1. BindingsInit => BindingsInv
  BY InitIsSound
<1>2. BindingsInv /\ [BindingsNext]_bindingVars => BindingsInv'
  BY NextIsSound, StutterIsSound
<1>3. BindingsInv => CallsReturnAndTell
  BY SoundIsNotStuck, SoundIsNotOwed DEF CallsReturnAndTell
<1> QED
  BY <1>1, <1>2, <1>3, PTL DEF BindingsSpec
=============================================================================
