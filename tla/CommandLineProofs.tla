------------------------- MODULE CommandLineProofs --------------------------
(***************************************************************************)
(* Proofs about CommandLine, for every set of command lines and files.     *)
(***************************************************************************)
EXTENDS CommandLine, FiniteSetTheorems, WellFoundedInduction, TLAPS

-----------------------------------------------------------------------------
(* Recursion and induction.  The library's theorems on them take an        *)
(* operator; these take a set or a function in its place.                  *)

\* A set of naturals that is not empty has a least member.
LEMMA LeastNatural ==
  ASSUME NEW T \in SUBSET Nat, T # {}
  PROVE  \E x \in T : \A y \in T : x <= y
  <1>. DEFINE R == {ss \in Nat \X Nat : ss[1] < ss[2]}
  <1>1. IsWellFoundedOn(R, Nat)
    BY NatLessThanWellFounded DEF OpToRel
  <1>. HIDE DEF R
  <1>2. PICK x \in T : \A y \in T : ~(<<y, x>> \in R)
    BY <1>1, WFMin
  <1>3. \A y \in T : ~(y < x)
    BY <1>2 DEF R
  <1>. QED
    BY <1>3

\* Induction over the naturals, for a set in the place of a predicate.
LEMMA NatSetInduction ==
  ASSUME NEW T, 0 \in T, \A n \in Nat : n \in T => n + 1 \in T
  PROVE  Nat \subseteq T
  <1>. SUFFICES ASSUME Nat \ T # {} PROVE FALSE
    OBVIOUS
  <1>1. PICK x \in Nat \ T : \A y \in Nat \ T : x <= y
    BY LeastNatural
  <1>2. x # 0 /\ x - 1 \in Nat /\ x - 1 \in T
    BY <1>1
  <1>3. (x - 1) + 1 \in T
    BY <1>2
  <1>. QED
    BY <1>3

\* g is what n steps on the set S from e on make.
Iterates(g, n, S, e, step) ==
  /\ g \in [0..n -> S] /\ g[0] = e
  /\ \A k \in 1..n : g[k] = step[k][g[k - 1]]

\* Steps on a set can be taken one after the other.
LEMMA Iteration ==
  ASSUME NEW N \in Nat, NEW S, NEW e \in S, NEW step \in [1..N -> [S -> S]]
  PROVE  \E g : Iterates(g, N, S, e, step)
  <1>. DEFINE T == {n \in Nat : n <= N => \E g : Iterates(g, n, S, e, step)}
  <1>1. 0 \in T
    <2>. DEFINE g == [k \in 0..0 |-> e]
    <2>1. g \in [0..0 -> S] /\ g[0] = e /\ 1..0 = {}
      OBVIOUS
    <2>. HIDE DEF g
    <2>. QED
      BY <2>1 DEF Iterates
  <1>2. ASSUME NEW n \in Nat, n \in T PROVE n + 1 \in T
    <2>. SUFFICES ASSUME n + 1 <= N PROVE \E g : Iterates(g, n + 1, S, e, step)
      OBVIOUS
    <2>1. PICK f : Iterates(f, n, S, e, step)
      BY <1>2
    <2>. DEFINE g == [k \in 0..(n + 1) |-> IF k = n + 1 THEN step[n + 1][f[n]] ELSE f[k]]
    <2>2. f[n] \in S /\ step[n + 1][f[n]] \in S
      BY <2>1 DEF Iterates
    <2>3. g \in [0..(n + 1) -> S] /\ g[0] = e
      BY <2>1, <2>2 DEF Iterates
    <2>4. g[n + 1] = step[n + 1][f[n]] /\ \A k \in 0..n : g[k] = f[k]
      OBVIOUS
    <2>. HIDE DEF g
    <2>5. ASSUME NEW k \in 1..(n + 1) PROVE g[k] = step[k][g[k - 1]]
      <3>1. CASE k = n + 1
        BY <2>4, <3>1
      <3>2. CASE k \in 1..n
        <4>1. k - 1 \in 0..n /\ k \in 0..n
          BY <3>2
        <4>. QED
          BY <2>1, <2>4, <3>2, <4>1 DEF Iterates
      <3>. QED
        BY <3>1, <3>2
    <2>6. Iterates(g, n + 1, S, e, step)
      BY <2>3, <2>5 DEF Iterates
    <2>. QED
      BY <2>6
  <1>3. N \in T
    <2>. HIDE DEF T
    <2>. QED
      BY <1>1, <1>2, NatSetInduction
  <1>. QED
    BY <1>3

\* And in one way only.
LEMMA SameIterates ==
  ASSUME NEW N \in Nat, NEW S, NEW e, NEW step, NEW g, Iterates(g, N, S, e, step),
         NEW h, h[0] = e, \A k \in 1..N : h[k - 1] \in S => h[k] = step[k][h[k - 1]]
  PROVE  h[N] = g[N]
  <1>. DEFINE T == {n \in Nat : n <= N => h[n] = g[n]}
  <1>1. 0 \in T
    BY DEF Iterates
  <1>2. ASSUME NEW n \in Nat, n \in T PROVE n + 1 \in T
    <2>. SUFFICES ASSUME n + 1 <= N PROVE h[n + 1] = g[n + 1]
      OBVIOUS
    <2>1. n + 1 \in 1..N /\ (n + 1) - 1 = n /\ n \in 0..N
      OBVIOUS
    <2>2. h[n] = g[n] /\ g[n] \in S
      BY <1>2, <2>1 DEF Iterates
    <2>3. h[n + 1] = step[n + 1][h[n]]
      BY <2>1, <2>2
    <2>4. g[n + 1] = step[n + 1][g[n]]
      BY <2>1 DEF Iterates
    <2>. QED
      BY <2>2, <2>3, <2>4
  <1>3. N \in T
    <2>. HIDE DEF T
    <2>. QED
      BY <1>1, <1>2, NatSetInduction
  <1>. QED
    BY <1>3

\* Induction over sequences that grow at the end.
LEMMA SeqSetInduction ==
  ASSUME NEW C, NEW T, <<>> \in T, \A s \in Seq(C) : \A c \in C : s \in T => Append(s, c) \in T
  PROVE  Seq(C) \subseteq T
  <1>. DEFINE N == {n \in Nat : \A s \in Seq(C) : Len(s) = n => s \in T}
  <1>1. 0 \in N
    <2>1. \A s \in Seq(C) : Len(s) = 0 => s = <<>>
      OBVIOUS
    <2>. QED
      BY <2>1
  <1>2. ASSUME NEW n \in Nat, n \in N PROVE n + 1 \in N
    <2>. SUFFICES ASSUME NEW s \in Seq(C), Len(s) = n + 1 PROVE s \in T
      OBVIOUS
    <2>. DEFINE front == [k \in 1..n |-> s[k]]
    <2>1. front \in Seq(C) /\ Len(front) = n /\ s[n + 1] \in C
      OBVIOUS
    <2>2. s = Append(front, s[n + 1])
      OBVIOUS
    <2>. HIDE DEF front
    <2>3. front \in T
      BY <1>2, <2>1
    <2>. QED
      BY <2>1, <2>2, <2>3
  <1>3. Nat \subseteq N
    <2>. HIDE DEF N
    <2>. QED
      BY <1>1, <1>2, NatSetInduction
  <1>4. ASSUME NEW s \in Seq(C) PROVE s \in T
    <2>1. Len(s) \in Nat
      OBVIOUS
    <2>. QED
      BY <1>3, <2>1
  <1>. QED
    BY <1>4

\* What the loop over s makes of e, one turn per member.
Fold(turn, e, s) ==
  LET loop[k \in 0..Len(s)] == IF k = 0 THEN e ELSE turn[s[k]][loop[k - 1]]
  IN  loop[Len(s)]

\* The steps of a loop over s.
Turns(turn, s) == [k \in 1..Len(s) |-> turn[s[k]]]

\* The loop over s runs through the values of g in S.
Loops(turn, S, e, s, g) ==
  /\ Iterates(g, Len(s), S, e, Turns(turn, s))
  /\ Fold(turn, e, s) = g[Len(s)]

\* The loop that is defined by recursion has values.
LEMMA FoldIterates ==
  ASSUME NEW S, NEW C, NEW e \in S, NEW turn \in [C -> [S -> S]], NEW s \in Seq(C)
  PROVE  \E g : Loops(turn, S, e, s, g)
  <1>. DEFINE N == Len(s)
              step == Turns(turn, s)
  <1>1. N \in Nat /\ \A k \in 1..N : s[k] \in C
    OBVIOUS
  <1>2. step \in [1..N -> [S -> S]] /\ \A k \in 1..N : \A x \in S : step[k][x] = turn[s[k]][x]
    BY <1>1 DEF Turns
  <1>. HIDE DEF step, N
  <1>3. PICK g : Iterates(g, N, S, e, step)
    BY <1>1, <1>2, Iteration
  <1>. DEFINE loop[k \in 0..N] == IF k = 0 THEN e ELSE turn[s[k]][loop[k - 1]]
  <1>4. \E f : f = [k \in 0..N |-> IF k = 0 THEN e ELSE turn[s[k]][f[k - 1]]]
    <2>1. ASSUME NEW k \in 0..N PROVE g[k] = IF k = 0 THEN e ELSE turn[s[k]][g[k - 1]]
      <3>1. CASE k = 0
        BY <1>3, <3>1 DEF Iterates
      <3>2. CASE k # 0
        <4>1. k \in 1..N /\ k - 1 \in 0..N
          BY <1>1, <3>2
        <4>. QED
          BY <1>2, <1>3, <3>2, <4>1 DEF Iterates
      <3>. QED
        BY <3>1, <3>2
    <2>2. g = [k \in 0..N |-> IF k = 0 THEN e ELSE turn[s[k]][g[k - 1]]]
      BY <1>3, <2>1 DEF Iterates
    <2>. QED
      BY <2>2
  <1>5. loop = [k \in 0..N |-> IF k = 0 THEN e ELSE turn[s[k]][loop[k - 1]]]
    BY <1>4
  <1>. HIDE DEF loop
  <1>6. loop[0] = e /\ \A k \in 1..N : loop[k - 1] \in S => loop[k] = step[k][loop[k - 1]]
    <2>1. 0 \in 0..N /\ loop[0] = e
      BY <1>1, <1>5
    <2>2. ASSUME NEW k \in 1..N, loop[k - 1] \in S PROVE loop[k] = step[k][loop[k - 1]]
      <3>1. k \in 0..N /\ k # 0
        BY <1>1
      <3>2. loop[k] = turn[s[k]][loop[k - 1]]
        BY <1>5, <3>1
      <3>. QED
        BY <1>2, <2>2, <3>2
    <2>. QED
      BY <2>1, <2>2
  <1>7. loop[N] = g[N]
    BY <1>1, <1>3, <1>6, SameIterates
  <1>8. Fold(turn, e, s) = loop[N]
    BY DEF Fold, loop, N
  <1>. QED
    BY <1>3, <1>7, <1>8 DEF N, step, Loops

\* A loop takes its members one by one,
LEMMA FoldAppend ==
  ASSUME NEW S, NEW C, NEW e \in S, NEW turn \in [C -> [S -> S]], NEW s \in Seq(C), NEW c \in C
  PROVE  /\ Fold(turn, e, <<>>) = e
         /\ Fold(turn, e, s) \in S
         /\ Fold(turn, e, Append(s, c)) = turn[c][Fold(turn, e, s)]
  <1>. DEFINE N == Len(s)
              t == Append(s, c)
              step == Turns(turn, t)
  <1>1. PICK g : Loops(turn, S, e, s, g)
    BY FoldIterates
  <1>2. t \in Seq(C) /\ Len(t) = N + 1 /\ N \in Nat /\ t[N + 1] = c /\ \A k \in 1..N : t[k] = s[k]
    OBVIOUS
  <1>. HIDE DEF t
  <1>3. PICK h : Loops(turn, S, e, t, h)
    BY <1>2, FoldIterates
  <1>4. \A k \in 1..N : h[k - 1] \in S => h[k] = Turns(turn, s)[k][h[k - 1]]
    <2>. SUFFICES ASSUME NEW k \in 1..N, h[k - 1] \in S
                  PROVE  h[k] = Turns(turn, s)[k][h[k - 1]]
      OBVIOUS
    <2>1. k \in 1..Len(t) /\ k \in 1..Len(s)
      BY <1>2
    <2>2. h[k] = step[k][h[k - 1]]
      BY <1>3, <2>1 DEF Iterates, Loops
    <2>. QED
      BY <1>2, <2>1, <2>2 DEF Turns
  <1>5. h[N] = g[N]
    <2>1. Iterates(g, N, S, e, Turns(turn, s)) /\ h[0] = e
      BY <1>1, <1>3 DEF Iterates, Loops
    <2>. HIDE DEF N
    <2>. QED
      BY <1>2, <1>4, <2>1, SameIterates
  <1>6. N + 1 \in 1..Len(t) /\ (N + 1) - 1 = N /\ N \in 0..Len(t) /\ N \in 0..Len(s)
    BY <1>2
  <1>7. h[N] \in S /\ h[N + 1] = step[N + 1][h[N]]
    BY <1>3, <1>6 DEF Iterates, Loops
  <1>8. Fold(turn, e, t) = turn[c][Fold(turn, e, s)]
    BY <1>1, <1>2, <1>3, <1>5, <1>6, <1>7 DEF Turns, Loops
  <1>9. Fold(turn, e, s) \in S
    BY <1>1, <1>6 DEF Iterates, Loops
  <1>10. Fold(turn, e, <<>>) = e
    <2>1. <<>> \in Seq(C) /\ Len(<<>>) = 0
      OBVIOUS
    <2>2. PICK f : Loops(turn, S, e, <<>>, f)
      BY <2>1, FoldIterates
    <2>. QED
      BY <2>1, <2>2 DEF Iterates, Loops
  <1>. QED
    BY <1>8, <1>9, <1>10 DEF t

\* so that a part after a part is taken from where the first one ended.
LEMMA FoldConcat ==
  ASSUME NEW S, NEW C, NEW e \in S, NEW turn \in [C -> [S -> S]], NEW s \in Seq(C), NEW t \in Seq(C)
  PROVE  Fold(turn, e, s \o t) = Fold(turn, Fold(turn, e, s), t)
  <1>. DEFINE T == {x \in Seq(C) : Fold(turn, e, s \o x) = Fold(turn, Fold(turn, e, s), x)}
              m == Fold(turn, e, s)
  <1>1. m \in S
    <2>1. CASE C = {}
      <3>1. s = <<>>
        BY <2>1
      <3>2. PICK g : Loops(turn, S, e, s, g)
        BY FoldIterates
      <3>. QED
        BY <3>1, <3>2 DEF Iterates, Loops
    <2>2. CASE C # {}
      BY <2>2, FoldAppend
    <2>. QED
      BY <2>1, <2>2
  <1>. HIDE DEF m
  <1>2. \A x \in Seq(C) : x \in T <=> Fold(turn, e, s \o x) = Fold(turn, m, x)
    BY DEF m
  <1>. HIDE DEF T
  <1>3. <<>> \in T
    <2>1. s \o <<>> = s /\ <<>> \in Seq(C)
      OBVIOUS
    <2>2. PICK g : Loops(turn, S, m, <<>>, g)
      BY <1>1, <2>1, FoldIterates
    <2>3. Fold(turn, m, <<>>) = m
      BY <2>2 DEF Iterates, Loops
    <2>. QED
      BY <1>2, <2>1, <2>3 DEF m
  <1>4. ASSUME NEW x \in Seq(C), NEW c \in C, x \in T PROVE Append(x, c) \in T
    <2>1. s \o Append(x, c) = Append(s \o x, c) /\ s \o x \in Seq(C) /\ Append(x, c) \in Seq(C)
      OBVIOUS
    <2>2. Fold(turn, e, s \o Append(x, c)) = turn[c][Fold(turn, e, s \o x)]
      <3>. DEFINE y == s \o x
      <3>1. y \in Seq(C)
        BY <2>1
      <3>. HIDE DEF y
      <3>2. Fold(turn, e, Append(y, c)) = turn[c][Fold(turn, e, y)]
        BY <3>1, FoldAppend
      <3>. QED
        BY <2>1, <3>2 DEF y
    <2>3. Fold(turn, m, Append(x, c)) = turn[c][Fold(turn, m, x)]
      BY <1>1, FoldAppend
    <2>. QED
      BY <1>2, <1>4, <2>1, <2>2, <2>3
  <1>5. t \in T
    BY <1>3, <1>4, SeqSetInduction
  <1>. QED
    BY <1>2, <1>5 DEF m

\* A function with the equations of a loop has its value, and there is one.
LEMMA LoopIsFold ==
  ASSUME NEW S, NEW C, NEW e \in S, NEW turn \in [C -> [S -> S]], NEW s \in Seq(C),
         NEW h, h[0] = e, \A k \in 1..Len(s) : h[k - 1] \in S => h[k] = turn[s[k]][h[k - 1]]
  PROVE  h[Len(s)] = Fold(turn, e, s)
  <1>1. PICK g : Loops(turn, S, e, s, g)
    BY FoldIterates
  <1>2. \A k \in 1..Len(s) : h[k - 1] \in S => h[k] = Turns(turn, s)[k][h[k - 1]]
    BY DEF Turns
  <1>3. Len(s) \in Nat /\ Iterates(g, Len(s), S, e, Turns(turn, s))
    BY <1>1 DEF Loops
  <1>4. h[Len(s)] = g[Len(s)]
    BY <1>2, <1>3, SameIterates
  <1>. QED
    BY <1>1, <1>4 DEF Loops

\* g has the values of the loop, turn by turn.
LoopOf(g, turn, S, e, s) ==
  /\ g \in [0..Len(s) -> S] /\ g[0] = e
  /\ \A k \in 1..Len(s) : g[k] = turn[s[k]][g[k - 1]]

LEMMA LoopExists ==
  ASSUME NEW S, NEW C, NEW e \in S, NEW turn \in [C -> [S -> S]], NEW s \in Seq(C)
  PROVE  \E g : LoopOf(g, turn, S, e, s)
  <1>1. PICK g : Loops(turn, S, e, s, g)
    BY FoldIterates
  <1>2. \A k \in 1..Len(s) : g[k] = turn[s[k]][g[k - 1]]
    BY <1>1 DEF Loops, Iterates, Turns
  <1>3. LoopOf(g, turn, S, e, s)
    BY <1>1, <1>2 DEF Loops, Iterates, LoopOf
  <1>. QED
    BY <1>3

\* h goes on like the loop as long as it stays in S.
LoopsLike(h, turn, C, S, e, s) ==
  /\ turn \in [C -> [S -> S]] /\ e \in S /\ s \in Seq(C) /\ h[0] = e
  /\ \A k \in 1..Len(s) : h[k - 1] \in S => h[k] = turn[s[k]][h[k - 1]]

\* Then it ends like the loop.
LEMMA LikeLoop ==
  ASSUME NEW C, NEW S, NEW e, NEW turn, NEW s, NEW h, LoopsLike(h, turn, C, S, e, s)
  PROVE  h[Len(s)] = Fold(turn, e, s)
  <1>1. e \in S /\ turn \in [C -> [S -> S]] /\ s \in Seq(C) /\ h[0] = e
        /\ \A k \in 1..Len(s) : h[k - 1] \in S => h[k] = turn[s[k]][h[k - 1]]
    BY DEF LoopsLike
  <1>2. PICK g : Loops(turn, S, e, s, g)
    BY <1>1, FoldIterates
  <1>3. Iterates(g, Len(s), S, e, Turns(turn, s)) /\ Fold(turn, e, s) = g[Len(s)]
    BY <1>2 DEF Loops
  <1>4. \A k \in 1..Len(s) : h[k - 1] \in S => h[k] = Turns(turn, s)[k][h[k - 1]]
    BY <1>1 DEF Turns
  <1>5. Len(s) \in Nat
    BY <1>1
  <1>6. h[Len(s)] = g[Len(s)]
    BY <1>1, <1>3, <1>4, <1>5, SameIterates
  <1>. QED
    BY <1>3, <1>6

\* For a loop over members of S itself.
LEMMA OwnFold ==
  ASSUME NEW S, NEW e \in S, NEW turn \in [S -> [S -> S]], NEW s \in Seq(S), NEW c \in S
  PROVE  /\ Fold(turn, e, <<>>) = e
         /\ Fold(turn, e, s) \in S
         /\ Fold(turn, e, Append(s, c)) = turn[c][Fold(turn, e, s)]
  BY FoldAppend

-----------------------------------------------------------------------------
(* The arguments arrive: the target reads what quote_cmd_arg writes.       *)

\* The state of the one that reads.
Reading(done, arg, slashes, quoted, open) ==
  [done |-> done, arg |-> arg, slashes |-> slashes, quoted |-> quoted, open |-> open]
ReadStates == [done : Seq(Seq(Symbols)), arg : Seq(Symbols), slashes : Nat,
               quoted : BOOLEAN, open : BOOLEAN]

\* A run of backslashes grows by one.
LEMMA BackslashesFacts ==
  /\ Backslashes(0) = <<>>
  /\ \A n \in Nat : /\ Backslashes(n) \in Seq(Symbols)
                    /\ Backslashes(n + 1) = Append(Backslashes(n), "backslash")
  <1>1. Backslashes(0) = <<>>
    BY DEF Backslashes
  <1>2. ASSUME NEW n \in Nat
        PROVE  /\ Backslashes(n) \in Seq(Symbols)
               /\ Backslashes(n + 1) = Append(Backslashes(n), "backslash")
    <2>0. "backslash" \in Symbols
      BY SymbolsAssumption
    <2>1. Backslashes(n) \in Seq(Symbols) /\ Len(Backslashes(n)) = n
      BY <2>0 DEF Backslashes
    <2>2. Backslashes(n + 1) \in Seq(Symbols) /\ Len(Backslashes(n + 1)) = n + 1
      BY <2>0 DEF Backslashes
    <2>3. \A k \in 1..(n + 1) : Backslashes(n + 1)[k] = Append(Backslashes(n), "backslash")[k]
      BY <2>1 DEF Backslashes
    <2>4. Backslashes(n + 1) = Append(Backslashes(n), "backslash")
      BY <2>0, <2>1, <2>2, <2>3
    <2>. QED
      BY <2>1, <2>4
  <1>. QED
    BY <1>1, <1>2

\* The states of the reader.
LEMMA ReadingType ==
  ASSUME NEW d \in Seq(Seq(Symbols)), NEW a \in Seq(Symbols), NEW n \in Nat,
         NEW q \in BOOLEAN, NEW o \in BOOLEAN
  PROVE  Reading(d, a, n, q, o) \in ReadStates
  BY DEF Reading, ReadStates

\* What one character does.
LEMMA ReadChar ==
  ASSUME NEW x \in ReadStates, NEW c \in Symbols
  PROVE  /\ c = "backslash" => ArgvChar(x, c) = Reading(x.done, x.arg, x.slashes + 1, x.quoted, TRUE)
         /\ (c = "quote" /\ x.slashes % 2 = 0) =>
              ArgvChar(x, c) = Reading(x.done, x.arg \o Backslashes(x.slashes \div 2), 0, ~x.quoted, TRUE)
         /\ (c = "quote" /\ x.slashes % 2 # 0) =>
              ArgvChar(x, c)
                = Reading(x.done, Append(x.arg \o Backslashes(x.slashes \div 2), c), 0, x.quoted, TRUE)
         /\ (c = "space" /\ ~x.quoted) =>
              ArgvChar(x, c) = Reading(IF x.open THEN Append(x.done, x.arg \o Backslashes(x.slashes))
                                       ELSE x.done, <<>>, 0, FALSE, FALSE)
         /\ (c \notin {"backslash", "quote"} /\ (c = "space" => x.quoted)) =>
              ArgvChar(x, c)
                = Reading(x.done, Append(x.arg \o Backslashes(x.slashes), c), 0, x.quoted, TRUE)
  <1>1. ASSUME c = "backslash"
        PROVE  ArgvChar(x, c) = Reading(x.done, x.arg, x.slashes + 1, x.quoted, TRUE)
    BY <1>1 DEF Reading, ArgvChar, ReadStates
  <1>2. ASSUME c = "quote", x.slashes % 2 = 0
        PROVE  ArgvChar(x, c)
                 = Reading(x.done, x.arg \o Backslashes(x.slashes \div 2), 0, ~x.quoted, TRUE)
    BY <1>2 DEF Reading, ArgvChar, ReadStates
  <1>3. ASSUME c = "quote", x.slashes % 2 # 0
        PROVE  ArgvChar(x, c)
                 = Reading(x.done, Append(x.arg \o Backslashes(x.slashes \div 2), c), 0, x.quoted, TRUE)
    BY <1>3 DEF Reading, ArgvChar, ReadStates
  <1>4. ASSUME c = "space", ~x.quoted
        PROVE  ArgvChar(x, c) = Reading(IF x.open THEN Append(x.done, x.arg \o Backslashes(x.slashes))
                                        ELSE x.done, <<>>, 0, FALSE, FALSE)
    BY <1>4 DEF Reading, ArgvChar, ReadStates
  <1>5. ASSUME c \notin {"backslash", "quote"}, c = "space" => x.quoted
        PROVE  ArgvChar(x, c)
                 = Reading(x.done, Append(x.arg \o Backslashes(x.slashes), c), 0, x.quoted, TRUE)
    BY <1>5 DEF Reading, ArgvChar, ReadStates
  <1>. QED
    BY <1>1, <1>2, <1>3, <1>4, <1>5

\* What the reader has after a text, character by character.
ReadTurn == [c \in Symbols |-> [x \in ReadStates |-> ArgvChar(x, c)]]
Read(x, s) == Fold(ReadTurn, x, s)

\* Each character leads from a state to a state.
LEMMA ReadTurnType ==
  /\ ReadTurn \in [Symbols -> [ReadStates -> ReadStates]]
  /\ \A c \in Symbols : \A x \in ReadStates : ReadTurn[c][x] = ArgvChar(x, c)
  <1>1. ASSUME NEW x \in ReadStates, NEW c \in Symbols PROVE ArgvChar(x, c) \in ReadStates
    <2>. DEFINE n == x.slashes
    <2>1. /\ x.done \in Seq(Seq(Symbols)) /\ x.arg \in Seq(Symbols) /\ n \in Nat
          /\ x.quoted \in BOOLEAN /\ x.open \in BOOLEAN
      BY DEF ReadStates
    <2>2. n \div 2 \in Nat /\ n + 1 \in Nat
      BY <2>1
    <2>3. \A m \in Nat : x.arg \o Backslashes(m) \in Seq(Symbols)
      BY <2>1, BackslashesFacts
    <2>4. \A m \in Nat : Append(x.arg \o Backslashes(m), c) \in Seq(Symbols)
      BY <2>3
    <2>5. (IF x.open THEN Append(x.done, x.arg \o Backslashes(n)) ELSE x.done) \in Seq(Seq(Symbols))
      BY <2>1, <2>3
    <2>6. <<>> \in Seq(Symbols) /\ 0 \in Nat
      OBVIOUS
    <2>8. CASE c = "backslash"
      <3>1. ArgvChar(x, c) = Reading(x.done, x.arg, n + 1, x.quoted, TRUE)
        BY <2>8, ReadChar
      <3>. QED
        BY <2>1, <2>2, <3>1, ReadingType, Zenon
    <2>9. CASE c = "quote" /\ n % 2 = 0
      <3>1. ArgvChar(x, c) = Reading(x.done, x.arg \o Backslashes(n \div 2), 0, ~x.quoted, TRUE)
        BY <2>9, ReadChar
      <3>2. x.arg \o Backslashes(n \div 2) \in Seq(Symbols)
        BY <2>2, <2>3
      <3>. QED
        BY <2>1, <2>6, <3>1, <3>2, ReadingType, Zenon
    <2>10. CASE c = "quote" /\ n % 2 # 0
      <3>1. ArgvChar(x, c)
              = Reading(x.done, Append(x.arg \o Backslashes(n \div 2), c), 0, x.quoted, TRUE)
        BY <2>10, ReadChar
      <3>2. Append(x.arg \o Backslashes(n \div 2), c) \in Seq(Symbols)
        BY <2>2, <2>4
      <3>. QED
        BY <2>1, <2>6, <3>1, <3>2, ReadingType, Zenon
    <2>11. CASE c = "space" /\ ~x.quoted
      <3>1. ArgvChar(x, c) = Reading(IF x.open THEN Append(x.done, x.arg \o Backslashes(n))
                                     ELSE x.done, <<>>, 0, FALSE, FALSE)
        BY <2>11, ReadChar, Zenon
      <3>. QED
        BY <2>5, <2>6, <3>1, ReadingType, Zenon
    <2>12. CASE c \notin {"backslash", "quote"} /\ (c = "space" => x.quoted)
      <3>1. ArgvChar(x, c)
              = Reading(x.done, Append(x.arg \o Backslashes(n), c), 0, x.quoted, TRUE)
        BY <2>12, ReadChar
      <3>2. Append(x.arg \o Backslashes(n), c) \in Seq(Symbols)
        BY <2>1, <2>4
      <3>. QED
        BY <2>1, <2>6, <3>1, <3>2, ReadingType, Zenon
    <2>. QED
      BY <2>8, <2>9, <2>10, <2>11, <2>12
  <1>. QED
    BY <1>1 DEF ReadTurn

\* The reader goes on with one more character,
LEMMA ReadAppend ==
  ASSUME NEW x \in ReadStates, NEW s \in Seq(Symbols), NEW c \in Symbols
  PROVE  /\ Read(x, <<>>) = x
         /\ Read(x, s) \in ReadStates
         /\ Read(x, Append(s, c)) = ArgvChar(Read(x, s), c)
  BY ReadTurnType, FoldAppend DEF Read

\* and with one more text.
LEMMA ReadConcat ==
  ASSUME NEW x \in ReadStates, NEW s \in Seq(Symbols), NEW t \in Seq(Symbols)
  PROVE  Read(x, s \o t) = Read(Read(x, s), t)
  BY ReadTurnType, FoldConcat DEF Read

\* Backslashes are counted.
LEMMA ReadBackslashes ==
  ASSUME NEW d \in Seq(Seq(Symbols)), NEW a \in Seq(Symbols), NEW q \in BOOLEAN, NEW n \in Nat
  PROVE  Read(Reading(d, a, 0, q, TRUE), Backslashes(n)) = Reading(d, a, n, q, TRUE)
  <1>. DEFINE x == Reading(d, a, 0, q, TRUE)
              T == {m \in Nat : Read(x, Backslashes(m)) = Reading(d, a, m, q, TRUE)}
  <1>1. \A m \in Nat : Reading(d, a, m, q, TRUE) \in ReadStates
    BY DEF Reading, ReadStates
  <1>2. x \in ReadStates
    BY <1>1
  <1>. HIDE DEF x
  <1>3. 0 \in T
    <2>1. Read(x, <<>>) = x
      <3>1. <<>> \in Seq(Symbols)
        OBVIOUS
      <3>2. "space" \in Symbols
        BY SymbolsAssumption
      <3>. QED
        BY <1>2, <3>1, <3>2, ReadAppend
    <2>. QED
      BY <2>1, BackslashesFacts DEF x
  <1>4. ASSUME NEW m \in Nat, m \in T PROVE m + 1 \in T
    <2>1. Backslashes(m) \in Seq(Symbols) /\ Backslashes(m + 1) = Append(Backslashes(m), "backslash")
      BY BackslashesFacts
    <2>2. "backslash" \in Symbols
      BY SymbolsAssumption
    <2>3. Read(x, Append(Backslashes(m), "backslash")) = ArgvChar(Read(x, Backslashes(m)), "backslash")
      BY <1>2, <2>1, <2>2, ReadAppend
    <2>4. Read(x, Backslashes(m + 1)) = ArgvChar(Reading(d, a, m, q, TRUE), "backslash")
      BY <1>4, <2>1, <2>3, Zenon
    <2>5. ArgvChar(Reading(d, a, m, q, TRUE), "backslash") = Reading(d, a, m + 1, q, TRUE)
      BY DEF ArgvChar, Reading
    <2>6. m + 1 \in Nat
      OBVIOUS
    <2>. QED
      BY <2>4, <2>5, <2>6, Zenon
  <1>5. n \in T
    <2>. HIDE DEF T
    <2>. QED
      BY <1>3, <1>4, NatSetInduction
  <1>. QED
    BY <1>5 DEF x

-----------------------------------------------------------------------------
(* quote_cmd_arg                                                           *)

\* The loop of quote_cmd_arg and its states.
QuoteStates == [out : Seq(Symbols), slashes : Nat]
QuoteStart == [out |-> <<"quote">>, slashes |-> 0]
QuoteTurn == [c \in Symbols |-> [x \in QuoteStates |-> QuoteChar(x, c)]]
Quoted(arg) == Fold(QuoteTurn, QuoteStart, arg)

\* What one character adds to the text.
LEMMA QuoteCharFacts ==
  ASSUME NEW x \in QuoteStates, NEW c \in Symbols
  PROVE  /\ QuoteChar(x, c) \in QuoteStates
         /\ c = "backslash" => /\ QuoteChar(x, c).out = x.out
                        /\ QuoteChar(x, c).slashes = x.slashes + 1
         /\ c # "backslash" => /\ QuoteChar(x, c).slashes = 0
                        /\ QuoteChar(x, c).out =
                             Append(x.out \o Backslashes(IF c = "quote" THEN 2 * x.slashes + 1
                                                         ELSE x.slashes), c)
  <1>1. x.out \in Seq(Symbols) /\ x.slashes \in Nat /\ x = [out |-> x.out, slashes |-> x.slashes]
    BY DEF QuoteStates
  <1>2. CASE c = "backslash"
    BY <1>1, <1>2 DEF QuoteChar, QuoteStates
  <1>3. CASE c # "backslash"
    <2>. DEFINE n == IF c = "quote" THEN 2 * x.slashes + 1 ELSE x.slashes
                b == Backslashes(n)
    <2>1. n \in Nat
      <3>1. 2 * x.slashes + 1 \in Nat
        BY <1>1
      <3>. QED
        BY <1>1, <3>1, Zenon
    <2>2. QuoteChar(x, c) = [out |-> x.out \o b \o <<c>>, slashes |-> 0]
      <3>1. CASE c = "quote"
        BY <1>3, <3>1 DEF QuoteChar
      <3>2. CASE c # "quote"
        BY <1>3, <3>2 DEF QuoteChar
      <3>. QED
        BY <3>1, <3>2
    <2>3. b \in Seq(Symbols)
      BY <2>1, BackslashesFacts
    <2>. HIDE DEF b
    <2>4. x.out \o b \o <<c>> = Append(x.out \o b, c) /\ Append(x.out \o b, c) \in Seq(Symbols)
      BY <1>1, <2>3
    <2>5. QuoteChar(x, c).out = Append(x.out \o b, c) /\ QuoteChar(x, c).slashes = 0
      BY <2>2, <2>4
    <2>6. QuoteChar(x, c) \in QuoteStates
      BY <2>2, <2>4 DEF QuoteStates
    <2>. QED
      BY <1>3, <2>5, <2>6 DEF b
  <1>. QED
    BY <1>2, <1>3

\* Each character leads from a state to a state.
LEMMA QuoteTurnType ==
  /\ QuoteTurn \in [Symbols -> [QuoteStates -> QuoteStates]]
  /\ \A c \in Symbols : \A x \in QuoteStates : QuoteTurn[c][x] = QuoteChar(x, c)
  /\ QuoteStart \in QuoteStates
  <1>1. "quote" \in Symbols
    BY SymbolsAssumption
  <1>2. QuoteStart \in QuoteStates
    <2>1. \A c \in Symbols : <<c>> \in Seq(Symbols)
      OBVIOUS
    <2>2. <<"quote">> \in Seq(Symbols)
      BY <1>1, <2>1, Zenon
    <2>. QED
      BY <2>2 DEF QuoteStart, QuoteStates
  <1>3. \A x \in QuoteStates : \A c \in Symbols : QuoteChar(x, c) \in QuoteStates
    BY QuoteCharFacts
  <1>. QED
    BY <1>2, <1>3 DEF QuoteTurn

\* The loop takes one character after the other.
LEMMA QuotedAppend ==
  ASSUME NEW s \in Seq(Symbols), NEW c \in Symbols
  PROVE  /\ Quoted(<<>>) = QuoteStart
         /\ Quoted(s) \in QuoteStates
         /\ Quoted(Append(s, c)) = QuoteChar(Quoted(s), c)
  <1>. DEFINE e == QuoteStart
  <1>1. e \in QuoteStates /\ QuoteTurn \in [Symbols -> [QuoteStates -> QuoteStates]]
    BY QuoteTurnType
  <1>2. \A t : Quoted(t) = Fold(QuoteTurn, e, t)
    BY DEF Quoted
  <1>. HIDE DEF e
  <1>3. /\ Fold(QuoteTurn, e, <<>>) = e
        /\ Fold(QuoteTurn, e, s) \in QuoteStates
        /\ Fold(QuoteTurn, e, Append(s, c)) = QuoteTurn[c][Fold(QuoteTurn, e, s)]
    BY <1>1, FoldAppend
  <1>4. QuoteTurn[c][Fold(QuoteTurn, e, s)] = QuoteChar(Fold(QuoteTurn, e, s), c)
    BY <1>3, QuoteTurnType
  <1>. QED
    BY <1>2, <1>3, <1>4, Zenon DEF e

\* No quotes are put around these.
Plain(arg) == arg # <<>> /\ \A k \in DOMAIN arg : arg[k] \notin {"space", "quote"}

\* The loop of quote_cmd_arg.
LEMMA QuoteCmdArgIs ==
  ASSUME NEW arg \in Seq(Symbols)
  PROVE  /\ Plain(arg) => QuoteCmdArg(arg) = arg
         /\ ~Plain(arg) => QuoteCmdArg(arg) =
              Quoted(arg).out \o Backslashes(2 * Quoted(arg).slashes) \o <<"quote">>
  <1>. DEFINE N == Len(arg)
              loop[k \in 0..N] == IF k = 0 THEN [out |-> <<"quote">>, slashes |-> 0]
                                  ELSE QuoteChar(loop[k - 1], arg[k])
  <1>1. \E f : f = [k \in 0..N |-> IF k = 0 THEN [out |-> <<"quote">>, slashes |-> 0]
                                   ELSE QuoteChar(f[k - 1], arg[k])]
    <2>0. PICK g : LoopOf(g, QuoteTurn, QuoteStates, QuoteStart, arg)
      BY QuoteTurnType, LoopExists
    <2>1. /\ g \in [0..Len(arg) -> QuoteStates] /\ g[0] = QuoteStart
          /\ \A k \in 1..Len(arg) : g[k] = QuoteTurn[arg[k]][g[k - 1]]
      BY <2>0 DEF LoopOf
    <2>2. ASSUME NEW k \in 0..N
          PROVE  g[k] = IF k = 0 THEN QuoteStart ELSE QuoteChar(g[k - 1], arg[k])
      <3>1. CASE k = 0
        BY <2>1, <3>1
      <3>2. CASE k # 0
        <4>1. k \in 1..Len(arg) /\ k - 1 \in 0..Len(arg) /\ arg[k] \in Symbols
          BY <3>2
        <4>. QED
          BY <2>1, <3>2, <4>1, QuoteTurnType
      <3>. QED
        BY <3>1, <3>2
    <2>3. g = [k \in 0..N |-> IF k = 0 THEN QuoteStart ELSE QuoteChar(g[k - 1], arg[k])]
      BY <2>1, <2>2
    <2>. QED
      BY <2>3 DEF QuoteStart
  <1>2. loop = [k \in 0..N |-> IF k = 0 THEN QuoteStart ELSE QuoteChar(loop[k - 1], arg[k])]
    BY <1>1 DEF QuoteStart
  <1>3. /\ Plain(arg) => QuoteCmdArg(arg) = arg
        /\ ~Plain(arg) => QuoteCmdArg(arg) =
             loop[N].out \o Backslashes(2 * loop[N].slashes) \o <<"quote">>
    BY DEF QuoteCmdArg, Plain
  <1>. HIDE DEF loop
  <1>4. loop[0] = QuoteStart
    BY <1>2
  <1>5. \A k \in 1..Len(arg) : loop[k - 1] \in QuoteStates =>
          loop[k] = QuoteTurn[arg[k]][loop[k - 1]]
    <2>. SUFFICES ASSUME NEW k \in 1..Len(arg), loop[k - 1] \in QuoteStates
                  PROVE  loop[k] = QuoteTurn[arg[k]][loop[k - 1]]
      OBVIOUS
    <2>1. k \in 0..N /\ k # 0 /\ arg[k] \in Symbols
      OBVIOUS
    <2>2. loop[k] = QuoteChar(loop[k - 1], arg[k])
      BY <1>2, <2>1
    <2>. QED
      BY <2>1, <2>2, QuoteTurnType
  <1>6. loop[Len(arg)] = Quoted(arg)
    BY <1>4, <1>5, QuoteTurnType, LoopIsFold DEF Quoted
  <1>. QED
    BY <1>3, <1>6

-----------------------------------------------------------------------------
(* What the target makes of a quoted argument.                             *)

\* Between two arguments, with d read.
Ready(d) == Reading(d, <<>>, 0, FALSE, FALSE)

\* The reader is inside the quotes and has all of s but the backslashes that
\* quote_cmd_arg still holds back.
Follows(d, s, a) ==
  /\ a \in Seq(Symbols)
  /\ Read(Ready(d), Quoted(s).out) = Reading(d, a, 0, TRUE, TRUE)
  /\ a \o Backslashes(Quoted(s).slashes) = s

\* A text of one symbol.
LEMMA OneSymbol ==
  ASSUME NEW c \in Symbols
  PROVE  <<c>> \in Seq(Symbols) /\ <<c>> = Append(<<>>, c) /\ <<>> \in Seq(Symbols)
  OBVIOUS

\* The backslashes that are written, halved, are those that were there.
LEMMA Halves ==
  ASSUME NEW n \in Nat
  PROVE  /\ 2 * n \in Nat /\ (2 * n) % 2 = 0 /\ (2 * n) \div 2 = n
         /\ 2 * n + 1 \in Nat /\ (2 * n + 1) % 2 # 0 /\ (2 * n + 1) \div 2 = n
  OBVIOUS

\* A quote opens an argument.
LEMMA ReadyFacts ==
  ASSUME NEW d \in Seq(Seq(Symbols))
  PROVE  /\ Ready(d) \in ReadStates
         /\ Read(Ready(d), <<"quote">>) = Reading(d, <<>>, 0, TRUE, TRUE)
  <1>1. Ready(d) \in ReadStates
    BY DEF Ready, Reading, ReadStates
  <1>2. "quote" \in Symbols
    BY SymbolsAssumption
  <1>3. <<>> \in Seq(Symbols) /\ <<"quote">> = Append(<<>>, "quote")
    BY <1>2, OneSymbol, Zenon
  <1>4. Read(Ready(d), Append(<<>>, "quote")) = ArgvChar(Read(Ready(d), <<>>), "quote")
    BY <1>1, <1>2, <1>3, ReadAppend
  <1>5. Read(Ready(d), <<>>) = Ready(d)
    BY <1>1, <1>2, <1>3, ReadAppend
  <1>6. ArgvChar(Ready(d), "quote") = Reading(d, <<>> \o Backslashes(0 \div 2), 0, ~FALSE, TRUE)
    <2>1. 0 % 2 = 0
      OBVIOUS
    <2>. QED
      BY <2>1 DEF ArgvChar, Ready, Reading
  <1>7. <<>> \o Backslashes(0 \div 2) = <<>>
    <2>1. 0 \div 2 = 0
      OBVIOUS
    <2>. QED
      BY <2>1, BackslashesFacts
  <1>. QED
    BY <1>1, <1>3, <1>4, <1>5, <1>6, <1>7

\* The reader follows the writer.
LEMMA QuotedIsFollowed ==
  ASSUME NEW d \in Seq(Seq(Symbols)), NEW arg \in Seq(Symbols)
  PROVE  \E a : Follows(d, arg, a)
  <1>. DEFINE T == {s \in Seq(Symbols) : \E a : Follows(d, s, a)}
  <1>1. <<>> \in T
    <2>1. "space" \in Symbols
      BY SymbolsAssumption
    <2>2. <<>> \in Seq(Symbols)
      OBVIOUS
    <2>3. Quoted(<<>>) = QuoteStart
      BY <2>1, <2>2, QuotedAppend
    <2>4. Quoted(<<>>).out = <<"quote">> /\ Quoted(<<>>).slashes = 0
      <3>1. QuoteStart.out = <<"quote">> /\ QuoteStart.slashes = 0
        BY DEF QuoteStart
      <3>. HIDE DEF QuoteStart
      <3>. QED
        BY <2>3, <3>1, Zenon
    <2>5. Read(Ready(d), Quoted(<<>>).out) = Reading(d, <<>>, 0, TRUE, TRUE)
      BY <2>4, ReadyFacts, Zenon
    <2>6. <<>> \o Backslashes(0) = <<>>
      BY BackslashesFacts
    <2>7. Follows(d, <<>>, <<>>)
      BY <2>2, <2>4, <2>5, <2>6, Zenon DEF Follows
    <2>. QED
      BY <2>2, <2>7
  <1>2. ASSUME NEW s \in Seq(Symbols), NEW c \in Symbols, s \in T PROVE Append(s, c) \in T
    <2>. DEFINE q == Quoted(s)
                p == Quoted(Append(s, c))
                n == q.slashes
    <2>1. PICK a : Follows(d, s, a)
      BY <1>2
    <2>2. q \in QuoteStates /\ p = QuoteChar(q, c)
      BY QuotedAppend
    <2>3. n \in Nat /\ q.out \in Seq(Symbols)
      BY <2>2 DEF QuoteStates
    <2>4. Ready(d) \in ReadStates
      BY ReadyFacts
    <2>5. /\ a \in Seq(Symbols) /\ a \o Backslashes(n) = s
          /\ Read(Ready(d), q.out) = Reading(d, a, 0, TRUE, TRUE)
      BY <2>1 DEF Follows
    <2>. HIDE DEF p, q, n
    <2>6. CASE c = "backslash"
      <3>1. p.out = q.out /\ p.slashes = n + 1
        BY <2>2, <2>6, QuoteCharFacts DEF n
      <3>2. a \o Backslashes(n + 1) = Append(s, c)
        <4>. DEFINE b == Backslashes(n)
        <4>1. b \in Seq(Symbols) /\ Backslashes(n + 1) = Append(b, c)
          BY <2>3, <2>6, BackslashesFacts
        <4>2. a \o b = s
          BY <2>5
        <4>. HIDE DEF b
        <4>3. a \o Append(b, c) = Append(a \o b, c)
          BY <2>5, <4>1
        <4>. QED
          BY <4>1, <4>2, <4>3
      <3>3. Follows(d, Append(s, c), a)
        BY <2>5, <3>1, <3>2, Zenon DEF Follows, p
      <3>. QED
        BY <3>3
    <2>7. CASE c # "backslash"
      <3>. DEFINE m == IF c = "quote" THEN 2 * n + 1 ELSE n
                  b == Backslashes(m)
                  y == Reading(d, a, m, TRUE, TRUE)
      <3>1. m \in Nat
        BY <2>3, Halves, Zenon
      <3>2. p.slashes = 0 /\ p.out = Append(q.out \o b, c) /\ b \in Seq(Symbols)
        BY <2>2, <2>7, <3>1, QuoteCharFacts, BackslashesFacts DEF n
      <3>3. Read(Ready(d), q.out \o b) = Read(Reading(d, a, 0, TRUE, TRUE), b)
        <4>. HIDE DEF b
        <4>1. Read(Ready(d), q.out \o b) = Read(Read(Ready(d), q.out), b)
          BY <2>3, <2>4, <3>2, ReadConcat
        <4>. QED
          BY <2>5, <4>1, Zenon
      <3>4. Read(Reading(d, a, 0, TRUE, TRUE), b) = y
        <4>. HIDE DEF m
        <4>. QED
          BY <2>5, <3>1, ReadBackslashes, Zenon
      <3>5. q.out \o b \in Seq(Symbols)
        <4>. HIDE DEF b
        <4>. QED
          BY <2>3, <3>2
      <3>6. Read(Ready(d), p.out) = ArgvChar(y, c)
        <4>. HIDE DEF b, y
        <4>1. Read(Ready(d), Append(q.out \o b, c)) = ArgvChar(Read(Ready(d), q.out \o b), c)
          BY <2>4, <3>5, ReadAppend
        <4>. QED
          BY <3>2, <3>3, <3>4, <4>1
      <3>7. ArgvChar(y, c) = Reading(d, Append(s, c), 0, TRUE, TRUE)
        <4>1. y \in ReadStates
          <5>. HIDE DEF m
          <5>. QED
            BY <2>5, <3>1, ReadingType, Zenon
        <4>2. y.slashes = m /\ y.arg = a /\ y.done = d /\ y.quoted = TRUE
          BY DEF Reading
        <4>3. CASE c = "quote"
          <5>1. m = 2 * n + 1
            BY <4>3, Zenon
          <5>2. m % 2 # 0 /\ m \div 2 = n
            BY <2>3, <5>1, Halves
          <5>. HIDE DEF m, y
          <5>3. ArgvChar(y, c)
                  = Reading(y.done, Append(y.arg \o Backslashes(y.slashes \div 2), c), 0, y.quoted, TRUE)
            BY <4>1, <4>2, <4>3, <5>2, ReadChar
          <5>. QED
            BY <2>5, <4>2, <5>2, <5>3
        <4>4. CASE c # "quote"
          <5>1. m = n
            BY <4>4, Zenon
          <5>. HIDE DEF m, y
          <5>2. ArgvChar(y, c)
                  = Reading(y.done, Append(y.arg \o Backslashes(y.slashes), c), 0, y.quoted, TRUE)
            BY <2>7, <4>1, <4>2, <4>4, ReadChar
          <5>. QED
            BY <2>5, <4>2, <5>1, <5>2
        <4>. QED
          BY <4>3, <4>4
      <3>8. Append(s, c) \in Seq(Symbols) /\ Append(s, c) \o Backslashes(0) = Append(s, c)
        <4>1. Append(s, c) \in Seq(Symbols)
          OBVIOUS
        <4>. DEFINE t == Append(s, c)
        <4>. HIDE DEF t
        <4>2. \A z \in Seq(Symbols) : z \o <<>> = z
          OBVIOUS
        <4>. QED
          BY <4>1, <4>2, BackslashesFacts
      <3>9. Follows(d, Append(s, c), Append(s, c))
        BY <3>2, <3>6, <3>7, <3>8, Zenon DEF Follows, p
      <3>. QED
        BY <3>9
    <2>. QED
      BY <2>6, <2>7
  <1>3. arg \in T
    <2>. HIDE DEF T
    <2>. QED
      BY <1>1, <1>2, SeqSetInduction
  <1>. QED
    BY <1>3

\* A plain argument is followed as it stands, with its backslashes counted.
LEMMA PlainIsFollowed ==
  ASSUME NEW d \in Seq(Seq(Symbols)), NEW arg \in Seq(Symbols),
         \A k \in DOMAIN arg : arg[k] \notin {"space", "quote"}
  PROVE  arg = <<>> \/ \E a \in Seq(Symbols) : \E n \in Nat :
           /\ Read(Ready(d), arg) = Reading(d, a, n, FALSE, TRUE)
           /\ a \o Backslashes(n) = arg
  <1>. DEFINE Has(s, a, n, o) == /\ Read(Ready(d), s) = Reading(d, a, n, FALSE, o)
                                 /\ a \o Backslashes(n) = s
              Good(s) == \A k \in DOMAIN s : s[k] \notin {"space", "quote"}
              T == {s \in Seq(Symbols) : Good(s) =>
                      \E a \in Seq(Symbols) : \E n \in Nat : \E o \in BOOLEAN :
                        Has(s, a, n, o) /\ (s # <<>> => o = TRUE)}
  <1>1. <<>> \in T
    <2>1. "space" \in Symbols
      BY SymbolsAssumption
    <2>2. <<>> \in Seq(Symbols) /\ 0 \in Nat
      OBVIOUS
    <2>3. Read(Ready(d), <<>>) = Ready(d)
      BY <2>1, <2>2, ReadyFacts, ReadAppend
    <2>4. <<>> \o Backslashes(0) = <<>>
      BY BackslashesFacts
    <2>5. Has(<<>>, <<>>, 0, FALSE)
      BY <2>3, <2>4 DEF Ready
    <2>. HIDE DEF Has
    <2>. QED
      BY <2>2, <2>5, Zenon
  <1>2. ASSUME NEW s \in Seq(Symbols), NEW c \in Symbols, s \in T PROVE Append(s, c) \in T
    <2>0. Append(s, c) \in Seq(Symbols)
      OBVIOUS
    <2>. SUFFICES ASSUME Good(Append(s, c))
                  PROVE  \E a \in Seq(Symbols) : \E n \in Nat : Has(Append(s, c), a, n, TRUE)
      <3>. HIDE DEF Has, Good
      <3>. QED
        BY <2>0, Zenon
    <2>1. Good(s) /\ c \notin {"space", "quote"}
      <3>1. Len(s) + 1 \in DOMAIN Append(s, c) /\ Append(s, c)[Len(s) + 1] = c
        OBVIOUS
      <3>2. \A k \in DOMAIN s : k \in DOMAIN Append(s, c) /\ Append(s, c)[k] = s[k]
        OBVIOUS
      <3>. QED
        BY <3>1, <3>2
    <2>2. PICK a \in Seq(Symbols), n \in Nat, o \in BOOLEAN : Has(s, a, n, o)
      <3>. HIDE DEF Has, Good
      <3>. QED
        BY <1>2, <2>1, Zenon
    <2>. DEFINE y == Reading(d, a, n, FALSE, o)
    <2>3. y \in ReadStates
      BY ReadingType, Zenon
    <2>4. y.slashes = n /\ y.arg = a /\ y.done = d /\ y.quoted = FALSE
      BY DEF Reading
    <2>5. Read(Ready(d), Append(s, c)) = ArgvChar(y, c)
      <3>1. Read(Ready(d), s) = y
        BY <2>2
      <3>2. Ready(d) \in ReadStates
        BY ReadyFacts
      <3>. HIDE DEF Has, Good, T, y
      <3>3. Read(Ready(d), Append(s, c)) = ArgvChar(Read(Ready(d), s), c)
        BY <3>2, ReadAppend
      <3>. QED
        BY <3>1, <3>3
    <2>6. Backslashes(n) \in Seq(Symbols) /\ Backslashes(n + 1) = Append(Backslashes(n), "backslash")
      BY BackslashesFacts
    <2>. HIDE DEF y
    <2>7. CASE c = "backslash"
      <3>1. ArgvChar(y, c) = Reading(d, a, n + 1, FALSE, TRUE)
        BY <2>3, <2>4, <2>7, ReadChar
      <3>2. a \o Backslashes(n + 1) = Append(s, c)
        <4>. DEFINE b == Backslashes(n)
        <4>1. b \in Seq(Symbols) /\ Backslashes(n + 1) = Append(b, c)
          BY <2>6, <2>7
        <4>2. a \o b = s
          BY <2>2
        <4>. HIDE DEF b
        <4>3. a \o Append(b, c) = Append(a \o b, c)
          BY <4>1
        <4>. QED
          BY <4>1, <4>2, <4>3
      <3>3. Has(Append(s, c), a, n + 1, TRUE)
        BY <2>5, <3>1, <3>2, Zenon
      <3>4. n + 1 \in Nat
        OBVIOUS
      <3>. HIDE DEF Has
      <3>. QED
        BY <3>3, <3>4, Zenon
    <2>8. CASE c # "backslash"
      <3>1. ArgvChar(y, c) = Reading(y.done, Append(y.arg \o Backslashes(y.slashes), c), 0, y.quoted, TRUE)
        BY <2>1, <2>3, <2>4, <2>8, ReadChar
      <3>2. ArgvChar(y, c) = Reading(d, Append(s, c), 0, FALSE, TRUE)
        BY <2>2, <2>4, <3>1
      <3>3. Append(s, c) \o Backslashes(0) = Append(s, c)
        <4>1. \A z \in Seq(Symbols) : z \o <<>> = z
          OBVIOUS
        <4>. QED
          BY <2>0, <4>1, BackslashesFacts
      <3>4. Has(Append(s, c), Append(s, c), 0, TRUE)
        BY <2>5, <3>2, <3>3, Zenon
      <3>5. 0 \in Nat
        OBVIOUS
      <3>. HIDE DEF Has
      <3>. QED
        BY <2>0, <3>4, <3>5, Zenon
    <2>. QED
      BY <2>7, <2>8
  <1>3. arg \in T
    <2>. HIDE DEF T
    <2>. QED
      BY <1>1, <1>2, SeqSetInduction
  <1>. QED
    <2>. HIDE DEF Has
    <2>1. arg = <<>> \/ \E a \in Seq(Symbols) : \E n \in Nat : Has(arg, a, n, TRUE)
      BY <1>3, Zenon
    <2>. QED
      BY <2>1, Zenon DEF Has

\* An argument and the space after it are one more argument.
LEMMA ArgumentIsRead ==
  ASSUME NEW d \in Seq(Seq(Symbols)), NEW arg \in Seq(Symbols)
  PROVE  /\ QuoteCmdArg(arg) \in Seq(Symbols)
         /\ Read(Ready(d), Append(QuoteCmdArg(arg), "space")) = Ready(Append(d, arg))
  <1>. DEFINE Ends(a, n) == /\ Read(Ready(d), QuoteCmdArg(arg)) = Reading(d, a, n, FALSE, TRUE)
                            /\ a \o Backslashes(n) = arg
  <1>1. QuoteCmdArg(arg) \in Seq(Symbols) /\ \E a \in Seq(Symbols) : \E n \in Nat : Ends(a, n)
    <2>1. CASE Plain(arg)
      <3>1. QuoteCmdArg(arg) = arg
        BY <2>1, QuoteCmdArgIs
      <3>2. arg # <<>> /\ \A k \in DOMAIN arg : arg[k] \notin {"space", "quote"}
        BY <2>1 DEF Plain
      <3>. QED
        <4>1. \E a \in Seq(Symbols) : \E n \in Nat :
                /\ Read(Ready(d), arg) = Reading(d, a, n, FALSE, TRUE)
                /\ a \o Backslashes(n) = arg
          BY <3>2, PlainIsFollowed, Zenon
        <4>2. PICK a \in Seq(Symbols), n \in Nat :
                /\ Read(Ready(d), arg) = Reading(d, a, n, FALSE, TRUE)
                /\ a \o Backslashes(n) = arg
          BY <4>1
        <4>3. Ends(a, n)
          BY <3>1, <4>2, Zenon
        <4>. HIDE DEF Ends
        <4>. QED
          BY <3>1, <4>3, Zenon
    <2>2. CASE ~Plain(arg)
      <3>. DEFINE q == Quoted(arg)
                  n == q.slashes
                  b == Backslashes(2 * n)
                  z == Append(q.out \o b, "quote")
      <3>1. PICK a : Follows(d, arg, a)
        BY QuotedIsFollowed
      <3>2. "quote" \in Symbols
        BY SymbolsAssumption
      <3>3. q \in QuoteStates
        BY <3>2, QuotedAppend
      <3>4. n \in Nat /\ q.out \in Seq(Symbols) /\ b \in Seq(Symbols)
        <4>1. n \in Nat /\ q.out \in Seq(Symbols)
          BY <3>3 DEF QuoteStates
        <4>2. 2 * n \in Nat
          BY <4>1
        <4>. QED
          BY <4>1, <4>2, BackslashesFacts
      <3>5. /\ a \in Seq(Symbols) /\ a \o Backslashes(n) = arg
            /\ Read(Ready(d), q.out) = Reading(d, a, 0, TRUE, TRUE)
        BY <3>1 DEF Follows
      <3>6. QuoteCmdArg(arg) = q.out \o b \o <<"quote">>
        BY <2>2, QuoteCmdArgIs
      <3>. HIDE DEF q, n
      <3>7. q.out \o b \in Seq(Symbols)
        <4>. HIDE DEF b
        <4>. QED
          BY <3>4
      <3>8. QuoteCmdArg(arg) = z /\ z \in Seq(Symbols)
        <4>. DEFINE w == q.out \o b
        <4>1. w \in Seq(Symbols)
          BY <3>7
        <4>. HIDE DEF w
        <4>2. \A c \in Symbols : w \o <<c>> = Append(w, c) /\ Append(w, c) \in Seq(Symbols)
          BY <4>1
        <4>. QED
          BY <3>2, <3>6, <4>2, Zenon DEF w
      <3>9. Read(Ready(d), q.out \o b) = Reading(d, a, 2 * n, TRUE, TRUE)
        <4>1. Read(Ready(d), q.out \o b) = Read(Read(Ready(d), q.out), b)
          <5>. HIDE DEF b
          <5>. QED
            BY <3>4, ReadyFacts, ReadConcat
        <4>2. 2 * n \in Nat
          BY <3>4
        <4>3. Read(Reading(d, a, 0, TRUE, TRUE), b) = Reading(d, a, 2 * n, TRUE, TRUE)
          BY <3>5, <4>2, ReadBackslashes, Zenon
        <4>. QED
          BY <3>5, <4>1, <4>3, Zenon
      <3>10. Read(Ready(d), z) = ArgvChar(Reading(d, a, 2 * n, TRUE, TRUE), "quote")
        <4>1. Read(Ready(d), z) = ArgvChar(Read(Ready(d), q.out \o b), "quote")
          BY <3>2, <3>7, ReadyFacts, ReadAppend
        <4>. QED
          BY <3>9, <4>1, Zenon
      <3>11. ArgvChar(Reading(d, a, 2 * n, TRUE, TRUE), "quote") = Reading(d, arg, 0, FALSE, TRUE)
        <4>. DEFINE y == Reading(d, a, 2 * n, TRUE, TRUE)
        <4>1. 2 * n \in Nat /\ (2 * n) % 2 = 0 /\ (2 * n) \div 2 = n
          BY <3>4, Halves
        <4>2. y \in ReadStates
          BY <3>5, <4>1, ReadingType, Zenon
        <4>3. y.slashes = 2 * n /\ y.arg = a /\ y.done = d /\ y.quoted = TRUE
          BY DEF Reading
        <4>. HIDE DEF y
        <4>4. ArgvChar(y, "quote") = Reading(y.done, y.arg \o Backslashes(y.slashes \div 2), 0, ~y.quoted, TRUE)
          BY <3>2, <4>1, <4>2, <4>3, ReadChar
        <4>5. ArgvChar(y, "quote") = Reading(d, arg, 0, FALSE, TRUE)
          BY <3>5, <4>1, <4>3, <4>4
        <4>. QED
          BY <4>5 DEF y
      <3>12. arg \o Backslashes(0) = arg /\ 0 \in Nat
        <4>1. \A s \in Seq(Symbols) : s \o <<>> = s
          OBVIOUS
        <4>. QED
          BY <4>1, BackslashesFacts
      <3>13. Ends(arg, 0)
        BY <3>8, <3>10, <3>11, <3>12, Zenon
      <3>. HIDE DEF Ends
      <3>. QED
        BY <3>8, <3>12, <3>13, Zenon
    <2>. QED
      BY <2>1, <2>2
  <1>2. PICK a \in Seq(Symbols), n \in Nat : Ends(a, n)
    BY <1>1
  <1>. DEFINE y == Reading(d, a, n, FALSE, TRUE)
  <1>3. "space" \in Symbols
    BY SymbolsAssumption
  <1>4. Read(Ready(d), Append(QuoteCmdArg(arg), "space")) = ArgvChar(y, "space")
    <2>1. Read(Ready(d), QuoteCmdArg(arg)) = y
      BY <1>2
    <2>2. Ready(d) \in ReadStates /\ QuoteCmdArg(arg) \in Seq(Symbols)
      BY <1>1, ReadyFacts
    <2>. HIDE DEF Ends, y
    <2>3. Read(Ready(d), Append(QuoteCmdArg(arg), "space"))
            = ArgvChar(Read(Ready(d), QuoteCmdArg(arg)), "space")
      BY <1>3, <2>2, ReadAppend
    <2>. QED
      BY <2>1, <2>3
  <1>5. y \in ReadStates
    BY ReadingType, Zenon
  <1>6. y.slashes = n /\ y.arg = a /\ y.done = d /\ y.quoted = FALSE /\ y.open = TRUE
    BY DEF Reading
  <1>. HIDE DEF y
  <1>7. ArgvChar(y, "space") = Reading(IF y.open THEN Append(y.done, y.arg \o Backslashes(y.slashes))
                                       ELSE y.done, <<>>, 0, FALSE, FALSE)
    BY <1>3, <1>5, <1>6, ReadChar
  <1>8. ArgvChar(y, "space") = Ready(Append(d, arg))
    BY <1>2, <1>6, <1>7 DEF Ready
  <1>. QED
    BY <1>1, <1>4, <1>8

-----------------------------------------------------------------------------
(* The whole line.                                                         *)

\* The arguments as they are written.
LossyAll(args) == [k \in DOMAIN args |-> Lossy(args[k])]

\* to_string_lossy replaces symbol by symbol,
LEMMA LossyType ==
  ASSUME NEW t \in Seq(Symbols)
  PROVE  /\ Lossy(t) \in Seq(Symbols) /\ Len(Lossy(t)) = Len(t) /\ DOMAIN Lossy(t) = DOMAIN t
         /\ \A k \in DOMAIN t : Lossy(t)[k] = IF t[k] = "surrogate" THEN "U+FFFD" ELSE t[k]
  <1>1. "U+FFFD" \in Symbols
    BY SymbolsAssumption
  <1>2. Len(t) \in Nat /\ DOMAIN t = 1..Len(t) /\ \A k \in 1..Len(t) : t[k] \in Symbols
    OBVIOUS
  <1>3. \A k \in DOMAIN t : Lossy(t)[k] = IF t[k] = "surrogate" THEN "U+FFFD" ELSE t[k]
    BY DEF Lossy
  <1>4. DOMAIN Lossy(t) = 1..Len(t) /\ \A k \in 1..Len(t) : Lossy(t)[k] \in Symbols
    BY <1>1, <1>2 DEF Lossy
  <1>5. Lossy(t) \in [1..Len(t) -> Symbols]
    BY <1>1, <1>2 DEF Lossy
  <1>. QED
    BY <1>2, <1>3, <1>4, <1>5

\* argument by argument.
LEMMA LossyAllFacts ==
  ASSUME NEW args \in Seq(Seq(Symbols)), NEW t \in Seq(Symbols)
  PROVE  /\ LossyAll(<<>>) = <<>>
         /\ LossyAll(args) \in Seq(Seq(Symbols))
         /\ LossyAll(Append(args, t)) = Append(LossyAll(args), Lossy(t))
  <1>1. LossyAll(<<>>) = <<>>
    BY DEF LossyAll
  <1>2. \A s \in Seq(Seq(Symbols)) : LossyAll(s) \in Seq(Seq(Symbols)) /\ Len(LossyAll(s)) = Len(s)
                                     /\ \A k \in 1..Len(s) : LossyAll(s)[k] = Lossy(s[k])
    <2>. SUFFICES ASSUME NEW s \in Seq(Seq(Symbols))
                  PROVE  LossyAll(s) \in Seq(Seq(Symbols)) /\ Len(LossyAll(s)) = Len(s)
                         /\ \A k \in 1..Len(s) : LossyAll(s)[k] = Lossy(s[k])
      OBVIOUS
    <2>1. Len(s) \in Nat /\ DOMAIN s = 1..Len(s) /\ \A k \in 1..Len(s) : s[k] \in Seq(Symbols)
      OBVIOUS
    <2>2. \A k \in 1..Len(s) : Lossy(s[k]) \in Seq(Symbols)
      BY <2>1, LossyType
    <2>3. LossyAll(s) = [k \in 1..Len(s) |-> Lossy(s[k])]
      BY <2>1 DEF LossyAll
    <2>. QED
      BY <2>1, <2>2, <2>3
  <1>3. LossyAll(Append(args, t)) = Append(LossyAll(args), Lossy(t))
    <2>. DEFINE a == LossyAll(args)
                b == LossyAll(Append(args, t))
    <2>1. Append(args, t) \in Seq(Seq(Symbols)) /\ Len(Append(args, t)) = Len(args) + 1
          /\ Append(args, t)[Len(args) + 1] = t /\ \A k \in 1..Len(args) : Append(args, t)[k] = args[k]
      OBVIOUS
    <2>2. a \in Seq(Seq(Symbols)) /\ Len(a) = Len(args) /\ \A k \in 1..Len(args) : a[k] = Lossy(args[k])
      BY <1>2
    <2>3. b \in Seq(Seq(Symbols)) /\ Len(b) = Len(args) + 1 /\ b[Len(args) + 1] = Lossy(t)
          /\ \A k \in 1..Len(args) : b[k] = Lossy(args[k])
      <3>. DEFINE z == Append(args, t)
      <3>0. Len(args) \in Nat
        OBVIOUS
      <3>1. z \in Seq(Seq(Symbols)) /\ Len(z) = Len(args) + 1 /\ z[Len(args) + 1] = t
            /\ \A k \in 1..Len(args) : z[k] = args[k]
        BY <2>1
      <3>. HIDE DEF z
      <3>2. LossyAll(z) \in Seq(Seq(Symbols)) /\ Len(LossyAll(z)) = Len(z)
            /\ \A k \in 1..Len(z) : LossyAll(z)[k] = Lossy(z[k])
        BY <1>2, <3>1
      <3>3. \A k \in 1..Len(args) : LossyAll(z)[k] = Lossy(args[k])
        BY <3>0, <3>1, <3>2
      <3>4. LossyAll(z)[Len(args) + 1] = Lossy(t)
        BY <3>0, <3>1, <3>2
      <3>. QED
        BY <3>1, <3>2, <3>3, <3>4 DEF z
    <2>4. Lossy(t) \in Seq(Symbols)
      BY LossyType
    <2>. HIDE DEF a, b
    <2>. DEFINE c == Lossy(t)
    <2>. HIDE DEF c
    <2>5. b = Append(a, c)
      <3>1. c \in Seq(Symbols) /\ Len(args) \in Nat
        BY <2>4 DEF c
      <3>2. Append(a, c) \in Seq(Seq(Symbols)) /\ Len(Append(a, c)) = Len(args) + 1
            /\ Append(a, c)[Len(args) + 1] = c /\ \A k \in 1..Len(args) : Append(a, c)[k] = a[k]
        BY <2>2, <3>1
      <3>3. \A k \in 1..(Len(args) + 1) : b[k] = Append(a, c)[k]
        BY <2>2, <2>3, <3>1, <3>2 DEF c
      <3>. DEFINE d == Append(a, c)
      <3>4. b = d
        <4>. HIDE DEF d
        <4>1. d \in Seq(Seq(Symbols)) /\ Len(d) = Len(b) /\ \A k \in 1..Len(b) : b[k] = d[k]
          BY <2>3, <3>2, <3>3 DEF d
        <4>. QED
          BY <2>3, <4>1
      <3>. QED
        BY <3>4
    <2>. QED
      BY <2>5 DEF a, b, c
  <1>. QED
    BY <1>1, <1>2, <1>3

\* One turn of build_command_line.
JoinTurn == [t \in Seq(Symbols) |-> [x \in Seq(Symbols) |-> x \o <<"space">> \o QuoteCmdArg(Lossy(t))]]
Joined(exe, args) == Fold(JoinTurn, QuoteCmdArg(Lossy(exe)), args)

\* Texts with a character between.
LEMMA Joining ==
  ASSUME NEW x \in Seq(Symbols), NEW y \in Seq(Symbols), NEW c \in Symbols
  PROVE  /\ x \o <<c>> \o y \in Seq(Symbols)
         /\ x \o <<c>> \o y = Append(x, c) \o y
         /\ x \o <<>> = x
  OBVIOUS

\* Parts of a text.
LEMMA ConcatAssociates ==
  ASSUME NEW S, NEW x \in Seq(S), NEW y \in Seq(S), NEW z \in Seq(S)
  PROVE  x \o y \in Seq(S) /\ (x \o y) \o z = x \o (y \o z)
  OBVIOUS

\* A text and one more character.
LEMMA AppendIsConcat ==
  ASSUME NEW S, NEW x \in Seq(S), NEW c \in S
  PROVE  <<c>> \in Seq(S) /\ Append(x, c) = x \o <<c>> /\ Append(x,c) \in Seq(S)
  OBVIOUS

\* p is z after y and a c, and it stands behind x.
Behind(x, y, c, z, p) ==
  /\ (x \o y) \o <<c>> \o z = x \o p
  /\ p = Append(y, c) \o z
  /\ Append(p, c) = Append(y, c) \o Append(z, c)
  /\ (y = <<>> \/ y[1] = c) => p[1] = c

\* Every three parts can be put like this.
LEMMA Regroup ==
  ASSUME NEW S, NEW x \in Seq(S), NEW y \in Seq(S), NEW z \in Seq(S), NEW c \in S
  PROVE  \E p \in Seq(S) : Behind(x, y, c, z, p)
  <1>0. PICK p : p = y \o <<c>> \o z
    OBVIOUS
  <1>1. PICK u \in Seq(S) : u = <<c>>
    BY AppendIsConcat
  <1>2. p = (y \o u) \o z /\ Append(y, c) = y \o u /\ Append(z, c) = z \o u
    BY <1>0, <1>1, AppendIsConcat
  <1>. DEFINE yu == y \o u
              xy == x \o y
  <1>3. yu \in Seq(S) /\ p \in Seq(S) /\ Append(p, c) = p \o u
    <2>1. yu \in Seq(S) /\ p = yu \o z
      BY <1>2, ConcatAssociates
    <2>. HIDE DEF yu
    <2>2. p \in Seq(S)
      BY <2>1, ConcatAssociates
    <2>. QED
      BY <1>1, <2>1, <2>2, AppendIsConcat
  <1>4. Append(p, c) = (y \o u) \o (z \o u)
    <2>1. p = yu \o z
      BY <1>2
    <2>. HIDE DEF yu
    <2>2. (yu \o z) \o u = yu \o (z \o u)
      BY <1>1, <1>3
    <2>. QED
      BY <1>3, <2>1, <2>2, Zenon DEF yu
  <1>5. x \o y \in Seq(S) /\ (x \o y) \o u = x \o (y \o u)
    BY <1>1
  <1>6. ((x \o y) \o u) \o z = x \o p
    <2>1. (xy \o u) \o z = (x \o yu) \o z /\ p = yu \o z
      BY <1>2, <1>5, Zenon
    <2>. HIDE DEF yu
    <2>2. yu \in Seq(S)
      BY <1>3
    <2>3. (x \o yu) \o z = x \o (yu \o z)
      BY <2>2
    <2>. QED
      BY <2>1, <2>3, Zenon
  <1>7. (y = <<>> \/ y[1] = c) => p[1] = c
    <2>1. CASE y = <<>>
      <3>1. y \o u = u /\ u[1] = c /\ Len(u) = 1
        BY <1>1, <2>1
      <3>2. p = u \o z
        BY <1>2, <3>1
      <3>. QED
        BY <3>1, <3>2
    <2>2. CASE y # <<>> /\ y[1] = c
      <3>. DEFINE w == y \o u
      <3>1. w \in Seq(S) /\ Len(w) > 0 /\ w[1] = c
        BY <1>1, <2>2
      <3>. HIDE DEF w
      <3>2. (w \o z)[1] = c
        BY <3>1
      <3>. QED
        BY <1>2, <3>2 DEF w
    <2>. QED
      BY <2>1, <2>2
  <1>8. Behind(x, y, c, z, p)
    <2>1. (x \o y) \o <<c>> \o z = x \o p
      BY <1>1, <1>6
    <2>2. p = Append(y, c) \o z
      BY <1>2
    <2>3. Append(p, c) = Append(y, c) \o Append(z, c)
      BY <1>2, <1>4
    <2>. QED
      BY <1>7, <2>1, <2>2, <2>3, Zenon DEF Behind
  <1>. QED
    BY <1>3, <1>8

\* A quoted argument is a text.
LEMMA QuotedType ==
  ASSUME NEW t \in Seq(Symbols)
  PROVE  QuoteCmdArg(Lossy(t)) \in Seq(Symbols)
  <1>1. Lossy(t) \in Seq(Symbols) /\ <<>> \in Seq(Seq(Symbols))
    BY LossyType
  <1>. QED
    BY <1>1, ArgumentIsRead

\* Each argument leads from a text to a text.
LEMMA JoinTurnType ==
  /\ JoinTurn \in [Seq(Symbols) -> [Seq(Symbols) -> Seq(Symbols)]]
  /\ \A t \in Seq(Symbols) : \A x \in Seq(Symbols) :
       JoinTurn[t][x] = x \o <<"space">> \o QuoteCmdArg(Lossy(t))
  <1>1. "space" \in Symbols
    BY SymbolsAssumption
  <1>2. \A t \in Seq(Symbols) : \A x \in Seq(Symbols) :
          x \o <<"space">> \o QuoteCmdArg(Lossy(t)) \in Seq(Symbols)
    BY <1>1, QuotedType, Joining
  <1>. QED
    BY <1>2 DEF JoinTurn

\* The loop of build_command_line.
LEMMA BuildCommandLineIs ==
  ASSUME NEW exe \in Seq(Symbols), NEW args \in Seq(Seq(Symbols))
  PROVE  BuildCommandLine(exe, args) = Joined(exe, args)
  <1>. DEFINE N == Len(args)
              start == QuoteCmdArg(Lossy(exe))
              parts[k \in 0..N] ==
                IF k = 0 THEN start ELSE parts[k - 1] \o <<"space">> \o QuoteCmdArg(Lossy(args[k]))
  <1>0. start \in Seq(Symbols)
    BY QuotedType
  <1>3. BuildCommandLine(exe, args) = parts[N]
    BY DEF BuildCommandLine
  <1>4. Joined(exe, args) = Fold(JoinTurn, start, args)
    BY DEF Joined
  <1>. HIDE DEF start
  <1>1. \E f : f = [k \in 0..N |-> IF k = 0 THEN start
                                   ELSE f[k - 1] \o <<"space">> \o QuoteCmdArg(Lossy(args[k]))]
    <2>0. PICK g : LoopOf(g, JoinTurn, Seq(Symbols), start, args)
      BY <1>0, JoinTurnType, LoopExists
    <2>1. /\ g \in [0..N -> Seq(Symbols)] /\ g[0] = start
          /\ \A k \in 1..N : g[k] = JoinTurn[args[k]][g[k - 1]]
      BY <2>0 DEF LoopOf
    <2>2. ASSUME NEW k \in 0..N
          PROVE  g[k] = IF k = 0 THEN start ELSE g[k - 1] \o <<"space">> \o QuoteCmdArg(Lossy(args[k]))
      <3>1. CASE k = 0
        BY <2>1, <3>1, Zenon
      <3>2. CASE k # 0
        <4>1. k \in 1..N /\ k - 1 \in 0..N /\ args[k] \in Seq(Symbols)
          BY <3>2
        <4>2. g[k - 1] \in Seq(Symbols) /\ g[k] = JoinTurn[args[k]][g[k - 1]]
          BY <2>1, <4>1
        <4>3. g[k] = g[k - 1] \o <<"space">> \o QuoteCmdArg(Lossy(args[k]))
          BY <4>1, <4>2, JoinTurnType, Zenon
        <4>. QED
          BY <3>2, <4>3, Zenon
      <3>. QED
        BY <3>1, <3>2
    <2>3. g = [k \in 0..N |-> IF k = 0 THEN start
                              ELSE g[k - 1] \o <<"space">> \o QuoteCmdArg(Lossy(args[k]))]
      BY <2>1, <2>2
    <2>. QED
      BY <2>3
  <1>2. parts = [k \in 0..N |-> IF k = 0 THEN start
                                ELSE parts[k - 1] \o <<"space">> \o QuoteCmdArg(Lossy(args[k]))]
    BY <1>1
  <1>. HIDE DEF parts
  <1>5. parts[0] = start
    BY <1>2
  <1>6. \A k \in 1..Len(args) : parts[k - 1] \in Seq(Symbols) =>
          parts[k] = JoinTurn[args[k]][parts[k - 1]]
    <2>. SUFFICES ASSUME NEW k \in 1..Len(args), parts[k - 1] \in Seq(Symbols)
                  PROVE  parts[k] = JoinTurn[args[k]][parts[k - 1]]
      OBVIOUS
    <2>1. k \in 0..N /\ k # 0 /\ args[k] \in Seq(Symbols)
      OBVIOUS
    <2>2. parts[k] = parts[k - 1] \o <<"space">> \o QuoteCmdArg(Lossy(args[k]))
      BY <1>2, <2>1
    <2>. QED
      BY <2>1, <2>2, JoinTurnType, Zenon
  <1>7. parts[Len(args)] = Fold(JoinTurn, start, args)
    <2>1. JoinTurn \in [Seq(Symbols) -> [Seq(Symbols) -> Seq(Symbols)]]
      BY JoinTurnType
    <2>2. LoopsLike(parts, JoinTurn, Seq(Symbols), Seq(Symbols), start, args)
      BY <1>0, <1>5, <1>6, <2>1, Zenon DEF LoopsLike
    <2>. QED
      BY <2>2, LikeLoop
  <1>. QED
    BY <1>3, <1>4, <1>7

\* r is what stands after the program's name, and its arguments are read.
Carries(exe, args, r) ==
  /\ r \in Seq(Symbols)
  /\ Joined(exe, args) = QuoteCmdArg(Lossy(exe)) \o r
  /\ r = <<>> \/ r[1] = "space"
  /\ Read(Ready(<<>>), Append(r, "space")) = Ready(LossyAll(args))

\* What follows the name of the program is read as the arguments.
LEMMA ArgumentsAreRead ==
  ASSUME NEW exe \in Seq(Symbols), NEW args \in Seq(Seq(Symbols))
  PROVE  \E r : Carries(exe, args, r)
  <1>. DEFINE T == {x \in Seq(Seq(Symbols)) : \E r : Carries(exe, x, r)}
              start == QuoteCmdArg(Lossy(exe))
  <1>0. start \in Seq(Symbols) /\ "space" \in Symbols /\ <<>> \in Seq(Symbols) /\ <<>> \in Seq(Seq(Symbols))
    BY QuotedType, SymbolsAssumption
  <1>1. <<>> \in T
    <2>1. Joined(exe, <<>>) = start
      <3>1. Joined(exe, <<>>) = Fold(JoinTurn, start, <<>>)
        BY DEF Joined
      <3>. DEFINE C == Seq(Symbols)
      <3>2. JoinTurn \in [C -> [C -> C]] /\ start \in C /\ <<>> \in Seq(C) /\ <<>> \in C
        BY <1>0, JoinTurnType
      <3>. HIDE DEF start, C
      <3>3. Fold(JoinTurn, start, <<>>) = start
        BY <3>2, OwnFold, Zenon
      <3>. QED
        BY <3>1, <3>3
    <2>2. start \o <<>> = start
      <3>. HIDE DEF start
      <3>. QED
        BY <1>0
    <2>3. Read(Ready(<<>>), Append(<<>>, "space")) = ArgvChar(Ready(<<>>), "space")
      <3>1. Ready(<<>>) \in ReadStates
        BY <1>0, ReadyFacts
      <3>2. Read(Ready(<<>>), <<>>) = Ready(<<>>)
        BY <1>0, <3>1, ReadAppend
      <3>. QED
        <4>. DEFINE e == Ready(<<>>)
        <4>1. \A x \in ReadStates, s \in Seq(Symbols), c \in Symbols :
                Read(x, Append(s, c)) = ArgvChar(Read(x, s), c)
          BY ReadAppend
        <4>2. Read(e, Append(<<>>, "space")) = ArgvChar(Read(e, <<>>), "space")
          BY <1>0, <3>1, <4>1, Zenon
        <4>. QED
          BY <3>2, <4>2, Zenon
    <2>4. ArgvChar(Ready(<<>>), "space") = Ready(<<>>)
      BY DEF ArgvChar, Ready, Reading
    <2>5. LossyAll(<<>>) = <<>>
      BY <1>0, LossyAllFacts
    <2>6. Carries(exe, <<>>, <<>>)
      <3>1. Joined(exe, <<>>) = start \o <<>>
        BY <2>1, <2>2, Zenon
      <3>2. Read(Ready(<<>>), Append(<<>>, "space")) = Ready(LossyAll(<<>>))
        BY <2>3, <2>4, <2>5, Zenon
      <3>. QED
        BY <1>0, <3>1, <3>2, Zenon DEF Carries
    <2>. QED
      BY <1>0, <2>6
  <1>2. ASSUME NEW x \in Seq(Seq(Symbols)), NEW t \in Seq(Symbols), x \in T PROVE Append(x, t) \in T
    <2>. DEFINE q == QuoteCmdArg(Lossy(t))
    <2>1. PICK r : Carries(exe, x, r)
      BY <1>2
    <2>2. r \in Seq(Symbols) /\ Joined(exe, x) = start \o r /\ (r = <<>> \/ r[1] = "space")
          /\ Read(Ready(<<>>), Append(r, "space")) = Ready(LossyAll(x))
      BY <2>1 DEF Carries
    <2>3. q \in Seq(Symbols)
      BY QuotedType
    <2>4. Joined(exe, Append(x, t)) = (start \o r) \o <<"space">> \o q
      <3>1. /\ Joined(exe, Append(x, t)) = Fold(JoinTurn, start, Append(x, t))
            /\ Joined(exe, x) = Fold(JoinTurn, start, x)
        BY DEF Joined
      <3>2. /\ Fold(JoinTurn, start, Append(x, t)) = JoinTurn[t][Fold(JoinTurn, start, x)]
            /\ Fold(JoinTurn, start, x) \in Seq(Symbols)
        <4>. DEFINE C == Seq(Symbols)
        <4>1. JoinTurn \in [C -> [C -> C]] /\ start \in C /\ x \in Seq(C) /\ t \in C
          BY <1>0, JoinTurnType
        <4>. HIDE DEF start, C
        <4>2. /\ Fold(JoinTurn, start, Append(x, t)) = JoinTurn[t][Fold(JoinTurn, start, x)]
              /\ Fold(JoinTurn, start, x) \in C
          BY <4>1, FoldAppend
        <4>. QED
          BY <4>2 DEF C
      <3>3. JoinTurn[t][Fold(JoinTurn, start, x)] = Fold(JoinTurn, start, x) \o <<"space">> \o q
        BY <3>2, JoinTurnType, Zenon
      <3>. QED
        BY <2>2, <3>1, <3>2, <3>3, Zenon
    <2>5. PICK p \in Seq(Symbols) : Behind(start, r, "space", q, p)
      <3>. HIDE DEF start, q
      <3>. QED
        BY <1>0, <2>2, <2>3, Regroup
    <2>13. /\ (start \o r) \o <<"space">> \o q = start \o p
           /\ p[1] = "space"
           /\ p = Append(r, "space") \o q
           /\ Append(p, "space") = Append(r, "space") \o Append(q, "space")
      <3>. HIDE DEF start, q
      <3>. QED
        BY <2>2, <2>5, Zenon DEF Behind
    <2>14. Append(r, "space") \in Seq(Symbols) /\ Append(q, "space") \in Seq(Symbols)
      <3>. HIDE DEF q
      <3>. QED
        BY <1>0, <2>2, <2>3, AppendIsConcat, Zenon
    <2>6. Read(Ready(<<>>), Append(r, "space") \o Append(q, "space"))
            = Read(Read(Ready(<<>>), Append(r, "space")), Append(q, "space"))
      <3>1. Ready(<<>>) \in ReadStates
        BY <1>0, ReadyFacts
      <3>. QED
        BY <2>14, <3>1, ReadConcat, Zenon
    <2>7. LossyAll(x) \in Seq(Seq(Symbols)) /\ Lossy(t) \in Seq(Symbols)
          /\ LossyAll(Append(x, t)) = Append(LossyAll(x), Lossy(t))
      BY LossyAllFacts, LossyType
    <2>8. Read(Ready(LossyAll(x)), Append(q, "space")) = Ready(Append(LossyAll(x), Lossy(t)))
      BY <2>7, ArgumentIsRead, Zenon
    <2>9. Read(Ready(<<>>), Append(p, "space")) = Ready(LossyAll(Append(x, t)))
      BY <2>2, <2>13, <2>6, <2>7, <2>8, Zenon
    <2>10. Joined(exe, Append(x, t)) = start \o p
      BY <2>4, <2>13, Zenon
    <2>11. Carries(exe, Append(x, t), p)
      BY <2>5, <2>13, <2>9, <2>10, Zenon DEF Carries
    <2>12. Append(x, t) \in Seq(Seq(Symbols))
      OBVIOUS
    <2>. QED
      BY <2>11, <2>12
  <1>3. args \in T
    <2>. HIDE DEF T
    <2>. QED
      BY <1>1, <1>2, SeqSetInduction
  <1>. QED
    BY <1>3

-----------------------------------------------------------------------------
(* The program's name.                                                     *)

\* The least number of a set.
LEMMA MinIs ==
  ASSUME NEW S \in SUBSET Int, NEW m \in S, \A x \in S : m <= x
  PROVE  Min(S) = m
  <1>1. Min(S) \in S /\ \A y \in S : Min(S) <= y
    BY DEF Min
  <1>2. Min(S) \in Int /\ m \in Int /\ Min(S) <= m /\ m <= Min(S)
    BY <1>1
  <1>. HIDE DEF Min
  <1>. QED
    BY <1>2

\* A name without a quote: what quote_cmd_arg has written of it, and the
\* backslashes it holds back, are a quote and the name.
CopiedInQuotes(s) == Quoted(s).out \o Backslashes(Quoted(s).slashes) = <<"quote">> \o s

\* A name without quotes is written as it is.
LEMMA NameIsCopied ==
  ASSUME NEW name \in Seq(Symbols), \A k \in DOMAIN name : name[k] # "quote"
  PROVE  CopiedInQuotes(name) /\ (name # <<>> /\ name[Len(name)] # "backslash" => Quoted(name).slashes = 0)
  <1>. DEFINE Good(s) == \A k \in DOMAIN s : s[k] # "quote"
              Copied(s) == /\ CopiedInQuotes(s)
                           /\ (s # <<>> /\ s[Len(s)] # "backslash") => Quoted(s).slashes = 0
              T == {s \in Seq(Symbols) : Good(s) => Copied(s)}
  <1>1. <<>> \in T
    <2>1. "quote" \in Symbols /\ <<>> \in Seq(Symbols)
      BY SymbolsAssumption
    <2>2. Quoted(<<>>) = QuoteStart
      BY <2>1, QuotedAppend
    <2>3. QuoteStart.out = <<"quote">> /\ QuoteStart.slashes = 0
      BY DEF QuoteStart
    <2>4. Backslashes(0) = <<>>
      BY BackslashesFacts
    <2>5. CopiedInQuotes(<<>>)
      BY <2>2, <2>3, <2>4, Zenon DEF CopiedInQuotes
    <2>. QED
      BY <2>1, <2>5
  <1>2. ASSUME NEW s \in Seq(Symbols), NEW c \in Symbols, s \in T PROVE Append(s, c) \in T
    <2>. DEFINE q == Quoted(s)
                p == Quoted(Append(s, c))
                n == q.slashes
                b == Backslashes(n)
    <2>0. Append(s, c) \in Seq(Symbols) /\ Len(Append(s, c)) = Len(s) + 1
          /\ Append(s, c)[Len(s) + 1] = c /\ Len(s) + 1 \in DOMAIN Append(s, c)
          /\ \A k \in DOMAIN s : k \in DOMAIN Append(s, c) /\ Append(s, c)[k] = s[k]
      OBVIOUS
    <2>. SUFFICES ASSUME Good(Append(s, c)) PROVE Copied(Append(s, c))
      BY <2>0
    <2>1. Good(s) /\ c # "quote"
      BY <2>0
    <2>2. CopiedInQuotes(s)
      BY <1>2, <2>1
    <2>3. q \in QuoteStates /\ p = QuoteChar(q, c)
      BY QuotedAppend
    <2>4. n \in Nat /\ q.out \in Seq(Symbols)
      BY <2>3 DEF QuoteStates
    <2>5. b \in Seq(Symbols) /\ Backslashes(n + 1) = Append(b, "backslash")
      BY <2>4, BackslashesFacts
    <2>6. q.out \o b = <<"quote">> \o s
      BY <2>2 DEF CopiedInQuotes
    <2>7. <<"quote">> \in Seq(Symbols)
      BY SymbolsAssumption, OneSymbol
    <2>8. \A x, y \in Seq(Symbols) : x \o Append(y, c) = Append(x \o y, c)
      BY ConcatAssociates, AppendIsConcat
    <2>9. (<<"quote">> \o s) \in Seq(Symbols) /\ Append(<<"quote">> \o s, c) = <<"quote">> \o Append(s, c)
      BY <2>7, <2>8, ConcatAssociates
    <2>. HIDE DEF p, q, n, b
    <2>10. CASE c = "backslash"
      <3>1. p.out = q.out /\ p.slashes = n + 1
        BY <2>3, <2>10, QuoteCharFacts DEF n
      <3>2. q.out \o Append(b, c) = Append(q.out \o b, c)
        BY <2>4, <2>5, <2>8
      <3>3. p.out \o Backslashes(p.slashes) = <<"quote">> \o Append(s, c)
        BY <2>5, <2>6, <2>9, <2>10, <3>1, <3>2
      <3>. QED
        BY <2>0, <2>10, <3>3 DEF CopiedInQuotes, p
    <2>11. CASE c # "backslash"
      <3>1. p.slashes = 0 /\ p.out = Append(q.out \o Backslashes(IF c = "quote" THEN 2 * n + 1 ELSE n), c)
        BY <2>3, <2>11, QuoteCharFacts DEF n
      <3>2. p.out = Append(q.out \o b, c)
        BY <2>1, <3>1, Zenon DEF b
      <3>3. p.out = <<"quote">> \o Append(s, c) /\ p.out \in Seq(Symbols)
        BY <2>6, <2>9, <3>2, AppendIsConcat
      <3>4. p.out \o Backslashes(0) = p.out
        <4>1. \A z \in Seq(Symbols) : z \o <<>> = z
          OBVIOUS
        <4>. QED
          BY <3>3, <4>1, BackslashesFacts
      <3>5. p.out \o Backslashes(p.slashes) = <<"quote">> \o Append(s, c)
        BY <3>1, <3>3, <3>4, Zenon
      <3>. QED
        BY <3>1, <3>5 DEF CopiedInQuotes, p
    <2>. QED
      BY <2>10, <2>11
  <1>3. name \in T
    <2>. HIDE DEF T
    <2>. QED
      BY <1>1, <1>2, SeqSetInduction
  <1>. QED
    BY <1>3

\* The name of a file.
IsName(s) == /\ s \in Seq(Symbols) /\ s # <<>> /\ s[Len(s)] # "backslash"
             /\ \A k \in DOMAIN s : s[k] # "quote"

\* Nor is anything added at its end.
LEMMA QuotedName ==
  ASSUME NEW name, IsName(name), ~Plain(name)
  PROVE  QuoteCmdArg(name) = <<"quote">> \o name \o <<"quote">>
  <1>1. name \in Seq(Symbols) /\ CopiedInQuotes(name) /\ Quoted(name).slashes = 0
    BY NameIsCopied DEF IsName
  <1>2. QuoteCmdArg(name) = Quoted(name).out \o Backslashes(2 * Quoted(name).slashes) \o <<"quote">>
    BY <1>1, QuoteCmdArgIs
  <1>3. 2 * Quoted(name).slashes = Quoted(name).slashes
    BY <1>1
  <1>. QED
    BY <1>1, <1>2, <1>3, Zenon DEF CopiedInQuotes

\* Read from the front: the name, then the rest.
LEMMA NameIsRead ==
  ASSUME NEW name, IsName(name), NEW r \in Seq(Symbols), r = <<>> \/ r[1] = "space"
  PROVE  ProgramName(QuoteCmdArg(name) \o r) = [name |-> name, rest |-> r]
  <1>. DEFINE s == QuoteCmdArg(name) \o r
              N == Len(name)
  <1>0. /\ name \in Seq(Symbols) /\ N \in Nat /\ N > 0
        /\ \A k \in 1..N : name[k] # "quote" /\ name[k] \in Symbols
    BY DEF IsName
  <1>1. CASE Plain(name)
    <2>1. s = name \o r
      BY <1>0, <1>1, QuoteCmdArgIs
    <2>2. \A k \in 1..N : name[k] \notin {"space", "quote"}
      BY <1>0, <1>1 DEF Plain
    <2>. DEFINE ends == {k \in 1..Len(s) : s[k] = "space"}
                end == IF ends = {} THEN Len(s) + 1 ELSE Min(ends)
    <2>3. s \in Seq(Symbols) /\ Len(s) = N + Len(r) /\ (\A k \in 1..N : s[k] = name[k])
          /\ (\A k \in 1..Len(r) : s[N + k] = r[k])
      BY <1>0, <2>1
    <2>. HIDE DEF s
    <2>4. end = N + 1
      <3>1. CASE r = <<>>
        <4>1. ends = {}
          BY <1>0, <2>2, <2>3, <3>1
        <4>. QED
          BY <1>0, <2>3, <3>1, <4>1
      <3>2. CASE r # <<>>
        <4>1. r[1] = "space" /\ 1 \in 1..Len(r) /\ Len(r) \in Nat
          BY <3>2
        <4>2. N + 1 \in ends
          BY <1>0, <2>3, <4>1
        <4>3. \A k \in ends : N + 1 <= k
          BY <1>0, <2>2, <2>3
        <4>4. ends \in SUBSET Int
          OBVIOUS
        <4>. HIDE DEF ends
        <4>. QED
          BY <4>2, <4>3, <4>4, MinIs
      <3>. QED
        BY <3>1, <3>2
    <2>5. s[1] # "quote"
      BY <1>0, <2>2, <2>3
    <2>6. ProgramName(s) = [name |-> SubSeq(s, 1, end - 1), rest |-> SubSeq(s, end, Len(s))]
      BY <2>5 DEF ProgramName
    <2>. HIDE DEF end
    <2>7. SubSeq(s, 1, N) = name
      BY <1>0, <2>3
    <2>8. SubSeq(s, N + 1, Len(s)) = r
      <3>. DEFINE t == SubSeq(s, N + 1, Len(s))
      <3>1. t \in Seq(Symbols) /\ Len(t) = Len(r) /\ \A k \in 1..Len(r) : t[k] = s[N + k]
        BY <1>0, <2>3
      <3>. HIDE DEF t
      <3>2. t = r
        BY <2>3, <3>1
      <3>. QED
        BY <3>2 DEF t
    <2>. QED
      <3>1. (N + 1) - 1 = N
        BY <1>0
      <3>. QED
        BY <2>4, <2>6, <2>7, <2>8, <3>1, Zenon DEF s
  <1>2. CASE ~Plain(name)
    <2>. DEFINE w == <<"quote">> \o name \o <<"quote">>
    <2>0. \E u \in Seq(Symbols) : u = <<"quote">>
      BY SymbolsAssumption, OneSymbol
    <2>1. s = w \o r
      BY <1>2, QuotedName
    <2>2. w \in Seq(Symbols) /\ Len(w) = N + 2 /\ w[1] = "quote" /\ w[N + 2] = "quote"
          /\ \A k \in 1..N : w[k + 1] = name[k]
      BY <1>0, <2>0
    <2>. HIDE DEF w
    <2>3. s \in Seq(Symbols) /\ Len(s) = N + 2 + Len(r) /\ (\A k \in 1..(N + 2) : s[k] = w[k])
          /\ (\A k \in 1..Len(r) : s[N + 2 + k] = r[k])
      <3>1. Len(w) \in Nat /\ \A k \in 1..Len(w) : w[k] \in Symbols
        BY <2>2
      <3>2. s \in Seq(Symbols) /\ Len(s) = Len(w) + Len(r) /\ (\A k \in 1..Len(w) : s[k] = w[k])
            /\ (\A k \in 1..Len(r) : s[Len(w) + k] = r[k])
        <4>. HIDE DEF s
        <4>1. \A x, y \in Seq(Symbols) :
                /\ x \o y \in Seq(Symbols) /\ Len(x \o y) = Len(x) + Len(y)
                /\ \A k \in 1..Len(x) : (x \o y)[k] = x[k]
                /\ \A k \in 1..Len(y) : (x \o y)[Len(x) + k] = y[k]
          OBVIOUS
        <4>. QED
          BY <2>1, <2>2, <4>1, Zenon
      <3>. HIDE DEF s
      <3>. QED
        BY <2>2, <3>2
    <2>. HIDE DEF s
    <2>. DEFINE ends == {k \in 2..Len(s) : s[k] = "quote"}
                end == IF ends = {} THEN Len(s) + 1 ELSE Min(ends)
    <2>4. s[1] = "quote" /\ s[N + 2] = "quote" /\ \A k \in 2..(N + 1) : s[k] # "quote"
      <3>1. \A k \in 2..(N + 1) : k - 1 \in 1..N /\ (k - 1) + 1 = k /\ k \in 1..(N + 2)
        BY <1>0
      <3>2. \A k \in 2..(N + 1) : s[k] = name[k - 1]
        BY <2>2, <2>3, <3>1
      <3>3. 1 \in 1..(N + 2) /\ N + 2 \in 1..(N + 2)
        BY <1>0
      <3>4. \A k \in 2..(N + 1) : s[k] # "quote"
        BY <1>0, <3>1, <3>2
      <3>. QED
        BY <2>2, <2>3, <3>3, <3>4
    <2>5. end = N + 2
      <3>1. N + 2 \in ends /\ ends \in SUBSET Int /\ \A k \in ends : N + 2 <= k
        BY <1>0, <2>3, <2>4
      <3>. HIDE DEF ends
      <3>. QED
        BY <3>1, MinIs
    <2>6. ProgramName(s) = [name |-> SubSeq(s, 2, end - 1), rest |-> SubSeq(s, end + 1, Len(s))]
      BY <2>4 DEF ProgramName
    <2>. HIDE DEF end
    <2>7. SubSeq(s, 2, N + 1) = name
      <3>1. SubSeq(s, 2, N + 1) \in Seq(Symbols) /\ Len(SubSeq(s, 2, N + 1)) = N
            /\ \A k \in 1..N : SubSeq(s, 2, N + 1)[k] = s[k + 1]
        BY <1>0, <2>3
      <3>2. \A k \in 1..N : s[k + 1] = name[k]
        BY <1>0, <2>2, <2>3
      <3>. QED
        BY <1>0, <3>1, <3>2
    <2>8. SubSeq(s, N + 3, Len(s)) = r
      <3>. DEFINE t == SubSeq(s, N + 3, Len(s))
      <3>0. Len(r) \in Nat /\ \A k \in 1..Len(r) : N + 2 + k = (N + 3) + k - 1
        BY <1>0
      <3>1. t \in Seq(Symbols) /\ Len(t) = Len(r) /\ \A k \in 1..Len(r) : t[k] = s[(N + 3) + k - 1]
        BY <1>0, <2>3, <3>0
      <3>. HIDE DEF t
      <3>2. \A k \in 1..Len(r) : t[k] = r[k]
        BY <2>3, <3>0, <3>1
      <3>3. t = r
        BY <3>1, <3>2
      <3>. QED
        BY <3>3 DEF t
    <2>9. (N + 2) - 1 = N + 1 /\ (N + 2) + 1 = N + 3
      BY <1>0
    <2>. QED
      BY <2>5, <2>6, <2>7, <2>8, <2>9 DEF s
  <1>. QED
    BY <1>1, <1>2

\* CommandLineToArgvW of a line whose name is read.
LEMMA ArgvIs ==
  ASSUME NEW s, NEW name, NEW r \in Seq(Symbols), ProgramName(s) = [name |-> name, rest |-> r]
  PROVE  Argv(s) = <<name>> \o Read(ArgvStart, Append(r, "space")).done
  <1>. DEFINE text == Append(r, "space")
              N == Len(text)
              read[k \in 0..N] == IF k = 0 THEN ArgvStart ELSE ArgvChar(read[k - 1], text[k])
  <1>0. "space" \in Symbols /\ <<>> \in Seq(Symbols) /\ <<>> \in Seq(Seq(Symbols))
    BY SymbolsAssumption
  <1>1. text \in Seq(Symbols)
    BY <1>0, AppendIsConcat, Zenon
  <1>2. ArgvStart \in ReadStates
    BY <1>0 DEF ArgvStart, ReadStates
  <1>3. Argv(s) = <<name>> \o read[N].done
    <2>1. ProgramName(s).name = name /\ ProgramName(s).rest = r
      OBVIOUS
    <2>. QED
      BY <2>1 DEF Argv
  <1>. HIDE DEF text
  <1>4. \E f : f = [k \in 0..N |-> IF k = 0 THEN ArgvStart ELSE ArgvChar(f[k - 1], text[k])]
    <2>0. PICK g : LoopOf(g, ReadTurn, ReadStates, ArgvStart, text)
      BY <1>1, <1>2, ReadTurnType, LoopExists
    <2>1. /\ g \in [0..N -> ReadStates] /\ g[0] = ArgvStart
          /\ \A k \in 1..N : g[k] = ReadTurn[text[k]][g[k - 1]]
      BY <2>0 DEF LoopOf
    <2>2. ASSUME NEW k \in 0..N
          PROVE  g[k] = IF k = 0 THEN ArgvStart ELSE ArgvChar(g[k - 1], text[k])
      <3>1. CASE k = 0
        BY <2>1, <3>1, Zenon
      <3>2. CASE k # 0
        <4>1. k \in 1..N /\ k - 1 \in 0..N /\ text[k] \in Symbols
          BY <1>1, <3>2
        <4>2. g[k - 1] \in ReadStates /\ g[k] = ReadTurn[text[k]][g[k - 1]]
          BY <2>1, <4>1
        <4>3. g[k] = ArgvChar(g[k - 1], text[k])
          BY <4>1, <4>2, ReadTurnType, Zenon
        <4>. QED
          BY <3>2, <4>3, Zenon
      <3>. QED
        BY <3>1, <3>2
    <2>3. g = [k \in 0..N |-> IF k = 0 THEN ArgvStart ELSE ArgvChar(g[k - 1], text[k])]
      BY <2>1, <2>2
    <2>. QED
      BY <2>3
  <1>5. read = [k \in 0..N |-> IF k = 0 THEN ArgvStart ELSE ArgvChar(read[k - 1], text[k])]
    BY <1>4
  <1>. HIDE DEF read
  <1>6. read[0] = ArgvStart
    BY <1>1, <1>5
  <1>7. ASSUME NEW k \in 1..Len(text), read[k - 1] \in ReadStates
        PROVE  read[k] = ReadTurn[text[k]][read[k - 1]]
    <2>1. k \in 0..N /\ k # 0 /\ text[k] \in Symbols
      BY <1>1
    <2>2. read[k] = ArgvChar(read[k - 1], text[k])
      BY <1>5, <2>1
    <2>. QED
      BY <1>7, <2>1, <2>2, ReadTurnType, Zenon
  <1>8. read[Len(text)] = Read(ArgvStart, text)
    <2>1. \A k \in 1..Len(text) : read[k - 1] \in ReadStates => read[k] = ReadTurn[text[k]][read[k - 1]]
      BY <1>7
    <2>2. LoopsLike(read, ReadTurn, Symbols, ReadStates, ArgvStart, text)
      BY <1>1, <1>2, <1>6, <2>1, ReadTurnType, Zenon DEF LoopsLike
    <2>3. read[Len(text)] = Fold(ReadTurn, ArgvStart, text)
      BY <2>2, LikeLoop
    <2>. QED
      BY <2>3 DEF Read
  <1>. QED
    BY <1>3, <1>8 DEF text

\* What the target finds in its argv.
LEMMA ArgvOfLine ==
  ASSUME NEW exe \in Seq(Symbols), NEW args \in Seq(Seq(Symbols)), IsName(Lossy(exe))
  PROVE  Argv(BuildCommandLine(exe, args)) = <<Lossy(exe)>> \o LossyAll(args)
  <1>1. PICK r : Carries(exe, args, r)
    BY ArgumentsAreRead
  <1>2. /\ r \in Seq(Symbols) /\ (r = <<>> \/ r[1] = "space")
        /\ BuildCommandLine(exe, args) = QuoteCmdArg(Lossy(exe)) \o r
        /\ Read(Ready(<<>>), Append(r, "space")) = Ready(LossyAll(args))
    BY <1>1, BuildCommandLineIs DEF Carries
  <1>3. ProgramName(BuildCommandLine(exe, args)) = [name |-> Lossy(exe), rest |-> r]
    BY <1>2, NameIsRead
  <1>4. Argv(BuildCommandLine(exe, args)) = <<Lossy(exe)>> \o Read(ArgvStart, Append(r, "space")).done
    BY <1>2, <1>3, ArgvIs
  <1>5. ArgvStart = Ready(<<>>)
    BY DEF ArgvStart, Ready, Reading
  <1>6. Ready(LossyAll(args)).done = LossyAll(args)
    BY DEF Ready, Reading
  <1>. QED
    BY <1>2, <1>4, <1>5, <1>6, Zenon

\* The path of a file is a name.
LEMMA FileHasName ==
  ASSUME NEW w \in Worlds, NEW f \in w.files
  PROVE  f \in Seq(Symbols) /\ IsName(Lossy(f))
  <1>1. f \in Seq(Symbols) /\ f # <<>> /\ f[Len(f)] # "backslash" /\ \A k \in DOMAIN f : f[k] # "quote"
    BY WorldsAssumption, FilesAssumption
  <1>2. Len(f) \in DOMAIN f /\ Len(f) \in Nat /\ Len(f) > 0
    BY <1>1
  <1>3. /\ Lossy(f) \in Seq(Symbols) /\ Len(Lossy(f)) = Len(f) /\ DOMAIN Lossy(f) = DOMAIN f
        /\ \A k \in DOMAIN f : Lossy(f)[k] = IF f[k] = "surrogate" THEN "U+FFFD" ELSE f[k]
    BY <1>1, LossyType
  <1>4. Lossy(f) # <<>>
    BY <1>2, <1>3
  <1>5. \A k \in DOMAIN f : Lossy(f)[k] # "quote"
    BY <1>1, <1>3
  <1>6. Lossy(f)[Len(f)] # "backslash"
    BY <1>1, <1>2, <1>3
  <1>. QED
    BY <1>1, <1>3, <1>4, <1>5, <1>6 DEF IsName

-----------------------------------------------------------------------------
(* What is launched.                                                       *)

\* What run is about to launch, and what it launched.
LaunchInv ==
  /\ world \in Worlds /\ i \in Nat \ {0}
  /\ pc = "launch" => command.exe_args \in Seq(Seq(Symbols)) /\ command.exe_path \in Seq(Symbols)
  /\ pc # "done" => app = None /\ line = None
  /\ app # None => /\ command.exe_path \in Seq(Symbols)
                   /\ app = NormalizeExistingRunTarget(command.exe_path)
  /\ line # None => /\ app # None
                    /\ command.exe_args \in Seq(Seq(Symbols))
                    /\ line = BuildCommandLine(app, command.exe_args)

\* The tokens of a command line.
LEMMA ValuesType ==
  ASSUME world \in Worlds
  PROVE  values \in Seq(Seq(Symbols)) /\ world.files \subseteq Seq(Symbols)
  BY WorldsAssumption DEF values

\* Nothing is launched at first.
LEMMA LaunchInitially == ASSUME Init PROVE LaunchInv
  BY DEF Init, LaunchInv

\* Only Launch starts a target, and then nothing changes.
LEMMA LaunchStep == ASSUME LaunchInv, [Next]_vars PROVE LaunchInv'
  <1>. USE DEF LaunchInv
  <1>1. CASE UNCHANGED vars
    BY <1>1 DEF vars, launch, parsed, NormalizeExistingRunTarget, SearchPath
  <1>2. ASSUME UNCHANGED <<world, launch>>, pc # "done", i' \in Nat \ {0},
               pc' = "launch" => command'.exe_args \in Seq(Seq(Symbols)) /\ command'.exe_path \in Seq(Symbols)
        PROVE  LaunchInv'
    BY <1>2 DEF launch
  <1>3. ASSUME Reject, pc # "done" PROVE LaunchInv'
    BY <1>2, <1>3 DEF Reject
  <1>4. CASE Help
    BY <1>2, <1>4 DEF Help
  <1>5. CASE Subcommand
    <2>1. CASE Reject
      BY <1>3, <1>5, <2>1 DEF Subcommand
    <2>2. CASE ~Reject
      <3>1. Go(values[1][1], IF Is(values[1], {"run"}) THEN 2 ELSE 3) /\ Is(values[1], {"run", "imports", "com"})
        BY <1>5, <2>2 DEF Subcommand
      <3>2. values[1][1] # "launch"
        BY <3>1 DEF Is
      <3>. QED
        BY <1>2, <1>5, <3>1, <3>2 DEF Subcommand, Go
    <2>. QED
      BY <2>1, <2>2
  <1>6. CASE RunOption
    <2>1. CASE Reject
      BY <1>3, <1>6, <2>1 DEF RunOption
    <2>2. CASE ~Reject
      <3>1. pc = "run" /\ (Go("run", i + 1) \/ Go("run", i + 2))
        BY <1>6, <2>2 DEF RunOption
      <3>. QED
        BY <1>2, <3>1 DEF Go
    <2>. QED
      BY <2>1, <2>2
  <1>7. CASE RunTarget
    <2>1. CASE Reject
      BY <1>3, <1>7, <2>1 DEF RunTarget
    <2>2. CASE ~Reject
      <3>1. /\ pc = "run" /\ ~(i > Len(values))
            /\ Accept([kind |-> "Run", exe_path |-> values[i],
                       exe_args |-> SubSeq(values, i + 1, Len(values)), opts |-> opts], "launch")
        BY <1>7, <2>2 DEF RunTarget
      <3>2. pc' = "launch" /\ i' = i /\ UNCHANGED <<world, launch>>
            /\ command' = [kind |-> "Run", exe_path |-> values[i],
                           exe_args |-> SubSeq(values, i + 1, Len(values)), opts |-> opts]
        BY <3>1 DEF Accept
      <3>3. command'.exe_path = values[i] /\ command'.exe_args = SubSeq(values, i + 1, Len(values))
        BY <3>2
      <3>. DEFINE v == values
      <3>4. v \in Seq(Seq(Symbols))
        BY ValuesType
      <3>5. v # <<>> /\ i >= 1
        BY <3>1 DEF LaunchInv
      <3>. HIDE DEF v
      <3>6. v[i] \in Seq(Symbols) /\ SubSeq(v, i + 1, Len(v)) \in Seq(Seq(Symbols))
        BY <3>1, <3>4, <3>5 DEF v
      <3>. QED
        BY <1>2, <3>1, <3>2, <3>3, <3>6 DEF v
    <2>. QED
      BY <2>1, <2>2
  <1>8. CASE Launch
    <2>. DEFINE exe == NormalizeExistingRunTarget(command.exe_path)
    <2>1. CASE Reject
      BY <1>3, <1>8, <2>1 DEF Launch
    <2>2. CASE ~Reject
      <3>1. /\ pc = "launch" /\ exe # None
            /\ app' = exe /\ line' = BuildCommandLine(exe, command.exe_args)
            /\ pc' = "done" /\ UNCHANGED <<world, i, command>>
        BY <1>8, <2>2 DEF Launch
      <3>2. NormalizeExistingRunTarget(command.exe_path)' = exe
        BY <3>1 DEF NormalizeExistingRunTarget, SearchPath
      <3>. QED
        BY <3>1, <3>2
    <2>. QED
      BY <2>1, <2>2
  <1>9. CASE ImportsOption
    <2>1. CASE Reject
      BY <1>3, <1>9, <2>1 DEF ImportsOption
    <2>2. CASE ~Reject
      <3>1. pc = "imports" /\ (Go("imports", i + 1) \/ Go("imports", i + 2))
        BY <1>9, <2>2 DEF ImportsOption
      <3>. QED
        BY <1>2, <3>1 DEF Go
    <2>. QED
      BY <2>1, <2>2
  <1>10. CASE ImportsEnd
    BY <1>2, <1>10 DEF ImportsEnd, Accept
  <1>11. CASE ComToken
    <2>1. CASE Reject
      BY <1>3, <1>11, <2>1 DEF ComToken
    <2>2. CASE ~Reject
      <3>1. pc = "com" /\ (Go("com", i + 1) \/ Go("com", i + 2))
        BY <1>11, <2>2 DEF ComToken
      <3>. QED
        BY <1>2, <3>1 DEF Go
    <2>. QED
      BY <2>1, <2>2
  <1>12. CASE ComEnd
    <2>1. CASE Reject
      BY <1>3, <1>12, <2>1 DEF ComEnd
    <2>2. CASE ~Reject
      <3>1. pc = "com" /\ \E c : Accept(c, "done")
        BY <1>12, <2>2, Zenon DEF ComEnd
      <3>. QED
        BY <1>2, <3>1 DEF Accept
    <2>. QED
      BY <2>1, <2>2
  <1>13. CASE Done
    BY <1>1, <1>13 DEF Done
  <1>. QED
    BY <1>1, <1>4, <1>5, <1>6, <1>7, <1>8, <1>9, <1>10, <1>11, <1>12, <1>13 DEF Next

\* The file found for a target is a file, and none stands before it.
LEMMA FoundFirst ==
  ASSUME LaunchInv PROVE TargetFirstOnPath
  <1>. SUFFICES ASSUME app # None PROVE TargetFirstOnPath
    BY DEF TargetFirstOnPath
  <1>. DEFINE t == command.exe_path
              Offers(k) == {<<PathDirs[k]>> \o t} \cup
                           IF t[Len(t)] = ".exe" THEN {} ELSE {<<PathDirs[k]>> \o t \o <<".exe">>}
              names == TriedNames(t)
              Hits(k) == {n \in DOMAIN names : <<PathDirs[k]>> \o names[n] \in world.files}
              dirs == {k \in DOMAIN PathDirs : Hits(k) # {}}
  <1>1. t \in Seq(Symbols) /\ app = NormalizeExistingRunTarget(t)
    BY DEF LaunchInv
  <1>2. CASE Absolute(t) \in world.files
    BY <1>1, <1>2 DEF TargetFirstOnPath, NormalizeExistingRunTarget
  <1>3. CASE Absolute(t) \notin world.files
    <2>1. SingleComponent(t) /\ app = SearchPath(names)
      BY <1>1, <1>3 DEF NormalizeExistingRunTarget
    <2>2. dirs # {} /\ app = <<PathDirs[Min(dirs)]>> \o names[Min(Hits(Min(dirs)))]
      BY <2>1 DEF SearchPath
    <2>3. DOMAIN PathDirs = 1..Len(PathDirs) /\ Len(PathDirs) \in Nat
      BY DirsAssumption
    <2>4. Min(dirs) \in dirs /\ \A k \in dirs : Min(dirs) <= k
      <3>1. dirs \in SUBSET Nat
        BY <2>3
      <3>. HIDE DEF dirs
      <3>2. PICK m \in dirs : \A k \in dirs : m <= k
        BY <2>2, <3>1, LeastNatural
      <3>3. Min(dirs) = m
        BY <3>1, <3>2, MinIs
      <3>. QED
        BY <3>2, <3>3
    <2>. DEFINE k == Min(dirs)
    <2>5. k \in DOMAIN PathDirs /\ Hits(k) # {}
      BY <2>4
    <2>. HIDE DEF k
    <2>6. Min(Hits(k)) \in Hits(k) /\ \A n \in Hits(k) : Min(Hits(k)) <= n
      <3>1. Hits(k) \in SUBSET Nat
        BY DEF TriedNames
      <3>. DEFINE h == Hits(k)
      <3>. HIDE DEF h
      <3>2. PICK m \in h : \A n \in h : m <= n
        BY <2>5, <3>1, LeastNatural DEF h
      <3>3. Min(h) = m
        BY <3>1, <3>2, MinIs DEF h
      <3>4. Min(h) \in h /\ \A n \in h : Min(h) <= n
        BY <3>2, <3>3
      <3>. QED
        BY <3>4 DEF h
    <2>7. t[Len(t)] = ".exe" => names = <<t>>
      BY DEF TriedNames
    <2>8. t[Len(t)] # ".exe" => names = <<t, Append(t, ".exe")>>
      BY DEF TriedNames
    <2>9. \A j \in DOMAIN PathDirs : <<PathDirs[j]>> \o Append(t, ".exe") = <<PathDirs[j]>> \o t \o <<".exe">>
      <3>1. ".exe" \in Symbols
        BY SymbolsAssumption
      <3>2. \A j \in DOMAIN PathDirs : PathDirs[j] \in Symbols
        BY DirsAssumption
      <3>3. \A c, d \in Symbols : <<d>> \o Append(t, c) = <<d>> \o t \o <<c>>
        <4>. SUFFICES ASSUME NEW c \in Symbols, NEW d \in Symbols
                      PROVE  <<d>> \o Append(t, c) = <<d>> \o t \o <<c>>
          OBVIOUS
        <4>1. PICK u, w, x \in Seq(Symbols) : u = <<d>> /\ w = <<c>> /\ x = t
          BY <1>1, OneSymbol
        <4>2. u \o (x \o w) = (u \o x) \o w
          BY ConcatAssociates
        <4>3. Append(x, c) = x \o w
          BY <4>1, AppendIsConcat
        <4>. QED
          BY <4>1, <4>2, <4>3
      <3>. QED
        BY <3>1, <3>2, <3>3, Zenon
    <2>18. t[Len(t)] # ".exe" =>
             /\ DOMAIN names = {1, 2} /\ names[1] = t /\ names[2] = Append(t, ".exe")
             /\ \A j : Offers(j) = {<<PathDirs[j]>> \o t, <<PathDirs[j]>> \o t \o <<".exe">>}
      <3>1. t[Len(t)] # ".exe" => /\ DOMAIN names = {1, 2} /\ names[1] = t /\ names[2] = Append(t, ".exe")
        <4>. DEFINE w == Append(t, ".exe")
        <4>1. t[Len(t)] # ".exe" => names = <<t, w>>
          BY <2>8
        <4>. HIDE DEF w, names
        <4>2. DOMAIN <<t, w>> = {1, 2} /\ <<t, w>>[1] = t /\ <<t, w>>[2] = w
          OBVIOUS
        <4>. QED
          BY <4>1, <4>2 DEF w
      <3>. QED
        BY <3>1, Zenon
    <2>10. \A j \in DOMAIN PathDirs : \A n \in DOMAIN names : <<PathDirs[j]>> \o names[n] \in Offers(j)
      <3>1. CASE t[Len(t)] = ".exe"
        BY <2>7, <3>1
      <3>2. CASE t[Len(t)] # ".exe"
        <4>. HIDE DEF names, Offers
        <4>. QED
          BY <2>9, <2>18, <3>2
      <3>. QED
        BY <3>1, <3>2
    <2>11. \A j \in DOMAIN PathDirs : \A f \in Offers(j) : \E n \in DOMAIN names : f = <<PathDirs[j]>> \o names[n]
      <3>1. CASE t[Len(t)] = ".exe"
        BY <2>7, <3>1
      <3>2. CASE t[Len(t)] # ".exe"
        <4>. HIDE DEF names, Offers
        <4>. QED
          <5>. SUFFICES ASSUME NEW j \in DOMAIN PathDirs, NEW f \in Offers(j)
                        PROVE  \E n \in DOMAIN names : f = <<PathDirs[j]>> \o names[n]
            OBVIOUS
          <5>1. f = <<PathDirs[j]>> \o t \/ f = <<PathDirs[j]>> \o Append(t, ".exe")
            BY <2>9, <2>18, <3>2
          <5>2. 1 \in DOMAIN names /\ 2 \in DOMAIN names /\ names[1] = t /\ names[2] = Append(t, ".exe")
            BY <2>18, <3>2
          <5>. QED
            BY <5>1, <5>2, Zenon
      <3>. QED
        BY <3>1, <3>2
    <2>12. 1 \in DOMAIN names /\ names[1] = t /\ DOMAIN names \subseteq 1..2
      BY <2>7, <2>8
    <2>13. app = <<PathDirs[k]>> \o names[Min(Hits(k))] /\ app \in world.files
      BY <2>2, <2>6 DEF k
    <2>. HIDE DEF names
    <2>14. app \in Offers(k)
      BY <2>5, <2>6, <2>10, <2>13
    <2>15. <<PathDirs[k]>> \o t \in world.files => app = <<PathDirs[k]>> \o t
      <3>. SUFFICES ASSUME <<PathDirs[k]>> \o t \in world.files PROVE app = <<PathDirs[k]>> \o t
        OBVIOUS
      <3>1. 1 \in Hits(k)
        BY <2>12
      <3>2. Min(Hits(k)) = 1
        BY <2>6, <2>12, <3>1
      <3>. QED
        BY <2>12, <2>13, <3>2
    <2>16. \A j \in 1..(k - 1) : Offers(j) \cap world.files = {}
      <3>. SUFFICES ASSUME NEW j \in 1..(k - 1), NEW f \in Offers(j), f \in world.files PROVE FALSE
        OBVIOUS
      <3>1. k \in 1..Len(PathDirs)
        BY <2>3, <2>5
      <3>2. j \in DOMAIN PathDirs /\ j < k /\ k \in Nat /\ j \in Nat
        BY <2>3, <3>1
      <3>3. PICK n \in DOMAIN names : f = <<PathDirs[j]>> \o names[n]
        BY <2>11, <3>2
      <3>4. j \in dirs
        BY <3>2, <3>3
      <3>5. k <= j
        <4>. HIDE DEF dirs
        <4>. QED
          BY <2>4, <3>4 DEF k
      <3>. QED
        BY <3>2, <3>5
    <2>. HIDE DEF Offers
    <2>17. \E d \in DOMAIN PathDirs :
             /\ app \in Offers(d)
             /\ <<PathDirs[d]>> \o t \in world.files => app = <<PathDirs[d]>> \o t
             /\ \A j \in 1..(d - 1) : Offers(j) \cap world.files = {}
      BY <2>5, <2>14, <2>15, <2>16
    <2>. QED
      BY <1>3, <2>13, <2>17 DEF TargetFirstOnPath, Offers
  <1>. QED
    BY <1>2, <1>3

\* The image that is run exists, and it is the one the documented order of
\* the search gives.
THEOREM TargetFoundInOrder == Spec => []TargetFirstOnPath
  <1>1. Init => LaunchInv
    BY LaunchInitially
  <1>2. LaunchInv /\ [Next]_vars => LaunchInv'
    BY LaunchStep
  <1>3. LaunchInv => TargetFirstOnPath
    BY FoundFirst
  <1>. QED
    BY <1>1, <1>2, <1>3, PTL DEF Spec

\* The target finds in its argv the path of its image and the arguments that
\* were given to run, whatever characters they hold.
THEOREM TargetGetsItsArguments == Spec => []ArgumentsArrive
  <1>1. Init => LaunchInv
    BY LaunchInitially
  <1>2. LaunchInv /\ [Next]_vars => LaunchInv'
    BY LaunchStep
  <1>3. LaunchInv => ArgumentsArrive
    <2>. SUFFICES ASSUME LaunchInv, line # None PROVE ArgumentsArrive
      BY DEF ArgumentsArrive
    <2>1. /\ app # None /\ world \in Worlds
          /\ command.exe_args \in Seq(Seq(Symbols))
          /\ line = BuildCommandLine(app, command.exe_args)
      BY DEF LaunchInv
    <2>2. app \in world.files
      BY <2>1, FoundFirst DEF TargetFirstOnPath
    <2>3. app \in Seq(Symbols) /\ IsName(Lossy(app))
      BY <2>1, <2>2, FileHasName
    <2>4. Argv(line) = <<Lossy(app)>> \o LossyAll(command.exe_args)
      BY <2>1, <2>3, ArgvOfLine
    <2>. QED
      BY <2>4 DEF ArgumentsArrive, LossyAll
  <1>. QED
    BY <1>1, <1>2, <1>3, PTL DEF Spec

-----------------------------------------------------------------------------
(* The view of a COM command.                                              *)

\* The greatest number of a set.
LEMMA MaxIs ==
  ASSUME NEW S \in SUBSET Int, NEW m \in S, \A x \in S : x <= m
  PROVE  Max(S) = m
  <1>1. Max(S) \in S /\ \A y \in S : Max(S) >= y
    BY DEF Max
  <1>2. Max(S) \in Int /\ m \in Int /\ Max(S) >= m /\ m >= Max(S)
    BY <1>1
  <1>. HIDE DEF Max
  <1>. QED
    BY <1>2

\* The --view options up to place n, and the positionals.
ViewsUpto(n) == {p \in 3..n : Is(values[p], {"--view"})}
PositionalsUpto(n) == {p \in 3..n : ~Dashed(values[p]) /\ p - 1 \notin ViewsUpto(n)}

\* The loop of parse_com: each --view before the next token has had its
\* value, the view is the last one, and the positionals are counted.
ComLoop ==
  LET views == ViewsUpto(i - 1)
  IN  /\ i \in 3..(Len(values) + 1) /\ Is(values[1], {"com"})
      /\ positionals \in Seq(Seq(Symbols))
      /\ \A p \in views : p + 1 < i
      /\ views = {} => view = None
      /\ views # {} => view = values[Max(views) + 1][1] /\ view \in {"64", "32", "both"}
      /\ Len(positionals) = Cardinality(PositionalsUpto(i - 1))

\* What com has returned, and its loop.
ViewInv ==
  /\ world \in Worlds
  /\ pc \in {"parse_from", "run", "imports", "com"} => command = None
  /\ pc = "parse_from" => view = None /\ positionals = <<>>
  /\ pc = "com" => ComLoop
  /\ ComViewSettled

\* The positionals can be counted.
LEMMA FinitePositionals == \A n \in Int : IsFiniteSet(PositionalsUpto(n))
  <1>1. \A n \in Int : IsFiniteSet(3..n)
    BY FS_Interval
  <1>. QED
    BY <1>1, FS_Subset DEF PositionalsUpto

\* One more place, and two more.
LEMMA NextPlaces ==
  ASSUME NEW n \in Nat, n >= 3
  PROVE  /\ 3..n = (3..(n - 1)) \cup {n} /\ (n + 1) - 1 = n
         /\ 3..(n + 1) = (3..(n - 1)) \cup {n, n + 1} /\ (n + 2) - 1 = n + 1
  <1>1. 3..n = (3..(n - 1)) \cup {n}
    OBVIOUS
  <1>2. 3..(n + 1) = (3..(n - 1)) \cup {n, n + 1}
    OBVIOUS
  <1>. QED
    BY <1>1, <1>2

\* At first there is no view.
LEMMA ViewInitially == ASSUME Init PROVE ViewInv
  BY DEF Init, ViewInv, ComViewSettled

\* One token of com.
LEMMA ComTokenKeeps ==
  ASSUME ViewInv, ComToken, pc' = "com"
  PROVE  ComLoop'
  <1>. DEFINE token == values[i]
              v == ViewsUpto(i - 1)
              c == PositionalsUpto(i - 1)
              n == Len(values)
  <1>1. /\ pc = "com" /\ i <= n /\ UNCHANGED world /\ values' = values
        /\ values \in Seq(Seq(Symbols)) /\ n \in Nat
    BY ValuesType DEF ComToken, ViewInv, values, Go, Reject
  <1>2. /\ i \in Nat /\ i >= 3 /\ positionals \in Seq(Seq(Symbols))
        /\ \A p \in v : p + 1 < i
        /\ v = {} => view = None
        /\ v # {} => view = values[Max(v) + 1][1] /\ view \in {"64", "32", "both"}
        /\ Len(positionals) = Cardinality(c) /\ Is(values[1], {"com"})
    BY <1>1 DEF ViewInv, ComLoop
  <1>3. v \in SUBSET Int /\ i \notin v /\ i - 1 \notin v /\ i \notin c /\ IsFiniteSet(c)
    <2>1. IsFiniteSet(c)
      BY <1>2, FinitePositionals
    <2>. QED
      BY <1>2, <2>1 DEF ViewsUpto, PositionalsUpto
  <1>4. ASSUME NEW m, i' - 1 = m
        PROVE  ViewsUpto(i - 1)' = ViewsUpto(m) /\ PositionalsUpto(i - 1)' = PositionalsUpto(m)
    BY <1>1, <1>4 DEF ViewsUpto, PositionalsUpto
  <1>5. 3..i = (3..(i - 1)) \cup {i} /\ 3..(i + 1) = (3..(i - 1)) \cup {i, i + 1}
        /\ (i + 1) - 1 = i /\ (i + 2) - 1 = i + 1
    BY <1>2, NextPlaces
  <1>6. CASE ~Dashed(token)
    <2>1. positionals' = Append(positionals, Lossy(token)) /\ i' = i + 1 /\ view' = view
      BY <1>6 DEF ComToken, Go
    <2>2. ~Is(token, {"--view"})
      BY <1>6 DEF Is, Dashed, OptionSymbols
    <2>3. ViewsUpto(i) = v
      BY <1>5, <2>2 DEF ViewsUpto
    <2>4. PositionalsUpto(i) = c \cup {i}
      BY <1>3, <1>5, <1>6, <2>3 DEF PositionalsUpto
    <2>5. Cardinality(PositionalsUpto(i)) = Cardinality(c) + 1
      BY <1>3, <2>4, FS_AddElement
    <2>6. Lossy(token) \in Seq(Symbols)
      BY <1>1, <1>2, LossyType
    <2>7. positionals' \in Seq(Seq(Symbols)) /\ Len(positionals') = Len(positionals) + 1
      <3>. DEFINE x == Lossy(token)
      <3>1. \A y \in Seq(Symbols) : Append(positionals, y) \in Seq(Seq(Symbols))
                                    /\ Len(Append(positionals, y)) = Len(positionals) + 1
        BY <1>2
      <3>. HIDE DEF x
      <3>. QED
        BY <2>1, <2>6, <3>1, Zenon DEF x
    <2>8. ViewsUpto(i - 1)' = v /\ PositionalsUpto(i - 1)' = PositionalsUpto(i)
      <3>1. i' - 1 = i
        BY <1>2, <2>1
      <3>. QED
        BY <1>4, <2>3, <3>1, Zenon
    <2>9. i' \in 3..(n + 1) /\ \A p \in v : p + 1 < i'
      BY <1>1, <1>2, <1>3, <2>1
    <2>. HIDE DEF v, c
    <2>. QED
      BY <1>1, <1>2, <2>1, <2>5, <2>7, <2>8, <2>9 DEF ComLoop
  <1>7. CASE Dashed(token) /\ Is(token, {"--trace", "--verbose", "-v", "--summary"})
    <2>1. positionals' = positionals /\ i' = i + 1 /\ view' = view
      BY <1>7 DEF ComToken, Go
    <2>2. ~Is(token, {"--view"})
      BY <1>7 DEF Is
    <2>3. ViewsUpto(i) = v
      BY <1>5, <2>2 DEF ViewsUpto
    <2>4. PositionalsUpto(i) = c
      BY <1>5, <1>7, <2>3 DEF PositionalsUpto
    <2>8. ViewsUpto(i - 1)' = v /\ PositionalsUpto(i - 1)' = c
      <3>1. i' - 1 = i
        BY <1>2, <2>1
      <3>. QED
        BY <1>4, <2>3, <2>4, <3>1, Zenon
    <2>9. i' \in 3..(n + 1) /\ \A p \in v : p + 1 < i'
      BY <1>1, <1>2, <1>3, <2>1
    <2>. HIDE DEF v, c
    <2>. QED
      BY <1>1, <1>2, <2>1, <2>8, <2>9 DEF ComLoop
  <1>8. CASE Dashed(token) /\ Is(token, {"--view"}) /\ i < n /\ Is(values[i + 1], {"64", "32", "both"})
    <2>1. positionals' = positionals /\ i' = i + 2 /\ view' = values[i + 1][1]
      BY <1>8 DEF ComToken, Go, Is
    <2>2. ~Is(values[i + 1], {"--view"}) /\ view' \in {"64", "32", "both"}
      BY <1>8, <2>1 DEF Is
    <2>3. ViewsUpto(i + 1) = v \cup {i}
      BY <1>5, <1>8, <2>2 DEF ViewsUpto
    <2>4. PositionalsUpto(i + 1) = c
      <3>1. \A p \in 3..(i - 1) : (p - 1 \notin v \cup {i}) <=> (p - 1 \notin v)
        BY <1>2
      <3>2. i \notin PositionalsUpto(i + 1) /\ i + 1 \notin PositionalsUpto(i + 1)
        BY <1>2, <1>8, <2>3 DEF PositionalsUpto
      <3>3. \A p \in 3..(i - 1) : p \in PositionalsUpto(i + 1) <=> p \in c
        BY <1>2, <2>3, <3>1 DEF PositionalsUpto
      <3>4. PositionalsUpto(i + 1) \subseteq 3..(i + 1) /\ c \subseteq 3..(i - 1)
        BY DEF PositionalsUpto
      <3>. QED
        BY <1>5, <3>2, <3>3, <3>4
    <2>5. Max(v \cup {i}) = i
      <3>1. v \cup {i} \in SUBSET Int /\ i \in v \cup {i} /\ \A p \in v \cup {i} : p <= i
        BY <1>2, <1>3
      <3>. DEFINE S == v \cup {i}
      <3>. HIDE DEF S
      <3>. QED
        BY <3>1, MaxIs DEF S
    <2>8. ViewsUpto(i - 1)' = v \cup {i} /\ PositionalsUpto(i - 1)' = c
      <3>1. i' - 1 = i + 1
        BY <1>2, <2>1
      <3>. QED
        BY <1>4, <2>3, <2>4, <3>1, Zenon
    <2>9. i' \in 3..(n + 1) /\ \A p \in v \cup {i} : p + 1 < i'
      BY <1>1, <1>2, <1>3, <1>8, <2>1
    <2>. HIDE DEF v, c
    <2>. DEFINE w == v \cup {i}
    <2>10. w # {} /\ view' = values'[Max(w) + 1][1]
      BY <1>1, <2>1, <2>5
    <2>. HIDE DEF w
    <2>. QED
      BY <1>1, <1>2, <2>1, <2>2, <2>8, <2>9, <2>10 DEF ComLoop, w
  <1>9. ~Reject
    BY <1>1 DEF Reject
  <1>. QED
    BY <1>6, <1>7, <1>8, <1>9 DEF ComToken

\* What parse_com returns is settled.
LEMMA ComEndSettles ==
  ASSUME ViewInv, ComEnd
  PROVE  ComViewSettled'
  <1>1. pc = "com" /\ i > Len(values) /\ world' = world /\ values' = values
        /\ values \in Seq(Seq(Symbols)) /\ Len(values) \in Nat
    BY ValuesType DEF ComEnd, ViewInv, values, Accept, Reject
  <1>2. ComLoop /\ command = None
    BY <1>1 DEF ViewInv
  <1>3. i - 1 = Len(values)
    BY <1>1, <1>2 DEF ComLoop
  <1>4. CASE Reject
    BY <1>2, <1>4 DEF Reject, ComViewSettled
  <1>5. CASE ~Reject
    <2>. DEFINE views == {p \in 3..Len(values) : Is(values[p], {"--view"})}
                count == Cardinality({p \in 3..Len(values) : ~Dashed(values[p]) /\ p - 1 \notin views})
                sub == IF Is(values[2], {"clsid", "progid", "server", "audit"}) THEN values[2][1] ELSE "?"
                v == IF sub \in {"clsid", "progid"} THEN LookupView
                     ELSE IF sub = "server" /\ view = None THEN "both" ELSE view
    <2>1. command' = Com(sub, v)
          /\ (\/ sub \in {"clsid", "progid"} /\ LookupView # None
              \/ sub = "server"
              \/ sub = "audit" /\ view = None)
      BY <1>5 DEF ComEnd, Accept
    <2>2. /\ views = {} => view = None
          /\ views # {} => view = values[Max(views) + 1][1] /\ view \in {"64", "32", "both"}
          /\ Len(positionals) = count
      BY <1>2, <1>3 DEF ComLoop, ViewsUpto, PositionalsUpto
    <2>3. /\ command'.sub = sub /\ command'.view = v /\ command'.query = positionals
      BY <2>1 DEF Com
    <2>4. view # None => view \in {"64", "32", "both"}
      BY <2>2
    <2>. HIDE DEF sub, count
    <2>5. sub \in {"clsid", "progid"} => v \in {"64", "32"}
      BY <2>1, <2>4 DEF LookupView
    <2>6. sub = "server" => v \in {"64", "32", "both"}
      BY <2>4
    <2>7. sub = "audit" => v = None /\ views = {}
      BY <2>1, <2>2, NoneAssumption
    <2>8. views # {} => v = view
      <3>1. view # None => view \in {"64", "32", "both"}
        BY <2>4
      <3>2. views # {} => view \in {"64", "32", "both"} /\ view # None
        BY <2>2, NoneAssumption
      <3>. QED
        BY <2>1, <3>2 DEF LookupView
    <2>9. views = {} => \A p \in 3..Len(values) : ~Is(values[p], {"--view"})
      OBVIOUS
    <2>10. ~Is(values[1], {"--view"})
      BY <1>2 DEF ComLoop, Is
    <2>11. sub = "audit" => ~Is(values[2], {"--view"})
      BY DEF sub, Is
    <2>12. sub = "audit" => \A p \in DOMAIN values : ~Is(values[p], {"--view"})
      <3>1. \A p \in DOMAIN values : p = 1 \/ p = 2 \/ p \in 3..Len(values)
        BY <1>1
      <3>. QED
        BY <2>7, <2>10, <2>11, <3>1
    <2>. HIDE DEF v
    <2>13. /\ command'.sub \in {"clsid", "progid"} => command'.view \in {"64", "32"}
           /\ command'.sub = "server" => command'.view \in {"64", "32", "both"}
           /\ command'.sub = "audit" =>
                command'.view = None /\ \A p \in DOMAIN values : ~Is(values[p], {"--view"})
      BY <2>3, <2>5, <2>6, <2>7, <2>12
    <2>14. /\ views # {} => command'.view = values[Max(views) + 1][1]
           /\ Len(command'.query) = count
      BY <2>2, <2>3, <2>8
    <2>. QED
      BY <1>1, <2>13, <2>14, Zenon DEF ComViewSettled, count
  <1>. QED
    BY <1>4, <1>5

\* Every step keeps it.
LEMMA ViewStep == ASSUME ViewInv, [Next]_vars PROVE ViewInv'
  <1>0. world \in Worlds /\ values \in Seq(Seq(Symbols)) /\ Len(values) \in Nat
    BY ValuesType DEF ViewInv
  \* A step of no interest: nothing is returned, or something that is no Com.
  <1>1. ASSUME world' = world, pc' \notin {"parse_from", "com"},
               \/ UNCHANGED command /\ (pc' \in {"run", "imports"} => pc \in {"parse_from", "run", "imports"})
               \/ command'.kind # "Com" /\ pc' \notin {"run", "imports"}
        PROVE  ViewInv'
    <2>1. ComViewSettled'
      <3>1. CASE UNCHANGED command
        BY <1>1, <3>1 DEF ViewInv, ComViewSettled, values
      <3>2. CASE command'.kind # "Com"
        BY <3>2 DEF ComViewSettled
      <3>. QED
        BY <1>1, <3>1, <3>2
    <2>2. pc' \in {"run", "imports"} => command' = None
      BY <1>1 DEF ViewInv
    <2>. QED
      BY <1>0, <1>1, <2>1, <2>2 DEF ViewInv
  <1>2. CASE UNCHANGED vars
    BY <1>2 DEF vars, parsed, ViewInv, ComViewSettled, ComLoop, ViewsUpto, PositionalsUpto, values
  <1>3. CASE Reject
    BY <1>1, <1>3 DEF Reject
  <1>4. CASE Help
    <2>1. command' = [kind |-> "Help"] /\ pc' = "done" /\ world' = world
      BY <1>4 DEF Help
    <2>2. command'.kind = "Help"
      BY <2>1
    <2>. QED
      BY <1>1, <2>1, <2>2
  <1>5. CASE Subcommand /\ ~Reject
    <2>1. /\ pc = "parse_from" /\ Len(values) # 1 /\ values # <<>> /\ Is(values[1], {"run", "imports", "com"})
          /\ pc' = values[1][1] /\ i' = (IF Is(values[1], {"run"}) THEN 2 ELSE 3)
          /\ UNCHANGED <<world, command>> /\ UNCHANGED <<view, positionals>>
      BY <1>5 DEF Subcommand, Go, parsed
    <2>2. CASE Is(values[1], {"com"})
      <3>1. pc' = "com" /\ i' = 3
        BY <2>1, <2>2 DEF Is
      <3>2. view = None /\ positionals = <<>> /\ command = None /\ ComViewSettled
        BY <2>1 DEF ViewInv
      <3>3. values' = values /\ 3 \in 3..(Len(values) + 1)
        <4>1. values' = values
          BY <2>1 DEF values
        <4>. DEFINE v == values
        <4>2. v \in Seq(Seq(Symbols)) /\ v # <<>> /\ Len(v) # 1
          BY <1>0, <2>1
        <4>. HIDE DEF v
        <4>3. 3 \in 3..(Len(v) + 1)
          <5>1. Len(v) \in Nat /\ (Len(v) = 0 => v = <<>>)
            BY <4>2
          <5>2. Len(v) # 0 /\ Len(v) # 1
            BY <4>2, <5>1
          <5>3. \A n \in Nat : (n # 0 /\ n # 1) => 3 \in 3..(n + 1)
            OBVIOUS
          <5>. QED
            BY <5>1, <5>2, <5>3, Zenon
        <4>. QED
          BY <4>1, <4>3 DEF v
      <3>4. ViewsUpto(i - 1)' = {} /\ PositionalsUpto(i - 1)' = {}
        BY <3>1 DEF ViewsUpto, PositionalsUpto
      <3>5. Len(<<>>) = Cardinality({}) /\ <<>> \in Seq(Seq(Symbols))
        BY FS_EmptySet
      <3>6. ComLoop'
        BY <2>1, <2>2, <3>1, <3>2, <3>3, <3>4, <3>5 DEF ComLoop
      <3>7. ComViewSettled'
        BY <2>1, <3>2 DEF ComViewSettled
      <3>. QED
        BY <1>0, <2>1, <3>1, <3>2, <3>6, <3>7 DEF ViewInv
    <2>3. CASE ~Is(values[1], {"com"})
      <3>1. pc' \in {"run", "imports"}
        BY <2>1, <2>3 DEF Is
      <3>. QED
        BY <1>1, <2>1, <3>1
    <2>. QED
      BY <2>2, <2>3
  <1>6. CASE RunOption /\ ~Reject
    <2>1. pc = "run" /\ (Go("run", i + 1) \/ Go("run", i + 2))
      BY <1>6 DEF RunOption
    <2>. QED
      BY <1>1, <2>1 DEF Go
  <1>7. CASE RunTarget /\ ~Reject
    <2>1. pc = "run" /\ \E e, a : Accept([kind |-> "Run", exe_path |-> e, exe_args |-> a, opts |-> opts], "launch")
      BY <1>7, Zenon DEF RunTarget
    <2>2. PICK e, a : Accept([kind |-> "Run", exe_path |-> e, exe_args |-> a, opts |-> opts], "launch")
      BY <2>1
    <2>. QED
      BY <1>1, <2>2 DEF Accept
  <1>8. CASE Launch /\ ~Reject
    BY <1>1, <1>8 DEF Launch
  <1>9. CASE ImportsOption /\ ~Reject
    <2>1. pc = "imports" /\ (Go("imports", i + 1) \/ Go("imports", i + 2))
      BY <1>9 DEF ImportsOption
    <2>. QED
      BY <1>1, <2>1 DEF Go
  <1>10. CASE ImportsEnd
    <2>1. PICK m, c : Accept([kind |-> "Imports", module_path |-> m, cwd |-> c], "done")
      BY <1>10 DEF ImportsEnd
    <2>. QED
      BY <1>1, <2>1 DEF Accept
  <1>11. CASE ComToken /\ ~Reject
    <2>1. pc = "com" /\ pc' = "com" /\ UNCHANGED <<world, command>>
      BY <1>11 DEF ComToken, Go
    <2>2. ComLoop'
      BY <1>11, <2>1, ComTokenKeeps
    <2>3. ComViewSettled' /\ command' = None
      BY <2>1 DEF ViewInv, ComViewSettled
    <2>. QED
      BY <1>0, <2>1, <2>2, <2>3 DEF ViewInv
  <1>12. CASE ComEnd /\ ~Reject
    <2>1. pc' = "done" /\ world' = world
      BY <1>12 DEF ComEnd, Accept
    <2>2. ComViewSettled'
      BY <1>12, ComEndSettles
    <2>. QED
      BY <1>0, <2>1, <2>2 DEF ViewInv
  <1>13. CASE Done
    BY <1>2, <1>13 DEF Done
  <1>. QED
    BY <1>2, <1>3, <1>4, <1>5, <1>6, <1>7, <1>8, <1>9, <1>10, <1>11, <1>12, <1>13 DEF Next

\* The view of a COM command that is let through is the one asked for, it is
\* one the command can use, and no positional is an option or its value.
THEOREM ViewIsSettled == Spec => []ComViewSettled
  <1>1. Init => ViewInv
    BY ViewInitially
  <1>2. ViewInv /\ [Next]_vars => ViewInv'
    BY ViewStep
  <1>3. ViewInv => ComViewSettled
    BY DEF ViewInv
  <1>. QED
    BY <1>1, <1>2, <1>3, PTL DEF Spec

-----------------------------------------------------------------------------
(* Options are read as documented: the places where options stand.         *)

\* A set can be defined place by place, each by the places before it.
LEMMA SetByRecursion ==
  ASSUME NEW N \in Nat, NEW R,
         \A p \in 1..N : \A X \in SUBSET Int : <<p, X>> \in R <=> <<p, X \cap (1..(p - 1))>> \in R
  PROVE  \E P \in SUBSET (1..N) : \A p \in 1..N : p \in P <=> <<p, P>> \in R
  <1>. DEFINE Fits(P, n) == P \in SUBSET (1..n) /\ \A p \in 1..n : p \in P <=> <<p, P>> \in R
              T == {n \in Nat : n <= N => \E P : Fits(P, n)}
  <1>1. 0 \in T
    <2>1. Fits({}, 0)
      OBVIOUS
    <2>. QED
      BY <2>1
  <1>2. ASSUME NEW n \in Nat, n \in T PROVE n + 1 \in T
    <2>. SUFFICES ASSUME n + 1 <= N PROVE \E P : Fits(P, n + 1)
      OBVIOUS
    <2>1. PICK P : Fits(P, n)
      BY <1>2
    <2>. DEFINE Q == IF <<n + 1, P>> \in R THEN P \cup {n + 1} ELSE P
    <2>2. Q \in SUBSET (1..(n + 1)) /\ P \in SUBSET (1..n)
      BY <2>1
    <2>3. \A p \in 1..n : p \in Q <=> p \in P
      BY <2>1
    <2>4. n + 1 \in Q <=> <<n + 1, P>> \in R
      BY <2>2
    <2>. HIDE DEF Q
    <2>5. ASSUME NEW p \in 1..(n + 1) PROVE <<p, Q>> \in R <=> <<p, P>> \in R
      <3>1. Q \cap (1..(p - 1)) = P \cap (1..(p - 1))
        BY <2>2, <2>3
      <3>2. Q \in SUBSET Int /\ P \in SUBSET Int /\ p \in 1..N
        BY <2>2
      <3>. QED
        BY <3>1, <3>2
    <2>6. \A p \in 1..(n + 1) : p \in Q <=> <<p, Q>> \in R
      <3>. SUFFICES ASSUME NEW p \in 1..(n + 1) PROVE p \in Q <=> <<p, Q>> \in R
        OBVIOUS
      <3>1. CASE p = n + 1
        BY <2>4, <2>5, <3>1
      <3>2. CASE p \in 1..n
        BY <2>1, <2>3, <2>5, <3>2
      <3>. QED
        BY <3>1, <3>2
    <2>7. Fits(Q, n + 1)
      BY <2>2, <2>6
    <2>. QED
      BY <2>7
  <1>3. N \in T
    <2>. HIDE DEF T
    <2>. QED
      BY <1>1, <1>2, NatSetInduction
  <1>. QED
    BY <1>3

\* The places of OptionPlaces and the one after the last token.
Places(v) ==
  LET at[p \in 1..(Len(v) + 1)] ==
        \/ p = 2
        \/ p > 2 /\ at[p - 1] /\ Is(v[p - 1], RunFlags)
        \/ p > 3 /\ at[p - 2] /\ Is(v[p - 2], ValueOptions)
  IN  {p \in 1..(Len(v) + 1) : at[p]}

\* A place is the first one, or one after a flag or an option and its value.
IsPlace(v, P, p) ==
  \/ p = 2
  \/ p > 2 /\ p - 1 \in P /\ Is(v[p - 1], RunFlags)
  \/ p > 3 /\ p - 2 \in P /\ Is(v[p - 2], ValueOptions)

LEMMA PlacesAre ==
  ASSUME NEW v \in Seq(Seq(Symbols))
  PROVE  /\ Places(v) \in SUBSET (1..(Len(v) + 1))
         /\ \A p \in 1..(Len(v) + 1) : p \in Places(v) <=> IsPlace(v, Places(v), p)
         /\ OptionPlaces(v) = Places(v) \cap (2..Len(v))
  <1>. DEFINE N == Len(v) + 1
              at[p \in 1..N] ==
                \/ p = 2
                \/ p > 2 /\ at[p - 1] /\ Is(v[p - 1], RunFlags)
                \/ p > 3 /\ at[p - 2] /\ Is(v[p - 2], ValueOptions)
              R == {x \in (1..N) \X SUBSET Int : IsPlace(v, x[2], x[1])}
  <1>0. N \in Nat
    OBVIOUS
  <1>1. \A p \in 1..N : \A X \in SUBSET Int : <<p, X>> \in R <=> IsPlace(v, X, p)
    OBVIOUS
  <1>2. \A p \in 1..N : \A X \in SUBSET Int : IsPlace(v, X, p) <=> IsPlace(v, X \cap (1..(p - 1)), p)
    BY <1>0 DEF IsPlace
  <1>. HIDE DEF N, R
  <1>3. PICK P \in SUBSET (1..N) : \A p \in 1..N : p \in P <=> <<p, P>> \in R
    <2>1. \A p \in 1..N : \A X \in SUBSET Int : <<p, X>> \in R <=> <<p, X \cap (1..(p - 1))>> \in R
      BY <1>0, <1>1, <1>2
    <2>. QED
      BY <1>0, <2>1, SetByRecursion
  <1>4. \A p \in 1..N : p \in P <=> IsPlace(v, P, p)
    <2>1. P \in SUBSET Int
      BY <1>0
    <2>. QED
      BY <1>1, <1>3, <2>1
  <1>5. \E f : f = [p \in 1..N |-> \/ p = 2
                                   \/ p > 2 /\ f[p - 1] /\ Is(v[p - 1], RunFlags)
                                   \/ p > 3 /\ f[p - 2] /\ Is(v[p - 2], ValueOptions)]
    <2>. DEFINE f == [p \in 1..N |-> p \in P]
    <2>1. ASSUME NEW p \in 1..N
          PROVE  (p \in P) = (\/ p = 2
                              \/ p > 2 /\ f[p - 1] /\ Is(v[p - 1], RunFlags)
                              \/ p > 3 /\ f[p - 2] /\ Is(v[p - 2], ValueOptions))
      <3>1. p > 2 => p - 1 \in 1..N /\ f[p - 1] = (p - 1 \in P)
        BY <1>0
      <3>2. p > 3 => p - 2 \in 1..N /\ f[p - 2] = (p - 2 \in P)
        BY <1>0
      <3>. DEFINE A == p = 2
                  B == p > 2 /\ f[p - 1] /\ Is(v[p - 1], RunFlags)
                  C == p > 3 /\ f[p - 2] /\ Is(v[p - 2], ValueOptions)
      <3>3. p \in P <=> A \/ B \/ C
        BY <1>4, <3>1, <3>2 DEF IsPlace
      <3>. HIDE DEF A, B, C
      <3>4. (p \in P) = (A \/ B \/ C)
        BY <3>3, SMT
      <3>. QED
        BY <3>4 DEF A, B, C
    <2>2. f = [p \in 1..N |-> \/ p = 2
                              \/ p > 2 /\ f[p - 1] /\ Is(v[p - 1], RunFlags)
                              \/ p > 3 /\ f[p - 2] /\ Is(v[p - 2], ValueOptions)]
      BY <2>1
    <2>. QED
      BY <2>2
  <1>6. at = [p \in 1..N |-> \/ p = 2
                             \/ p > 2 /\ at[p - 1] /\ Is(v[p - 1], RunFlags)
                             \/ p > 3 /\ at[p - 2] /\ Is(v[p - 2], ValueOptions)]
    BY <1>5
  <1>7. Places(v) = {p \in 1..N : at[p]}
    BY DEF Places, N
  <1>8. OptionPlaces(v) = {p \in 2..Len(v) : at[p]}
    BY DEF OptionPlaces, N
  <1>. HIDE DEF at
  <1>9. \A p \in 1..N : at[p] <=> \/ p = 2
                                  \/ p > 2 /\ at[p - 1] /\ Is(v[p - 1], RunFlags)
                                  \/ p > 3 /\ at[p - 2] /\ Is(v[p - 2], ValueOptions)
    BY <1>6
  <1>10. \A p \in 1..N : p > 2 => (p - 1 \in Places(v) <=> at[p - 1])
    BY <1>0, <1>7
  <1>11. \A p \in 1..N : p > 3 => (p - 2 \in Places(v) <=> at[p - 2])
    BY <1>0, <1>7
  <1>12. \A p \in 1..N : p \in Places(v) <=> IsPlace(v, Places(v), p)
    BY <1>7, <1>9, <1>10, <1>11 DEF IsPlace
  <1>13. OptionPlaces(v) = Places(v) \cap (2..Len(v))
    BY <1>7, <1>8 DEF N
  <1>. QED
    BY <1>7, <1>12, <1>13 DEF N

\* What the options at the places S amount to.
OptionsOf(v, S) ==
  LET timeout == LastValue(v, S, {"--timeout", "--timeout-ms"}, None)
  IN  [cwd |-> LastValue(v, S, {"--cwd"}, None),
       timeout_ms |-> IF timeout = None THEN 30000 ELSE ParseU32[Lossy(timeout)],
       loader_snaps |-> LastWins(v, S, {"--loader-snaps"}, {"--no-loader-snaps"}, TRUE),
       trace |-> LastWins(v, S, {"--trace", "-v", "--verbose"}, {"--summary"}, FALSE),
       verbose |-> LastWins(v, S, {"-v", "--verbose"}, {"--quiet"}, FALSE)]

\* T is S and one place behind all of S.
OneMore(S, q, T) ==
  S \in SUBSET Int /\ q \in Int /\ (\A p \in S : p < q) /\ T = S \cup {q}

Deciding(v, S, names) == {p \in S : Is(v[p], names)}

\* An option after all others decides what it is about and nothing else.
LEMMA LastDecides ==
  ASSUME NEW v, NEW S, NEW q, NEW T, OneMore(S, q, T), NEW names
  PROVE  /\ Is(v[q], names) => Deciding(v, T, names) # {} /\ Max(Deciding(v, T, names)) = q
         /\ ~Is(v[q], names) => Deciding(v, T, names) = Deciding(v, S, names)
  <1>. DEFINE D == Deciding(v, T, names)
  <1>1. D \in SUBSET Int /\ \A p \in D : p <= q
    <2>1. D \subseteq T
      BY DEF Deciding
    <2>. HIDE DEF D
    <2>. QED
      BY <2>1 DEF OneMore
  <1>2. Is(v[q], names) => q \in D
    BY DEF Deciding, OneMore
  <1>3. ~Is(v[q], names) => D = Deciding(v, S, names)
    BY DEF Deciding, OneMore
  <1>. HIDE DEF D
  <1>4. Is(v[q], names) => D # {} /\ Max(D) = q
    BY <1>1, <1>2, MaxIs
  <1>. QED
    BY <1>3, <1>4 DEF D

\* So the value of an option is its own, and that of the others is kept;
ValueIs(v, S, q, T, names, default) ==
  /\ Is(v[q], names) => LastValue(v, T, names, default) = v[q + 1]
  /\ ~Is(v[q], names) => LastValue(v, T, names, default) = LastValue(v, S, names, default)

LEMMA LastValueIs ==
  ASSUME NEW v, NEW S, NEW q, NEW T, OneMore(S, q, T), NEW names, NEW default
  PROVE  ValueIs(v, S, q, T, names, default)
  <1>. DEFINE D == Deciding(v, T, names)
              E == Deciding(v, S, names)
  <1>1. /\ Is(v[q], names) => D # {} /\ Max(D) = q
        /\ ~Is(v[q], names) => D = E
    BY LastDecides
  <1>2. /\ LastValue(v, T, names, default) = IF D = {} THEN default ELSE v[Max(D) + 1]
        /\ LastValue(v, S, names, default) = IF E = {} THEN default ELSE v[Max(E) + 1]
    BY DEF LastValue, Deciding
  <1>. HIDE DEF D, E
  <1>. QED
    BY <1>1, <1>2 DEF ValueIs

\* and so is what it switches.
SwitchIs(v, S, q, T, on, off, default) ==
  /\ Is(v[q], on) => LastWins(v, T, on, off, default) = TRUE
  /\ Is(v[q], off) /\ ~Is(v[q], on) => LastWins(v, T, on, off, default) = FALSE
  /\ ~Is(v[q], on) /\ ~Is(v[q], off) =>
       LastWins(v, T, on, off, default) = LastWins(v, S, on, off, default)

LEMMA LastWinsIs ==
  ASSUME NEW v, NEW S, NEW q, NEW T, OneMore(S, q, T), NEW on, NEW off, NEW default
  PROVE  SwitchIs(v, S, q, T, on, off, default)
  <1>. DEFINE D == Deciding(v, T, on \cup off)
              E == Deciding(v, S, on \cup off)
              m == Max(D)
  <1>1. /\ Is(v[q], on \cup off) => D # {} /\ m = q
        /\ ~Is(v[q], on \cup off) => D = E
    <2>. DEFINE both == on \cup off
    <2>. HIDE DEF both
    <2>1. /\ Is(v[q], both) => Deciding(v, T, both) # {} /\ Max(Deciding(v, T, both)) = q
          /\ ~Is(v[q], both) => Deciding(v, T, both) = Deciding(v, S, both)
      BY LastDecides
    <2>. QED
      BY <2>1 DEF both
  <1>2. Is(v[q], on \cup off) <=> Is(v[q], on) \/ Is(v[q], off)
    BY DEF Is
  <1>3. CASE ~Is(v[q], on \cup off)
    <2>1. D = E
      BY <1>1, <1>3
    <2>2. {p \in T : Is(v[p], on \cup off)} = {p \in S : Is(v[p], on \cup off)}
      BY <2>1 DEF D, E, Deciding
    <2>3. LastWins(v, T, on, off, default) = LastWins(v, S, on, off, default)
      BY <2>2, Zenon DEF LastWins
    <2>. QED
      BY <1>2, <1>3, <2>3 DEF SwitchIs
  <1>4. CASE Is(v[q], on \cup off)
    <2>1. D # {} /\ m = q
      BY <1>1, <1>4
    <2>2. LastWins(v, T, on, off, default) = IF D = {} THEN default ELSE Is(v[m], on)
      BY Zenon DEF LastWins, Deciding
    <2>. HIDE DEF D, m
    <2>. DEFINE x == Is(v[m], on)
    <2>3. x <=> Is(v[q], on)
      BY <2>1
    <2>4. x \in BOOLEAN
      BY DEF Is
    <2>5. LastWins(v, T, on, off, default) = x
      BY <2>1, <2>2, Zenon
    <2>. HIDE DEF x
    <2>. QED
      BY <1>2, <1>4, <2>3, <2>4, <2>5 DEF SwitchIs
  <1>. QED
    BY <1>3, <1>4

\* One option more: a flag,
LEMMA FlagAdded ==
  ASSUME NEW v, NEW S, NEW q, NEW T, OneMore(S, q, T), Is(v[q], RunFlags)
  PROVE  OptionsOf(v, T) = AfterFlag(OptionsOf(v, S), v[q][1])
  <1>. DEFINE f == v[q][1]
              o == OptionsOf(v, S)
              n == OptionsOf(v, T)
  <1>1. f \in RunFlags /\ \A names : Is(v[q], names) <=> f \in names
    BY DEF Is
  <1>. HIDE DEF f
  <1>2. n.cwd = o.cwd
    <2>. DEFINE names == {"--cwd"}
    <2>1. ~Is(v[q], names)
      BY <1>1 DEF RunFlags
    <2>2. n.cwd = LastValue(v, T, names, None) /\ o.cwd = LastValue(v, S, names, None)
      BY DEF OptionsOf
    <2>. HIDE DEF names, n, o
    <2>. QED
      <3>1. ValueIs(v, S, q, T, names, None)
        BY LastValueIs
      <3>. QED
        BY <2>1, <2>2, <3>1 DEF ValueIs
  <1>3. n.timeout_ms = o.timeout_ms
    <2>. DEFINE names == {"--timeout", "--timeout-ms"}
    <2>1. ~Is(v[q], names)
      BY <1>1 DEF RunFlags
    <2>. DEFINE w == LastValue(v, T, names, None)
                u == LastValue(v, S, names, None)
    <2>2. /\ n.timeout_ms = IF w = None THEN 30000 ELSE ParseU32[Lossy(w)]
          /\ o.timeout_ms = IF u = None THEN 30000 ELSE ParseU32[Lossy(u)]
      BY DEF OptionsOf
    <2>. HIDE DEF names, n, o
    <2>3. w = u
      <3>1. ValueIs(v, S, q, T, names, None)
        BY LastValueIs
      <3>. QED
        BY <2>1, <3>1 DEF ValueIs
    <2>. HIDE DEF w, u
    <2>. QED
      BY <2>2, <2>3
  <1>4. n.loader_snaps = IF f = "--loader-snaps" THEN TRUE
                         ELSE IF f = "--no-loader-snaps" THEN FALSE ELSE o.loader_snaps
    <2>. DEFINE on == {"--loader-snaps"}
                off == {"--no-loader-snaps"}
                d == TRUE
                w == LastWins(v, T, on, off, d)
                u == LastWins(v, S, on, off, d)
    <2>1. /\ Is(v[q], on) <=> f \in {"--loader-snaps"}
          /\ Is(v[q], off) <=> f \in {"--no-loader-snaps"}
      BY <1>1
    <2>2. n.loader_snaps = w /\ o.loader_snaps = u
      BY DEF OptionsOf
    <2>. HIDE DEF on, off, d, n, o
    <2>3. /\ Is(v[q], on) => w = TRUE
          /\ Is(v[q], off) /\ ~Is(v[q], on) => w = FALSE
          /\ ~Is(v[q], on) /\ ~Is(v[q], off) => w = u
      <3>1. SwitchIs(v, S, q, T, on, off, d)
        BY LastWinsIs
      <3>. QED
        BY <3>1 DEF SwitchIs
    <2>. HIDE DEF w, u
    <2>. QED
      BY <2>1, <2>2, <2>3
  <1>5. n.trace = IF f \in {"--verbose", "-v", "--trace"} THEN TRUE
                  ELSE IF f = "--summary" THEN FALSE ELSE o.trace
    <2>. DEFINE on == {"--trace", "-v", "--verbose"}
                off == {"--summary"}
                d == FALSE
                w == LastWins(v, T, on, off, d)
                u == LastWins(v, S, on, off, d)
    <2>1. /\ Is(v[q], on) <=> f \in {"--trace", "-v", "--verbose"}
          /\ Is(v[q], off) <=> f \in {"--summary"}
      BY <1>1
    <2>2. n.trace = w /\ o.trace = u
      BY DEF OptionsOf
    <2>. HIDE DEF on, off, d, n, o
    <2>3. /\ Is(v[q], on) => w = TRUE
          /\ Is(v[q], off) /\ ~Is(v[q], on) => w = FALSE
          /\ ~Is(v[q], on) /\ ~Is(v[q], off) => w = u
      <3>1. SwitchIs(v, S, q, T, on, off, d)
        BY LastWinsIs
      <3>. QED
        BY <3>1 DEF SwitchIs
    <2>. HIDE DEF w, u
    <2>. QED
      BY <2>1, <2>2, <2>3
  <1>6. n.verbose = IF f \in {"--verbose", "-v"} THEN TRUE
                    ELSE IF f = "--quiet" THEN FALSE ELSE o.verbose
    <2>. DEFINE on == {"-v", "--verbose"}
                off == {"--quiet"}
                d == FALSE
                w == LastWins(v, T, on, off, d)
                u == LastWins(v, S, on, off, d)
    <2>1. /\ Is(v[q], on) <=> f \in {"-v", "--verbose"}
          /\ Is(v[q], off) <=> f \in {"--quiet"}
      BY <1>1
    <2>2. n.verbose = w /\ o.verbose = u
      BY DEF OptionsOf
    <2>. HIDE DEF on, off, d, n, o
    <2>3. /\ Is(v[q], on) => w = TRUE
          /\ Is(v[q], off) /\ ~Is(v[q], on) => w = FALSE
          /\ ~Is(v[q], on) /\ ~Is(v[q], off) => w = u
      <3>1. SwitchIs(v, S, q, T, on, off, d)
        BY LastWinsIs
      <3>. QED
        BY <3>1 DEF SwitchIs
    <2>. HIDE DEF w, u
    <2>. QED
      BY <2>1, <2>2, <2>3
  <1>7. /\ n = [cwd |-> n.cwd, timeout_ms |-> n.timeout_ms, loader_snaps |-> n.loader_snaps,
                trace |-> n.trace, verbose |-> n.verbose]
        /\ o = [cwd |-> o.cwd, timeout_ms |-> o.timeout_ms, loader_snaps |-> o.loader_snaps,
                trace |-> o.trace, verbose |-> o.verbose]
    BY DEF OptionsOf
  <1>. HIDE DEF n, o
  <1>8. n = AfterFlag(o, f)
    BY <1>2, <1>3, <1>4, <1>5, <1>6, <1>7 DEF AfterFlag
  <1>. QED
    BY <1>8 DEF n, o, f

\* a directory, and a timeout.
LEMMA ValueAdded ==
  ASSUME NEW v, NEW S, NEW q, NEW T, OneMore(S, q, T), v[q + 1] \in Seq(Symbols)
  PROVE  /\ Is(v[q], {"--cwd"}) => OptionsOf(v, T) = [OptionsOf(v, S) EXCEPT !.cwd = v[q + 1]]
         /\ Is(v[q], {"--timeout", "--timeout-ms"}) =>
              OptionsOf(v, T) = [OptionsOf(v, S) EXCEPT !.timeout_ms = ParseU32[Lossy(v[q + 1])]]
  <1>. DEFINE f == v[q][1]
              o == OptionsOf(v, S)
              n == OptionsOf(v, T)
  <1>. SUFFICES ASSUME Is(v[q], ValueOptions)
                PROVE  /\ Is(v[q], {"--cwd"}) => n = [o EXCEPT !.cwd = v[q + 1]]
                       /\ Is(v[q], {"--timeout", "--timeout-ms"}) =>
                            n = [o EXCEPT !.timeout_ms = ParseU32[Lossy(v[q + 1])]]
    BY DEF Is, ValueOptions
  <1>1. f \in ValueOptions /\ \A names : Is(v[q], names) <=> f \in names
    BY DEF Is
  <1>. HIDE DEF f
  <1>2. n.loader_snaps = o.loader_snaps
    <2>. DEFINE on == {"--loader-snaps"}
                off == {"--no-loader-snaps"}
                d == TRUE
    <2>1. ~Is(v[q], on) /\ ~Is(v[q], off)
      BY <1>1 DEF ValueOptions
    <2>2. n.loader_snaps = LastWins(v, T, on, off, d) /\ o.loader_snaps = LastWins(v, S, on, off, d)
      BY DEF OptionsOf
    <2>. HIDE DEF on, off, d, n, o
    <2>. QED
      <3>1. SwitchIs(v, S, q, T, on, off, d)
        BY LastWinsIs
      <3>. QED
        BY <2>1, <2>2, <3>1 DEF SwitchIs
  <1>3. n.trace = o.trace
    <2>. DEFINE on == {"--trace", "-v", "--verbose"}
                off == {"--summary"}
                d == FALSE
    <2>1. ~Is(v[q], on) /\ ~Is(v[q], off)
      BY <1>1 DEF ValueOptions
    <2>2. n.trace = LastWins(v, T, on, off, d) /\ o.trace = LastWins(v, S, on, off, d)
      BY DEF OptionsOf
    <2>. HIDE DEF on, off, d, n, o
    <2>. QED
      <3>1. SwitchIs(v, S, q, T, on, off, d)
        BY LastWinsIs
      <3>. QED
        BY <2>1, <2>2, <3>1 DEF SwitchIs
  <1>4. n.verbose = o.verbose
    <2>. DEFINE on == {"-v", "--verbose"}
                off == {"--quiet"}
                d == FALSE
    <2>1. ~Is(v[q], on) /\ ~Is(v[q], off)
      BY <1>1 DEF ValueOptions
    <2>2. n.verbose = LastWins(v, T, on, off, d) /\ o.verbose = LastWins(v, S, on, off, d)
      BY DEF OptionsOf
    <2>. HIDE DEF on, off, d, n, o
    <2>. QED
      <3>1. SwitchIs(v, S, q, T, on, off, d)
        BY LastWinsIs
      <3>. QED
        BY <2>1, <2>2, <3>1 DEF SwitchIs
  <1>5. /\ f = "--cwd" => n.cwd = v[q + 1]
        /\ f # "--cwd" => n.cwd = o.cwd
    <2>. DEFINE names == {"--cwd"}
    <2>1. Is(v[q], names) <=> f = "--cwd"
      BY <1>1
    <2>2. n.cwd = LastValue(v, T, names, None) /\ o.cwd = LastValue(v, S, names, None)
      BY DEF OptionsOf
    <2>. HIDE DEF names, n, o
    <2>. QED
      <3>1. ValueIs(v, S, q, T, names, None)
        BY LastValueIs
      <3>. QED
        BY <2>1, <2>2, <3>1 DEF ValueIs
  <1>6. /\ f = "--cwd" => n.timeout_ms = o.timeout_ms
        /\ f # "--cwd" => n.timeout_ms = ParseU32[Lossy(v[q + 1])]
    <2>. DEFINE names == {"--timeout", "--timeout-ms"}
                w == LastValue(v, T, names, None)
                u == LastValue(v, S, names, None)
    <2>1. Is(v[q], names) <=> f # "--cwd"
      BY <1>1 DEF ValueOptions
    <2>2. /\ n.timeout_ms = IF w = None THEN 30000 ELSE ParseU32[Lossy(w)]
          /\ o.timeout_ms = IF u = None THEN 30000 ELSE ParseU32[Lossy(u)]
      BY DEF OptionsOf
    <2>3. v[q + 1] # None
      BY NoneAssumption
    <2>. HIDE DEF names, n, o
    <2>4. /\ f = "--cwd" => w = u
          /\ f # "--cwd" => w = v[q + 1]
      <3>1. ValueIs(v, S, q, T, names, None)
        BY LastValueIs
      <3>. QED
        BY <2>1, <3>1 DEF ValueIs
    <2>. HIDE DEF w, u
    <2>. QED
      BY <2>2, <2>3, <2>4
  <1>7. /\ n = [cwd |-> n.cwd, timeout_ms |-> n.timeout_ms, loader_snaps |-> n.loader_snaps,
                trace |-> n.trace, verbose |-> n.verbose]
        /\ o = [cwd |-> o.cwd, timeout_ms |-> o.timeout_ms, loader_snaps |-> o.loader_snaps,
                trace |-> o.trace, verbose |-> o.verbose]
    BY DEF OptionsOf
  <1>. HIDE DEF n, o
  <1>8. f = "--cwd" => n = [o EXCEPT !.cwd = v[q + 1]]
    BY <1>2, <1>3, <1>4, <1>5, <1>6, <1>7
  <1>9. f # "--cwd" => n = [o EXCEPT !.timeout_ms = ParseU32[Lossy(v[q + 1])]]
    BY <1>2, <1>3, <1>4, <1>5, <1>6, <1>7
  <1>. QED
    BY <1>1, <1>8, <1>9

-----------------------------------------------------------------------------
(* The loop of parse_run.                                                  *)

\* The option places before n have been read: each holds an option that is
\* known, with its value before n, and o is what they amount to.
RunRead(v, n, o) ==
  /\ v \in Seq(Seq(Symbols)) /\ v # <<>>
  /\ n \in 2..(Len(v) + 1) /\ n \in Places(v)
  /\ \A p \in Places(v) : p < n => /\ Dashed(v[p]) /\ ~BadOption(v, p)
                                   /\ Is(v[p], ValueOptions) => p + 1 < n
  /\ o = OptionsOf(v, {p \in Places(v) : p < n})
  /\ o \in Options

\* At the start nothing has been read.
LEMMA NoOptions == ASSUME NEW v PROVE OptionsOf(v, {}) = Defaults
  <1>1. \A names, default : LastValue(v, {}, names, default) = default
    BY DEF LastValue
  <1>2. \A on, off, default : LastWins(v, {}, on, off, default) = default
    <2>. SUFFICES ASSUME NEW on, NEW off, NEW default
                  PROVE  LastWins(v, {}, on, off, default) = default
      OBVIOUS
    <2>. DEFINE D == {p \in {} : Is(v[p], on \cup off)}
    <2>1. D = {}
      OBVIOUS
    <2>. QED
      BY <2>1, Zenon DEF LastWins
  <1>. DEFINE t == LastValue(v, {}, {"--timeout", "--timeout-ms"}, None)
              c == LastValue(v, {}, {"--cwd"}, None)
              l == LastWins(v, {}, {"--loader-snaps"}, {"--no-loader-snaps"}, TRUE)
              r == LastWins(v, {}, {"--trace", "-v", "--verbose"}, {"--summary"}, FALSE)
              b == LastWins(v, {}, {"-v", "--verbose"}, {"--quiet"}, FALSE)
              k == 30000
  <1>3. t = None /\ c = None
    BY <1>1, Zenon
  <1>4. l = TRUE /\ r = FALSE /\ b = FALSE
    BY <1>2, Zenon
  <1>. DEFINE m == IF t = None THEN k ELSE ParseU32[Lossy(t)]
  <1>5. OptionsOf(v, {}) = [cwd |-> c, timeout_ms |-> m,
                            loader_snaps |-> l, trace |-> r, verbose |-> b]
    BY DEF OptionsOf
  <1>6. m = k
    BY <1>3
  <1>7. Defaults = [cwd |-> None, timeout_ms |-> k,
                    loader_snaps |-> TRUE, trace |-> FALSE, verbose |-> FALSE]
    BY DEF Defaults
  <1>. HIDE DEF t, c, l, r, b, k, m
  <1>. QED
    BY <1>3, <1>4, <1>5, <1>6, <1>7, Zenon

LEMMA RunReadStart ==
  ASSUME NEW v \in Seq(Seq(Symbols)), v # <<>>
  PROVE  RunRead(v, 2, Defaults)
  <1>1. Len(v) \in Nat /\ Len(v) >= 1 /\ 2 \in 2..(Len(v) + 1) /\ 2 \in 1..(Len(v) + 1) /\ 1 \in 1..(Len(v) + 1)
    OBVIOUS
  <1>2. /\ Places(v) \in SUBSET (1..(Len(v) + 1))
        /\ \A p \in 1..(Len(v) + 1) : p \in Places(v) <=> IsPlace(v, Places(v), p)
    BY PlacesAre
  <1>3. 2 \in Places(v)
    BY <1>1, <1>2 DEF IsPlace
  <1>4. 1 \notin Places(v)
    BY <1>1, <1>2 DEF IsPlace
  <1>5. \A p \in Places(v) : ~(p < 2)
    <2>1. \A p \in Places(v) : p \in Nat /\ p >= 1 /\ p # 1
      BY <1>1, <1>2, <1>4
    <2>. QED
      BY <2>1
  <1>6. {p \in Places(v) : p < 2} = {}
    BY <1>5
  <1>7. Defaults \in Options
    BY DEF Defaults, Options
  <1>8. Defaults = OptionsOf(v, {p \in Places(v) : p < 2})
    BY <1>6, NoOptions, Zenon
  <1>. QED
    BY <1>1, <1>3, <1>5, <1>7, <1>8 DEF RunRead

\* What is an option of one sort is none of the other.
LEMMA FlagOrValue ==
  ASSUME NEW token, Is(token, RunFlags)
  PROVE  ~Is(token, ValueOptions) /\ ~Is(token, {"--timeout", "--timeout-ms"})
  BY DEF Is, RunFlags, ValueOptions

\* A flag takes the reading one place on,
LEMMA FlagRead ==
  ASSUME NEW v, NEW n, NEW o, RunRead(v, n, o), n <= Len(v), Dashed(v[n]), Is(v[n], RunFlags)
  PROVE  RunRead(v, n + 1, AfterFlag(o, v[n][1]))
  <1>. DEFINE P == Places(v)
              S == {p \in P : p < n}
              T == {p \in P : p < n + 1}
  <1>1. /\ v \in Seq(Seq(Symbols)) /\ v # <<>> /\ Len(v) \in Nat /\ n \in Nat /\ n >= 2 /\ n \in P
        /\ \A p \in P : p < n => Dashed(v[p]) /\ ~BadOption(v, p) /\ (Is(v[p], ValueOptions) => p + 1 < n)
        /\ o = OptionsOf(v, S) /\ o \in Options
    BY DEF RunRead
  <1>2. /\ P \in SUBSET (1..(Len(v) + 1))
        /\ \A p \in 1..(Len(v) + 1) : p \in P <=> IsPlace(v, P, p)
    BY <1>1, PlacesAre
  <1>3. n + 1 \in P /\ n + 1 \in 2..(Len(v) + 1)
    <2>1. n + 1 \in 1..(Len(v) + 1) /\ n + 1 > 2 /\ (n + 1) - 1 = n
      BY <1>1
    <2>2. IsPlace(v, P, n + 1)
      <3>. HIDE DEF P
      <3>. QED
        BY <1>1, <2>1 DEF IsPlace
    <2>. QED
      BY <1>2, <2>1, <2>2
  <1>4. \A p \in P : p \in Int
    BY <1>1, <1>2
  <1>. HIDE DEF P
  <1>5. \A p \in P : p < n + 1 <=> p < n \/ p = n
    BY <1>1, <1>4
  <1>6. OneMore(S, n, T)
    BY <1>1, <1>4, <1>5 DEF OneMore
  <1>7. ~BadOption(v, n) /\ ~Is(v[n], ValueOptions)
    BY FlagOrValue DEF BadOption, Is
  <1>8. \A p \in P : p < n + 1 => Dashed(v[p]) /\ ~BadOption(v, p) /\ (Is(v[p], ValueOptions) => p + 1 < n + 1)
    BY <1>1, <1>4, <1>5, <1>7
  <1>9. OptionsOf(v, T) = AfterFlag(o, v[n][1])
    <2>. HIDE DEF S, T
    <2>1. OptionsOf(v, T) = AfterFlag(OptionsOf(v, S), v[n][1])
      BY <1>6, FlagAdded
    <2>. QED
      BY <1>1, <2>1, Zenon
  <1>10. AfterFlag(o, v[n][1]) \in Options
    <2>. DEFINE f == v[n][1]
    <2>. HIDE DEF f
    <2>1. AfterFlag(o, f) \in Options
      BY <1>1 DEF AfterFlag, Options
    <2>. QED
      BY <2>1 DEF f
  <1>. QED
    BY <1>1, <1>3, <1>8, <1>9, <1>10 DEF RunRead, P

\* an option with its value two.
LEMMA ValueRead ==
  ASSUME NEW v, NEW n, NEW o, RunRead(v, n, o), n < Len(v), Dashed(v[n]), Is(v[n], ValueOptions)
  PROVE  /\ Is(v[n], {"--cwd"}) => RunRead(v, n + 2, [o EXCEPT !.cwd = v[n + 1]])
         /\ Is(v[n], {"--timeout", "--timeout-ms"}) /\ Lossy(v[n + 1]) \in DOMAIN ParseU32 =>
              RunRead(v, n + 2, [o EXCEPT !.timeout_ms = ParseU32[Lossy(v[n + 1])]])
  <1>. DEFINE P == Places(v)
              S == {p \in P : p < n}
              T == {p \in P : p < n + 2}
  <1>1. /\ v \in Seq(Seq(Symbols)) /\ v # <<>> /\ Len(v) \in Nat /\ n \in Nat /\ n >= 2 /\ n \in P
        /\ \A p \in P : p < n => Dashed(v[p]) /\ ~BadOption(v, p) /\ (Is(v[p], ValueOptions) => p + 1 < n)
        /\ o = OptionsOf(v, S) /\ o \in Options
    BY DEF RunRead
  <1>2. /\ P \in SUBSET (1..(Len(v) + 1))
        /\ \A p \in 1..(Len(v) + 1) : p \in P <=> IsPlace(v, P, p)
    BY <1>1, PlacesAre
  <1>. HIDE DEF P
  <1>3. n + 2 \in P /\ n + 2 \in 2..(Len(v) + 1)
    <2>1. n + 2 \in 1..(Len(v) + 1) /\ n + 2 > 3 /\ (n + 2) - 2 = n
      BY <1>1
    <2>2. IsPlace(v, P, n + 2)
      BY <1>1, <2>1 DEF IsPlace
    <2>. QED
      BY <1>2, <2>1, <2>2
  <1>4. \A p \in P : p \in Int
    BY <1>1, <1>2
  <1>5. n + 1 \notin P
    <2>1. n + 1 \in 1..(Len(v) + 1) /\ n + 1 # 2 /\ (n + 1) - 1 = n /\ (n + 1) - 2 = n - 1 /\ n - 1 < n
      BY <1>1
    <2>2. ~Is(v[n], RunFlags)
      BY FlagOrValue
    <2>3. ~(n - 1 \in P /\ Is(v[n - 1], ValueOptions))
      BY <1>1, <2>1
    <2>4. ~IsPlace(v, P, n + 1)
      BY <2>1, <2>2, <2>3 DEF IsPlace
    <2>. QED
      BY <1>2, <2>1, <2>4
  <1>6. \A p \in P : p < n + 2 <=> p < n \/ p = n
    BY <1>1, <1>4, <1>5
  <1>7. OneMore(S, n, T)
    BY <1>1, <1>4, <1>6 DEF OneMore
  <1>8. v[n + 1] \in Seq(Symbols)
    BY <1>1
  <1>9. \A p \in P : p < n => Dashed(v[p]) /\ ~BadOption(v, p) /\ (Is(v[p], ValueOptions) => p + 1 < n + 2)
    BY <1>1, <1>4
  <1>10. ASSUME NEW x, x = OptionsOf(v, T), x \in Options, ~BadOption(v, n)
         PROVE  RunRead(v, n + 2, x)
    <2>1. \A p \in P : p < n + 2 => Dashed(v[p]) /\ ~BadOption(v, p) /\ (Is(v[p], ValueOptions) => p + 1 < n + 2)
      BY <1>1, <1>6, <1>9, <1>10
    <2>. QED
      BY <1>1, <1>3, <1>10, <2>1 DEF RunRead, P
  <1>11. /\ Is(v[n], {"--cwd"}) => OptionsOf(v, T) = [o EXCEPT !.cwd = v[n + 1]]
         /\ Is(v[n], {"--timeout", "--timeout-ms"}) =>
              OptionsOf(v, T) = [o EXCEPT !.timeout_ms = ParseU32[Lossy(v[n + 1])]]
    <2>. HIDE DEF S, T
    <2>1. /\ Is(v[n], {"--cwd"}) => OptionsOf(v, T) = [OptionsOf(v, S) EXCEPT !.cwd = v[n + 1]]
          /\ Is(v[n], {"--timeout", "--timeout-ms"}) =>
               OptionsOf(v, T) = [OptionsOf(v, S) EXCEPT !.timeout_ms = ParseU32[Lossy(v[n + 1])]]
      BY <1>7, <1>8, ValueAdded
    <2>. QED
      BY <1>1, <2>1, Zenon
  <1>12. Is(v[n], RunFlags \cup ValueOptions) /\ n # Len(v)
    BY <1>1 DEF Is
  <1>13. ASSUME Is(v[n], {"--cwd"}) PROVE RunRead(v, n + 2, [o EXCEPT !.cwd = v[n + 1]])
    <2>. DEFINE t == v[n + 1]
                x == [o EXCEPT !.cwd = t]
    <2>1. x \in Options
      <3>. HIDE DEF t
      <3>1. t \in Seq(Symbols)
        BY <1>8 DEF t
      <3>. QED
        BY <1>1, <3>1 DEF Options
    <2>2. ~BadOption(v, n)
      <3>1. ~Is(v[n], {"--timeout", "--timeout-ms"})
        BY <1>13 DEF Is
      <3>. QED
        BY <1>12, <3>1 DEF BadOption
    <2>3. x = OptionsOf(v, T)
      BY <1>11, <1>13
    <2>. HIDE DEF x, T
    <2>4. RunRead(v, n + 2, x)
      BY <1>10, <2>1, <2>2, <2>3
    <2>. QED
      BY <2>4 DEF x
  <1>14. ASSUME Is(v[n], {"--timeout", "--timeout-ms"}), Lossy(v[n + 1]) \in DOMAIN ParseU32
         PROVE  RunRead(v, n + 2, [o EXCEPT !.timeout_ms = ParseU32[Lossy(v[n + 1])]])
    <2>. DEFINE t == ParseU32[Lossy(v[n + 1])]
                x == [o EXCEPT !.timeout_ms = t]
    <2>1. x \in Options
      <3>1. t \in Nat
        BY <1>14, ParseU32Assumption
      <3>. HIDE DEF t
      <3>. QED
        BY <1>1, <3>1 DEF Options
    <2>2. ~BadOption(v, n)
      BY <1>12, <1>14 DEF BadOption
    <2>3. x = OptionsOf(v, T)
      BY <1>11, <1>14
    <2>. HIDE DEF x, T
    <2>4. RunRead(v, n + 2, x)
      BY <1>10, <2>1, <2>2, <2>3
    <2>. QED
      BY <2>4 DEF x
  <1>. QED
    BY <1>13, <1>14

\* No option stands behind a token that is none.
LEMMA TargetIsLast ==
  ASSUME NEW v, NEW n, NEW o, RunRead(v, n, o), n <= Len(v), ~Dashed(v[n])
  PROVE  \A p \in Places(v) : p <= n
  <1>. DEFINE P == Places(v)
              T == {m \in Nat : \A p \in P : p <= n \/ p > n + m}
  <1>1. /\ v \in Seq(Seq(Symbols)) /\ Len(v) \in Nat /\ n \in Nat /\ n >= 2 /\ n \in P
        /\ \A p \in P : p < n => (Is(v[p], ValueOptions) => p + 1 < n)
    BY DEF RunRead
  <1>2. /\ P \in SUBSET (1..(Len(v) + 1))
        /\ \A p \in 1..(Len(v) + 1) : p \in P <=> IsPlace(v, P, p)
    BY <1>1, PlacesAre
  <1>3. \A p \in P : p \in Nat /\ IsPlace(v, P, p)
    BY <1>1, <1>2
  <1>4. ~Is(v[n], RunFlags) /\ ~Is(v[n], ValueOptions)
    <2>1. v[n] \in Seq(Symbols)
      BY <1>1
    <2>. DEFINE t == v[n]
    <2>. HIDE DEF t
    <2>2. \A names : Is(t, names) => t # <<>> /\ t[1] \in names
      BY <2>1 DEF Is, t
    <2>. QED
      BY <2>2 DEF Dashed, OptionSymbols, t
  <1>. HIDE DEF P
  <1>5. 0 \in T
    BY <1>1, <1>3
  <1>6. ASSUME NEW m \in Nat, m \in T PROVE m + 1 \in T
    <2>. SUFFICES ASSUME NEW p \in P, ~(p <= n), ~(p > n + (m + 1)) PROVE FALSE
      OBVIOUS
    <2>1. p \in Nat /\ IsPlace(v, P, p) /\ p = n + m + 1
      <3>1. p <= n \/ p > n + m
        BY <1>6
      <3>. QED
        BY <1>1, <1>3, <3>1
    <2>2. ~(p - 1 \in P /\ Is(v[p - 1], RunFlags))
      <3>. SUFFICES ASSUME p - 1 \in P, Is(v[p - 1], RunFlags) PROVE FALSE
        OBVIOUS
      <3>1. p - 1 <= n \/ p - 1 > n + m
        BY <1>6
      <3>2. p - 1 = n
        BY <1>1, <2>1, <3>1
      <3>. QED
        BY <1>4, <3>2
    <2>3. ~(p - 2 \in P /\ Is(v[p - 2], ValueOptions))
      <3>. SUFFICES ASSUME p - 2 \in P, Is(v[p - 2], ValueOptions) PROVE FALSE
        OBVIOUS
      <3>1. p - 2 <= n \/ p - 2 > n + m
        BY <1>6
      <3>2. p - 2 = n \/ p - 2 = n - 1
        BY <1>1, <2>1, <3>1
      <3>3. CASE p - 2 = n
        BY <1>4, <3>3
      <3>4. CASE p - 2 = n - 1
        <4>1. n - 1 \in P /\ Is(v[n - 1], ValueOptions)
          BY <3>4
        <4>. QED
          BY <1>1, <4>1
      <3>. QED
        BY <3>2, <3>3, <3>4
    <2>. QED
      BY <1>1, <2>1, <2>2, <2>3 DEF IsPlace
  <1>7. \A m \in Nat : m \in T
    <2>. HIDE DEF T
    <2>. QED
      BY <1>5, <1>6, NatSetInduction
  <1>. SUFFICES ASSUME NEW p \in P, p > n PROVE FALSE
    BY <1>1, <1>3 DEF P
  <1>8. p - n \in Nat
    BY <1>1, <1>3
  <1>9. p <= n \/ p > n + (p - n)
    BY <1>7, <1>8
  <1>. QED
    BY <1>1, <1>3, <1>9

\* The command line of run read to its end is read as documented.
LEMMA RunReadEnd ==
  ASSUME NEW v, NEW n, NEW o, RunRead(v, n, o)
  PROVE  /\ n > Len(v) => \A p \in OptionPlaces(v) : Dashed(v[p])
         /\ n <= Len(v) /\ Dashed(v[n]) => n \in OptionPlaces(v)
         /\ n <= Len(v) /\ ~Dashed(v[n]) => /\ n \in OptionPlaces(v)
                                            /\ o = RunOptions(v)
  <1>. DEFINE P == Places(v)
              S == {p \in P : p < n}
  <1>1. /\ v \in Seq(Seq(Symbols)) /\ Len(v) \in Nat /\ n \in Nat /\ n >= 2 /\ n \in P
        /\ \A p \in P : p < n => Dashed(v[p])
        /\ o = OptionsOf(v, S)
    BY DEF RunRead
  <1>2. P \in SUBSET (1..(Len(v) + 1)) /\ OptionPlaces(v) = P \cap (2..Len(v))
    BY <1>1, PlacesAre
  <1>3. \A p \in P : p \in Int
    BY <1>1, <1>2
  <1>4. n > Len(v) => \A p \in OptionPlaces(v) : Dashed(v[p])
    BY <1>1, <1>2
  <1>5. n <= Len(v) => n \in OptionPlaces(v)
    BY <1>1, <1>2
  <1>6. ASSUME n <= Len(v), ~Dashed(v[n]) PROVE o = RunOptions(v)
    <2>1. \A p \in P : p <= n
      BY <1>6, TargetIsLast
    <2>2. \A p \in P : 2 <= p
      <3>1. \A p \in 1..(Len(v) + 1) : p \in P <=> IsPlace(v, P, p)
        BY <1>1, PlacesAre
      <3>2. 1 \in 1..(Len(v) + 1) /\ ~IsPlace(v, P, 1)
        BY <1>1 DEF IsPlace
      <3>. HIDE DEF P
      <3>. QED
        BY <1>2, <1>3, <3>1, <3>2
    <2>. HIDE DEF P
    <2>3. {p \in OptionPlaces(v) : Dashed(v[p])} = S
      <3>1. \A p \in OptionPlaces(v) : Dashed(v[p]) => p \in S
        <4>1. \A p \in P : p # n => p < n
          BY <1>1, <1>3, <2>1
        <4>. QED
          BY <1>2, <1>6, <4>1
      <3>2. \A p \in S : p \in OptionPlaces(v) /\ Dashed(v[p])
        BY <1>1, <1>2, <1>3, <1>6, <2>2
      <3>. QED
        BY <3>1, <3>2
    <2>. HIDE DEF S
    <2>4. RunOptions(v) = OptionsOf(v, {p \in OptionPlaces(v) : Dashed(v[p])})
      BY DEF RunOptions, OptionsOf
    <2>. QED
      BY <1>1, <2>3, <2>4, Zenon
  <1>. QED
    BY <1>4, <1>5, <1>6

-----------------------------------------------------------------------------
(* The loop of parse_imports.                                              *)

\* A token after the module is an option if it is not the value of one.
LEMMA ImportsPlacesAre ==
  ASSUME NEW v \in Seq(Seq(Symbols))
  PROVE  /\ ImportsOptionPlaces(v) \in SUBSET (3..Len(v))
         /\ \A p \in 3..Len(v) :
              p \in ImportsOptionPlaces(v) <=>
                ~(p > 3 /\ Is(v[p - 1], {"--cwd"}) /\ p - 1 \in ImportsOptionPlaces(v))
  <1>. DEFINE N == Len(v)
              value[p \in 2..N] == p > 3 /\ Is(v[p - 1], {"--cwd"}) /\ ~value[p - 1]
              Option(X, p) == p >= 3 /\ ~(p > 3 /\ Is(v[p - 1], {"--cwd"}) /\ p - 1 \in X)
              R == {x \in (1..N) \X SUBSET Int : Option(x[2], x[1])}
  <1>0. N \in Nat
    OBVIOUS
  <1>1. \A p \in 1..N : \A X \in SUBSET Int : <<p, X>> \in R <=> Option(X, p)
    OBVIOUS
  <1>2. \A p \in 1..N : \A X \in SUBSET Int : Option(X, p) <=> Option(X \cap (1..(p - 1)), p)
    BY <1>0
  <1>. HIDE DEF N, R
  <1>3. PICK P \in SUBSET (1..N) : \A p \in 1..N : p \in P <=> <<p, P>> \in R
    <2>1. \A p \in 1..N : \A X \in SUBSET Int : <<p, X>> \in R <=> <<p, X \cap (1..(p - 1))>> \in R
      BY <1>0, <1>1, <1>2
    <2>. QED
      BY <1>0, <2>1, SetByRecursion
  <1>4. \A p \in 1..N : p \in P <=> Option(P, p)
    <2>1. P \in SUBSET Int
      BY <1>0
    <2>. HIDE DEF Option
    <2>. QED
      BY <1>1, <1>3, <2>1
  <1>5. \E f : f = [p \in 2..N |-> p > 3 /\ Is(v[p - 1], {"--cwd"}) /\ ~f[p - 1]]
    <2>. DEFINE f == [p \in 2..N |-> p >= 3 /\ p \notin P]
    <2>1. ASSUME NEW p \in 2..N
          PROVE  (p >= 3 /\ p \notin P) = (p > 3 /\ Is(v[p - 1], {"--cwd"}) /\ ~f[p - 1])
      <3>1. p > 3 => p - 1 \in 2..N /\ p - 1 >= 3 /\ f[p - 1] = (p - 1 >= 3 /\ p - 1 \notin P)
        BY <1>0
      <3>. DEFINE A == p >= 3 /\ p \notin P
                  B == p > 3 /\ Is(v[p - 1], {"--cwd"}) /\ ~f[p - 1]
      <3>2. A <=> B
        <4>1. p \in 1..N /\ p \in Nat
          BY <1>0
        <4>2. A <=> p > 3 /\ Is(v[p - 1], {"--cwd"}) /\ p - 1 \in P
          BY <1>4, <4>1
        <4>3. p > 3 => (~f[p - 1] <=> p - 1 \in P)
          BY <3>1
        <4>. HIDE DEF A, f
        <4>. QED
          BY <4>2, <4>3
      <3>3. A \in BOOLEAN /\ B \in BOOLEAN
        OBVIOUS
      <3>. HIDE DEF A, B
      <3>4. A = B
        BY <3>2, <3>3
      <3>. QED
        BY <3>4 DEF A, B
    <2>2. f = [p \in 2..N |-> p > 3 /\ Is(v[p - 1], {"--cwd"}) /\ ~f[p - 1]]
      BY <2>1
    <2>. QED
      BY <2>2
  <1>6. value = [p \in 2..N |-> p > 3 /\ Is(v[p - 1], {"--cwd"}) /\ ~value[p - 1]]
    BY <1>5
  <1>7. ImportsOptionPlaces(v) = {p \in 3..N : ~value[p]}
    BY DEF ImportsOptionPlaces, N
  <1>. HIDE DEF value
  <1>8. \A p \in 3..N : value[p] <=> p > 3 /\ Is(v[p - 1], {"--cwd"}) /\ ~value[p - 1]
    <2>. SUFFICES ASSUME NEW p \in 3..N
                  PROVE  value[p] <=> p > 3 /\ Is(v[p - 1], {"--cwd"}) /\ ~value[p - 1]
      OBVIOUS
    <2>1. p \in 2..N
      BY <1>0
    <2>2. value[p] = (p > 3 /\ Is(v[p - 1], {"--cwd"}) /\ ~value[p - 1])
      BY <1>6, <2>1, Zenon
    <2>. QED
      BY <2>2, Zenon
  <1>9. \A p \in 3..N : p > 3 => (p - 1 \in ImportsOptionPlaces(v) <=> ~value[p - 1])
    BY <1>0, <1>7
  <1>10. \A p \in 3..N : p \in ImportsOptionPlaces(v) <=> ~value[p]
    BY <1>7
  <1>. QED
    BY <1>7, <1>8, <1>9, <1>10 DEF N

\* The options of imports before n have been read: each is known, with its
\* value before n, and c is the last directory.
ImportsRead(v, n, c) ==
  /\ v \in Seq(Seq(Symbols)) /\ Len(v) >= 2
  /\ n \in 3..(Len(v) + 1) /\ (n <= Len(v) => n \in ImportsOptionPlaces(v))
  /\ \A p \in ImportsOptionPlaces(v) :
       p < n => /\ Is(v[p], {"--cwd", "--quiet", "--verbose", "--strict"})
                /\ Is(v[p], {"--cwd"}) => p + 1 < n
  /\ c = LastValue(v, {p \in ImportsOptionPlaces(v) : p < n}, {"--cwd"}, None)
  /\ c \in Seq(Symbols) \cup {None}

LEMMA ImportsReadStart ==
  ASSUME NEW v \in Seq(Seq(Symbols)), v # <<>>, Len(v) # 1
  PROVE  ImportsRead(v, 3, None)
  <1>. DEFINE P == ImportsOptionPlaces(v)
  <1>1. Len(v) \in Nat /\ Len(v) >= 2
    <2>1. Len(v) \in Nat /\ (Len(v) = 0 => v = <<>>)
      OBVIOUS
    <2>. DEFINE m == Len(v)
    <2>2. m \in Nat /\ m # 0 /\ m # 1
      BY <2>1
    <2>. HIDE DEF m
    <2>3. m \in Nat /\ m >= 2
      BY <2>2
    <2>. QED
      BY <2>3 DEF m
  <1>2. /\ P \in SUBSET (3..Len(v))
        /\ \A p \in 3..Len(v) : p \in P <=> ~(p > 3 /\ Is(v[p - 1], {"--cwd"}) /\ p - 1 \in P)
    BY ImportsPlacesAre
  <1>. HIDE DEF P
  <1>3. 3 <= Len(v) => 3 \in P
    BY <1>1, <1>2
  <1>4. \A p \in P : ~(p < 3)
    BY <1>1, <1>2
  <1>. DEFINE S == {p \in P : p < 3}
  <1>5. S = {}
    BY <1>4
  <1>6. LastValue(v, {}, {"--cwd"}, None) = None
    BY DEF LastValue
  <1>7. None = LastValue(v, S, {"--cwd"}, None)
    BY <1>5, <1>6, Zenon
  <1>. QED
    BY <1>1, <1>3, <1>4, <1>7 DEF ImportsRead, P

\* A flag takes the reading one place on,
LEMMA ImportsFlagRead ==
  ASSUME NEW v, NEW n, NEW c, ImportsRead(v, n, c), n <= Len(v),
         Is(v[n], {"--quiet", "--verbose", "--strict"})
  PROVE  ImportsRead(v, n + 1, c)
  <1>. DEFINE P == ImportsOptionPlaces(v)
              S == {p \in P : p < n}
              T == {p \in P : p < n + 1}
              names == {"--cwd"}
  <1>1. /\ v \in Seq(Seq(Symbols)) /\ Len(v) \in Nat /\ Len(v) >= 2 /\ n \in Nat /\ n >= 3 /\ n \in P
        /\ \A p \in P : p < n => /\ Is(v[p], {"--cwd", "--quiet", "--verbose", "--strict"})
                                 /\ Is(v[p], {"--cwd"}) => p + 1 < n
        /\ c = LastValue(v, S, names, None) /\ c \in Seq(Symbols) \cup {None}
    BY DEF ImportsRead
  <1>2. /\ P \in SUBSET (3..Len(v))
        /\ \A p \in 3..Len(v) : p \in P <=> ~(p > 3 /\ Is(v[p - 1], {"--cwd"}) /\ p - 1 \in P)
    BY <1>1, ImportsPlacesAre
  <1>. HIDE DEF P
  <1>3. ~Is(v[n], {"--cwd"}) /\ Is(v[n], {"--cwd", "--quiet", "--verbose", "--strict"})
    BY DEF Is
  <1>4. n + 1 <= Len(v) => n + 1 \in P
    <2>1. n + 1 <= Len(v) => n + 1 \in 3..Len(v) /\ (n + 1) - 1 = n
      BY <1>1
    <2>. QED
      BY <1>2, <1>3, <2>1
  <1>5. \A p \in P : p \in Int
    BY <1>1, <1>2
  <1>6. \A p \in P : p < n + 1 <=> p < n \/ p = n
    BY <1>1, <1>5
  <1>7. OneMore(S, n, T)
    BY <1>1, <1>5, <1>6 DEF OneMore
  <1>8. c = LastValue(v, T, names, None)
    <2>1. ~Is(v[n], names)
      BY <1>3
    <2>. HIDE DEF S, T, names
    <2>2. ValueIs(v, S, n, T, names, None)
      BY <1>7, LastValueIs
    <2>. QED
      BY <1>1, <2>1, <2>2 DEF ValueIs
  <1>9. \A p \in P : p < n + 1 => /\ Is(v[p], {"--cwd", "--quiet", "--verbose", "--strict"})
                                  /\ Is(v[p], {"--cwd"}) => p + 1 < n + 1
    BY <1>1, <1>3, <1>5, <1>6
  <1>10. n + 1 \in 3..(Len(v) + 1)
    BY <1>1
  <1>. QED
    BY <1>1, <1>4, <1>8, <1>9, <1>10 DEF ImportsRead, P

\* --cwd with its value two.
LEMMA ImportsValueRead ==
  ASSUME NEW v, NEW n, NEW c, ImportsRead(v, n, c), n < Len(v), Is(v[n], {"--cwd"})
  PROVE  ImportsRead(v, n + 2, v[n + 1])
  <1>. DEFINE P == ImportsOptionPlaces(v)
              S == {p \in P : p < n}
              T == {p \in P : p < n + 2}
              names == {"--cwd"}
  <1>1. /\ v \in Seq(Seq(Symbols)) /\ Len(v) \in Nat /\ Len(v) >= 2 /\ n \in Nat /\ n >= 3 /\ n \in P
        /\ \A p \in P : p < n => /\ Is(v[p], {"--cwd", "--quiet", "--verbose", "--strict"})
                                 /\ Is(v[p], {"--cwd"}) => p + 1 < n
    BY DEF ImportsRead
  <1>2. /\ P \in SUBSET (3..Len(v))
        /\ \A p \in 3..Len(v) : p \in P <=> ~(p > 3 /\ Is(v[p - 1], {"--cwd"}) /\ p - 1 \in P)
    BY <1>1, ImportsPlacesAre
  <1>. HIDE DEF P
  <1>3. Is(v[n], {"--cwd", "--quiet", "--verbose", "--strict"})
    BY DEF Is
  <1>4. n + 1 \notin P
    <2>1. n + 1 \in 3..Len(v) /\ n + 1 > 3 /\ (n + 1) - 1 = n
      BY <1>1
    <2>. QED
      BY <1>1, <1>2, <2>1
  <1>5. n + 2 <= Len(v) => n + 2 \in P
    <2>1. n + 2 <= Len(v) => n + 2 \in 3..Len(v) /\ (n + 2) - 1 = n + 1
      BY <1>1
    <2>. QED
      BY <1>2, <1>4, <2>1
  <1>6. \A p \in P : p \in Int
    BY <1>1, <1>2
  <1>7. \A p \in P : p < n + 2 <=> p < n \/ p = n
    BY <1>1, <1>4, <1>6
  <1>8. OneMore(S, n, T)
    BY <1>1, <1>6, <1>7 DEF OneMore
  <1>9. v[n + 1] = LastValue(v, T, names, None)
    <2>1. Is(v[n], names)
      OBVIOUS
    <2>. HIDE DEF S, T, names
    <2>2. ValueIs(v, S, n, T, names, None)
      BY <1>8, LastValueIs
    <2>. QED
      BY <2>1, <2>2 DEF ValueIs
  <1>10. \A p \in P : p < n + 2 => /\ Is(v[p], {"--cwd", "--quiet", "--verbose", "--strict"})
                                   /\ Is(v[p], {"--cwd"}) => p + 1 < n + 2
    BY <1>1, <1>3, <1>6, <1>7
  <1>11. n + 2 \in 3..(Len(v) + 1) /\ v[n + 1] \in Seq(Symbols)
    BY <1>1
  <1>. QED
    BY <1>1, <1>5, <1>9, <1>10, <1>11 DEF ImportsRead, P

-----------------------------------------------------------------------------
(* Run and imports are parsed as documented.                               *)

\* Nothing has been returned before the end, the loops have read what is
\* before the next token, and what is returned is right.
ParseInv ==
  /\ world \in Worlds
  /\ pc \in {"parse_from", "run", "imports", "com"} => command = None
  /\ pc = "parse_from" => opts = Defaults
  /\ pc = "run" => Is(values[1], {"run"}) /\ RunRead(values, i, opts)
  /\ pc = "imports" => /\ Is(values[1], {"imports"}) /\ opts \in Options
                       /\ ImportsRead(values, i, opts.cwd)
  /\ pc = "com" => Is(values[1], {"com"})
  /\ ParsedAsDocumented

LEMMA ParseInitially == ASSUME Init PROVE ParseInv
  BY DEF Init, ParseInv, ParsedAsDocumented

\* A token names one subcommand.
LEMMA OneSubcommand ==
  ASSUME NEW token
  PROVE  /\ Is(token, {"run"}) => ~Is(token, {"imports"}) /\ ~Is(token, {"com"}) /\ token[1] = "run"
         /\ Is(token, {"imports"}) => ~Is(token, {"run"}) /\ ~Is(token, {"com"}) /\ token[1] = "imports"
         /\ Is(token, {"com"}) => ~Is(token, {"run"}) /\ ~Is(token, {"imports"}) /\ token[1] = "com"
  BY DEF Is

\* A step that ends the parsing has to answer for its command line.
LEMMA ParseEnds ==
  ASSUME ParseInv, UNCHANGED world, pc' \in {"launch", "done"},
         Is(values[1], {"run"}) => RunParsedAsDocumented',
         Is(values[1], {"imports"}) => ImportsParsedAsDocumented'
  PROVE  ParseInv'
  <1>1. values' = values /\ world' \in Worlds
    BY DEF values, ParseInv
  <1>2. ParsedAsDocumented'
    BY <1>1, Zenon DEF ParsedAsDocumented
  <1>. QED
    BY <1>1, <1>2 DEF ParseInv

\* What parse_run refuses and what it returns.
LEMMA RunEnds ==
  ASSUME ParseInv, pc = "run", UNCHANGED world,
         \/ command' = None /\ (i <= Len(values) => Dashed(values[i]) /\ BadOption(values, i))
         \/ /\ i <= Len(values) /\ ~Dashed(values[i])
            /\ command' = [kind |-> "Run", exe_path |-> values[i],
                           exe_args |-> SubSeq(values, i + 1, Len(values)), opts |-> opts]
  PROVE  RunParsedAsDocumented'
  <1>. DEFINE v == values
              Targets == {p \in OptionPlaces(v) : ~Dashed(v[p])}
  <1>1. RunRead(v, i, opts) /\ values' = v
    BY DEF ParseInv, values
  <1>. HIDE DEF v
  <1>2. /\ v \in Seq(Seq(Symbols)) /\ Len(v) \in Nat /\ i \in Nat /\ i >= 2 /\ opts \in Options
    BY <1>1 DEF RunRead
  <1>3. /\ i > Len(v) => \A p \in OptionPlaces(v) : Dashed(v[p])
        /\ i <= Len(v) /\ Dashed(v[i]) => i \in OptionPlaces(v)
        /\ i <= Len(v) /\ ~Dashed(v[i]) => i \in OptionPlaces(v) /\ opts = RunOptions(v)
    BY <1>1, RunReadEnd
  <1>4. ASSUME command' = None, i <= Len(v) => Dashed(v[i]) /\ BadOption(v, i)
        PROVE  RunParsedAsDocumented'
    <2>1. Targets = {} \/ \E p \in OptionPlaces(v) : Dashed(v[p]) /\ BadOption(v, p)
      <3>1. i > Len(v) \/ i <= Len(v)
        BY <1>2
      <3>. QED
        BY <1>3, <1>4, <3>1
    <2>. QED
      BY <1>1, <1>4, <2>1, Zenon DEF RunParsedAsDocumented
  <1>5. ASSUME i <= Len(v), ~Dashed(v[i]),
               command' = [kind |-> "Run", exe_path |-> v[i],
                           exe_args |-> SubSeq(v, i + 1, Len(v)), opts |-> opts]
        PROVE  RunParsedAsDocumented'
    <2>1. i \in Targets /\ opts = RunOptions(v)
      BY <1>3, <1>5
    <2>2. command' # None
      <3>1. v[i] \in Seq(Symbols) /\ SubSeq(v, i + 1, Len(v)) \in Seq(Seq(Symbols))
        BY <1>2, <1>5
      <3>. DEFINE t == v[i]
                  a == SubSeq(v, i + 1, Len(v))
      <3>. HIDE DEF t, a
      <3>2. command' \in [kind : {"Run"}, exe_path : Seq(Symbols), exe_args : Seq(Seq(Symbols)), opts : Options]
        BY <1>2, <1>5, <3>1 DEF t, a
      <3>. QED
        BY <3>2, NoneAssumption
    <2>3. \E t \in Targets :
            command' = [kind |-> "Run", exe_path |-> v[t],
                        exe_args |-> SubSeq(v, t + 1, Len(v)), opts |-> RunOptions(v)]
      BY <1>5, <2>1, Zenon
    <2>. QED
      BY <1>1, <2>2, <2>3, Zenon DEF RunParsedAsDocumented
  <1>. QED
    BY <1>4, <1>5 DEF v

\* One option of run.
LEMMA RunOptionKeeps == ASSUME ParseInv, RunOption PROVE ParseInv'
  <1>. DEFINE v == values
  <1>1. /\ pc = "run" /\ i <= Len(v) /\ Dashed(v[i]) /\ command = None
        /\ Is(v[1], {"run"}) /\ RunRead(v, i, opts)
    BY DEF RunOption, ParseInv
  <1>2. /\ v \in Seq(Seq(Symbols)) /\ Len(v) \in Nat /\ i \in Nat /\ world \in Worlds
    BY <1>1 DEF RunRead, ParseInv
  <1>3. ASSUME Reject, BadOption(v, i) PROVE ParseInv'
    <2>1. pc' = "done" /\ UNCHANGED <<world, command>>
      BY <1>3 DEF Reject
    <2>2. RunParsedAsDocumented'
      BY <1>1, <1>3, <2>1, RunEnds
    <2>3. ~Is(v[1], {"imports"})
      BY <1>1, OneSubcommand
    <2>. QED
      BY <2>1, <2>2, <2>3, ParseEnds
  <1>4. ASSUME NEW n, NEW o, RunRead(v, n, o), Go("run", n), opts' = o PROVE ParseInv'
    <2>1. pc' = "run" /\ i' = n /\ world' = world /\ command' = command /\ values' = v
      BY <1>4 DEF Go, values
    <2>2. ParsedAsDocumented'
      BY <2>1 DEF ParsedAsDocumented
    <2>3. RunRead(values, i, opts)'
      BY <1>4, <2>1, Zenon
    <2>. QED
      BY <1>1, <1>2, <2>1, <2>2, <2>3 DEF ParseInv
  <1>. DEFINE token == v[i]
  <1>5. CASE Is(token, ValueOptions) /\ i = Len(v)
    <2>1. Reject
      BY <1>5 DEF RunOption
    <2>2. BadOption(v, i)
      BY <1>5 DEF BadOption
    <2>. QED
      BY <1>3, <2>1, <2>2
  <1>6. CASE Is(token, {"--cwd"}) /\ i < Len(v)
    <2>1. Is(token, ValueOptions)
      BY <1>6 DEF Is, ValueOptions
    <2>. DEFINE o == [opts EXCEPT !.cwd = v[i + 1]]
    <2>2. opts' = o /\ Go("run", i + 2)
      BY <1>2, <1>6, <2>1 DEF RunOption
    <2>3. RunRead(v, i + 2, o)
      BY <1>1, <1>6, <2>1, ValueRead
    <2>. HIDE DEF o, v
    <2>. QED
      BY <1>4, <2>2, <2>3
  <1>7. CASE Is(token, {"--timeout", "--timeout-ms"}) /\ i < Len(v)
    <2>1. Is(token, ValueOptions) /\ ~Is(token, {"--cwd"})
      BY <1>7 DEF Is, ValueOptions
    <2>2. CASE Lossy(v[i + 1]) \in DOMAIN ParseU32
      <3>. DEFINE o == [opts EXCEPT !.timeout_ms = ParseU32[Lossy(v[i + 1])]]
      <3>1. opts' = o /\ Go("run", i + 2)
        BY <1>2, <1>7, <2>1, <2>2 DEF RunOption
      <3>2. RunRead(v, i + 2, o)
        BY <1>1, <1>7, <2>1, <2>2, ValueRead
      <3>. HIDE DEF o, v
      <3>. QED
        BY <1>4, <3>1, <3>2
    <2>3. CASE Lossy(v[i + 1]) \notin DOMAIN ParseU32
      <3>1. Reject
        BY <1>2, <1>7, <2>1, <2>3 DEF RunOption
      <3>2. BadOption(v, i)
        BY <1>7, <2>3 DEF BadOption
      <3>. QED
        BY <1>3, <3>1, <3>2
    <2>. QED
      BY <2>2, <2>3
  <1>8. CASE Is(token, RunFlags)
    <2>1. ~Is(token, ValueOptions)
      BY <1>8, FlagOrValue
    <2>. DEFINE o == AfterFlag(opts, token[1])
    <2>2. opts' = o /\ Go("run", i + 1)
      BY <1>8, <2>1 DEF RunOption
    <2>3. RunRead(v, i + 1, o)
      BY <1>1, <1>8, FlagRead
    <2>. HIDE DEF o, v
    <2>. QED
      BY <1>4, <2>2, <2>3
  <1>9. CASE ~Is(token, ValueOptions) /\ ~Is(token, RunFlags)
    <2>1. Reject
      BY <1>9 DEF RunOption
    <2>2. BadOption(v, i)
      BY <1>9 DEF BadOption, Is
    <2>. QED
      BY <1>3, <2>1, <2>2
  <1>10. Is(token, ValueOptions) => Is(token, {"--cwd"}) \/ Is(token, {"--timeout", "--timeout-ms"})
    BY DEF Is, ValueOptions
  <1>11. i = Len(v) \/ i < Len(v)
    BY <1>1, <1>2
  <1>. QED
    BY <1>5, <1>6, <1>7, <1>8, <1>9, <1>10, <1>11

\* The target of run.
LEMMA RunTargetKeeps == ASSUME ParseInv, RunTarget PROVE ParseInv'
  <1>1. /\ pc = "run" /\ command = None /\ (i <= Len(values) => ~Dashed(values[i]))
        /\ Is(values[1], {"run"}) /\ RunRead(values, i, opts)
    BY DEF RunTarget, ParseInv
  <1>2. ~Is(values[1], {"imports"})
    BY <1>1, OneSubcommand
  <1>3. Len(values) \in Nat /\ i \in Nat
    BY <1>1 DEF RunRead
  <1>4. CASE i > Len(values)
    <2>1. pc' = "done" /\ UNCHANGED <<world, command>>
      BY <1>4 DEF RunTarget, Reject
    <2>2. RunParsedAsDocumented'
      BY <1>1, <1>3, <1>4, <2>1, RunEnds
    <2>. QED
      BY <1>2, <2>1, <2>2, ParseEnds
  <1>5. CASE i <= Len(values)
    <2>1. /\ pc' = "launch" /\ UNCHANGED world
          /\ command' = [kind |-> "Run", exe_path |-> values[i],
                         exe_args |-> SubSeq(values, i + 1, Len(values)), opts |-> opts]
      BY <1>3, <1>5 DEF RunTarget, Accept
    <2>2. RunParsedAsDocumented'
      BY <1>1, <1>5, <2>1, RunEnds
    <2>. QED
      BY <1>2, <2>1, <2>2, ParseEnds
  <1>. QED
    BY <1>3, <1>4, <1>5

\* One option of imports.
LEMMA ImportsOptionKeeps == ASSUME ParseInv, ImportsOption PROVE ParseInv'
  <1>. DEFINE v == values
              flags == {"--quiet", "--verbose", "--strict"}
  <1>1. /\ pc = "imports" /\ i <= Len(v) /\ command = None /\ opts \in Options
        /\ Is(v[1], {"imports"}) /\ ImportsRead(v, i, opts.cwd)
    BY DEF ImportsOption, ParseInv
  <1>2. /\ v \in Seq(Seq(Symbols)) /\ Len(v) \in Nat /\ Len(v) >= 2 /\ i \in Nat /\ i >= 3
        /\ i \in ImportsOptionPlaces(v) /\ world \in Worlds
    BY <1>1 DEF ImportsRead, ParseInv
  <1>3. ASSUME NEW n, ImportsRead(v, n, opts'.cwd), opts' \in Options, Go("imports", n) PROVE ParseInv'
    <2>1. pc' = "imports" /\ i' = n /\ world' = world /\ command' = command /\ values' = v
      BY <1>3 DEF Go, values
    <2>2. ParsedAsDocumented'
      BY <2>1 DEF ParsedAsDocumented
    <2>3. ImportsRead(values, i, opts.cwd)'
      BY <1>3, <2>1, Zenon
    <2>. QED
      BY <1>1, <1>2, <1>3, <2>1, <2>2, <2>3 DEF ParseInv
  <1>4. CASE Is(v[i], {"--cwd"}) /\ i < Len(v)
    <2>. DEFINE t == v[i + 1]
    <2>1. opts' = [opts EXCEPT !.cwd = t] /\ Go("imports", i + 2)
      BY <1>4 DEF ImportsOption
    <2>2. ImportsRead(v, i + 2, t)
      BY <1>1, <1>4, ImportsValueRead
    <2>3. t \in Seq(Symbols)
      BY <1>2, <1>4
    <2>. HIDE DEF t, v
    <2>4. opts' \in Options /\ opts'.cwd = t
      BY <1>1, <2>1, <2>3 DEF Options
    <2>5. ImportsRead(v, i + 2, opts'.cwd)
      BY <2>2, <2>4, Zenon
    <2>. QED
      BY <1>3, <2>1, <2>4, <2>5
  <1>5. CASE Is(v[i], flags)
    <2>1. ~Is(v[i], {"--cwd"})
      BY <1>5 DEF Is
    <2>2. opts' = opts /\ Go("imports", i + 1)
      BY <1>5, <2>1 DEF ImportsOption, parsed
    <2>3. ImportsRead(v, i + 1, opts.cwd)
      BY <1>1, <1>5, ImportsFlagRead
    <2>. HIDE DEF v
    <2>. QED
      BY <1>1, <1>3, <2>2, <2>3
  <1>6. CASE ~(Is(v[i], {"--cwd"}) /\ i < Len(v)) /\ ~Is(v[i], flags)
    <2>. DEFINE unknown == {p \in ImportsOptionPlaces(v) : ~Is(v[p], {"--cwd", "--quiet", "--verbose", "--strict"})}
                last == {p \in ImportsOptionPlaces(v) : p = Len(v) /\ Is(v[p], {"--cwd"})}
    <2>1. pc' = "done" /\ UNCHANGED <<world, command>>
      BY <1>6 DEF ImportsOption, Reject
    <2>2. i \in unknown \cup last
      <3>1. i < Len(v) \/ i = Len(v)
        BY <1>1, <1>2
      <3>2. Is(v[i], {"--cwd", "--quiet", "--verbose", "--strict"}) => Is(v[i], {"--cwd"})
        BY <1>6 DEF Is
      <3>. QED
        BY <1>2, <1>6, <3>1, <3>2
    <2>3. command' = None /\ values' = v
      BY <1>1, <2>1 DEF values
    <2>4. ImportsParsedAsDocumented'
      <3>1. unknown \cup last # {}
        BY <2>2
      <3>. QED
        BY <2>3, <3>1, Zenon DEF ImportsParsedAsDocumented
    <2>5. ~Is(v[1], {"run"})
      BY <1>1, OneSubcommand
    <2>. QED
      BY <2>1, <2>4, <2>5, ParseEnds
  <1>. QED
    BY <1>4, <1>5, <1>6

\* The end of imports.
LEMMA ImportsEndKeeps == ASSUME ParseInv, ImportsEnd PROVE ParseInv'
  <1>. DEFINE v == values
              O == ImportsOptionPlaces(v)
              unknown == {p \in O : ~Is(v[p], {"--cwd", "--quiet", "--verbose", "--strict"})}
              last == {p \in O : p = Len(v) /\ Is(v[p], {"--cwd"})}
              record == [kind |-> "Imports", module_path |-> v[2], cwd |-> LastValue(v, O, {"--cwd"}, None)]
  <1>1. /\ pc = "imports" /\ i > Len(v) /\ opts \in Options
        /\ Is(v[1], {"imports"}) /\ ImportsRead(v, i, opts.cwd)
        /\ pc' = "done" /\ UNCHANGED world /\ values' = v
        /\ command' = [kind |-> "Imports", module_path |-> v[2], cwd |-> opts.cwd]
    BY DEF ImportsEnd, Accept, ParseInv, values
  <1>2. /\ v \in Seq(Seq(Symbols)) /\ Len(v) \in Nat /\ Len(v) >= 2 /\ i \in Nat /\ i <= Len(v) + 1
        /\ \A p \in O : p < i => /\ Is(v[p], {"--cwd", "--quiet", "--verbose", "--strict"})
                                 /\ Is(v[p], {"--cwd"}) => p + 1 < i
        /\ opts.cwd = LastValue(v, {p \in O : p < i}, {"--cwd"}, None)
        /\ opts.cwd \in Seq(Symbols) \cup {None}
    BY <1>1 DEF ImportsRead
  <1>3. O \in SUBSET (3..Len(v))
    BY <1>2, ImportsPlacesAre
  <1>4. \A p \in O : p \in Int /\ p < i
    BY <1>1, <1>2, <1>3
  <1>5. unknown \cup last = {}
    <2>. HIDE DEF O
    <2>. QED
      BY <1>1, <1>2, <1>4
  <1>6. {p \in O : p < i} = O
    BY <1>4
  <1>7. opts.cwd = LastValue(v, O, {"--cwd"}, None)
    BY <1>2, <1>6, Zenon
  <1>8. command' = record
    BY <1>1, <1>7, Zenon
  <1>9. command' # None
    <2>. DEFINE t == v[2]
    <2>1. t \in Seq(Symbols)
      BY <1>2
    <2>. HIDE DEF t
    <2>2. command' \in [kind : {"Imports"}, module_path : Seq(Symbols), cwd : Seq(Symbols) \cup {None}]
      BY <1>1, <1>2, <2>1 DEF t
    <2>. QED
      BY <2>2, NoneAssumption
  <1>10. ImportsParsedAsDocumented'
    BY <1>1, <1>5, <1>8, <1>9, Zenon DEF ImportsParsedAsDocumented
  <1>11. ~Is(v[1], {"run"})
    BY <1>1, OneSubcommand
  <1>. QED
    BY <1>1, <1>10, <1>11, ParseEnds

\* The subcommand.
LEMMA SubcommandKeeps == ASSUME ParseInv, Subcommand PROVE ParseInv'
  <1>. DEFINE v == values
  <1>1. pc = "parse_from" /\ v # <<>> /\ command = None /\ opts = Defaults /\ world \in Worlds
    BY DEF Subcommand, ParseInv
  <1>2. v \in Seq(Seq(Symbols)) /\ Len(v) \in Nat
    BY <1>1, ValuesType
  <1>3. CASE Len(v) = 1 \/ ~Is(v[1], {"run", "imports", "com"})
    <2>1. pc' = "done" /\ UNCHANGED <<world, command>>
      BY <1>3 DEF Subcommand, Reject
    <2>2. command' = None /\ values' = v
      BY <1>1, <2>1 DEF values
    <2>3. ASSUME Is(v[1], {"run"}) \/ Is(v[1], {"imports"}) PROVE Len(v) = 1
      BY <1>3, <2>3 DEF Is
    <2>4. ASSUME Is(v[1], {"run"}) PROVE RunParsedAsDocumented'
      <3>. DEFINE Targets == {p \in OptionPlaces(v) : ~Dashed(v[p])}
      <3>1. OptionPlaces(v) \subseteq 2..1
        BY <1>2, <2>3, <2>4, PlacesAre
      <3>2. Targets = {}
        BY <3>1
      <3>. QED
        BY <2>2, <3>2, Zenon DEF RunParsedAsDocumented
    <2>5. ASSUME Is(v[1], {"imports"}) PROVE ImportsParsedAsDocumented'
      BY <2>2, <2>3, <2>5, Zenon DEF ImportsParsedAsDocumented
    <2>. QED
      BY <2>1, <2>4, <2>5, ParseEnds
  <1>4. CASE Len(v) # 1 /\ Is(v[1], {"run", "imports", "com"})
    <2>1. /\ pc' = v[1][1] /\ i' = (IF Is(v[1], {"run"}) THEN 2 ELSE 3)
          /\ UNCHANGED <<world, command>> /\ opts' = opts
      BY <1>4 DEF Subcommand, Go, parsed
    <2>2. values' = v /\ world' \in Worlds
      BY <1>1, <2>1 DEF values
    <2>3. CASE Is(v[1], {"run"})
      <3>1. pc' = "run" /\ i' = 2
        BY <2>1, <2>3, OneSubcommand
      <3>2. RunRead(values, i, opts)'
        <4>1. RunRead(v, 2, Defaults)
          BY <1>1, <1>2, RunReadStart
        <4>. QED
          BY <1>1, <2>1, <2>2, <3>1, <4>1, Zenon
      <3>. QED
        BY <1>1, <2>1, <2>2, <2>3, <3>1, <3>2 DEF ParseInv, ParsedAsDocumented
    <2>4. CASE Is(v[1], {"imports"})
      <3>1. pc' = "imports" /\ i' = 3
        BY <2>1, <2>4, OneSubcommand
      <3>2. Defaults.cwd = None /\ Defaults \in Options
        BY DEF Defaults, Options
      <3>3. ImportsRead(values, i, opts.cwd)'
        <4>1. ImportsRead(v, 3, None)
          BY <1>1, <1>2, <1>4, ImportsReadStart
        <4>. QED
          BY <1>1, <2>1, <2>2, <3>1, <3>2, <4>1, Zenon
      <3>. QED
        BY <1>1, <2>1, <2>2, <2>4, <3>1, <3>2, <3>3 DEF ParseInv, ParsedAsDocumented
    <2>5. CASE Is(v[1], {"com"})
      <3>1. pc' = "com"
        BY <2>1, <2>5, OneSubcommand
      <3>. QED
        BY <1>1, <2>1, <2>2, <2>5, <3>1 DEF ParseInv, ParsedAsDocumented
    <2>. QED
      BY <1>4, <2>3, <2>4, <2>5 DEF Is
  <1>. QED
    BY <1>3, <1>4

\* Every step keeps it.
LEMMA ParseStep == ASSUME ParseInv, [Next]_vars PROVE ParseInv'
  <1>1. CASE UNCHANGED vars
    BY <1>1 DEF vars, parsed, values, ParseInv, ParsedAsDocumented,
                RunParsedAsDocumented, ImportsParsedAsDocumented
  \* com and help, and what is done after the parsing
  <1>2. ASSUME UNCHANGED world, pc' \in {"launch", "done"},
               values = <<>> \/ ~(Is(values[1], {"run"}) \/ Is(values[1], {"imports"}))
        PROVE  ParseInv'
    <2>1. values' = values /\ world' \in Worlds
      BY <1>2 DEF values, ParseInv
    <2>2. ParsedAsDocumented'
      BY <1>2, <2>1, Zenon DEF ParsedAsDocumented
    <2>. QED
      BY <1>2, <2>1, <2>2 DEF ParseInv
  <1>3. CASE Help
    <2>1. values = <<>> \/ Is(values[1], {"-h", "--help", "help"})
      BY <1>3 DEF Help
    <2>2. ASSUME Is(values[1], {"-h", "--help", "help"})
          PROVE  ~(Is(values[1], {"run"}) \/ Is(values[1], {"imports"}))
      BY <2>2 DEF Is
    <2>3. pc' = "done" /\ UNCHANGED world
      BY <1>3 DEF Help
    <2>. QED
      BY <1>2, <2>1, <2>2, <2>3
  <1>4. CASE Subcommand
    BY <1>4, SubcommandKeeps
  <1>5. CASE RunOption
    BY <1>5, RunOptionKeeps
  <1>6. CASE RunTarget
    BY <1>6, RunTargetKeeps
  <1>7. CASE Launch
    <2>1. pc = "launch" /\ pc' = "done" /\ UNCHANGED <<world, command>>
      BY <1>7 DEF Launch, Reject
    <2>2. values' = values
      BY <2>1 DEF values
    <2>3. ParsedAsDocumented'
      BY <2>1, <2>2 DEF ParseInv, ParsedAsDocumented, RunParsedAsDocumented, ImportsParsedAsDocumented
    <2>. QED
      BY <2>1, <2>3 DEF ParseInv
  <1>8. CASE ImportsOption
    BY <1>8, ImportsOptionKeeps
  <1>9. CASE ImportsEnd
    BY <1>9, ImportsEndKeeps
  <1>10. CASE ComToken \/ ComEnd
    <2>1. pc = "com" /\ Is(values[1], {"com"}) /\ command = None
      BY <1>10 DEF ComToken, ComEnd, ParseInv
    <2>2. ~(Is(values[1], {"run"}) \/ Is(values[1], {"imports"}))
      BY <2>1, OneSubcommand
    <2>3. CASE pc' = "done" /\ UNCHANGED world
      BY <1>2, <2>2, <2>3
    <2>4. CASE pc' = "com" /\ UNCHANGED <<world, command>>
      <3>1. values' = values
        BY <2>4 DEF values
      <3>. QED
        BY <2>1, <2>4, <3>1 DEF ParseInv, ParsedAsDocumented
    <2>. QED
      BY <1>10, <2>3, <2>4 DEF ComToken, ComEnd, Reject, Accept, Go
  <1>11. CASE Done
    BY <1>1, <1>11 DEF Done
  <1>. QED
    BY <1>1, <1>3, <1>4, <1>5, <1>6, <1>7, <1>8, <1>9, <1>10, <1>11 DEF Next

\* A command line of run or imports that is let through means what the
\* documentation says, and none is refused without a reason.
THEOREM ReadAsDocumented == Spec => []ParsedAsDocumented
  <1>1. Init => ParseInv
    BY ParseInitially
  <1>2. ParseInv /\ [Next]_vars => ParseInv'
    BY ParseStep
  <1>3. ParseInv => ParsedAsDocumented
    BY DEF ParseInv
  <1>. QED
    BY <1>1, <1>2, <1>3, PTL DEF Spec

=============================================================================
