--------------------------- MODULE Program_proofs ---------------------------
(***************************************************************************)
(* Proofs about Program: that a reboot keeps the files, that an erase is   *)
(* complete, and that descriptors, speeds and log lines survive, for any   *)
(* command lines, entries, ports, devices and descriptors.                 *)
(***************************************************************************)
EXTENDS Program, SequenceTheorems, WellFoundedInduction, TLAPS

-----------------------------------------------------------------------------
(* The arguments.  Induction over the position in a command line is the    *)
(* choice of the least position where a claim fails.                       *)

\* A set of natural numbers has a least one.
LEMMA Least ==
    ASSUME NEW T \in SUBSET Nat, T # {}
    PROVE  \E m \in T : \A k \in T : m <= k
  <1> DEFINE Less == {ss \in Nat \X Nat : ss[1] < ss[2]}
  <1>1. IsWellFoundedOn(Less, Nat)
    BY NatLessThanWellFounded, Zenon DEF OpToRel
  <1>2. PICK m \in T : \A k \in T : ~(<<k, m>> \in Less)
    <2> HIDE DEF Less
    <2> QED  BY <1>1, WFMin
  <1>3. \A k \in T : ~(k < m)
    BY <1>2
  <1> QED  BY <1>3

\* The functions on 0 .. n that start with x and go on by steps.
Runs(T, x, n, step) ==
    {g \in [0 .. n -> T] :
        g[0] = x /\ \A i \in 1 .. n : g[i] = step[i][g[i - 1]]}

\* There is one, which is what a recursive function is.
LEMMA RunExists ==
    ASSUME NEW T, NEW x \in T, NEW n \in Nat, NEW step \in [1 .. n -> [T -> T]]
    PROVE  Runs(T, x, n, step) # {}
  <1> DEFINE Fail == {k \in 0 .. n : Runs(T, x, k, step) = {}}
  <1>1. Runs(T, x, 0, step) # {}
    <2> DEFINE g == [i \in 0 .. 0 |-> x]
    <2>1. g \in Runs(T, x, 0, step)
      BY DEF Runs
    <2> QED  BY <2>1
  <1>2. ASSUME NEW k \in 1 .. n, Runs(T, x, k - 1, step) # {}
        PROVE  Runs(T, x, k, step) # {}
    <2>1. PICK g \in [0 .. k - 1 -> T] :
             g[0] = x /\ \A i \in 1 .. k - 1 : g[i] = step[i][g[i - 1]]
      BY <1>2 DEF Runs
    <2> DEFINE f == [i \in 0 .. k |-> IF i = k THEN step[k][g[k - 1]] ELSE g[i]]
    <2>2. g[k - 1] \in T /\ step[k] \in [T -> T]
      BY <2>1
    <2>3. f \in [0 .. k -> T]
      BY <2>2
    <2>4. \A i \in 0 .. k - 1 : f[i] = g[i]
      OBVIOUS
    <2>5. f[0] = x
      BY <2>1
    <2>6. f[k] = step[k][g[k - 1]] /\ f[k - 1] = g[k - 1]
      OBVIOUS
    <2>7. ASSUME NEW i \in 1 .. k PROVE f[i] = step[i][f[i - 1]]
      <3> HIDE DEF f
      <3>1. CASE i = k
        BY <2>6, <3>1
      <3>2. CASE i # k
        <4>1. i \in 1 .. k - 1 /\ i \in 0 .. k - 1 /\ i - 1 \in 0 .. k - 1
          BY <3>2
        <4> QED  BY <2>1, <2>4, <4>1
      <3> QED  BY <3>1, <3>2
    <2>8. f \in Runs(T, x, k, step)
      <3> HIDE DEF f
      <3> QED  BY <2>3, <2>5, <2>7 DEF Runs
    <2> QED  BY <2>8
  <1>3. ASSUME Fail # {} PROVE FALSE
    <2>1. PICK m \in Fail : \A k \in Fail : m <= k
      <3>1. Fail \in SUBSET Nat
        OBVIOUS
      <3> HIDE DEF Fail
      <3> QED  BY <1>3, <3>1, Least
    <2>2. m # 0 /\ m - 1 \in 0 .. n /\ m - 1 \notin Fail
      BY <1>1, <2>1
    <2> QED  BY <1>2, <2>1, <2>2
  <1> QED  BY <1>3

\* IsDir looks one word back.
LEMMA IsDirDef ==
    ASSUME NEW W, NEW a \in Seq(W)
    PROVE  /\ R!IsDir(a) \in [0 .. Len(a) -> BOOLEAN]
           /\ \A i \in 0 .. Len(a) :
                 R!IsDir(a)[i] <=> i > 1 /\ a[i - 1] = "-d" /\ ~R!IsDir(a)[i - 1]
  <1> DEFINE n == Len(a)
             T == {"dir", "word"}
             step == [i \in 1 .. n |-> [b \in T |->
                         IF i > 1 /\ a[i - 1] = "-d" /\ b = "word" THEN "dir"
                         ELSE "word"]]
  <1>1. n \in Nat /\ "word" \in T
    OBVIOUS
  <1>2. step \in [1 .. n -> [T -> T]]
    OBVIOUS
  <1>3. PICK g \in [0 .. n -> T] :
           g[0] = "word" /\ \A i \in 1 .. n : g[i] = step[i][g[i - 1]]
    <2> HIDE DEF n, step, T
    <2>1. Runs(T, "word", n, step) # {}
      BY <1>1, <1>2, RunExists
    <2> QED  BY <2>1 DEF Runs
  <1> DEFINE d == [i \in 0 .. n |-> g[i] = "dir"]
             next(dir) == [i \in 0 .. n |-> i > 1 /\ a[i - 1] = "-d" /\ ~dir[i - 1]]
             e == CHOOSE dir : dir = next(dir)
  <1>4. d = next(d)
    <2>1. \A i \in 1 .. n :
             g[i] = "dir" <=> (i > 1 /\ a[i - 1] = "-d" /\ g[i - 1] = "word")
      BY <1>3
    <2>2. \A i \in 0 .. n : d[i] <=> (i > 1 /\ a[i - 1] = "-d" /\ ~d[i - 1])
      <3>1. ASSUME NEW i \in 1 .. n
            PROVE  d[i] <=> (i > 1 /\ a[i - 1] = "-d" /\ ~d[i - 1])
        <4>1. g[i - 1] \in T /\ d[i] = (g[i] = "dir") /\ d[i - 1] = (g[i - 1] = "dir")
          BY <1>3
        <4> HIDE DEF d
        <4> QED  BY <2>1, <4>1
      <3>2. ~d[0]
        BY <1>3
      <3> HIDE DEF d
      <3> QED  BY <3>1, <3>2
    <2> QED  BY <2>2
  <1>5. e = next(e)
    <2> HIDE DEF d, next
    <2> QED  BY <1>4, Zenon
  <1>6. R!IsDir(a) = e
    BY DEF R!IsDir
  <1>7. e \in [0 .. n -> BOOLEAN]
        /\ \A i \in 0 .. n : e[i] <=> i > 1 /\ a[i - 1] = "-d" /\ ~e[i - 1]
    <2> HIDE DEF e
    <2> QED  BY <1>5
  <1> HIDE DEF e
  <1> QED  BY <1>6, <1>7

\* What the loop of Without has copied before each word of a.
Copies(kept, a, words, W) ==
    /\ kept \in [0 .. Len(a) -> Seq(W)]
    /\ kept[0] = <<>>
    /\ \A i \in 1 .. Len(a) :
          kept[i] = IF a[i] \in words THEN kept[i - 1]
                    ELSE Append(kept[i - 1], a[i])

\* It copies word by word.
LEMMA WithoutDef ==
    ASSUME NEW W, NEW a \in Seq(W), NEW words
    PROVE  \E kept : /\ Copies(kept, a, words, W)
                     /\ R!Without(a, words) = kept[Len(a)]
  <1> DEFINE n == Len(a)
             T == Seq(W)
             copied(s, i) == IF a[i] \in words THEN s ELSE Append(s, a[i])
             step == [i \in 1 .. n |-> [s \in T |-> copied(s, i)]]
             next(kept) ==
                 [i \in 0 .. n |-> IF i = 0 THEN <<>> ELSE copied(kept[i - 1], i)]
             e == CHOOSE kept : kept = next(kept)
  <1>1. n \in Nat /\ <<>> \in T
    OBVIOUS
  <1>2. \A i \in 1 .. n : \A s \in T : copied(s, i) \in T
    OBVIOUS
  <1>3. R!Without(a, words) = e[n]
    BY DEF R!Without
  <1> HIDE DEF n, T, copied
  <1>4. step \in [1 .. n -> [T -> T]]
    BY <1>2
  <1> HIDE DEF step
  <1>5. PICK g \in [0 .. n -> T] :
           g[0] = <<>> /\ \A i \in 1 .. n : g[i] = step[i][g[i - 1]]
    <2>1. Runs(T, <<>>, n, step) # {}
      BY <1>1, <1>4, RunExists
    <2> QED  BY <2>1 DEF Runs
  <1>6. \A i \in 1 .. n : g[i - 1] \in T /\ g[i] = copied(g[i - 1], i)
    <2>1. \A i \in 1 .. n : i - 1 \in 0 .. n
      BY <1>1
    <2>2. ASSUME NEW i \in 1 .. n PROVE g[i - 1] \in T
      BY <2>1, <1>5
    <2>3. ASSUME NEW i \in 1 .. n PROVE g[i] = copied(g[i - 1], i)
      BY <1>5, <2>2 DEF step
    <2> QED  BY <2>2, <2>3
  <1>7. g = next(g)
    BY <1>1, <1>5, <1>6
  <1>8. e = next(e)
    <2> HIDE DEF next
    <2> QED  BY <1>7, Zenon
  <1> HIDE DEF e
  <1>9. e[0] = <<>> /\ \A i \in 1 .. n : e[i] = copied(e[i - 1], i)
    BY <1>1, <1>8
  <1>10. DOMAIN e = 0 .. n /\ e = [i \in 0 .. n |-> e[i]]
    BY <1>8
  <1>11. \A i \in 0 .. n : e[i] \in T
    <2> DEFINE Fail == {i \in 0 .. n : e[i] \notin T}
    <2>1. ASSUME Fail # {} PROVE FALSE
      <3>1. PICK m \in Fail : \A k \in Fail : m <= k
        <4>1. Fail \in SUBSET Nat
          OBVIOUS
        <4> HIDE DEF Fail
        <4> QED  BY <2>1, <4>1, Least
      <3>2. m \in 1 .. n /\ e[m - 1] \in T
        BY <1>1, <1>9, <3>1
      <3> QED  BY <1>2, <1>9, <3>1, <3>2
    <2> QED  BY <2>1
  <1>12. e \in [0 .. n -> T]
    BY <1>10, <1>11
  <1> QED  BY <1>3, <1>9, <1>12 DEF n, T, copied, Copies

\* s is what is left of the first k words of a without some words: e says where
\* each word of s was.
Embeds(e, s, a, k, words) ==
    /\ e \in [1 .. Len(s) -> 1 .. k]
    /\ \A i \in 1 .. Len(s), j \in 1 .. Len(s) : i < j => e[i] < e[j]
    /\ \A j \in 1 .. Len(s) : s[j] = a[e[j]] /\ s[j] \notin words
    /\ \A p \in 1 .. k : a[p] \notin words => \E j \in 1 .. Len(s) : e[j] = p

\* The loop leaves the words that it does not drop, in their order.
LEMMA WithoutEmbeds ==
    ASSUME NEW W, NEW a \in Seq(W), NEW words
    PROVE  /\ R!Without(a, words) \in Seq(W)
           /\ \E e : Embeds(e, R!Without(a, words), a, Len(a), words)
  <1> DEFINE n == Len(a)
  <1>1. PICK kept \in [0 .. n -> Seq(W)] :
           /\ kept[0] = <<>>
           /\ \A i \in 1 .. n :
                 kept[i] = IF a[i] \in words THEN kept[i - 1]
                           ELSE Append(kept[i - 1], a[i])
           /\ R!Without(a, words) = kept[n]
    <2>1. PICK kept : /\ Copies(kept, a, words, W)
                      /\ R!Without(a, words) = kept[Len(a)]
      BY WithoutDef
    <2> QED  BY <2>1 DEF Copies
  <1> DEFINE Done(k) == \E e : Embeds(e, kept[k], a, k, words)
             Fail == {k \in 0 .. n : ~Done(k)}
  <1>2. Done(0)
    <2>1. Embeds(<<>>, <<>>, a, 0, words)
      BY DEF Embeds
    <2> QED  BY <1>1, <2>1
  <1>3. ASSUME NEW k \in 1 .. n, Done(k - 1) PROVE Done(k)
    <2> DEFINE s == kept[k - 1]
               l == Len(s)
    <2>1. PICK e : Embeds(e, s, a, k - 1, words)
      BY <1>3
    <2>2. s \in Seq(W) /\ l \in Nat /\ a[k] \in W /\ k \in Nat /\ k - 1 \in Nat
      BY <1>1
    <2>3. CASE a[k] \in words
      <3>1. kept[k] = s
        BY <1>1, <2>3
      <3> HIDE DEF s
      <3>2. Embeds(e, s, a, k, words)
        BY <2>1, <2>2, <2>3 DEF Embeds
      <3> QED  BY <3>1, <3>2
    <2>4. CASE a[k] \notin words
      <3> DEFINE f == [j \in 1 .. l + 1 |-> IF j = l + 1 THEN k ELSE e[j]]
                 t == Append(s, a[k])
      <3>1. kept[k] = t
        BY <1>1, <2>4
      <3> HIDE DEF s
      <3>2. /\ Len(t) = l + 1 /\ t[l + 1] = a[k]
            /\ \A j \in 1 .. l : t[j] = s[j]
        BY <2>2
      <3> HIDE DEF t
      <3>3. /\ e \in [1 .. l -> 1 .. k - 1]
            /\ \A i \in 1 .. l, j \in 1 .. l : i < j => e[i] < e[j]
            /\ \A j \in 1 .. l : s[j] = a[e[j]] /\ s[j] \notin words
            /\ \A p \in 1 .. k - 1 : a[p] \notin words => \E j \in 1 .. l : e[j] = p
        BY <2>1 DEF Embeds
      <3> HIDE DEF l
      <3>4. f \in [1 .. l + 1 -> 1 .. k]
        BY <2>2, <3>3
      <3>5. f[l + 1] = k /\ \A j \in 1 .. l : f[j] = e[j]
        BY <2>2
      <3> HIDE DEF f
      <3>6. \A i \in 1 .. l + 1, j \in 1 .. l + 1 : i < j => f[i] < f[j]
        <4> SUFFICES ASSUME NEW i \in 1 .. l + 1, NEW j \in 1 .. l + 1, i < j
                     PROVE  f[i] < f[j]
          OBVIOUS
        <4>1. i \in 1 .. l /\ e[i] \in 1 .. k - 1
          BY <2>2, <3>3
        <4>2. CASE j = l + 1
          BY <2>2, <3>5, <4>1, <4>2
        <4>3. CASE j # l + 1
          <5>1. j \in 1 .. l
            BY <2>2, <4>3
          <5> QED  BY <3>3, <3>5, <4>1, <5>1
        <4> QED  BY <4>2, <4>3
      <3>7. \A j \in 1 .. l + 1 : t[j] = a[f[j]] /\ t[j] \notin words
        <4> SUFFICES ASSUME NEW j \in 1 .. l + 1
                     PROVE  t[j] = a[f[j]] /\ t[j] \notin words
          OBVIOUS
        <4>1. CASE j = l + 1
          BY <2>4, <3>2, <3>5, <4>1
        <4>2. CASE j # l + 1
          <5>1. j \in 1 .. l
            BY <2>2, <4>2
          <5> QED  BY <3>2, <3>3, <3>5, <5>1
        <4> QED  BY <4>1, <4>2
      <3>8. ASSUME NEW p \in 1 .. k, a[p] \notin words
            PROVE  \E j \in 1 .. l + 1 : f[j] = p
        <4>1. CASE p = k
          <5>1. l + 1 \in 1 .. l + 1
            BY <2>2
          <5> QED  BY <3>5, <4>1, <5>1
        <4>2. CASE p # k
          <5>1. p \in 1 .. k - 1
            BY <2>2, <4>2
          <5>2. PICK j \in 1 .. l : e[j] = p
            BY <3>3, <3>8, <5>1
          <5>3. j \in 1 .. l + 1
            BY <2>2
          <5> QED  BY <3>5, <5>2, <5>3
        <4> QED  BY <4>1, <4>2
      <3>9. Embeds(f, t, a, k, words)
        BY <3>2, <3>4, <3>6, <3>7, <3>8 DEF Embeds
      <3> QED  BY <3>1, <3>9
    <2> QED  BY <2>3, <2>4
  <1>4. n \in Nat
    OBVIOUS
  <1> HIDE DEF Done, n
  <1>5. ASSUME Fail # {} PROVE FALSE
    <2>1. PICK m \in Fail : \A k \in Fail : m <= k
      <3>1. Fail \in SUBSET Nat
        OBVIOUS
      <3> HIDE DEF Fail
      <3> QED  BY <1>5, <3>1, Least
    <2>2. m \in 1 .. n /\ m - 1 \in 0 .. n /\ m - 1 \notin Fail
      BY <1>2, <1>4, <2>1
    <2> QED  BY <1>3, <2>1, <2>2
  <1>6. Done(n)
    <2>1. n \in 0 .. n
      BY <1>4
    <2> QED  BY <1>5, <2>1
  <1> QED  BY <1>1, <1>4, <1>6 DEF Done, n

\* The words between two that are left were dropped, and so were those before the
\* first and behind the last.
LEMMA GapDropped ==
    ASSUME NEW W, NEW s \in Seq(W), NEW a, NEW k \in Nat, NEW words, NEW e,
           Embeds(e, s, a, k, words),
           NEW j \in 0 .. Len(s), NEW p \in 1 .. k,
           j # 0 => e[j] < p, j # Len(s) => p < e[j + 1]
    PROVE  a[p] \in words
  <1> DEFINE m == Len(s)
  <1>1. m \in Nat
    OBVIOUS
  <1>2. /\ e \in [1 .. m -> 1 .. k]
        /\ \A i \in 1 .. m, l \in 1 .. m : i < l => e[i] < e[l]
        /\ a[p] \notin words => \E i \in 1 .. m : e[i] = p
    BY DEF Embeds
  <1> HIDE DEF m
  <1>3. ASSUME NEW i \in 1 .. m, e[i] = p PROVE FALSE
    <2>1. CASE i <= j
      <3>1. j \in 1 .. m /\ e[j] \in 1 .. k /\ e[i] \in 1 .. k
        BY <1>1, <1>2, <2>1 DEF m
      <3>2. i = j \/ e[i] < e[j]
        BY <1>1, <1>2, <2>1, <3>1
      <3> QED  BY <1>3, <3>1, <3>2
    <2>2. CASE j < i
      <3>1. /\ j + 1 \in 1 .. m /\ j # m /\ e[j + 1] \in 1 .. k
            /\ e[i] \in 1 .. k
        BY <1>1, <1>2, <2>2 DEF m
      <3>2. j + 1 = i \/ e[j + 1] < e[i]
        BY <1>1, <1>2, <2>2, <3>1
      <3> QED  BY <1>3, <3>1, <3>2 DEF m
    <2>3. j \in Nat /\ i \in Nat
      BY <1>1 DEF m
    <2> QED  BY <2>1, <2>2, <2>3
  <1> QED  BY <1>2, <1>3

\* The word that a -d takes is never dropped: it is the next that is left.
LEMMA DirFollows ==
    ASSUME NEW W, NEW a \in Seq(W), NEW s \in Seq(W), NEW e,
           Embeds(e, s, a, Len(a), R!EraseWords), R!DirsKept(a),
           NEW j \in 1 .. Len(s), s[j] = "-d", ~R!IsDir(a)[e[j]],
           e[j] # Len(a)
    PROVE  j < Len(s) /\ e[j + 1] = e[j] + 1
  <1> DEFINE n == Len(a)
             m == Len(s)
             p == e[j] + 1
  <1>1. n \in Nat /\ m \in Nat
    OBVIOUS
  <1>2. /\ e \in [1 .. m -> 1 .. n] /\ s[j] = a[e[j]]
        /\ \A i \in 1 .. m, l \in 1 .. m : i < l => e[i] < e[l]
    BY DEF Embeds
  <1>3. e[j] \in 1 .. n /\ p \in 1 .. n
    BY <1>1, <1>2
  <1>4. R!IsDir(a)[p]
    BY <1>2, <1>3, IsDirDef
  <1>5. a[p] \notin R!EraseWords
    BY <1>3, <1>4 DEF R!DirsKept, R!Options
  <1> HIDE DEF n, m
  <1>6. j # m /\ ~(p < e[j + 1])
    <2>1. j \in 0 .. m /\ e[j] < p
      BY <1>1, <1>3 DEF m
    <2>2. ASSUME j # m => p < e[j + 1] PROVE FALSE
      BY <1>1, <1>3, <1>5, <2>1, <2>2, GapDropped DEF m, n
    <2> QED  BY <2>2
  <1>7. j + 1 \in 1 .. m /\ j < m
    BY <1>1, <1>6 DEF m
  <1>8. e[j] < e[j + 1] /\ e[j + 1] \in 1 .. n
    BY <1>1, <1>2, <1>7 DEF m
  <1>9. e[j + 1] = p
    BY <1>1, <1>3, <1>6, <1>8
  <1> QED  BY <1>7, <1>9 DEF m

\* A word that is left is the DIR of a -d if it was.
LEMMA DirEmbeds ==
    ASSUME NEW W, NEW a \in Seq(W), NEW s \in Seq(W), NEW e,
           Embeds(e, s, a, Len(a), R!EraseWords), R!DirsKept(a)
    PROVE  \A j \in 1 .. Len(s) : R!IsDir(s)[j] <=> R!IsDir(a)[e[j]]
  <1> DEFINE n == Len(a)
             m == Len(s)
             da == R!IsDir(a)
             ds == R!IsDir(s)
             Fail == {j \in 1 .. m : ~(ds[j] <=> da[e[j]])}
  <1>1. n \in Nat /\ m \in Nat
    OBVIOUS
  <1>2. /\ e \in [1 .. m -> 1 .. n]
        /\ \A i \in 1 .. m, l \in 1 .. m : i < l => e[i] < e[l]
        /\ \A j \in 1 .. m : s[j] = a[e[j]] /\ s[j] \notin R!EraseWords
    BY DEF Embeds
  <1>3. /\ \A j \in 1 .. m : ds[j] <=> j > 1 /\ s[j - 1] = "-d" /\ ~ds[j - 1]
        /\ \A p \in 1 .. n : da[p] <=> p > 1 /\ a[p - 1] = "-d" /\ ~da[p - 1]
    BY IsDirDef
  <1>4. "-d" \notin R!EraseWords
    BY DEF R!EraseWords
  \* A word after one that was dropped is no DIR.
  <1>5. ASSUME NEW j \in 1 .. m, e[j] # 1, j # 1 => e[j - 1] # e[j] - 1
        PROVE  ~da[e[j]]
    <2>1. e[j] \in 1 .. n /\ e[j] - 1 \in 1 .. n /\ j - 1 \in 0 .. m
      BY <1>1, <1>2, <1>5
    <2>2. j # 1 => e[j - 1] < e[j] - 1
      <3> SUFFICES ASSUME j # 1 PROVE e[j - 1] < e[j] - 1
        OBVIOUS
      <3>1. j - 1 \in 1 .. m
        BY <1>1
      <3>2. e[j - 1] \in 1 .. n /\ e[j - 1] < e[j]
        BY <1>1, <1>2, <3>1
      <3> QED  BY <1>5, <2>1, <3>2
    <2>3. j - 1 # m /\ (j - 1) + 1 = j /\ e[j] - 1 < e[j]
      BY <1>1, <2>1
    <2>4. a[e[j] - 1] \in R!EraseWords
      BY <1>1, <2>1, <2>2, <2>3, GapDropped
    <2> QED  BY <1>3, <1>4, <2>1, <2>4
  <1>6. ASSUME NEW j \in 1 .. m, j # 1 => (ds[j - 1] <=> da[e[j - 1]])
        PROVE  ds[j] <=> da[e[j]]
    <2>1. e[j] \in 1 .. n
      BY <1>2
    <2>2. CASE j = 1
      <3>1. ~ds[j]
        BY <1>3, <2>2
      <3>2. CASE e[j] = 1
        BY <1>3, <2>1, <3>1, <3>2
      <3>3. CASE e[j] # 1
        BY <1>5, <2>2, <3>1, <3>3
      <3> QED  BY <3>2, <3>3
    <2>3. CASE j # 1
      <3>1. j - 1 \in 1 .. m /\ (j - 1) + 1 = j /\ j > 1
        BY <1>1, <2>3
      <3>2. /\ s[j - 1] = a[e[j - 1]] /\ e[j - 1] \in 1 .. n
            /\ e[j - 1] < e[j]
        BY <1>1, <1>2, <3>1
      <3>3. CASE e[j - 1] = e[j] - 1
        <4>1. e[j] > 1
          BY <2>1, <3>2
        <4> QED  BY <1>3, <1>6, <2>1, <2>3, <3>1, <3>2, <3>3, <4>1
      <3>4. CASE e[j - 1] # e[j] - 1
        <4>1. e[j] # 1 /\ e[j] # e[j - 1] + 1 /\ e[j - 1] # n
          BY <1>1, <2>1, <3>2, <3>4
        <4>2. ~da[e[j]]
          BY <1>5, <3>4, <4>1
        <4>3. ~(s[j - 1] = "-d" /\ ~da[e[j - 1]])
          BY <3>1, <4>1, DirFollows
        <4> QED  BY <1>3, <1>6, <2>3, <4>2, <4>3
      <3> QED  BY <3>3, <3>4
    <2> QED  BY <2>2, <2>3
  <1> HIDE DEF n, m, da, ds
  <1>7. ASSUME Fail # {} PROVE FALSE
    <2>1. PICK l \in Fail : \A k \in Fail : l <= k
      <3>1. Fail \in SUBSET Nat
        BY <1>1
      <3> HIDE DEF Fail
      <3> QED  BY <1>7, <3>1, Least
    <2>2. l \in 1 .. m /\ l - 1 \notin Fail /\ (l # 1 => l - 1 \in 1 .. m)
      BY <1>1, <2>1
    <2> QED  BY <1>6, <2>1, <2>2
  <1>8. \A j \in 1 .. m : ds[j] <=> da[e[j]]
    BY <1>7
  <1> QED  BY <1>8 DEF m, da, ds

\* Positions in a command line have a last one, which CHOOSE finds.
LEMMA LastOf ==
    ASSUME NEW n \in Nat, NEW D \in SUBSET (1 .. n), D # {}
    PROVE  LET c == CHOOSE i \in D : \A j \in D : j <= i
           IN  c \in D /\ \A j \in D : j <= c
  <1> DEFINE T == {n - i : i \in D}
  <1>1. PICK m \in T : \A k \in T : m <= k
    <2>1. \A i \in D : n - i \in Nat
      OBVIOUS
    <2>2. T \in SUBSET Nat
      BY <2>1
    <2>3. PICK i \in D : TRUE
      OBVIOUS
    <2>4. n - i \in T
      BY <2>3
    <2> HIDE DEF T
    <2> QED  BY <2>2, <2>4, Least
  <1>2. PICK c \in D : m = n - c
    BY <1>1
  <1>3. \A j \in D : j <= c
    <2> SUFFICES ASSUME NEW j \in D PROVE j <= c
      OBVIOUS
    <2>1. n - j \in T /\ m <= n - j
      BY <1>1
    <2> QED  BY <1>2, <2>1
  <1> QED  BY <1>3

\* The positions of the directories that -d names.
Dirs(a) == {i \in 1 .. Len(a) : R!IsDir(a)[i]}

\* FsDir takes the last of them.
LEMMA FsDirLast ==
    ASSUME NEW W, NEW a \in Seq(W)
    PROVE  /\ Dirs(a) = {} => R!FsDir(a) = Default
           /\ Dirs(a) # {} =>
                 \E c \in Dirs(a) : R!FsDir(a) = a[c] /\ \A j \in Dirs(a) : j <= c
  <1>1. Dirs(a) \in SUBSET (1 .. Len(a)) /\ Len(a) \in Nat
    BY DEF Dirs
  <1>2. R!FsDir(a) = IF Dirs(a) = {} THEN Default
                     ELSE a[CHOOSE i \in Dirs(a) : \A j \in Dirs(a) : j <= i]
    BY DEF R!FsDir, Dirs
  <1>3. CASE Dirs(a) = {}
    BY <1>2, <1>3
  <1>4. CASE Dirs(a) # {}
    <2> DEFINE c == CHOOSE i \in Dirs(a) : \A j \in Dirs(a) : j <= i
    <2>1. c \in Dirs(a) /\ \A j \in Dirs(a) : j <= c
      BY <1>1, <1>4, LastOf
    <2>2. R!FsDir(a) = a[c]
      BY <1>2, <1>4
    <2> HIDE DEF c
    <2> QED  BY <1>4, <2>1, <2>2
  <1> QED  BY <1>3, <1>4

\* What a reboot keeps of any arguments asks for an erase only if they abbreviate
\* one; it names the same root, and is accepted if they were, for every command
\* line in which no DIR is spelled -e or --erase.
THEOREM StripSafe ==
    ASSUME NEW W, NEW a \in Seq(W)
    PROVE  /\ R!Strip(a) \in Seq(W)
           /\ R!Abbreviates(R!Strip(a)) <=> R!Abbreviates(a)
           /\ R!Erases(R!Strip(a)) => R!Abbreviates(a)
           /\ R!DirsKept(R!Strip(a))
           /\ R!DirsKept(a) => /\ R!FsDir(R!Strip(a)) = R!FsDir(a)
                               /\ ~R!Refuses(a) => ~R!Refuses(R!Strip(a))
  <1> DEFINE s == R!Strip(a)
             n == Len(a)
             m == Len(s)
  <1>1. s \in Seq(W) /\ \E e : Embeds(e, s, a, n, R!EraseWords)
    BY WithoutEmbeds DEF R!Strip
  <1>2. PICK e : Embeds(e, s, a, n, R!EraseWords)
    BY <1>1
  <1> HIDE DEF s
  <1>3. n \in Nat /\ m \in Nat
    BY <1>1
  <1>4. /\ e \in [1 .. m -> 1 .. n]
        /\ \A i \in 1 .. m, l \in 1 .. m : i < l => e[i] < e[l]
        /\ \A j \in 1 .. m : s[j] = a[e[j]] /\ s[j] \notin R!EraseWords
        /\ \A p \in 1 .. n : a[p] \notin R!EraseWords => \E j \in 1 .. m : e[j] = p
    BY <1>2 DEF Embeds
  <1>5. R!Abbreviates(s) <=> R!Abbreviates(a)
    <2>1. Shortened \cap R!EraseWords = {}
      BY ProgramAssumption DEF ProgramAssumption, R!RuntimeAssumption
    <2>2. R!Abbreviates(s) => R!Abbreviates(a)
      BY <1>4 DEF R!Abbreviates
    <2>3. ASSUME NEW p \in 1 .. n, a[p] \in Shortened PROVE R!Abbreviates(s)
      <3>1. PICK j \in 1 .. m : e[j] = p
        BY <1>4, <2>1, <2>3
      <3>2. s[j] \in Shortened
        BY <1>4, <2>3, <3>1
      <3> QED  BY <3>2 DEF R!Abbreviates
    <2> QED  BY <2>2, <2>3 DEF R!Abbreviates
  <1>6. R!Erases(s) => R!Abbreviates(s)
    BY <1>4 DEF R!Erases, R!Options, R!Abbreviates
  <1>7. R!DirsKept(s)
    BY <1>4 DEF R!DirsKept
  <1> SUFFICES ASSUME R!DirsKept(a)
               PROVE  /\ R!FsDir(s) = R!FsDir(a)
                      /\ ~R!Refuses(a) => ~R!Refuses(s)
    BY <1>1, <1>5, <1>6, <1>7 DEF s
  <1>8. \A j \in 1 .. m : R!IsDir(s)[j] <=> R!IsDir(a)[e[j]]
    BY <1>1, <1>2, DirEmbeds
  <1>9. \A j \in 1 .. m : j \in Dirs(s) <=> e[j] \in Dirs(a)
    BY <1>4, <1>8 DEF Dirs
  <1>10. \A p \in Dirs(a) : \E j \in Dirs(s) : e[j] = p
    <2> SUFFICES ASSUME NEW p \in Dirs(a) PROVE \E j \in Dirs(s) : e[j] = p
      OBVIOUS
    <2>1. p \in 1 .. n /\ a[p] \notin R!EraseWords
      BY DEF Dirs, R!DirsKept, R!Options
    <2>2. PICK j \in 1 .. m : e[j] = p
      BY <1>4, <2>1
    <2> QED  BY <1>9, <2>2
  <1>11. R!FsDir(s) = R!FsDir(a)
    <2>1. CASE Dirs(s) = {}
      BY <1>1, <1>10, <2>1, FsDirLast
    <2>2. CASE Dirs(s) # {}
      <3>1. PICK c \in Dirs(s) : R!FsDir(s) = s[c] /\ \A j \in Dirs(s) : j <= c
        BY <1>1, <2>2, FsDirLast
      <3>2. c \in 1 .. m /\ e[c] \in Dirs(a) /\ Dirs(s) \subseteq 1 .. m
        BY <1>9 DEF Dirs
      <3>3. PICK b \in Dirs(a) : R!FsDir(a) = a[b] /\ \A p \in Dirs(a) : p <= b
        BY <3>2, FsDirLast
      <3>4. PICK j \in Dirs(s) : e[j] = b
        BY <1>10
      <3>5. j \in 1 .. m /\ j <= c /\ e[c] <= b
        BY <3>1, <3>2, <3>3
      <3>6. e[j] \in 1 .. n /\ e[c] \in 1 .. n /\ (j = c \/ e[j] < e[c])
        BY <1>3, <1>4, <3>2, <3>5
      <3>7. e[c] = b
        BY <1>3, <3>4, <3>5, <3>6
      <3> QED  BY <1>4, <3>1, <3>2, <3>3, <3>7
    <2> QED  BY <2>1, <2>2
  <1>12. ASSUME ~R!Refuses(a) PROVE ~R!Refuses(s)
    <2> SUFFICES ASSUME NEW j \in 1 .. m, ~R!IsDir(s)[j],
                        s[j] = Bad \/ (s[j] = "-d" /\ j = m)
                 PROVE  FALSE
      BY DEF R!Refuses, R!Options
    <2>1. e[j] \in 1 .. n /\ ~R!IsDir(a)[e[j]] /\ a[e[j]] = s[j]
      BY <1>4, <1>8
    <2>2. CASE s[j] = Bad
      BY <1>12, <2>1, <2>2 DEF R!Refuses, R!Options
    <2>3. CASE s[j] = "-d" /\ j = m
      <3>1. e[j] # n
        BY <1>12, <2>1, <2>3 DEF R!Refuses, R!Options
      <3>2. j < m
        BY <1>1, <1>2, <2>1, <2>3, <3>1, DirFollows
      <3> QED  BY <1>3, <2>3, <3>2
    <2> QED  BY <2>2, <2>3
  <1> QED  BY <1>11, <1>12

-----------------------------------------------------------------------------
(* The serial ports.                                                       *)

\* What a step of the program is to the serial ports and stdout.
SerialStep ==
    \/ S!Configure \/ S!Next \/ S!Replaced \/ S!Killed
    \/ held' = {} /\ UNCHANGED <<portVars, lineBuffered, cut>>
    \/ UNCHANGED serialVars

LEMMA SerialSteps == [Next]_vars => SerialStep
  BY DEF Next, Start, Main, Loop, Reboot, RebootFails, Restart, SerialStep, vars

\* The system gives the lowest free descriptor.
LEMMA LowestFree ==
    ASSUME S!FreeFds # {}
    PROVE  S!Min(S!FreeFds) \in S!FreeFds
  <1>1. S!FreeFds \in SUBSET Nat
    BY ProgramAssumption DEF ProgramAssumption, S!SerialAssumption, S!FreeFds, S!Fds
  <1>2. PICK m \in S!FreeFds : \A k \in S!FreeFds : m <= k
    BY <1>1, Least
  <1> QED  BY <1>2, Zenon DEF S!Min

\* Every step keeps the types of the serial ports.
LEMMA SerialType == S!TypeOK /\ SerialStep => S!TypeOK'
  <1> SUFFICES ASSUME S!TypeOK, SerialStep PROVE S!TypeOK'
    OBVIOUS
  <1>0. /\ S!SerialAssumption
        /\ tty \in S!Settable /\ speed \in [Devices -> S!Settable]
        /\ Speeds \subseteq S!Settable /\ NoSpeed \in S!Settable
        /\ \A b \in DOMAIN Taken : Taken[b] \in S!Settable
    BY ProgramAssumption DEF ProgramAssumption, S!TypeOK, S!Settable
  <1>1. ASSUME NEW o \in Ports, NEW d \in Devices, S!SetPath(o, d)
        PROVE  S!TypeOK'
    BY <1>1 DEF S!SetPath, S!TypeOK, S!consoleVars
  <1>2. ASSUME NEW o \in Ports
        PROVE  S!Forgotten(o) \in [S!Fds -> Ports \cup {Free, File, Lost}]
    BY DEF S!Forgotten, S!TypeOK
  <1>3. ASSUME NEW o \in Ports, S!Begun(o)
        PROVE  /\ ended' \in [Ports -> BOOLEAN] /\ tidy' \in BOOLEAN
               /\ UNCHANGED <<path, stray, lineBuffered, held, cut>>
    BY <1>3 DEF S!Begun, S!TypeOK, S!consoleVars
  <1>4. ASSUME NEW o \in Ports, NEW baud \in Speeds \cup OddRates, S!Begin(o, baud)
        PROVE  S!TypeOK'
    <2> DEFINE f == S!Min(S!FreeFds)
    <2>1. /\ path[o] \in Devices /\ f \in S!Fds
          /\ serial_port' = [serial_port EXCEPT ![o] = f]
          /\ fds' = [S!Forgotten(o) EXCEPT ![f] = o]
          /\ tty' = S!Rate(baud, speed[path[o]])
          /\ speed' = [speed EXCEPT ![path[o]] = tty']
          /\ asked' = [asked EXCEPT ![path[o]] = @ \cup S!AskedWith(baud)]
          /\ S!Begun(o)
      BY <1>4, LowestFree DEF S!Begin, S!BeginOpens, S!FreeFds
    <2> HIDE DEF f
    <2>2. tty' \in S!Settable /\ speed' \in [Devices -> S!Settable]
      BY <1>0, <2>1 DEF S!Rate
    <2>3. asked' \in [Devices -> SUBSET S!Settable]
      <3>1. S!AskedWith(baud) \subseteq S!Settable
        BY <1>0 DEF S!AskedWith
      <3> QED  BY <2>1, <3>1 DEF S!TypeOK
    <2>4. /\ fds' \in [S!Fds -> Ports \cup {Free, File, Lost}]
          /\ serial_port' \in [Ports -> S!Fds \cup {-1}]
      BY <1>2, <2>1 DEF S!TypeOK
    <2> QED  BY <1>3, <2>1, <2>2, <2>3, <2>4 DEF S!TypeOK
  <1>5. ASSUME NEW o \in Ports, NEW baud \in Speeds \cup OddRates,
               S!BeginFails(o, baud)
        PROVE  S!TypeOK'
    <2>1. /\ serial_port' = [serial_port EXCEPT ![o] = -1]
          /\ fds' = S!Forgotten(o)
          /\ tty' = S!Rate(baud, tty)
          /\ S!Begun(o) /\ UNCHANGED <<speed, asked>>
      BY <1>5 DEF S!BeginFails, S!BeginFailsWith
    <2>2. tty' \in S!Settable
      BY <1>0, <2>1 DEF S!Rate
    <2> QED  BY <1>2, <1>3, <2>1, <2>2 DEF S!TypeOK
  <1>6. ASSUME NEW o \in Ports, S!End(o) \/ S!Use(o) PROVE S!TypeOK'
    <2>1. tidy' \in BOOLEAN /\ stray' \in BOOLEAN
      BY <1>6 DEF S!End, S!Use, S!Touches, S!TypeOK
    <2>2. ended' \in [Ports -> BOOLEAN]
      BY <1>6 DEF S!End, S!Use, S!TypeOK
    <2>3. fds' \in [S!Fds -> Ports \cup {Free, File, Lost}]
      BY <1>6 DEF S!End, S!Use, S!TypeOK
    <2> QED
      BY <1>6, <2>1, <2>2, <2>3 DEF S!End, S!Use, S!TypeOK, S!consoleVars
  <1>7. CASE S!OpenFile \/ \E f \in S!Fds : S!CloseFile(f)
    <2>1. fds' \in [S!Fds -> Ports \cup {Free, File, Lost}]
      BY <1>7 DEF S!OpenFile, S!CloseFile, S!TypeOK
    <2> QED
      BY <1>7, <2>1 DEF S!OpenFile, S!CloseFile, S!TypeOK, S!consoleVars
  <1>8. CASE S!Configure \/ S!WriteByte \/ S!WriteNewline \/ S!Flush
    BY <1>8 DEF S!Configure, S!WriteByte, S!WriteNewline, S!Flush, S!TypeOK,
         S!portVars
  <1>9. CASE S!Replaced \/ S!Killed
    <2>1. S!Objects /\ UNCHANGED speed
      BY <1>9 DEF S!Replaced, S!Killed
    <2>2. /\ serial_port' \in [Ports -> S!Fds \cup {-1}]
          /\ path' \in [Ports -> Devices \cup {NoPath}]
          /\ ended' \in [Ports -> BOOLEAN]
          /\ tty' \in S!Settable /\ asked' \in [Devices -> SUBSET S!Settable]
          /\ lineBuffered' \in BOOLEAN /\ held' \subseteq {"partial", "complete"}
      BY <1>0, <2>1 DEF S!Objects
    <2>3. /\ fds' \in [S!Fds -> Ports \cup {Free, File, Lost}]
          /\ {tidy', stray', cut'} \subseteq BOOLEAN
      BY <1>9 DEF S!Replaced, S!Killed, S!LosesOutput, S!TypeOK
    <2> QED  BY <2>1, <2>2, <2>3 DEF S!TypeOK
  <1>10. CASE held' = {} /\ UNCHANGED <<portVars, lineBuffered, cut>>
    BY <1>10 DEF portVars, S!TypeOK
  <1>11. CASE UNCHANGED serialVars
    BY <1>11 DEF serialVars, portVars, S!TypeOK
  <1> QED
    BY <1>1, <1>4, <1>5, <1>6, <1>7, <1>8, <1>9, <1>10, <1>11
       DEF SerialStep, S!Next

\* A tidy program knows its descriptors: each belongs to the port whose member
\* names it, and a port that is open owns the one it names.
Owns ==
    tidy =>
        /\ ~stray
        /\ \A f \in S!Fds :
              /\ fds[f] # Lost
              /\ fds[f] \in Ports => ~ended[fds[f]] /\ serial_port[fds[f]] = f
        /\ \A o \in Ports :
              ~ended[o] /\ serial_port[o] # -1 => fds[serial_port[o]] = o

\* A begin that keeps the program tidy forgets no descriptor.
LEMMA NoneForgotten ==
    ASSUME S!TypeOK, Owns, NEW o \in Ports, S!Begun(o), tidy'
    PROVE  S!Forgotten(o) = fds /\ \A f \in S!Fds : fds[f] # o
  <1>1. tidy /\ (ended[o] \/ serial_port[o] = -1)
    BY DEF S!Begun
  <1>2. \A f \in S!Fds : fds[f] # o
    BY <1>1 DEF Owns, S!Fds
  <1>3. fds \in [S!Fds -> Ports \cup {Free, File, Lost}]
    BY DEF S!TypeOK
  <1> QED  BY <1>2, <1>3 DEF S!Forgotten

\* Every step keeps a tidy program's knowledge of its descriptors.
LEMMA OwnsStep == S!TypeOK /\ Owns /\ SerialStep => Owns'
  <1> SUFFICES ASSUME S!TypeOK, Owns, SerialStep, tidy' PROVE Owns'
    BY DEF Owns
  <1>0. /\ Ports \cap {Free, File, Lost} = {}
        /\ Free # File /\ File # Lost /\ Lost # Free
    BY ProgramAssumption DEF ProgramAssumption, S!SerialAssumption
  <1>1. /\ fds \in [S!Fds -> Ports \cup {Free, File, Lost}]
        /\ serial_port \in [Ports -> S!Fds \cup {-1}]
        /\ ended \in [Ports -> BOOLEAN]
        /\ -1 \notin S!Fds
    BY DEF S!TypeOK, S!Fds
  <1>2. ASSUME UNCHANGED <<serial_port, ended, fds, tidy, stray>> PROVE Owns'
    BY <1>2 DEF Owns
  <1>3. ASSUME NEW o \in Ports, NEW baud \in Speeds \cup OddRates,
               S!Begin(o, baud)
        PROVE  Owns'
    <2> DEFINE f == S!Min(S!FreeFds)
    <2>1. f \in S!Fds /\ fds[f] = Free
      BY <1>3, LowestFree DEF S!Begin, S!BeginOpens, S!FreeFds
    <2>2. /\ serial_port' = [serial_port EXCEPT ![o] = f]
          /\ fds' = [S!Forgotten(o) EXCEPT ![f] = o]
          /\ S!Begun(o)
      BY <1>3 DEF S!Begin, S!BeginOpens
    <2> HIDE DEF f
    <2>3. /\ ended' = [ended EXCEPT ![o] = FALSE] /\ tidy /\ UNCHANGED stray
          /\ fds' = [fds EXCEPT ![f] = o] /\ \A g \in S!Fds : fds[g] # o
      BY <2>2, NoneForgotten DEF S!Begun
    <2>4. ~stray'
      BY <2>3 DEF Owns
    <2>5. ASSUME NEW g \in S!Fds
          PROVE  /\ fds'[g] # Lost
                 /\ fds'[g] \in Ports =>
                       ~ended'[fds'[g]] /\ serial_port'[fds'[g]] = g
      BY <1>0, <1>1, <2>1, <2>2, <2>3 DEF Owns
    <2>6. ASSUME NEW q \in Ports, ~ended'[q], serial_port'[q] # -1
          PROVE  fds'[serial_port'[q]] = q
      <3>1. CASE q = o
        BY <1>1, <2>1, <2>2, <2>3, <3>1
      <3>2. CASE q # o
        <4>1. serial_port'[q] = serial_port[q] /\ ~ended[q] /\ serial_port[q] \in S!Fds
          BY <1>1, <2>2, <2>3, <2>6, <3>2
        <4>2. fds[serial_port[q]] = q
          BY <2>3, <2>6, <4>1 DEF Owns
        <4> QED  BY <1>0, <1>1, <2>1, <2>3, <4>1, <4>2
      <3> QED  BY <3>1, <3>2
    <2> QED  BY <2>4, <2>5, <2>6 DEF Owns
  <1>4. ASSUME NEW o \in Ports, NEW baud \in Speeds \cup OddRates,
               S!BeginFails(o, baud)
        PROVE  Owns'
    <2>1. /\ serial_port' = [serial_port EXCEPT ![o] = -1]
          /\ fds' = S!Forgotten(o) /\ S!Begun(o)
      BY <1>4 DEF S!BeginFails, S!BeginFailsWith
    <2>2. /\ ended' = [ended EXCEPT ![o] = FALSE] /\ tidy /\ UNCHANGED stray
          /\ UNCHANGED fds /\ \A g \in S!Fds : fds[g] # o
      BY <2>1, NoneForgotten DEF S!Begun
    <2> QED  BY <1>1, <2>1, <2>2 DEF Owns
  <1>5. ASSUME NEW o \in Ports, S!Touches(o)
        PROVE  /\ tidy /\ ~stray'
               /\ ended[o] => serial_port[o] = -1
               /\ serial_port[o] # -1 => fds[serial_port[o]] = o
    BY <1>0, <1>5 DEF S!Touches, Owns
  <1>6. ASSUME NEW o \in Ports, S!End(o) PROVE Owns'
    <2>1. /\ S!Touches(o) /\ UNCHANGED serial_port
          /\ fds' = IF serial_port[o] = -1 THEN fds
                    ELSE [fds EXCEPT ![serial_port[o]] = Free]
          /\ ended' = [ended EXCEPT ![o] = TRUE]
      BY <1>6 DEF S!End
    <2>2. ASSUME NEW g \in S!Fds
          PROVE  /\ fds'[g] # Lost
                 /\ fds'[g] \in Ports =>
                       ~ended'[fds'[g]] /\ serial_port'[fds'[g]] = g
      <3>1. /\ fds[g] # Lost
            /\ fds[g] \in Ports => ~ended[fds[g]] /\ serial_port[fds[g]] = g
        BY <1>5, <2>1 DEF Owns
      <3>2. fds'[g] = fds[g] \/ fds'[g] = Free
        BY <1>1, <2>1
      <3>3. fds'[g] # o
        BY <1>0, <1>1, <1>5, <2>1, <3>1
      <3> QED  BY <1>0, <1>1, <2>1, <3>1, <3>2, <3>3
    <2>3. ASSUME NEW q \in Ports, ~ended'[q], serial_port'[q] # -1
          PROVE  fds'[serial_port'[q]] = q
      <3>1. q # o /\ ~ended[q] /\ serial_port[q] # -1
        BY <1>1, <2>1, <2>3
      <3>2. fds[serial_port[q]] = q
        BY <1>5, <2>1, <3>1 DEF Owns
      <3>3. serial_port[o] # serial_port[q]
        BY <1>5, <2>1, <3>1, <3>2
      <3> QED  BY <1>1, <2>1, <3>2, <3>3
    <2> QED  BY <1>5, <2>1, <2>2, <2>3 DEF Owns
  <1>7. ASSUME NEW o \in Ports, S!Use(o) PROVE Owns'
    <2>1. S!Touches(o) /\ UNCHANGED <<serial_port, ended, fds>>
      BY <1>7 DEF S!Use
    <2> QED  BY <1>5, <2>1 DEF Owns
  <1>8. CASE S!OpenFile \/ \E f \in S!Fds : S!CloseFile(f)
    <2>1. PICK f \in S!Fds, v \in {Free, File} :
             fds' = [fds EXCEPT ![f] = v] /\ fds[f] \notin Ports
      BY <1>0, <1>8, LowestFree DEF S!OpenFile, S!CloseFile, S!FreeFds
    <2>2. UNCHANGED <<serial_port, ended, tidy, stray>>
      BY <1>8 DEF S!OpenFile, S!CloseFile
    <2> QED  BY <1>0, <1>1, <2>1, <2>2 DEF Owns
  <1>9. CASE S!Replaced \/ S!Killed
    <2>1. /\ \A o \in Ports : serial_port'[o] = -1
          /\ \A f \in S!Fds : fds'[f] = Free
          /\ ~stray'
      <3>1. \A o \in Ports : serial_port'[o] = -1
        BY <1>9 DEF S!Replaced, S!Killed, S!Objects
      <3>2. CASE S!Replaced
        <4>1. tidy /\ \A f \in S!Fds : fds[f] = Free
          BY <3>2 DEF S!Replaced
        <4> QED  BY <3>1, <3>2, <4>1 DEF S!Replaced, Owns
      <3>3. CASE S!Killed
        BY <3>1, <3>3 DEF S!Killed
      <3> QED  BY <1>9, <3>2, <3>3
    <2> QED  BY <1>0, <2>1 DEF Owns
  <1>10. CASE \/ S!Configure \/ S!WriteByte \/ S!WriteNewline \/ S!Flush
              \/ held' = {} /\ UNCHANGED <<portVars, lineBuffered, cut>>
              \/ UNCHANGED serialVars
              \/ \E o \in Ports, d \in Devices : S!SetPath(o, d)
    BY <1>2, <1>10 DEF S!Configure, S!WriteByte, S!WriteNewline, S!Flush,
         S!portVars, portVars, serialVars, S!SetPath
  <1> QED
    BY <1>3, <1>4, <1>6, <1>7, <1>8, <1>9, <1>10 DEF SerialStep, S!Next

\* Every step keeps each device at a speed it was found at or asked for.
LEMMA SpeedStep == S!TypeOK /\ SpeedAsked /\ SerialStep => SpeedAsked'
  <1> SUFFICES ASSUME S!TypeOK, SpeedAsked, SerialStep PROVE SpeedAsked'
    OBVIOUS
  <1>0. speed \in [Devices -> S!Settable] /\ asked \in [Devices -> SUBSET S!Settable]
    BY DEF S!TypeOK
  <1>1. ASSUME UNCHANGED <<speed, asked>> PROVE SpeedAsked'
    BY <1>1 DEF SpeedAsked, S!SpeedAsked
  <1>2. ASSUME NEW o \in Ports, NEW baud \in Speeds \cup OddRates,
               S!Begin(o, baud)
        PROVE  SpeedAsked'
    <2> DEFINE d == path[o]
    <2>1. /\ d \in Devices /\ tty' = S!Rate(baud, speed[d])
          /\ speed' = [speed EXCEPT ![d] = tty']
          /\ asked' = [asked EXCEPT ![d] = @ \cup S!AskedWith(baud)]
      BY <1>2 DEF S!Begin, S!BeginOpens
    <2> HIDE DEF d
    <2>2. tty' \in asked'[d]
      BY <1>0, <2>1 DEF S!Rate, S!AskedWith, SpeedAsked, S!SpeedAsked
    <2> QED  BY <1>0, <2>1, <2>2 DEF SpeedAsked, S!SpeedAsked
  <1>3. CASE S!Replaced \/ S!Killed
    <2>1. UNCHANGED speed /\ asked' = [d \in Devices |-> {speed[d]}]
      BY <1>3 DEF S!Replaced, S!Killed, S!Objects
    <2> QED  BY <2>1 DEF SpeedAsked, S!SpeedAsked
  <1>4. CASE S!Next
    BY <1>1, <1>2, <1>4 DEF S!Next, S!SetPath, S!BeginFails, S!BeginFailsWith,
         S!End, S!Use, S!OpenFile, S!CloseFile, S!WriteByte, S!WriteNewline,
         S!Flush, S!portVars
  <1> QED
    BY <1>1, <1>3, <1>4 DEF SerialStep, S!Configure, S!portVars, portVars,
         serialVars

-----------------------------------------------------------------------------
(* The life of the program.                                                *)

\* What a step of the program is to ardulinux_main.
MainStep ==
    \/ R!Start \/ R!MakeRoot \/ R!Visited \/ R!Changes
    \/ \E e \in Entries : R!Visit(e) \/ R!OthersChange(e)
    \/ R!Reboot \/ R!RebootFails \/ R!Restart
    \/ UNCHANGED runtimeVars

LEMMA MainSteps == [Next]_vars => MainStep
  BY DEF Next, Start, Main, Loop, Reboot, RebootFails, Restart, MainStep, vars

\* The root is one there may be.
LEMMA FsDirRoot ==
    ASSUME NEW a \in Seq(R!Words)
    PROVE  R!FsDir(a) \in R!Roots
  <1>1. CASE Dirs(a) = {}
    BY <1>1, FsDirLast DEF R!Roots
  <1>2. CASE Dirs(a) # {}
    <2>1. PICK c \in Dirs(a) : R!FsDir(a) = a[c]
      BY <1>2, FsDirLast
    <2>2. a[c] \in R!Words
      BY DEF Dirs
    <2> QED  BY <2>1, <2>2 DEF R!Roots
  <1> QED  BY <1>1, <1>2

\* Every step keeps the types of ardulinux_main.
LEMMA MainType == R!TypeOK /\ MainStep => R!TypeOK'
  <1> SUFFICES ASSUME R!TypeOK, MainStep PROVE R!TypeOK'
    OBVIOUS
  <1>0. /\ root \in R!Roots /\ content \in [R!Roots -> R!Trees]
        /\ content[root] \in R!Trees /\ content[root] \subseteq Entries
        /\ \A a \in CommandLines : a \in Seq(R!Words)
    BY ProgramAssumption DEF ProgramAssumption, R!RuntimeAssumption, R!TypeOK, R!Trees
  <1>1. CASE R!Start
    <2>1. root' \in R!Roots
      BY <1>1, FsDirRoot DEF R!Start, R!TypeOK
    <2>2. erase' \in BOOLEAN
      BY <1>1 DEF R!Start, R!Erases
    <2>3. phase' \in {"mkdir", "exit"} /\ disturbed' = FALSE
      BY <1>1 DEF R!Start
    <2> QED
      BY <1>1, <2>1, <2>2, <2>3 DEF R!Start, R!TypeOK, R!startVars, R!diskVars
  <1>2. CASE R!MakeRoot
    <2>1. /\ phase' \in {"erase", "run"} /\ made' \subseteq R!Roots
          /\ todo' \subseteq Entries /\ disturbed' \in BOOLEAN
      BY <1>0, <1>2 DEF R!MakeRoot, R!Found, R!TypeOK
    <2> QED  BY <1>2, <2>1 DEF R!MakeRoot, R!TypeOK, R!startVars
  <1>3. ASSUME NEW e \in Entries, R!RemoveEntry(e) PROVE R!TypeOK'
    <2>1. content' \in [R!Roots -> R!Trees]
      <3>1. CASE UNCHANGED content
        BY <1>0, <3>1
      <3>2. CASE /\ \A x \in content[root] : Parent[x] # e
                 /\ content' = [content EXCEPT ![root] = @ \ {e}]
        <4>1. content[root] \ {e} \in R!Trees
          BY <1>0, <3>2 DEF R!Trees
        <4> QED  BY <1>0, <3>2, <4>1
      <3> QED  BY <1>3, <3>1, <3>2 DEF R!RemoveEntry
    <2>2. phase' \in {phase, "run"} /\ todo' \subseteq Entries
      BY <1>3 DEF R!RemoveEntry, R!TypeOK
    <2>3. disturbed' \in BOOLEAN
      BY <1>3 DEF R!RemoveEntry, R!TypeOK
    <2> QED
      BY <1>3, <2>1, <2>2, <2>3 DEF R!RemoveEntry, R!TypeOK, R!startVars
  <1>4. CASE R!Visited \/ R!RebootFails
    BY <1>4 DEF R!Visited, R!RebootFails, R!TypeOK, R!startVars, R!diskVars
  <1>5. CASE R!Changes
    BY <1>0, <1>5 DEF R!Changes, R!TypeOK, R!startVars
  <1>6. ASSUME NEW e \in Entries, R!OthersChange(e) PROVE R!TypeOK'
    <2>1. content' \in [R!Roots -> R!Trees]
      <3>1. PICK T : content' = [content EXCEPT ![root] = T]
        BY <1>6 DEF R!OthersChange
      <3>2. content'[root] \in R!Trees
        BY <1>6 DEF R!OthersChange
      <3>3. content'[root] = T
        BY <1>0, <3>1
      <3> QED  BY <1>0, <3>1, <3>2, <3>3
    <2>2. todo' \subseteq Entries
      BY <1>6 DEF R!OthersChange, R!TypeOK
    <2> QED  BY <1>6, <2>1, <2>2 DEF R!OthersChange, R!TypeOK, R!startVars
  <1>7. CASE R!Reboot
    <2>1. argv' \in Seq(R!Words)
      BY <1>7, WithoutEmbeds DEF R!Reboot, R!Strip, R!TypeOK
    <2> QED  BY <1>7, <2>1 DEF R!Reboot, R!TypeOK, R!diskVars
  <1>8. CASE R!Restart
    <2>1. argv' \in Seq(R!Words)
      BY <1>0, <1>8 DEF R!Restart, R!TypeOK
    <2> QED  BY <1>8, <2>1 DEF R!Restart, R!TypeOK, R!diskVars
  <1>9. CASE UNCHANGED runtimeVars
    BY <1>9 DEF runtimeVars, R!TypeOK
  <1> QED
    BY <1>1, <1>2, <1>3, <1>4, <1>5, <1>6, <1>7, <1>8, <1>9
       DEF MainStep, R!Visit

\* What ardulinux_main has made of its arguments, once it has parsed them.
Parsed ==
    phase # "start" =>
        /\ root = R!FsDir(argv) /\ erase = R!Erases(argv)
        /\ phase # "exit" => ~R!Refuses(argv)

\* An erase is under way only where one was asked for, in a root that is there;
\* left alone, it has found all that is still in it.
Erasing ==
    phase = "erase" =>
        /\ root \in made /\ erase
        /\ ~disturbed => todo = content[root]

\* What reboots have made of the arguments of the first start.
Handed ==
    /\ ~rebooted => argv = command
    /\ R!Abbreviates(argv) => R!Abbreviates(command)
    /\ rebooted /\ R!Erases(argv) => R!Abbreviates(command)
    /\ R!DirsKept(command) =>
          /\ R!DirsKept(argv) /\ R!FsDir(argv) = R!FsDir(command)
          /\ rebooted => ~R!Refuses(argv)

\* stdout holds no complete line back, for it is line-buffered while main runs.
Lines ==
    /\ ~cut /\ "complete" \notin held
    /\ phase # "start" => lineBuffered

Inv ==
    /\ TypeOK /\ Parsed /\ Erasing /\ Handed
    /\ Owns /\ SpeedAsked /\ Lines

\* Every step keeps what was parsed: only a start parses, and only a reboot or
\* a restart, which start again, change what there was to parse.
LEMMA ParsedStep == Parsed /\ MainStep => Parsed'
  <1> SUFFICES ASSUME Parsed, MainStep, phase' # "start"
               PROVE  /\ root' = R!FsDir(argv') /\ erase' = R!Erases(argv')
                      /\ phase' # "exit" => ~R!Refuses(argv')
    BY Zenon DEF Parsed
  <1>1. CASE R!Start
    <2>1. argv' = argv
      BY <1>1 DEF R!Start, R!startVars
    <2> QED  BY <1>1, <2>1, Zenon DEF R!Start
  <1>2. ASSUME UNCHANGED <<root, erase, argv>>, phase # "start",
               phase' = "exit" \/ phase # "exit"
        PROVE  /\ root' = R!FsDir(argv') /\ erase' = R!Erases(argv')
               /\ phase' # "exit" => ~R!Refuses(argv')
    BY <1>2, Zenon DEF Parsed
  <1>3. CASE \/ R!MakeRoot \/ R!Visited \/ R!Changes \/ R!RebootFails
             \/ \E e \in Entries : R!Visit(e) \/ R!OthersChange(e)
    <2>1. UNCHANGED <<root, erase, argv>> /\ phase # "start" /\ phase # "exit"
      BY <1>3 DEF R!MakeRoot, R!Visited, R!Changes, R!RebootFails, R!Visit,
           R!RemoveEntry, R!OthersChange, R!startVars
    <2> QED  BY <1>2, <2>1
  <1>4. CASE R!Reboot \/ R!Restart
    BY <1>4 DEF R!Reboot, R!Restart
  <1>5. CASE UNCHANGED runtimeVars
    BY <1>5, <1>2 DEF runtimeVars
  <1> QED  BY <1>1, <1>3, <1>4, <1>5 DEF MainStep

\* Every step keeps what is known of an erase.
LEMMA ErasingStep == R!TypeOK /\ Erasing /\ MainStep => Erasing'
  <1> SUFFICES ASSUME R!TypeOK, Erasing, MainStep, phase' = "erase"
               PROVE  /\ root' \in made' /\ erase'
                      /\ ~disturbed' => todo' = content'[root']
    BY Zenon DEF Erasing
  <1>1. CASE R!MakeRoot
    BY <1>1 DEF R!MakeRoot
  <1>2. ASSUME NEW e \in Entries, R!Visit(e)
        PROVE  /\ root' \in made' /\ erase'
               /\ ~disturbed' => todo' = content'[root']
    <2>1. /\ phase = "erase" /\ UNCHANGED <<root, made, erase, disturbed>>
          /\ content' = [content EXCEPT ![root] = @ \ {e}]
          /\ todo' = todo \ {e}
      BY <1>2 DEF R!Visit, R!RemoveEntry
    <2>2. root \in DOMAIN content
      BY DEF R!TypeOK
    <2> QED  BY <2>1, <2>2 DEF Erasing
  <1>3. ASSUME NEW e \in Entries, R!OthersChange(e)
        PROVE  /\ root' \in made' /\ erase'
               /\ ~disturbed' => todo' = content'[root']
    BY <1>3 DEF R!OthersChange, Erasing
  <1>4. CASE UNCHANGED runtimeVars
    BY <1>4 DEF runtimeVars, Erasing
  <1>5. ~(R!Start \/ R!Visited \/ R!Changes \/ R!Reboot \/ R!RebootFails \/ R!Restart)
    BY DEF R!Start, R!Visited, R!Changes, R!Reboot, R!RebootFails, R!Restart
  <1> QED  BY <1>1, <1>2, <1>3, <1>4, <1>5 DEF MainStep

\* Every step keeps what reboots have handed on.
LEMMA HandedStep == R!TypeOK /\ Parsed /\ Handed /\ MainStep => Handed'
  <1> SUFFICES ASSUME R!TypeOK, Parsed, Handed, MainStep PROVE Handed'
    OBVIOUS
  <1>1. ASSUME UNCHANGED <<rebooted, argv, command>> PROVE Handed'
    BY <1>1, Zenon DEF Handed
  <1>2. CASE R!Restart
    BY <1>2, Zenon DEF R!Restart, Handed
  <1>3. CASE R!Reboot
    <2>1. /\ rebooted' = TRUE /\ argv' = R!Strip(argv) /\ UNCHANGED command
          /\ phase = "run"
      BY <1>3 DEF R!Reboot, R!startVars
    <2>2. argv \in Seq(R!Words) /\ ~R!Refuses(argv)
      BY <2>1 DEF R!TypeOK, Parsed
    <2>3. /\ R!Abbreviates(argv') <=> R!Abbreviates(argv)
          /\ R!Erases(argv') => R!Abbreviates(argv)
          /\ R!DirsKept(argv')
          /\ R!DirsKept(argv) => /\ R!FsDir(argv') = R!FsDir(argv)
                                 /\ ~R!Refuses(argv')
      BY <2>1, <2>2, StripSafe, Zenon
    <2> QED  BY <2>1, <2>3, Zenon DEF Handed
  <1>4. CASE ~R!Reboot /\ ~R!Restart
    BY <1>1, <1>4 DEF MainStep, R!Start, R!MakeRoot, R!Visited, R!Changes,
         R!Visit, R!RemoveEntry, R!OthersChange, R!RebootFails, R!startVars,
         runtimeVars
  <1> QED  BY <1>2, <1>3, <1>4

\* Every step keeps stdout without a complete line.
LEMMA LinesStep == Lines /\ [Next]_vars => Lines'
  <1> SUFFICES ASSUME Lines, [Next]_vars PROVE Lines'
    OBVIOUS
  <1>1. CASE Start
    BY <1>1 DEF Start, S!Configure, S!portVars, Lines
  <1>2. CASE Main
    <2>1. phase # "start" /\ UNCHANGED <<lineBuffered, held, cut>>
      BY <1>2 DEF Main, serialVars, R!MakeRoot, R!Visited, R!Changes, R!Visit,
           R!RemoveEntry, R!OthersChange
    <2> QED  BY <2>1 DEF Lines
  <1>3. CASE Loop
    <2>1. lineBuffered /\ UNCHANGED phase /\ phase = "run"
      BY <1>3 DEF Loop, Lines, runtimeVars
    <2>2. S!Next
      BY <1>3 DEF Loop
    <2>3. /\ lineBuffered' = lineBuffered /\ cut' = cut
          /\ held' \in {held, held \cup {"partial"}, {}}
      BY <2>1, <2>2 DEF S!Next, S!SetPath, S!Begin, S!BeginOpens, S!BeginFails,
           S!BeginFailsWith, S!Begun, S!End, S!Use, S!OpenFile, S!CloseFile,
           S!WriteByte, S!WriteNewline, S!Flush, S!consoleVars
    <2>4. ~cut' /\ lineBuffered'
      BY <2>1, <2>3, Zenon DEF Lines
    <2>5. "complete" \notin held'
      BY <2>3 DEF Lines
    <2> QED  BY <2>4, <2>5 DEF Lines
  <1>4. CASE Reboot \/ Restart
    BY <1>4 DEF Reboot, Restart, R!Reboot, R!Restart, S!Replaced, S!Killed,
         S!Objects, S!LosesOutput, Lines
  <1>5. CASE RebootFails
    BY <1>5 DEF RebootFails, R!RebootFails, Lines
  <1>6. CASE UNCHANGED vars
    BY <1>6 DEF vars, runtimeVars, serialVars, Lines
  <1> QED  BY <1>1, <1>2, <1>3, <1>4, <1>5, <1>6 DEF Next

-----------------------------------------------------------------------------
(* What holds in every state.                                              *)

\* The first start: the types.
LEMMA TypeInit == Init => TypeOK
  <1> SUFFICES ASSUME Init PROVE TypeOK
    OBVIOUS
  <1>1. R!RuntimeAssumption /\ S!SerialAssumption /\ R!Init /\ S!Init
    BY ProgramAssumption DEF ProgramAssumption, Init
  <1>2. R!TypeOK
    <2>1. Entries \in R!Trees /\ {} \in R!Trees
      BY <1>1 DEF R!Trees, R!RuntimeAssumption
    <2>2. content \in [R!Roots -> R!Trees] /\ made \subseteq R!Roots
      BY <1>1, <2>1 DEF R!Init
    <2> QED  BY <1>1, <2>2 DEF R!Init, R!TypeOK, R!Roots, R!RuntimeAssumption
  <1>3. S!TypeOK
    <2>1. PICK s \in Speeds : speed = [d \in Devices |-> s]
      BY <1>1 DEF S!Init
    <2>2. s \in S!Settable /\ NoSpeed \in S!Settable
      BY DEF S!Settable
    <2> QED  BY <1>1, <2>1, <2>2 DEF S!Init, S!TypeOK
  <1> QED  BY <1>2, <1>3 DEF TypeOK

\* The first start: everything else.
LEMMA InvInit == Init => Inv
  <1> SUFFICES ASSUME Init PROVE Inv
    OBVIOUS
  <1>1. S!SerialAssumption /\ R!Init /\ S!Init
    BY ProgramAssumption DEF ProgramAssumption, Init
  <1>2. Parsed /\ Erasing /\ Handed
    BY <1>1 DEF R!Init, Parsed, Erasing, Handed
  <1>3. Owns
    BY <1>1 DEF S!Init, S!SerialAssumption, Owns
  <1>4. SpeedAsked /\ Lines
    BY <1>1 DEF R!Init, S!Init, SpeedAsked, S!SpeedAsked, Lines
  <1> QED  BY <1>2, <1>3, <1>4, TypeInit DEF Inv

\* The inductive invariant holds in every state.
LEMMA InvAlways == Spec => []Inv
  <1>1. Inv /\ [Next]_vars => Inv'
    <2> SUFFICES ASSUME Inv, [Next]_vars PROVE Inv'
      OBVIOUS
    <2>1. MainStep /\ SerialStep /\ R!TypeOK /\ S!TypeOK
      BY MainSteps, SerialSteps DEF Inv, TypeOK
    <2>2. TypeOK'
      BY <2>1, MainType, SerialType DEF TypeOK
    <2>3. Parsed' /\ Erasing' /\ Handed'
      BY <2>1, ParsedStep, ErasingStep, HandedStep DEF Inv
    <2>4. Owns' /\ SpeedAsked' /\ Lines'
      BY <2>1, OwnsStep, SpeedStep, LinesStep DEF Inv
    <2> QED  BY <2>2, <2>3, <2>4 DEF Inv
  <1> QED  BY InvInit, <1>1, PTL DEF Spec

\* The variables of ardulinux_main, of the ports and of stdout keep their types
\* through starts, erases, reboots and kills.
THEOREM TypeCorrect == Spec => []TypeOK
  <1>1. Inv => TypeOK
    BY DEF Inv
  <1> QED  BY <1>1, InvAlways, PTL

\* However often the program reboots, it erases nothing unless its --erase is
\* abbreviated, and keeps its root and is not refused unless a DIR is spelled as
\* --erase is, for any command lines.
THEOREM FilesKept == Spec => []RebootKeepsFiles
  <1>1. Inv => RebootKeepsFiles
    BY DEF Inv, Parsed, Erasing, Handed, RebootKeepsFiles, R!RebootKeepsFiles
  <1> QED  BY <1>1, InvAlways, PTL

\* A tidy program loses no descriptor and touches no other's, however many ports
\* and descriptors there are.
THEOREM DescriptorsOwned == Spec => []OwnDescriptor
  <1>1. Inv => OwnDescriptor
    BY DEF Inv, Owns, OwnDescriptor, S!OwnDescriptor
  <1> QED  BY <1>1, InvAlways, PTL

\* No device is set to a speed that nobody asked for, although all ports share
\* one termios structure.
THEOREM SpeedsAsked == Spec => []SpeedAsked
  <1>1. Inv => SpeedAsked
    BY DEF Inv
  <1> QED  BY <1>1, InvAlways, PTL

\* No end of the process cuts off a complete log line.
THEOREM LinesKept == Spec => []LinesOut
  <1>1. Inv => LinesOut
    BY DEF Inv, Lines, LinesOut, S!LinesOut
  <1> QED  BY <1>1, InvAlways, PTL

\* An erase that nothing disturbs ends with an empty root that is still there,
\* whatever tree of entries it finds.
THEOREM Erased == Spec => EraseComplete
  <1>1. Inv /\ [Next]_vars =>
            [phase = "erase" /\ phase' = "run" /\ ~disturbed' =>
                root \in made' /\ content'[root] = {}]_(R!vars)
    <2> SUFFICES ASSUME Inv, [Next]_vars, phase = "erase", phase' = "run",
                        ~disturbed'
                 PROVE  root \in made' /\ content'[root] = {}
      OBVIOUS
    <2>1. MainStep /\ Erasing
      BY MainSteps DEF Inv
    <2>2. CASE R!Visited
      BY <2>1, <2>2 DEF R!Visited, R!diskVars, Erasing
    <2>3. ASSUME NEW e \in Entries, R!Visit(e) PROVE FALSE
      <3>1. CASE ~disturbed
        <4>1. e \in content[root] /\ \A x \in content[root] : Parent[x] # e
          BY <2>1, <2>3, <3>1 DEF R!Visit, Erasing
        <4>2. disturbed'
          BY <2>3, <4>1 DEF R!Visit, R!RemoveEntry
        <4> QED  BY <4>2
      <3>2. CASE disturbed
        BY <2>3, <3>2 DEF R!Visit, R!RemoveEntry
      <3> QED  BY <3>1, <3>2
    <2> QED
      BY <2>1, <2>2, <2>3 DEF MainStep, R!Start, R!MakeRoot, R!Changes,
           R!OthersChange, R!Reboot, R!RebootFails, R!Restart, runtimeVars
  <1> QED  BY <1>1, InvAlways, PTL DEF Spec, EraseComplete, R!EraseComplete
=============================================================================
