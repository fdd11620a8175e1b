--------------------------- MODULE UserTreeProofs ---------------------------
(***************************************************************************)
(* Proofs about UserTree, for every number of sessions, names, rows and    *)
(* requests: the tree stays whole and every row is listed once (TreeWhole, *)
(* ListedOnce), a rename ends with all of its rows under the new name      *)
(* (RenameWhole), and accounts are kept (AccountKept).                     *)
(*                                                                         *)
(* While renames are under way, one UPDATE for each row, the tree is not   *)
(* whole.  The invariant says that it will be: WholeUnder, of the renames  *)
(* that have begun and the tree, says that the rows, taken to where the    *)
(* renames lead (Dest), make a whole tree.  That is kept as long as no     *)
(* request changes rows that another relies on, which the history notes    *)
(* as mishaps.  Two renames of which each is in the other's way (Stuck)    *)
(* have to be told apart: one of them cannot go on without a mishap, and   *)
(* nothing is known of the tree but that they stay so until there is one.  *)
(***************************************************************************)
EXTENDS UserTree, SequenceTheorems, WellFoundedInduction, TLAPS

-----------------------------------------------------------------------------
(* Paths *)

\* A set of numbers has a least one.
LEMMA Least ==
    ASSUME NEW T \in SUBSET Nat, T # {}
    PROVE  \E x \in T : \A y \in T : x <= y
<1> DEFINE R == {ss \in Nat \X Nat : ss[1] < ss[2]}
<1>1. IsWellFoundedOn(R, Nat)
  BY NatLessThanWellFounded, Zenon DEF OpToRel
<1>2. \A x, y \in Nat : x < y => <<x, y>> \in R
  OBVIOUS
<1> HIDE DEF R
<1>3. \E x \in T : \A y \in T : ~ (<<y, x>> \in R)
  BY <1>1, WFMin, Zenon
<1>4. PICK x \in T : \A y \in T : ~ (<<y, x>> \in R)
  BY <1>3
<1>5. ASSUME NEW y \in T PROVE x <= y
  <2>1. x \in Nat /\ y \in Nat
    OBVIOUS
  <2>2. ~ (y < x)
    BY <1>2, <1>4, <2>1
  <2> QED
    BY <2>1, <2>2
<1> QED
  BY <1>5

\* The first k names of a path.
Upto(p, k) == SubSeq(p, 1, k)

\* They are a path of length k.
LEMMA UptoProperties ==
    ASSUME NEW S, NEW p \in Seq(S), NEW k \in 0 .. Len(p)
    PROVE  /\ Upto(p, k) \in Seq(S) /\ Len(Upto(p, k)) = k
           /\ \A i \in 1 .. k : Upto(p, k)[i] = p[i]
<1>1. Len(p) \in Nat /\ 1 \in 1 .. Len(p) + 1 /\ k \in 1 - 1 .. Len(p)
  OBVIOUS
<1> QED
  BY <1>1, SubSeqProperties DEF Upto

\* Within, name by name.
LEMMA WithinIs ==
    ASSUME NEW S, NEW p \in Seq(S), NEW d \in Seq(S)
    PROVE  Within(p, d) <=> Len(d) <= Len(p) /\ \A i \in 1 .. Len(d) : p[i] = d[i]
<1>1. Len(p) \in Nat /\ Len(d) \in Nat
  OBVIOUS
<1>2. ASSUME Len(d) <= Len(p)
      PROVE  Upto(p, Len(d)) = d <=> \A i \in 1 .. Len(d) : p[i] = d[i]
  <2>1. /\ Upto(p, Len(d)) \in Seq(S) /\ Len(Upto(p, Len(d))) = Len(d)
        /\ \A i \in 1 .. Len(d) : Upto(p, Len(d))[i] = p[i]
    BY <1>1, <1>2, UptoProperties
  <2> QED
    BY <1>1, <2>1, SeqEqual
<1> QED
  BY <1>1, <1>2 DEF Within, Upto

\* Moved, name by name.
LEMMA MovedIs ==
    ASSUME NEW S, NEW p \in Seq(S), NEW o \in Seq(S), NEW n \in Seq(S),
           Len(o) = Len(n), Len(o) <= Len(p)
    PROVE  /\ Moved(p, o, n) \in Seq(S) /\ Len(Moved(p, o, n)) = Len(p)
           /\ \A i \in 1 .. Len(p) : Moved(p, o, n)[i] = IF i <= Len(n) THEN n[i] ELSE p[i]
<1> DEFINE rest == SubSeq(p, Len(o) + 1, Len(p))
<1>1. /\ Len(p) \in Nat /\ Len(o) \in Nat
      /\ Len(o) + 1 \in 1 .. Len(p) + 1 /\ Len(p) \in (Len(o) + 1) - 1 .. Len(p)
  OBVIOUS
<1>2. /\ rest \in Seq(S) /\ Len(rest) = Len(p) - Len(o)
      /\ \A i \in 1 .. Len(p) - Len(o) : rest[i] = p[Len(o) + i]
  BY <1>1, SubSeqProperties
<1> HIDE DEF rest
<1>3. /\ n \o rest \in Seq(S) /\ Len(n \o rest) = Len(n) + Len(rest)
      /\ \A i \in 1 .. Len(n) + Len(rest) :
           (n \o rest)[i] = IF i <= Len(n) THEN n[i] ELSE rest[i - Len(n)]
  BY <1>2, ConcatProperties
<1>4. Moved(p, o, n) = n \o rest
  BY DEF Moved, rest
<1>5. ASSUME NEW i \in 1 .. Len(p)
      PROVE  (n \o rest)[i] = IF i <= Len(n) THEN n[i] ELSE p[i]
  <2>1. i \in 1 .. Len(n) + Len(rest) /\ i \in Int /\ Len(n) \in Nat
    BY <1>1, <1>2
  <2>2. (n \o rest)[i] = IF i <= Len(n) THEN n[i] ELSE rest[i - Len(n)]
    BY <1>3, <2>1
  <2>3. ~ (i <= Len(n)) => rest[i - Len(n)] = p[i]
    <3>1. ASSUME ~ (i <= Len(n))
          PROVE  i - Len(n) \in 1 .. Len(p) - Len(o) /\ Len(o) + (i - Len(n)) = i
      BY <1>1, <2>1, <3>1
    <3> QED
      BY <1>2, <3>1
  <2> QED
    BY <2>2, <2>3
<1>6. Len(n \o rest) = Len(p)
  BY <1>1, <1>2, <1>3
<1> QED
  BY <1>3, <1>4, <1>5, <1>6

\* Every path is within itself.
LEMMA WithinItself == ASSUME NEW S, NEW p \in Seq(S) PROVE Within(p, p)
  BY WithinIs

\* Of two directories that a path is within, one is within the other; and Within is
\* transitive.
LEMMA WithinAll ==
    ASSUME NEW S, NEW p \in Seq(S), NEW d \in Seq(S), NEW c \in Seq(S)
    PROVE  /\ Within(p, d) /\ Within(d, c) => Within(p, c)
           /\ Within(p, d) /\ Within(p, c) => Within(d, c) \/ Within(c, d)
           /\ Within(p, d) /\ Len(p) <= Len(d) => p = d
<1>0. Len(p) \in Nat /\ Len(d) \in Nat /\ Len(c) \in Nat
  OBVIOUS
<1>1. /\ Within(p, d) <=> Len(d) <= Len(p) /\ \A i \in 1 .. Len(d) : p[i] = d[i]
      /\ Within(p, c) <=> Len(c) <= Len(p) /\ \A i \in 1 .. Len(c) : p[i] = c[i]
      /\ Within(d, c) <=> Len(c) <= Len(d) /\ \A i \in 1 .. Len(c) : d[i] = c[i]
      /\ Within(c, d) <=> Len(d) <= Len(c) /\ \A i \in 1 .. Len(d) : c[i] = d[i]
  BY WithinIs
<1>2. ASSUME Within(p, d), Within(d, c) PROVE Within(p, c)
  BY <1>0, <1>1, <1>2
<1>3. ASSUME Within(p, d), Within(p, c) PROVE Within(d, c) \/ Within(c, d)
  <2>1. CASE Len(c) <= Len(d)
    BY <1>0, <1>1, <1>3, <2>1
  <2>2. CASE Len(d) <= Len(c)
    BY <1>0, <1>1, <1>3, <2>2
  <2> QED
    BY <1>0, <2>1, <2>2
<1>4. ASSUME Within(p, d), Len(p) <= Len(d) PROVE p = d
  <2>1. Len(p) = Len(d) /\ \A i \in 1 .. Len(p) : p[i] = d[i]
    BY <1>0, <1>1, <1>4
  <2> QED
    BY <2>1, SeqEqual
<1> QED
  BY <1>2, <1>3, <1>4

\* What is within d and not d itself: its first k names are still within d.
LEMMA UptoWithin ==
    ASSUME NEW S, NEW p \in Seq(S), NEW d \in Seq(S), NEW k \in 0 .. Len(p)
    PROVE  /\ Within(p, Upto(p, k))
           /\ Within(p, d) /\ Len(d) <= k => Within(Upto(p, k), d)
           /\ Within(p, d) /\ k <= Len(d) => Upto(d, k) = Upto(p, k) /\ Within(d, Upto(p, k))
           /\ Within(p, d) /\ k = Len(d) => Upto(p, k) = d
<1>0. Len(p) \in Nat /\ Len(d) \in Nat
  OBVIOUS
<1>1. /\ Upto(p, k) \in Seq(S) /\ Len(Upto(p, k)) = k
      /\ \A i \in 1 .. k : Upto(p, k)[i] = p[i]
  BY UptoProperties
<1>2. Within(p, d) <=> Len(d) <= Len(p) /\ \A i \in 1 .. Len(d) : p[i] = d[i]
  BY WithinIs
<1>3. Within(p, Upto(p, k))
  BY <1>0, <1>1, WithinIs
<1>4. ASSUME Within(p, d), Len(d) <= k PROVE Within(Upto(p, k), d)
  <2>1. Len(d) <= k /\ \A i \in 1 .. Len(d) : Upto(p, k)[i] = d[i]
    BY <1>0, <1>1, <1>2, <1>4
  <2> QED
    BY <1>1, <2>1, WithinIs
<1>5. ASSUME Within(p, d), k <= Len(d) PROVE Upto(d, k) = Upto(p, k) /\ Within(d, Upto(p, k))
  <2>1. /\ Upto(d, k) \in Seq(S) /\ Len(Upto(d, k)) = k
        /\ \A i \in 1 .. k : Upto(d, k)[i] = d[i]
    BY <1>0, <1>5, UptoProperties
  <2>2. Upto(d, k) = Upto(p, k)
    <3>1. \A i \in 1 .. k : Upto(d, k)[i] = Upto(p, k)[i]
      BY <1>0, <1>1, <1>2, <1>5, <2>1
    <3> QED
      BY <1>1, <2>1, <3>1, SeqEqual
  <2>3. Within(d, Upto(p, k))
    BY <1>0, <1>1, <1>5, <2>1, <2>2, WithinIs
  <2> QED
    BY <2>2, <2>3
<1>6. ASSUME Within(p, d), k = Len(d) PROVE Upto(p, k) = d
  BY <1>0, <1>1, <1>2, <1>6, SeqEqual
<1> QED
  BY <1>3, <1>4, <1>5, <1>6

\* p, with its first names o replaced by n.
LEMMA MovedWithin ==
    ASSUME NEW S, NEW p \in Seq(S), NEW o \in Seq(S), NEW n \in Seq(S),
           Len(o) = Len(n), Within(p, o)
    PROVE  /\ Moved(p, o, n) \in Seq(S) /\ Len(Moved(p, o, n)) = Len(p)
           /\ Within(Moved(p, o, n), n)
           /\ \A k \in 0 .. Len(p) :
                /\ k <= Len(n) => Upto(Moved(p, o, n), k) = Upto(n, k)
                /\ Len(n) <= k => Upto(Moved(p, o, n), k) = Moved(Upto(p, k), o, n)
<1> DEFINE q == Moved(p, o, n)
<1>0. Len(p) \in Nat /\ Len(o) \in Nat /\ Len(n) \in Nat /\ Len(o) <= Len(p)
  BY WithinIs
<1>1. /\ q \in Seq(S) /\ Len(q) = Len(p)
      /\ \A i \in 1 .. Len(p) : q[i] = IF i <= Len(n) THEN n[i] ELSE p[i]
  BY <1>0, MovedIs
<1> HIDE DEF q
<1>2. Within(q, n)
  BY <1>0, <1>1, WithinIs
<1>3. ASSUME NEW k \in 0 .. Len(p)
      PROVE  /\ k <= Len(n) => Upto(q, k) = Upto(n, k)
             /\ Len(n) <= k => Upto(q, k) = Moved(Upto(p, k), o, n)
  <2>1. /\ Upto(q, k) \in Seq(S) /\ Len(Upto(q, k)) = k
        /\ \A i \in 1 .. k : Upto(q, k)[i] = q[i]
    BY <1>0, <1>1, UptoProperties
  <2>2. ASSUME k <= Len(n) PROVE Upto(q, k) = Upto(n, k)
    BY <1>0, <1>1, <1>2, <2>2, UptoWithin
  <2>3. ASSUME Len(n) <= k PROVE Upto(q, k) = Moved(Upto(p, k), o, n)
    <3>1. /\ Upto(p, k) \in Seq(S) /\ Len(Upto(p, k)) = k
          /\ \A i \in 1 .. k : Upto(p, k)[i] = p[i]
      BY <1>0, UptoProperties
    <3>2. PICK u \in Seq(S) : u = Upto(p, k)
      BY <3>1
    <3>3. /\ Moved(u, o, n) \in Seq(S) /\ Len(Moved(u, o, n)) = k
          /\ \A i \in 1 .. k : Moved(u, o, n)[i] = IF i <= Len(n) THEN n[i] ELSE u[i]
      BY <1>0, <2>3, <3>1, <3>2, MovedIs
    <3>4. ASSUME NEW i \in 1 .. k PROVE Upto(q, k)[i] = Moved(u, o, n)[i]
      <4>1. i \in 1 .. Len(p)
        BY <1>0
      <4>2. Upto(q, k)[i] = IF i <= Len(n) THEN n[i] ELSE p[i]
        BY <1>1, <2>1, <4>1
      <4>3. Moved(u, o, n)[i] = IF i <= Len(n) THEN n[i] ELSE p[i]
        BY <3>1, <3>2, <3>3
      <4> QED
        BY <4>2, <4>3
    <3> QED
      BY <2>1, <3>2, <3>3, <3>4, SeqEqual
  <2> QED
    BY <2>2, <2>3
<1> QED
  BY <1>1, <1>2, <1>3 DEF q

\* Different paths within a directory are different when it is moved.
LEMMA MovedDiffer ==
    ASSUME NEW S, NEW p \in Seq(S), NEW r \in Seq(S), NEW o \in Seq(S), NEW n \in Seq(S),
           Len(o) = Len(n), Within(p, o), Within(r, o), Moved(p, o, n) = Moved(r, o, n)
    PROVE  p = r
<1>0. /\ Len(p) \in Nat /\ Len(r) \in Nat /\ Len(o) \in Nat /\ Len(n) \in Nat
      /\ Len(o) <= Len(p) /\ Len(o) <= Len(r)
      /\ \A i \in 1 .. Len(o) : p[i] = o[i] /\ r[i] = o[i]
  BY WithinIs
<1>1. /\ Len(Moved(p, o, n)) = Len(p)
      /\ \A i \in 1 .. Len(p) : Moved(p, o, n)[i] = IF i <= Len(n) THEN n[i] ELSE p[i]
  BY <1>0, MovedIs
<1>2. /\ Len(Moved(r, o, n)) = Len(r)
      /\ \A i \in 1 .. Len(r) : Moved(r, o, n)[i] = IF i <= Len(n) THEN n[i] ELSE r[i]
  BY <1>0, MovedIs
<1>3. ASSUME NEW i \in 1 .. Len(p) PROVE p[i] = r[i]
  <2>1. CASE i <= Len(o)
    <3>1. i \in 1 .. Len(o)
      BY <1>0, <2>1
    <3> QED
      BY <1>0, <3>1
  <2>2. CASE ~ (i <= Len(o))
    BY <1>0, <1>1, <1>2, <2>2
  <2> QED
    BY <2>1, <2>2
<1> QED
  BY <1>1, <1>2, <1>3, SeqEqual

\* What is put behind the root's name.
LEMMA BelowRoot ==
    ASSUME NEW q \in Seq(Names)
    PROVE  /\ Root \o q \in Seq(Names) /\ Len(Root \o q) = 1 + Len(q)
           /\ \A i \in 1 .. 1 + Len(q) : (Root \o q)[i] = IF i <= 1 THEN Root[i] ELSE q[i - 1]
<1>1. Root \in Seq(Names) /\ Len(Root) = 1
  BY TreeAssumption DEF Root
<1>2. /\ Root \o q \in Seq(Names) /\ Len(Root \o q) = Len(Root) + Len(q)
      /\ \A i \in 1 .. Len(Root) + Len(q) :
           (Root \o q)[i] = IF i <= Len(Root) THEN Root[i] ELSE q[i - Len(Root)]
  BY <1>1, ConcatProperties
<1> QED
  BY <1>1, <1>2

\* The paths are what begins with the user's name and is neither the root nor too long.
LEMMA PathsAre ==
    ASSUME NEW p
    PROVE  p \in Paths <=> p \in Seq(Names) /\ Len(p) \in 2 .. MaxDepth /\ p[1] = User
<1>0. /\ User \in Names /\ MaxDepth \in Nat \ {0}
      /\ Root \in Seq(Names) /\ Len(Root) = 1 /\ Root[1] = User
  BY TreeAssumption DEF Root
<1>1. ASSUME p \in Paths PROVE p \in Seq(Names) /\ Len(p) \in 2 .. MaxDepth /\ p[1] = User
  <2>0. PICK n \in 1 .. MaxDepth - 1 : \E q \in [1 .. n -> Names] : p = Root \o q
    BY <1>1 DEF Paths
  <2>1. PICK q \in [1 .. n -> Names] : p = Root \o q
    BY <2>0
  <2>2. q \in Seq(Names) /\ Len(q) = n /\ n \in Nat /\ n >= 1
    BY <1>0, <2>1
  <2>3. /\ p \in Seq(Names) /\ Len(p) = 1 + n
        /\ \A i \in 1 .. 1 + n : p[i] = IF i <= 1 THEN Root[i] ELSE q[i - 1]
    BY <2>1, <2>2, BelowRoot
  <2>4. p[1] = User
    <3>1. 1 \in 1 .. 1 + n
      BY <2>2
    <3>2. p[1] = Root[1]
      BY <2>3, <3>1
    <3> QED
      BY <1>0, <3>2
  <2> QED
    BY <1>0, <2>2, <2>3, <2>4
<1>2. ASSUME p \in Seq(Names), Len(p) \in 2 .. MaxDepth, p[1] = User PROVE p \in Paths
  <2> DEFINE n == Len(p) - 1
  <2> DEFINE q == [i \in 1 .. n |-> p[i + 1]]
  <2>1. n \in 1 .. MaxDepth - 1 /\ n \in Nat
    BY <1>0, <1>2
  <2>2. \A i \in 1 .. n : p[i + 1] \in Names
    BY <1>2, <2>1
  <2>3. q \in [1 .. n -> Names] /\ q \in Seq(Names) /\ Len(q) = n
    BY <2>1, <2>2
  <2>4. \A i \in 1 .. n : q[i] = p[i + 1]
    OBVIOUS
  <2> HIDE DEF q
  <2>5. /\ Root \o q \in Seq(Names) /\ Len(Root \o q) = 1 + n
        /\ \A i \in 1 .. 1 + n : (Root \o q)[i] = IF i <= 1 THEN Root[i] ELSE q[i - 1]
    BY <2>3, BelowRoot
  <2>6. ASSUME NEW i \in 1 .. Len(p) PROVE p[i] = (Root \o q)[i]
    <3>1. CASE i = 1
      <4>1. 1 \in 1 .. 1 + n
        BY <2>1
      <4>2. (Root \o q)[1] = Root[1]
        BY <2>5, <4>1
      <4> QED
        BY <1>0, <1>2, <3>1, <4>2
    <3>2. CASE i # 1
      <4>1. i - 1 \in 1 .. n /\ i \in 1 .. 1 + n /\ ~ (i <= 1) /\ (i - 1) + 1 = i
        BY <1>2, <3>2
      <4>2. (Root \o q)[i] = q[i - 1]
        BY <2>5, <4>1
      <4> QED
        BY <2>4, <4>1, <4>2
    <3> QED
      BY <3>1, <3>2
  <2>7. p = Root \o q
    <3>1. Len(p) = Len(Root \o q)
      BY <1>2, <2>1, <2>5
    <3> QED
      BY <1>2, <2>5, <2>6, <3>1, SeqEqual
  <2> QED
    BY <2>1, <2>3, <2>7 DEF Paths
<1> QED
  BY <1>1, <1>2

\* A path and its parent.
LEMMA PathFacts ==
    ASSUME NEW p \in Paths
    PROVE  /\ p \in Seq(Names) /\ Len(p) \in Nat /\ Len(p) >= 2
           /\ Parent(p) = Upto(p, Len(p) - 1) /\ Len(Parent(p)) = Len(p) - 1
           /\ Within(p, Parent(p)) /\ Parent(p) \in Seq(Names)
           /\ Parent(p) # Root => Parent(p) \in Paths
           /\ Parent(p) = Root <=> Len(p) = 2
<1>1. p \in Seq(Names) /\ Len(p) \in 2 .. MaxDepth /\ p[1] = User /\ MaxDepth \in Nat
  BY PathsAre, TreeAssumption
<1>2. Len(p) - 1 \in 0 .. Len(p)
  BY <1>1
<1>3. Parent(p) = Upto(p, Len(p) - 1)
  BY DEF Parent, Upto
<1>4. /\ Parent(p) \in Seq(Names) /\ Len(Parent(p)) = Len(p) - 1
      /\ \A i \in 1 .. Len(p) - 1 : Parent(p)[i] = p[i]
  BY <1>1, <1>2, <1>3, UptoProperties
<1>5. Within(p, Parent(p))
  BY <1>1, <1>2, <1>3, UptoWithin
<1>6. Root \in Seq(Names) /\ Len(Root) = 1 /\ Root[1] = User
  BY TreeAssumption DEF Root
<1>7. Parent(p)[1] = User
  BY <1>1, <1>4
<1>8. Len(p) = 2 => Parent(p) = Root
  BY <1>4, <1>6, <1>7, SeqEqual
<1>9. Len(p) # 2 => Parent(p) \in Paths
  BY <1>1, <1>4, <1>7, PathsAre
<1> QED
  BY <1>1, <1>3, <1>4, <1>5, <1>6, <1>8, <1>9

\* A path of the same depth is the result of a rename.
LEMMA MovedPath ==
    ASSUME NEW p \in Paths, NEW o \in Paths, NEW n \in Paths, Len(o) = Len(n), Len(o) <= Len(p)
    PROVE  Moved(p, o, n) \in Paths
<1>1. /\ p \in Seq(Names) /\ Len(p) \in 2 .. MaxDepth /\ o \in Seq(Names) /\ n \in Seq(Names)
      /\ Len(n) \in 2 .. MaxDepth /\ n[1] = User /\ MaxDepth \in Nat
  BY PathsAre, TreeAssumption
<1>2. /\ Moved(p, o, n) \in Seq(Names) /\ Len(Moved(p, o, n)) = Len(p)
      /\ \A i \in 1 .. Len(p) : Moved(p, o, n)[i] = IF i <= Len(n) THEN n[i] ELSE p[i]
  BY <1>1, MovedIs
<1>3. Moved(p, o, n)[1] = User
  BY <1>1, <1>2
<1> QED
  BY <1>1, <1>2, <1>3, PathsAre

-----------------------------------------------------------------------------
(* Trees of which some directories are being renamed *)

\* The possible rows.
Entries == Paths \X BOOLEAN

\* Neither is within the other.
Incomparable(p, q) == ~ Within(p, q) /\ ~ Within(q, p)

\* A rename is the pair of its old and its new path.
Apart(m, l) == \A p \in {m[1], m[2]}, q \in {l[1], l[2]} : Incomparable(p, q)

\* Renames that do not touch each other's paths.
RenamesOK(M) ==
    /\ M \subseteq Paths \X Paths
    /\ \A m \in M : Len(m[1]) = Len(m[2]) /\ m[1] # m[2]
    /\ \A m, l \in M : m = l \/ Apart(m, l)

\* Where the row of p will be when the renames have ended.
Dest(M, p) == IF \E m \in M : Within(p, m[1])
              THEN LET m == CHOOSE m \in M : Within(p, m[1]) IN Moved(p, m[1], m[2])
              ELSE p

\* The directories on the way to p will be there.
Rooted(M, t, p) == \A k \in 2 .. Len(p) - 1 : \E f \in t : f[2] /\ Dest(M, f[1]) = Upto(p, k)

\* The renames lead to a tree that is whole, and in which they began within directories.
WholeUnder(M, t) ==
    /\ \A e, f \in t : Dest(M, e[1]) = Dest(M, f[1]) => e = f
    /\ \A e \in t : Rooted(M, t, Dest(M, e[1]))
    /\ \A m \in M : Rooted(M, t, m[1])

\* The directory is in the tree.
IsDir(t, p) == p = Root \/ <<p, TRUE>> \in t

\* The renames have rows to move, and where to.
Based(M, t) == \A m \in M : IsDir(t, Parent(m[2])) /\ \E e \in t : Within(e[1], m[1])

\* A change of the row of p is none of the business of the renames.
Quiet(M, p) == \A m \in M : p # Parent(m[2]) /\ ~ Within(p, m[1]) /\ ~ Within(p, m[2])

\* What is in none of the directories stays.
LEMMA DestOutside ==
    ASSUME NEW M, NEW p, \A m \in M : ~ Within(p, m[1])
    PROVE  Dest(M, p) = p
  BY DEF Dest

\* What is in one of them goes with it, and with no other.
LEMMA DestInside ==
    ASSUME NEW M, RenamesOK(M), NEW p \in Paths, NEW m \in M, Within(p, m[1])
    PROVE  Dest(M, p) = Moved(p, m[1], m[2])
<1>1. ASSUME NEW l \in M, Within(p, l[1]) PROVE l = m
  <2>1. p \in Seq(Names) /\ l[1] \in Seq(Names) /\ m[1] \in Seq(Names)
    BY PathFacts DEF RenamesOK
  <2>2. Within(l[1], m[1]) \/ Within(m[1], l[1])
    BY <1>1, <2>1, WithinAll
  <2> QED
    BY <2>2 DEF RenamesOK, Apart, Incomparable
<1>2. (CHOOSE l \in M : Within(p, l[1])) = m
  BY <1>1
<1> QED
  BY <1>2 DEF Dest

\* The two cases.
LEMMA DestIs ==
    ASSUME NEW M, RenamesOK(M), NEW p \in Paths
    PROVE  /\ Dest(M, p) \in Paths /\ Len(Dest(M, p)) = Len(p)
           /\ \/ Dest(M, p) = p /\ \A m \in M : ~ Within(p, m[1])
              \/ \E m \in M : /\ Within(p, m[1]) /\ Dest(M, p) = Moved(p, m[1], m[2])
                              /\ Within(Dest(M, p), m[2])
<1>1. CASE \A m \in M : ~ Within(p, m[1])
  BY <1>1, DestOutside
<1>2. ASSUME NEW m \in M, Within(p, m[1])
      PROVE  /\ Dest(M, p) \in Paths /\ Len(Dest(M, p)) = Len(p)
             /\ Dest(M, p) = Moved(p, m[1], m[2]) /\ Within(Dest(M, p), m[2])
  <2>1. Dest(M, p) = Moved(p, m[1], m[2])
    BY <1>2, DestInside
  <2>2. m[1] \in Paths /\ m[2] \in Paths /\ Len(m[1]) = Len(m[2])
    BY DEF RenamesOK
  <2>3. p \in Seq(Names) /\ m[1] \in Seq(Names) /\ m[2] \in Seq(Names)
    BY <2>2, PathFacts
  <2>4. Len(m[1]) <= Len(p)
    BY <1>2, <2>3, WithinIs
  <2> QED
    BY <1>2, <2>1, <2>2, <2>3, <2>4, MovedPath, MovedWithin
<1> QED
  BY <1>1, <1>2

\* More rows do no harm.
LEMMA RootedMore ==
    ASSUME NEW M, NEW t, NEW u, t \subseteq u, NEW p, Rooted(M, t, p)
    PROVE  Rooted(M, u, p)
  BY DEF Rooted

\* A directory that none of the renames moves, and those above it, are where they are.
LEMMA RootedBelow ==
    ASSUME NEW t \in SUBSET Entries, NEW M, RenamesOK(M), WholeUnder(M, t), NEW p \in Paths,
           IsDir(t, Parent(p)), \A m \in M : ~ Within(Parent(p), m[1])
    PROVE  Rooted(M, t, p)
<1> DEFINE q == Parent(p)
<1>1. /\ p \in Seq(Names) /\ Len(p) \in Nat /\ Len(p) >= 2 /\ q = Upto(p, Len(p) - 1)
      /\ Len(q) = Len(p) - 1 /\ Within(p, q) /\ q \in Seq(Names) /\ (q = Root <=> Len(p) = 2)
  BY PathFacts
<1>2. SUFFICES ASSUME NEW k \in 2 .. Len(p) - 1
               PROVE  \E f \in t : f[2] /\ Dest(M, f[1]) = Upto(p, k)
  BY DEF Rooted
<1>3. <<q, TRUE>> \in t
  BY <1>1 DEF IsDir
<1>4. Dest(M, q) = q
  BY DestOutside
<1>5. CASE k = Len(p) - 1
  BY <1>1, <1>3, <1>4, <1>5
<1>6. CASE k < Len(p) - 1
  <2>1. Rooted(M, t, q)
    BY <1>3, <1>4 DEF WholeUnder
  <2>2. k \in 2 .. Len(q) - 1
    BY <1>1, <1>6
  <2>3. Upto(q, k) = Upto(p, k)
    <3>1. k \in 0 .. Len(p) /\ k <= Len(q)
      BY <1>1
    <3> QED
      BY <1>1, <3>1, UptoWithin
  <2> QED
    BY <2>1, <2>2, <2>3 DEF Rooted
<1> QED
  BY <1>1, <1>5, <1>6

\* A new row in a directory that is not on its way.
LEMMA TreeInsert ==
    ASSUME NEW t \in SUBSET Entries, NEW M, RenamesOK(M), WholeUnder(M, t),
           NEW p \in Paths, NEW d \in BOOLEAN, IsDir(t, Parent(p)),
           \A e \in t : e[1] # p, Quiet(M, p)
    PROVE  WholeUnder(M, t \cup {<<p, d>>})
<1> DEFINE u == t \cup {<<p, d>>}
<1>0. p \in Seq(Names) /\ Parent(p) \in Seq(Names) /\ Within(p, Parent(p))
  BY PathFacts
<1>1. \A m \in M : m[1] \in Seq(Names) /\ m[2] \in Seq(Names)
  BY PathFacts DEF RenamesOK
<1>2. Dest(M, p) = p
  BY DestOutside DEF Quiet
<1>3. ASSUME NEW f \in t PROVE Dest(M, f[1]) # p
  <2>1. f[1] \in Paths /\ f[1] # p
    BY DEF Entries
  <2> QED
    BY <2>1, DestIs DEF Quiet
<1>4. \A m \in M : ~ Within(Parent(p), m[1])
  BY <1>0, <1>1, WithinAll DEF Quiet
<1>5. Rooted(M, t, p)
  BY <1>4, RootedBelow
<1>6. \A e, f \in u : Dest(M, e[1]) = Dest(M, f[1]) => e = f
  BY <1>2, <1>3 DEF WholeUnder
<1>7. \A e \in u : Rooted(M, u, Dest(M, e[1]))
  BY <1>2, <1>5, RootedMore DEF WholeUnder
<1>8. \A m \in M : Rooted(M, u, m[1])
  BY RootedMore DEF WholeUnder
<1> QED
  BY <1>6, <1>7, <1>8 DEF WholeUnder

\* Deleting a row and all rows below it.
LEMMA TreeDelete ==
    ASSUME NEW t \in SUBSET Entries, NEW M, RenamesOK(M), WholeUnder(M, t), Based(M, t),
           NEW e0 \in t, \A e \in t : Within(e[1], e0[1]) => Quiet(M, e[1])
    PROVE  WholeUnder(M, {e \in t : ~ Within(e[1], e0[1])})
<1> DEFINE d == e0[1]
<1> DEFINE u == {e \in t : ~ Within(e[1], d)}
<1>0. /\ d \in Paths /\ d \in Seq(Names) /\ Len(d) \in Nat /\ Len(d) >= 2 /\ Within(d, d)
      /\ \A e \in t : e[1] \in Paths /\ e[1] \in Seq(Names)
  BY PathFacts, WithinItself DEF Entries
<1>1. \A m \in M : m[1] \in Paths /\ m[2] \in Paths /\ m[1] \in Seq(Names) /\ m[2] \in Seq(Names)
  BY PathFacts DEF RenamesOK
<1>2. Quiet(M, d)
  BY <1>0
<1> HIDE DEF d
<1>3. ASSUME NEW m \in M PROVE ~ Within(m[2], d)
  <2>1. SUFFICES ASSUME Within(m[2], d) PROVE FALSE
    OBVIOUS
  <2>2. m[2] # d
    BY <1>0, <1>1, <1>2 DEF Quiet
  <2>3. /\ Parent(m[2]) = Upto(m[2], Len(m[2]) - 1) /\ Len(m[2]) \in Nat /\ Len(m[2]) >= 2
        /\ Len(Parent(m[2])) = Len(m[2]) - 1 /\ Parent(m[2]) \in Seq(Names)
    BY <1>1, PathFacts
  <2>4. Len(d) < Len(m[2])
    BY <1>0, <1>1, <2>1, <2>2, <2>3, WithinAll
  <2>5. Len(m[2]) - 1 \in 0 .. Len(m[2]) /\ Len(d) <= Len(m[2]) - 1 /\ Len(m[2]) > 2
    BY <1>0, <2>3, <2>4
  <2>6. Within(Parent(m[2]), d)
    <3>1. PICK k \in 0 .. Len(m[2]) : k = Len(m[2]) - 1
      BY <2>5
    <3>2. Within(Upto(m[2], k), d)
      BY <1>0, <1>1, <2>1, <2>5, <3>1, UptoWithin
    <3> QED
      BY <2>3, <3>1, <3>2
  <2>7. Parent(m[2]) # Root
    <3>1. m[2] \in Paths
      BY <1>1
    <3>2. PICK k \in Nat : k = Len(m[2])
      BY <2>3
    <3>3. k > 2
      BY <2>5, <3>2
    <3>4. k # 2
      BY <3>3
    <3> QED
      BY <3>1, <3>2, <3>4, PathFacts
  <2>8. <<Parent(m[2]), TRUE>> \in t
    BY <2>7 DEF Based, IsDir
  <2>9. Quiet(M, Parent(m[2]))
    BY <2>6, <2>8 DEF d
  <2> QED
    BY <2>9 DEF Quiet
<1>4. ASSUME NEW e \in t PROVE Within(Dest(M, e[1]), d) <=> Within(e[1], d)
  <2>1. CASE Dest(M, e[1]) = e[1]
    BY <2>1
  <2>2. ASSUME NEW m \in M, Within(e[1], m[1]), Within(Dest(M, e[1]), m[2])
        PROVE  ~ Within(Dest(M, e[1]), d) /\ ~ Within(e[1], d)
    <3>1. ~ Within(e[1], d)
      BY <2>2 DEF Quiet, d
    <3>2. ASSUME Within(Dest(M, e[1]), d) PROVE FALSE
      <4>1. Dest(M, e[1]) \in Seq(Names)
        BY <1>0, DestIs, PathFacts
      <4>2. Within(d, m[2]) \/ Within(m[2], d)
        BY <1>0, <1>1, <2>2, <3>2, <4>1, WithinAll
      <4> QED
        BY <1>2, <1>3, <4>2 DEF Quiet
    <3> QED
      BY <3>1, <3>2
  <2> QED
    BY <1>0, <2>1, <2>2, DestIs
<1>5. ASSUME NEW p \in Seq(Names), ~ Within(p, d), Rooted(M, t, p)
      PROVE  Rooted(M, u, p)
  <2>1. SUFFICES ASSUME NEW k \in 2 .. Len(p) - 1
                 PROVE  \E f \in u : f[2] /\ Dest(M, f[1]) = Upto(p, k)
    BY DEF Rooted
  <2>2. PICK f \in t : f[2] /\ Dest(M, f[1]) = Upto(p, k)
    BY <1>5 DEF Rooted
  <2>3. Within(p, Upto(p, k)) /\ Upto(p, k) \in Seq(Names)
    <3>1. k \in 0 .. Len(p)
      OBVIOUS
    <3> QED
      BY <1>0, <3>1, UptoWithin, UptoProperties
  <2>4. ~ Within(Upto(p, k), d)
    BY <1>0, <1>5, <2>3, WithinAll
  <2> QED
    BY <1>4, <2>2, <2>4
<1>6. \A e, f \in u : Dest(M, e[1]) = Dest(M, f[1]) => e = f
  BY DEF WholeUnder
<1>7. ASSUME NEW e \in u PROVE Rooted(M, u, Dest(M, e[1]))
  <2>1. Dest(M, e[1]) \in Seq(Names) /\ ~ Within(Dest(M, e[1]), d) /\ Rooted(M, t, Dest(M, e[1]))
    BY <1>0, <1>4, DestIs, PathFacts DEF WholeUnder
  <2> QED
    BY <1>5, <2>1
<1>8. ASSUME NEW m \in M PROVE Rooted(M, u, m[1])
  <2>1. PICK e \in t : Within(e[1], m[1])
    BY DEF Based
  <2>2. ~ Within(m[1], d)
    <3>1. SUFFICES ASSUME Within(m[1], d) PROVE FALSE
      OBVIOUS
    <3>2. Within(e[1], d)
      BY <1>0, <1>1, <2>1, <3>1, WithinAll
    <3> QED
      BY <2>1, <3>2 DEF Quiet, d
  <2>3. Rooted(M, t, m[1])
    BY DEF WholeUnder
  <2> QED
    BY <1>1, <1>5, <2>2, <2>3
<1>9. WholeUnder(M, u)
  BY <1>6, <1>7, <1>8 DEF WholeUnder
<1> QED
  BY <1>9 DEF d

\* The row of d, below which there is nothing, becomes the row of n.
LEMMA TreeMove ==
    ASSUME NEW t \in SUBSET Entries, NEW M, RenamesOK(M), WholeUnder(M, t), Based(M, t),
           NEW e0 \in t, \A e \in t : Within(e[1], e0[1]) => e = e0,
           NEW n \in Paths, ~ Within(n, e0[1]), IsDir(t, Parent(n)), \A e \in t : e[1] # n,
           Quiet(M, e0[1]), Quiet(M, n)
    PROVE  WholeUnder(M, (t \ {e0}) \cup {<<n, e0[2]>>})
<1>0. /\ e0[1] \in Paths /\ e0[1] \in Seq(Names) /\ e0[2] \in BOOLEAN
      /\ Within(e0[1], e0[1]) /\ n \in Seq(Names)
      /\ Within(n, Parent(n)) /\ Parent(n) \in Seq(Names)
  BY PathFacts, WithinItself DEF Entries
<1>1. {e \in t : ~ Within(e[1], e0[1])} = t \ {e0}
  BY <1>0
<1>2. WholeUnder(M, t \ {e0})
  <2>1. \A e \in t : Within(e[1], e0[1]) => Quiet(M, e[1])
    OBVIOUS
  <2> QED
    BY <1>1, <2>1, TreeDelete
<1>3. Parent(n) # e0[1]
  BY <1>0
<1>4. IsDir(t \ {e0}, Parent(n))
  <2>1. CASE Parent(n) = Root
    BY <2>1 DEF IsDir
  <2>2. CASE Parent(n) # Root
    <3>1. <<Parent(n), TRUE>> \in t
      BY <2>2 DEF IsDir
    <3>2. <<Parent(n), TRUE>> # e0
      <4>1. <<Parent(n), TRUE>>[1] = Parent(n)
        OBVIOUS
      <4> QED
        BY <1>3, <4>1
    <3> QED
      BY <3>1, <3>2 DEF IsDir
  <2> QED
    BY <2>1, <2>2
<1>5. PICK u \in SUBSET Entries : u = t \ {e0}
  OBVIOUS
<1>6. \A e \in u : e[1] # n
  BY <1>5
<1> QED
  BY <1>0, <1>2, <1>4, <1>5, <1>6, TreeInsert

\* One row of a rename under way is moved: nothing changes in what it leads to.
LEMMA TreeUpdate ==
    ASSUME NEW t \in SUBSET Entries, NEW M, RenamesOK(M), WholeUnder(M, t),
           NEW e0 \in t, NEW m \in M, Within(e0[1], m[1]),
           NEW to, to = Moved(e0[1], m[1], m[2])
    PROVE  /\ to \in Paths /\ ~ Within(to, m[1]) /\ Within(to, m[2])
           /\ \A f \in t : f[1] # to
           /\ WholeUnder(M, (t \ {e0}) \cup {<<to, e0[2]>>})
<1> DEFINE e1 == <<to, e0[2]>>
<1> DEFINE u == (t \ {e0}) \cup {e1}
<1>0. /\ \A e \in t : e[1] \in Paths /\ e[1] \in Seq(Names) /\ e[2] \in BOOLEAN
      /\ e1[1] = to /\ e1[2] = e0[2] /\ e0[1] \in Paths
  BY PathFacts DEF Entries
<1>1. \A l \in M : /\ l[1] \in Paths /\ l[2] \in Paths /\ l[1] \in Seq(Names) /\ l[2] \in Seq(Names)
                   /\ Len(l[1]) = Len(l[2]) /\ l[1] # l[2] /\ Len(l[1]) \in Nat
  BY PathFacts DEF RenamesOK
<1>2. Dest(M, e0[1]) = to
  BY <1>0, DestInside
<1>3. to \in Paths /\ to \in Seq(Names)
  BY <1>0, <1>2, DestIs, PathFacts
<1>4. Within(to, m[2])
  BY <1>0, <1>1, MovedWithin
<1> HIDE DEF e1
<1>5. ASSUME NEW l \in M PROVE ~ Within(to, l[1])
  <2>1. SUFFICES ASSUME Within(to, l[1]) PROVE FALSE
    OBVIOUS
  <2>2. Within(m[2], l[1]) \/ Within(l[1], m[2])
    BY <1>1, <1>3, <1>4, <2>1, WithinAll
  <2>3. CASE l = m
    BY <1>1, <2>2, <2>3, WithinAll
  <2>4. CASE l # m
    BY <2>2, <2>4 DEF RenamesOK, Apart, Incomparable
  <2> QED
    BY <2>3, <2>4
<1>6. Dest(M, to) = to
  BY <1>5, DestOutside
<1>7. \A f \in t : f[1] # to
  BY <1>2, <1>5, <1>6 DEF WholeUnder
<1>8. /\ \A f \in u : f = e1 \/ (f \in t /\ f # e0)
      /\ Dest(M, e1[1]) = Dest(M, e0[1]) /\ e1[2] = e0[2]
  BY <1>0, <1>2, <1>6
<1>9. ASSUME NEW e \in u, NEW f \in u, Dest(M, e[1]) = Dest(M, f[1]) PROVE e = f
  <2>1. \A g, h \in t : Dest(M, g[1]) = Dest(M, h[1]) => g = h
    BY DEF WholeUnder
  <2> HIDE DEF u
  <2> QED
    BY <1>8, <1>9, <2>1
<1>10. ASSUME NEW p, Rooted(M, t, p) PROVE Rooted(M, u, p)
  <2>1. SUFFICES ASSUME NEW k \in 2 .. Len(p) - 1
                 PROVE  \E f \in u : f[2] /\ Dest(M, f[1]) = Upto(p, k)
    BY DEF Rooted
  <2>2. PICK f \in t : f[2] /\ Dest(M, f[1]) = Upto(p, k)
    BY <1>10 DEF Rooted
  <2>3. CASE f = e0
    BY <1>8, <2>2, <2>3
  <2>4. CASE f # e0
    BY <2>2, <2>4
  <2> QED
    BY <2>3, <2>4
<1>11. \A e \in u : Rooted(M, u, Dest(M, e[1]))
  BY <1>8, <1>10 DEF WholeUnder
<1>12. \A l \in M : Rooted(M, u, l[1])
  BY <1>10 DEF WholeUnder
<1>13. WholeUnder(M, u)
  BY <1>9, <1>11, <1>12 DEF WholeUnder
<1> QED
  BY <1>3, <1>4, <1>5, <1>7, <1>13 DEF e1

\* A rename has ended.
LEMMA TreeFinish ==
    ASSUME NEW t \in SUBSET Entries, NEW M, RenamesOK(M), WholeUnder(M, t),
           NEW m \in M, \A e \in t : ~ Within(e[1], m[1])
    PROVE  RenamesOK(M \ {m}) /\ WholeUnder(M \ {m}, t)
<1> DEFINE N == M \ {m}
<1>1. RenamesOK(N)
  BY DEF RenamesOK
<1>2. ASSUME NEW e \in t PROVE Dest(N, e[1]) = Dest(M, e[1])
  <2>1. e[1] \in Paths
    BY DEF Entries
  <2>2. CASE \A l \in N : ~ Within(e[1], l[1])
    BY <2>2, DestOutside
  <2>3. ASSUME NEW l \in N, Within(e[1], l[1]) PROVE Dest(N, e[1]) = Dest(M, e[1])
    BY <1>1, <2>1, <2>3, DestInside
  <2> QED
    BY <2>2, <2>3
<1> HIDE DEF N
<1>3. \A p : Rooted(M, t, p) => Rooted(N, t, p)
  BY <1>2 DEF Rooted
<1>4. WholeUnder(N, t)
  <2>1. \A e, f \in t : Dest(N, e[1]) = Dest(N, f[1]) => e = f
    BY <1>2 DEF WholeUnder
  <2>2. \A e \in t : Rooted(N, t, Dest(N, e[1]))
    BY <1>2, <1>3 DEF WholeUnder
  <2>3. \A l \in N : Rooted(N, t, l[1])
    BY <1>3 DEF WholeUnder, N
  <2> QED
    BY <2>1, <2>2, <2>3 DEF WholeUnder
<1> QED
  BY <1>1, <1>4 DEF N

\* A rename begins that has nothing to do with those under way.
LEMMA TreeStart ==
    ASSUME NEW t \in SUBSET Entries, NEW M, RenamesOK(M), WholeUnder(M, t),
           NEW o \in Paths, NEW n \in Paths, o # n, Len(o) = Len(n),
           \A m \in M : Apart(m, <<o, n>>), IsDir(t, Parent(n)),
           NEW e0 \in t, Within(e0[1], o), \A e \in t : Dest(M, e[1]) # n
    PROVE  RenamesOK(M \cup {<<o, n>>}) /\ WholeUnder(M \cup {<<o, n>>}, t)
<1> DEFINE N == M \cup {<<o, n>>}
<1>0. /\ \A e \in t : e[1] \in Paths /\ e[1] \in Seq(Names) /\ Len(e[1]) \in Nat
      /\ o \in Seq(Names) /\ n \in Seq(Names) /\ Len(o) \in Nat /\ Len(n) >= 2
      /\ Parent(n) \in Seq(Names) /\ Within(n, Parent(n))
  BY PathFacts DEF Entries
<1>1. \A m \in M : /\ m[1] \in Paths /\ m[2] \in Paths /\ m[1] \in Seq(Names) /\ m[2] \in Seq(Names)
                   /\ Incomparable(m[1], o) /\ Incomparable(m[1], n)
                   /\ Incomparable(m[2], o) /\ Incomparable(m[2], n)
  BY PathFacts DEF RenamesOK, Apart
<1>2. RenamesOK(N)
  <2>1. N \subseteq Paths \X Paths /\ \A m \in N : Len(m[1]) = Len(m[2]) /\ m[1] # m[2]
    BY DEF RenamesOK
  <2>2. ASSUME NEW m \in N, NEW l \in N PROVE m = l \/ Apart(m, l)
    <3>1. CASE m \in M
      BY <3>1 DEF RenamesOK
    <3>2. CASE m = <<o, n>> /\ l \in M
      BY <1>1, <3>2 DEF Apart, Incomparable
    <3> QED
      BY <3>1, <3>2
  <2> QED
    BY <2>1, <2>2 DEF RenamesOK
<1>3. \A m \in N : m \in M \/ (m[1] = o /\ m[2] = n)
  OBVIOUS
<1>4. <<o, n>> \in N /\ M \subseteq N
  OBVIOUS
<1> HIDE DEF N
<1>5. \A e \in t : Dest(M, e[1]) \in Paths /\ Dest(M, e[1]) \in Seq(Names)
  BY <1>0, DestIs, PathFacts
<1>6. ASSUME NEW e \in t, Within(e[1], o)
      PROVE  Dest(M, e[1]) = e[1] /\ Dest(N, e[1]) = Moved(e[1], o, n)
  <2>1. \A m \in M : ~ Within(e[1], m[1])
    BY <1>0, <1>1, <1>6, WithinAll DEF Incomparable
  <2>2. Dest(N, e[1]) = Moved(e[1], <<o, n>>[1], <<o, n>>[2])
    BY <1>0, <1>2, <1>4, <1>6, DestInside
  <2> QED
    BY <2>1, <2>2, DestOutside
<1>7. ASSUME NEW e \in t, ~ Within(e[1], o)
      PROVE  Dest(N, e[1]) = Dest(M, e[1]) /\ ~ Within(Dest(M, e[1]), o)
  <2>1. CASE \A m \in M : ~ Within(e[1], m[1])
    <3>1. \A m \in N : ~ Within(e[1], m[1])
      BY <1>3, <1>7, <2>1
    <3> QED
      BY <1>7, <2>1, <3>1, DestOutside
  <2>2. ASSUME NEW m \in M, Within(e[1], m[1])
        PROVE  Dest(N, e[1]) = Dest(M, e[1]) /\ ~ Within(Dest(M, e[1]), o)
    <3>1. m \in N
      BY <1>4
    <3>2. Dest(M, e[1]) = Moved(e[1], m[1], m[2])
      BY <1>0, <2>2, DestInside
    <3>3. Dest(N, e[1]) = Moved(e[1], m[1], m[2])
      BY <1>0, <1>2, <2>2, <3>1, DestInside
    <3>4. Within(Dest(M, e[1]), m[2])
      BY <1>0, <1>1, <2>2, <3>2, MovedWithin DEF RenamesOK
    <3>5. ~ Within(Dest(M, e[1]), o)
      BY <1>0, <1>1, <1>5, <3>4, WithinAll DEF Incomparable
    <3> QED
      BY <3>2, <3>3, <3>5
  <2> QED
    BY <2>1, <2>2
<1>8. ASSUME NEW e \in t, Within(Dest(M, e[1]), n) PROVE FALSE
  <2>1. PICK q \in Paths : q = Dest(M, e[1])
    BY <1>5
  <2>2. q \in Seq(Names) /\ Len(q) \in Nat /\ Within(q, n) /\ q # n
    BY <1>8, <2>1, PathFacts
  <2>3. Len(n) < Len(q)
    BY <1>0, <2>2, WithinAll
  <2>4. Len(n) \in 2 .. Len(q) - 1 /\ Len(n) \in 0 .. Len(q)
    BY <1>0, <2>2, <2>3
  <2>5. Rooted(M, t, q)
    BY <2>1 DEF WholeUnder
  <2>6. PICK f \in t : Dest(M, f[1]) = Upto(q, Len(n))
    BY <2>4, <2>5 DEF Rooted
  <2>7. PICK k \in 0 .. Len(q) : k = Len(n)
    BY <2>4
  <2>8. Upto(q, k) = n
    BY <1>0, <2>2, <2>7, UptoWithin
  <2> QED
    BY <2>6, <2>7, <2>8
<1>9. \A e \in t : Within(e[1], o) => Within(Dest(N, e[1]), n)
  BY <1>0, <1>6, MovedWithin
<1>10. ASSUME NEW e \in t, NEW f \in t, Dest(N, e[1]) = Dest(N, f[1]) PROVE e = f
  <2>1. CASE Within(e[1], o) /\ Within(f[1], o)
    <3>1. e[1] = f[1]
      BY <1>0, <1>6, <1>10, <2>1, MovedDiffer
    <3> QED
      BY <3>1 DEF WholeUnder
  <2>2. CASE ~ Within(e[1], o) /\ ~ Within(f[1], o)
    BY <1>7, <1>10, <2>2 DEF WholeUnder
  <2>3. CASE Within(e[1], o) /\ ~ Within(f[1], o)
    BY <1>7, <1>8, <1>9, <1>10, <2>3
  <2>4. CASE ~ Within(e[1], o) /\ Within(f[1], o)
    BY <1>7, <1>8, <1>9, <1>10, <2>4
  <2> QED
    BY <2>1, <2>2, <2>3, <2>4
<1>11. ASSUME NEW p \in Seq(Names), ~ Within(p, o) \/ p = o, Rooted(M, t, p)
       PROVE  Rooted(N, t, p)
  <2>1. SUFFICES ASSUME NEW k \in 2 .. Len(p) - 1
                 PROVE  \E f \in t : f[2] /\ Dest(N, f[1]) = Upto(p, k)
    BY DEF Rooted
  <2>2. PICK f \in t : f[2] /\ Dest(M, f[1]) = Upto(p, k)
    BY <1>11 DEF Rooted
  <2>3. k \in 0 .. Len(p) /\ k < Len(p) /\ k \in Nat
    BY <1>11
  <2>4. Upto(p, k) \in Seq(Names) /\ Len(Upto(p, k)) = k /\ Within(p, Upto(p, k))
    BY <2>3, UptoProperties, UptoWithin
  <2>5. ~ Within(Upto(p, k), o)
    <3>1. CASE ~ Within(p, o)
      BY <1>0, <2>4, <3>1, WithinAll
    <3>2. CASE p = o
      <4>1. k < Len(o)
        BY <2>3, <3>2
      <4> QED
        BY <1>0, <2>3, <2>4, <4>1, WithinIs
    <3> QED
      BY <1>11, <3>1, <3>2
  <2>6. ~ Within(f[1], o)
    BY <1>6, <2>2, <2>5
  <2> QED
    BY <1>7, <2>2, <2>6
<1>12. Rooted(M, t, o)
  <2>1. SUFFICES ASSUME NEW k \in 2 .. Len(o) - 1
                 PROVE  \E f \in t : f[2] /\ Dest(M, f[1]) = Upto(o, k)
    BY DEF Rooted
  <2>2. Rooted(M, t, e0[1])
    BY <1>6 DEF WholeUnder
  <2>3. Len(o) <= Len(e0[1])
    BY <1>0, WithinIs
  <2>4. k \in 2 .. Len(e0[1]) - 1 /\ k \in 0 .. Len(e0[1]) /\ k <= Len(o)
    BY <1>0, <2>3
  <2>5. Upto(o, k) = Upto(e0[1], k)
    BY <1>0, <2>4, UptoWithin
  <2> QED
    BY <2>2, <2>4, <2>5 DEF Rooted
<1>13. Rooted(N, t, n)
  <2>1. \A m \in M : ~ Within(Parent(n), m[1])
    BY <1>0, <1>1, WithinAll DEF Incomparable
  <2>2. Rooted(M, t, n)
    BY <2>1, RootedBelow
  <2>3. ~ Within(n, o)
    BY <1>0, WithinAll
  <2> QED
    BY <1>0, <1>11, <2>2, <2>3
<1>14. ASSUME NEW e \in t PROVE Rooted(N, t, Dest(N, e[1]))
  <2>1. CASE ~ Within(e[1], o)
    BY <1>5, <1>7, <1>11, <2>1 DEF WholeUnder
  <2>2. CASE Within(e[1], o)
    <3>1. PICK p \in Paths : p = e[1]
      BY <1>0
    <3>2. p \in Seq(Names) /\ Len(p) \in Nat /\ Within(p, o) /\ Rooted(M, t, p)
      BY <1>0, <1>6, <2>2, <3>1 DEF WholeUnder
    <3>3. PICK q : q = Moved(p, o, n)
      OBVIOUS
    <3>4. /\ Len(q) = Len(p) /\ q = Dest(N, e[1])
          /\ \A k \in 0 .. Len(p) : /\ k <= Len(n) => Upto(q, k) = Upto(n, k)
                                    /\ Len(n) <= k => Upto(q, k) = Moved(Upto(p, k), o, n)
      BY <1>0, <1>6, <2>2, <3>1, <3>2, <3>3, MovedWithin
    <3>5. ASSUME NEW k \in 2 .. Len(p) - 1
          PROVE  \E f \in t : f[2] /\ Dest(N, f[1]) = Upto(q, k)
      <4>0. k \in 0 .. Len(p) /\ k \in Nat
        BY <3>2
      <4>1. CASE k < Len(n)
        <5>1. k \in 2 .. Len(n) - 1
          BY <1>0, <4>1
        <5>2. Upto(q, k) = Upto(n, k)
          BY <1>0, <3>4, <4>0, <4>1
        <5> QED
          BY <1>13, <5>1, <5>2 DEF Rooted
      <4>2. CASE Len(n) <= k
        <5>1. PICK f \in t : f[2] /\ Dest(M, f[1]) = Upto(p, k)
          BY <3>2 DEF Rooted
        <5>2. Within(Upto(p, k), o)
          BY <1>0, <3>2, <4>0, <4>2, UptoWithin
        <5>3. Within(f[1], o)
          BY <1>7, <5>1, <5>2
        <5>4. Dest(N, f[1]) = Moved(Upto(p, k), o, n)
          BY <1>6, <5>1, <5>3
        <5> QED
          BY <3>4, <4>0, <4>2, <5>1, <5>4
      <4> QED
        BY <1>0, <4>0, <4>1, <4>2
    <3> QED
      BY <3>4, <3>5 DEF Rooted
  <2> QED
    BY <2>1, <2>2
<1>15. ASSUME NEW m \in N PROVE Rooted(N, t, m[1])
  <2>1. CASE m \in M
    BY <1>1, <1>11, <2>1 DEF WholeUnder, Incomparable
  <2>2. CASE m[1] = o
    BY <1>0, <1>11, <1>12, <2>2
  <2> QED
    BY <1>3, <2>1, <2>2
<1>16. WholeUnder(N, t)
  BY <1>10, <1>14, <1>15 DEF WholeUnder
<1> QED
  BY <1>2, <1>16 DEF N

\* What the started renames make of the old and the new path of another one, of which
\* the first row p is moved to q, if neither is their business.
LEMMA TreeApart ==
    ASSUME NEW t \in SUBSET Entries, NEW M, RenamesOK(M), WholeUnder(M, t), Based(M, t),
           NEW o \in Paths, NEW n \in Paths, \A e \in t : e[1] # n,
           NEW p \in Paths, Within(p, o), Quiet(M, p),
           NEW q \in Paths, Within(q, n), Quiet(M, q),
           NEW m \in M, ~ Within(m[1], o), ~ Within(m[2], o)
    PROVE  Apart(m, <<o, n>>)
<1>0. /\ o \in Seq(Names) /\ n \in Seq(Names) /\ p \in Seq(Names) /\ q \in Seq(Names)
      /\ Len(n) \in Nat /\ Len(n) >= 2
      /\ \A e \in t : e[1] \in Paths /\ e[1] \in Seq(Names)
  BY PathFacts DEF Entries
<1>1. /\ \A l \in M : l[1] \in Paths /\ l[2] \in Paths /\ l[1] \in Seq(Names) /\ l[2] \in Seq(Names)
      /\ Len(m[1]) = Len(m[2])
  BY PathFacts DEF RenamesOK
<1>2. ~ Within(o, m[1]) /\ ~ Within(o, m[2])
  BY <1>0, <1>1, WithinAll DEF Quiet
<1>3. \A l \in M : ~ Within(n, l[1]) /\ ~ Within(n, l[2])
  BY <1>0, <1>1, WithinAll DEF Quiet
<1>4. ASSUME NEW r \in Paths, Rooted(M, t, r), Within(r, n), Len(r) > Len(n) PROVE FALSE
  <2>0. r \in Seq(Names) /\ Len(r) \in Nat
    BY PathFacts
  <2>1. PICK k \in 2 .. Len(r) - 1 : k = Len(n)
    BY <1>0, <1>4, <2>0
  <2>2. k \in 0 .. Len(r)
    BY <2>0
  <2>3. Upto(r, k) = n
    BY <1>0, <1>4, <2>0, <2>1, <2>2, UptoWithin
  <2>4. PICK f \in t : Dest(M, f[1]) = n
    BY <1>4, <2>1, <2>3 DEF Rooted
  <2>5. PICK l \in M : Within(n, l[2])
    BY <1>0, <2>4, DestIs
  <2> QED
    BY <1>3, <2>5
<1>5. ~ Within(m[1], n)
  <2>1. SUFFICES ASSUME Within(m[1], n) PROVE FALSE
    OBVIOUS
  <2>2. Len(m[1]) > Len(n)
    <3>1. Len(m[1]) \in Nat
      BY <1>1
    <3>2. m[1] # n
      BY <1>0, <1>3, WithinItself
    <3>3. ~ (Len(m[1]) <= Len(n))
      BY <1>0, <1>1, <2>1, <3>2, WithinAll
    <3> QED
      BY <1>0, <3>1, <3>3
  <2> QED
    BY <1>1, <1>4, <2>1, <2>2 DEF WholeUnder
<1>6. ~ Within(m[2], n)
  <2>1. SUFFICES ASSUME Within(m[2], n) PROVE FALSE
    OBVIOUS
  <2>2. PICK e \in t : Within(e[1], m[1])
    BY DEF Based
  <2>3. PICK r \in Paths : r = Dest(M, e[1])
    BY <1>0, DestIs
  <2>4. r = Moved(e[1], m[1], m[2])
    BY <1>0, <2>2, <2>3, DestInside
  <2>5. Within(r, m[2])
    BY <1>0, <1>1, <2>2, <2>4, MovedWithin
  <2>6. r \in Seq(Names) /\ Len(r) \in Nat
    BY PathFacts
  <2>7. Within(r, n)
    BY <1>0, <1>1, <2>1, <2>5, <2>6, WithinAll
  <2>8. ~ (Len(r) <= Len(n))
    <3>1. SUFFICES ASSUME Len(r) <= Len(n) PROVE FALSE
      OBVIOUS
    <3>2. r = n
      BY <1>0, <2>6, <2>7, <3>1, WithinAll
    <3> QED
      BY <1>3, <2>5, <3>2
  <2>9. Len(r) > Len(n)
    BY <1>0, <2>6, <2>8
  <2> QED
    BY <1>4, <2>3, <2>7, <2>9 DEF WholeUnder
<1> QED
  BY <1>2, <1>3, <1>5, <1>6 DEF Apart, Incomparable

\* Nothing is being renamed.
LEMMA TreeStill ==
    ASSUME NEW t \in SUBSET Entries
    PROVE  RenamesOK({}) /\ (WholeUnder({}, t) <=> Whole(t))
<1>0. \A e \in t : /\ e[1] \in Paths /\ e[1] \in Seq(Names) /\ e = <<e[1], e[2]>>
                   /\ e[2] \in BOOLEAN /\ Len(e[1]) \in Nat
  BY PathFacts DEF Entries
<1>1. \A p : Dest({}, p) = p
  BY DestOutside
<1>2. ASSUME Whole(t) PROVE WholeUnder({}, t)
  <2>1. ASSUME NEW e \in t, NEW k \in 2 .. Len(e[1]) - 1
        PROVE  \E f \in t : f[2] /\ f[1] = Upto(e[1], k)
    <3> DEFINE Bad(j) == ~ \E f \in t : f[2] /\ f[1] = Upto(e[1], j)
    <3> DEFINE T == {i \in Nat : i <= Len(e[1]) - 3 /\ Bad(Len(e[1]) - 1 - i)}
    <3>0. PICK p \in Paths : p = e[1]
      BY <1>0
    <3>1. p \in Seq(Names) /\ Len(p) \in Nat /\ Len(p) >= 2
      BY PathFacts
    <3>2. SUFFICES ASSUME Bad(k) PROVE FALSE
      OBVIOUS
    <3>3. T \in SUBSET Nat /\ T # {}
      <4>1. /\ Len(p) - 1 - k \in Nat /\ Len(p) - 1 - k <= Len(p) - 3
            /\ Len(p) - 1 - (Len(p) - 1 - k) = k
        BY <3>0, <3>1
      <4> QED
        BY <3>0, <3>2, <4>1
    <3> HIDE DEF Bad, T
    <3>4. PICK i \in T : \A y \in T : i <= y
      BY <3>3, Least
    <3>5. i \in Nat /\ i <= Len(p) - 3 /\ Bad(Len(p) - 1 - i)
      BY <3>0, <3>4 DEF T
    <3>6. PICK j \in 2 .. Len(p) - 1 : j = Len(p) - 1 - i
      <4>1. PICK h \in Nat : h = Len(p)
        BY <3>1
      <4>2. h - 1 - i \in 2 .. h - 1
        BY <3>5, <4>1
      <4> QED
        BY <4>1, <4>2
    <3>7. \E g \in t : g[1] = Upto(p, j + 1)
      <4>1. CASE i = 0
        <5>1. j + 1 = Len(p)
          BY <3>1, <3>6, <4>1
        <5>2. Upto(p, Len(p)) = p
          BY <3>1, UptoWithin, WithinItself
        <5> QED
          BY <3>0, <5>1, <5>2
      <4>2. CASE i > 0
        <5>1. i - 1 \in Nat /\ i - 1 <= Len(p) - 3 /\ ~ (i <= i - 1)
          BY <3>1, <3>5, <4>2
        <5>2. i - 1 \notin T
          BY <3>4, <5>1
        <5>3. ~ Bad(Len(p) - 1 - (i - 1))
          BY <3>0, <5>1, <5>2 DEF T
        <5>4. Len(p) - 1 - (i - 1) = j + 1
          BY <3>1, <3>5, <3>6
        <5> QED
          BY <3>0, <5>3, <5>4 DEF Bad
      <4> QED
        BY <3>5, <4>1, <4>2
    <3>8. PICK g \in t : g[1] = Upto(p, j + 1)
      BY <3>7
    <3>9. j + 1 \in 0 .. Len(p) /\ j \in Nat /\ j >= 2 /\ j <= j + 1
      BY <3>1, <3>6
    <3>10. /\ Len(g[1]) = j + 1 /\ g[1] \in Paths
           /\ Parent(g[1]) = Upto(g[1], j) /\ Parent(g[1]) # Root
      <4>1. Len(g[1]) = j + 1
        BY <3>1, <3>8, <3>9, UptoProperties
      <4>2. j + 1 # 2 /\ (j + 1) - 1 = j
        BY <3>9
      <4>3. g[1] \in Paths
        BY <1>0
      <4> QED
        BY <4>1, <4>2, <4>3, PathFacts
    <3>11. Upto(g[1], j) = Upto(p, j)
      <4>1. Within(p, g[1]) /\ g[1] \in Seq(Names)
        BY <1>0, <3>1, <3>8, <3>9, UptoWithin
      <4>2. j \in 0 .. Len(p)
        BY <3>6
      <4> QED
        BY <3>1, <3>9, <3>10, <4>1, <4>2, UptoWithin
    <3>12. <<Upto(p, j), TRUE>> \in t
      BY <1>2, <3>10, <3>11 DEF Whole
    <3> QED
      BY <3>0, <3>5, <3>6, <3>12 DEF Bad
  <2>2. \A e \in t : Rooted({}, t, e[1])
    BY <1>1, <2>1 DEF Rooted
  <2> QED
    BY <1>1, <1>2, <2>2 DEF WholeUnder, Whole
<1>3. ASSUME WholeUnder({}, t) PROVE Whole(t)
  <2>1. ASSUME NEW e \in t, Parent(e[1]) # Root PROVE <<Parent(e[1]), TRUE>> \in t
    <3>1. PICK p \in Paths : p = e[1]
      BY <1>0
    <3>2. /\ Len(p) \in Nat /\ Len(p) >= 2 /\ Len(p) # 2
          /\ Parent(p) = Upto(p, Len(p) - 1)
      BY <2>1, <3>1, PathFacts
    <3>3. Len(p) - 1 \in 2 .. Len(p) - 1
      <4>1. PICK h \in Nat : h = Len(p)
        BY <3>2
      <4>2. h >= 2 /\ h # 2
        BY <3>2, <4>1
      <4>3. h - 1 \in 2 .. h - 1
        BY <4>2
      <4> QED
        BY <4>1, <4>3
    <3>4. Rooted({}, t, p)
      BY <1>1, <1>3, <3>1 DEF WholeUnder
    <3>5. PICK f \in t : f[2] /\ f[1] = Parent(p)
      BY <1>1, <3>2, <3>3, <3>4 DEF Rooted
    <3>6. f = <<Parent(p), TRUE>>
      BY <1>0, <3>5
    <3> QED
      BY <3>1, <3>5, <3>6
  <2>2. \A e, f \in t : e[1] = f[1] => e = f
    BY <1>1, <1>3 DEF WholeUnder
  <2> QED
    BY <2>1, <2>2 DEF Whole
<1> QED
  BY <1>2, <1>3 DEF RenamesOK

-----------------------------------------------------------------------------
(* The types of the rows and of the requests *)

\* The bags of rows.
RowBags == UNION {[s -> Nat \ {0}] : s \in SUBSET Entries}

\* What a request's paths are.
RequestTyped(request, o, n, s) ==
    request # "none" =>
        /\ n \in Paths
        /\ request \in {"rename", "copy"} => o \in Paths
        /\ request = "rename" => /\ o # n /\ Len(o) = Len(n)
                                 /\ \A e \in DOMAIN s : Len(o) <= Len(e[1])

\* So are the requests of all sessions.
RequestsTyped ==
    /\ op \in [Sessions -> {"none", "mkdir", "put", "rename", "copy"}]
    /\ old \in [Sessions -> Paths \cup {Root}] /\ new \in [Sessions -> Paths \cup {Root}]
    /\ sel \in [Sessions -> RowBags]
    /\ \A w \in Sessions : RequestTyped(op[w], old[w], new[w], sel[w])

\* The types of the rows and of the requests.
Typed == rows \in RowBags /\ RequestsTyped

\* A bag of rows is a function on rows.
LEMMA BagIs ==
    ASSUME NEW b
    PROVE  b \in RowBags <=> DOMAIN b \subseteq Entries /\ b \in [DOMAIN b -> Nat \ {0}]
  BY DEF RowBags

\* A row and its path.
LEMMA EntryIs ==
    ASSUME NEW e \in Entries
    PROVE  /\ e = <<e[1], e[2]>> /\ e[1] \in Paths /\ e[2] \in BOOLEAN
           /\ e[1] \in Seq(Names) /\ Len(e[1]) \in Nat
  BY PathFacts DEF Entries

\* Every set of rows is a bag.
LEMMA OnceBag ==
    ASSUME NEW s \in SUBSET Entries
    PROVE  Once(s) \in RowBags /\ DOMAIN Once(s) = s /\ \A e \in s : Once(s)[e] = 1
<1>1. Once(s) \in [s -> Nat \ {0}]
  BY DEF Once
<1> QED
  BY <1>1 DEF Once, RowBags

\* So is a part of a bag,
LEMMA RestrictBag ==
    ASSUME NEW b \in RowBags, NEW s, s \subseteq DOMAIN b
    PROVE  Restrict(b, s) \in RowBags /\ DOMAIN Restrict(b, s) = s
<1>1. DOMAIN b \subseteq Entries /\ b \in [DOMAIN b -> Nat \ {0}]
  BY BagIs
<1>2. Restrict(b, s) \in [s -> Nat \ {0}]
  BY <1>1 DEF Restrict
<1>3. s \in SUBSET Entries
  BY <1>1
<1> QED
  BY <1>2, <1>3 DEF RowBags

\* Counts are numbers; zero for what is not in the bag.
LEMMA CountIs ==
    ASSUME NEW b \in RowBags, NEW e
    PROVE  /\ Count(e, b) \in Nat
           /\ e \in DOMAIN b <=> Count(e, b) # 0
  BY BagIs DEF Count

\* A bag with one more,
LEMMA WithBag ==
    ASSUME NEW b \in RowBags, NEW e \in Entries
    PROVE  With(b, e) \in RowBags /\ DOMAIN With(b, e) = DOMAIN b \cup {e}
<1> DEFINE s == DOMAIN b \cup {e}
<1>1. s \in SUBSET Entries
  BY BagIs
<1>2. ASSUME NEW f \in s PROVE Count(f, b) + Count(f, Once({e})) \in Nat \ {0}
  <2>1. Once({e}) \in RowBags /\ DOMAIN Once({e}) = {e}
    BY OnceBag
  <2>2. Count(f, b) \in Nat /\ Count(f, Once({e})) \in Nat
    BY <2>1, CountIs
  <2>3. CASE f = e
    <3>1. Count(f, Once({e})) # 0
      BY <2>1, <2>3, CountIs
    <3> QED
      BY <2>2, <3>1
  <2>4. CASE f \in DOMAIN b
    <3>1. Count(f, b) # 0
      BY <2>4, CountIs
    <3> QED
      BY <2>2, <3>1
  <2> QED
    BY <2>3, <2>4
<1>3. With(b, e) \in [s -> Nat \ {0}]
  BY <1>2 DEF With
<1> QED
  BY <1>1, <1>3 DEF RowBags

\* and with one less.
LEMMA WithoutBag ==
    ASSUME NEW b \in RowBags, NEW e \in DOMAIN b
    PROVE  /\ Without(b, e) \in RowBags
           /\ DOMAIN b \ {e} \subseteq DOMAIN Without(b, e)
           /\ DOMAIN Without(b, e) \subseteq DOMAIN b
<1>1. DOMAIN b \subseteq Entries /\ b \in [DOMAIN b -> Nat \ {0}]
  BY BagIs
<1>2. CASE b[e] = 1
  <2>1. DOMAIN b \ {e} \subseteq DOMAIN b
    OBVIOUS
  <2> QED
    BY <1>2, <2>1, RestrictBag DEF Without
<1>3. CASE b[e] # 1
  <2>1. b[e] - 1 \in Nat \ {0}
    BY <1>1, <1>3
  <2>2. [b EXCEPT ![e] = @ - 1] \in [DOMAIN b -> Nat \ {0}]
    BY <1>1, <2>1
  <2>3. Without(b, e) = [b EXCEPT ![e] = @ - 1]
    BY <1>3 DEF Without
  <2> QED
    BY <1>1, <2>2, <2>3 DEF RowBags
<1> QED
  BY <1>2, <1>3

\* Of sets: adding,
LEMMA WithOnce ==
    ASSUME NEW s \in SUBSET Entries, NEW e \in Entries, e \notin s
    PROVE  With(Once(s), e) = Once(s \cup {e})
<1>1. \A f \in s \cup {e} : Count(f, Once(s)) + Count(f, Once({e})) = 1
  BY DEF Count, Once
<1> QED
  BY <1>1 DEF With, Once

\* taking away,
LEMMA WithoutOnce ==
    ASSUME NEW s \in SUBSET Entries, NEW e \in s
    PROVE  Without(Once(s), e) = Once(s \ {e})
  BY DEF Without, Once, Restrict

\* and restricting.
LEMMA RestrictOnce ==
    ASSUME NEW s \in SUBSET Entries, NEW u \in SUBSET s
    PROVE  Restrict(Once(s), u) = Once(u)
  BY DEF Restrict, Once

\* UPDATE: every row of o becomes one of n, and is added to those there.
LEMMA UpdateBag ==
    ASSUME rows \in RowBags, NEW o, NEW n \in Paths, Update(o, n)
    PROVE  /\ rows' \in RowBags
           /\ Tree' = (Tree \ At(o)) \cup {<<n, f[2]>> : f \in At(o)}
           /\ \A e \in At(o) : n # o => Count(<<n, e[2]>>, rows') > Count(<<n, e[2]>>, rows)
<1> DEFINE t == (Tree \ At(o)) \cup {<<n, f[2]>> : f \in At(o)}
<1> DEFINE r == Restrict(rows, Tree \ At(o))
<1> DEFINE val(e) == Count(e, r) + IF e[1] = n THEN Count(<<o, e[2]>>, rows) ELSE 0
<1>1. /\ Tree \subseteq Entries
      /\ \A e \in Tree : e = <<e[1], e[2]>> /\ e[1] \in Paths /\ e[2] \in BOOLEAN
  BY BagIs, EntryIs DEF Tree
<1>2. r \in RowBags /\ DOMAIN r = Tree \ At(o)
  BY RestrictBag DEF Tree
<1>3. t \in SUBSET Entries
  BY <1>1 DEF At, Entries
<1>4. rows' = [e \in t |-> val(e)]
  BY DEF Update
<1> HIDE DEF r
<1>5. \A f \in At(o) : f = <<o, f[2]>> /\ f \in Tree /\ Count(f, rows) # 0 /\ Count(f, rows) \in Nat
  BY <1>1, CountIs DEF At, Tree
<1>6. ASSUME NEW e \in t PROVE val(e) \in Nat \ {0}
  <2>1. Count(e, r) \in Nat /\ Count(<<o, e[2]>>, rows) \in Nat
    BY <1>2, CountIs
  <2>2. CASE e \in Tree \ At(o)
    <3>1. Count(e, r) # 0
      BY <1>2, <2>2, CountIs
    <3> QED
      BY <2>1, <3>1
  <2>3. ASSUME NEW f \in At(o), e = <<n, f[2]>> PROVE val(e) \in Nat \ {0}
    <3>1. e[1] = n /\ e[2] = f[2] /\ Count(<<o, e[2]>>, rows) # 0
      BY <1>5, <2>3
    <3> QED
      BY <2>1, <3>1
  <2> QED
    BY <2>2, <2>3
<1>7. rows' \in [t -> Nat \ {0}]
  BY <1>4, <1>6
<1>8. ASSUME NEW e \in At(o), n # o
      PROVE  Count(<<n, e[2]>>, rows') > Count(<<n, e[2]>>, rows)
  <2>1. PICK g : g = <<n, e[2]>>
    OBVIOUS
  <2>2. g[1] = n /\ g[2] = e[2] /\ g \in t /\ g \notin At(o)
    BY <1>8, <2>1 DEF At
  <2>3. Count(g, rows') = Count(g, r) + Count(e, rows)
    BY <1>4, <1>5, <2>2 DEF Count
  <2>4. Count(g, r) = Count(g, rows)
    BY <1>2, <2>2 DEF Count, r, Restrict, Tree
  <2>5. Count(g, rows) \in Nat
    BY CountIs
  <2>6. Count(e, rows) \in Nat /\ Count(e, rows) # 0
    BY <1>5
  <2> QED
    BY <2>1, <2>3, <2>4, <2>5, <2>6
<1> QED
  BY <1>3, <1>7, <1>8 DEF RowBags, Tree

\* Of a tree without copies, and without a row of n.
LEMMA UpdateOnce ==
    ASSUME rows \in RowBags, rows = Once(Tree), NEW o \in Paths, NEW n \in Paths,
           NEW e \in Tree, At(o) = {e}, \A f \in Tree : f[1] # n, Update(o, n)
    PROVE  /\ rows' = Once((Tree \ {e}) \cup {<<n, e[2]>>})
           /\ Tree' = (Tree \ {e}) \cup {<<n, e[2]>>}
<1>1. Tree \in SUBSET Entries
  BY BagIs DEF Tree
<1>2. e = <<o, e[2]>> /\ e[1] = o
  BY <1>1, EntryIs DEF At
<1>3. Restrict(rows, Tree \ {e}) = Once(Tree \ {e})
  BY <1>1, RestrictOnce
<1>4. (Tree \ At(o)) \cup {<<n, f[2]>> : f \in At(o)} = (Tree \ {e}) \cup {<<n, e[2]>>}
  OBVIOUS
<1>5. <<n, e[2]>> \notin Tree /\ <<n, e[2]>>[1] = n /\ <<n, e[2]>>[2] = e[2]
  OBVIOUS
<1>6. ASSUME NEW f \in Tree \ {e}
      PROVE  Count(f, Once(Tree \ {e})) + (IF f[1] = n THEN Count(<<o, f[2]>>, rows) ELSE 0) = 1
  BY <1>6 DEF Count, Once
<1>7. ASSUME NEW f, f = <<n, e[2]>>
      PROVE  Count(f, Once(Tree \ {e})) + (IF f[1] = n THEN Count(<<o, f[2]>>, rows) ELSE 0) = 1
  <2>1. f[1] = n /\ <<o, f[2]>> = e /\ f \notin Tree
    BY <1>2, <1>5, <1>7
  <2>2. Count(f, Once(Tree \ {e})) = 0
    BY <2>1 DEF Count, Once
  <2>3. Count(e, rows) = 1
    BY DEF Count, Once, Tree
  <2> QED
    BY <2>1, <2>2, <2>3
<1>8. rows' = Once((Tree \ {e}) \cup {<<n, e[2]>>})
  BY <1>3, <1>4, <1>6, <1>7 DEF Update, Once
<1> QED
  BY <1>8 DEF Once, Tree

\* The root is none of the paths (its row is not in the bag).
LEMMA RootIsNot == Root \notin Paths
<1>1. Len(Root) = 1
  BY DEF Root
<1> QED
  BY <1>1, PathFacts

\* The rows of the tree.
LEMMA TreeIs ==
    ASSUME rows \in RowBags
    PROVE  /\ Tree \in SUBSET Entries
           /\ \A e \in Tree : /\ e = <<e[1], e[2]>> /\ e[1] \in Paths /\ e[2] \in BOOLEAN
                              /\ e[1] \in Seq(Names) /\ Len(e[1]) \in Nat
<1>1. Tree \in SUBSET Entries
  BY BagIs DEF Tree
<1> QED
  BY <1>1, EntryIs

\* What the SELECTs return are rows; those below d are among the selected.
LEMMA SelectedIs ==
    ASSUME rows \in RowBags, NEW o \in Paths
    PROVE  /\ Selected(o) \subseteq Tree /\ At(o) \subseteq Selected(o)
           /\ \A e \in Selected(o) : Len(o) <= Len(e[1])
           /\ \A e \in Tree : Within(e[1], o) => e \in Selected(o)
           /\ Restrict(rows, Selected(o)) \in RowBags
           /\ DOMAIN Restrict(rows, Selected(o)) = Selected(o)
<1>1. Selected(o) \subseteq Tree /\ At(o) \subseteq Selected(o)
  BY DEF Selected, At
<1>2. o \in Seq(Names) /\ Len(o) \in Nat /\ \A e \in Tree : e[1] \in Seq(Names) /\ Len(e[1]) \in Nat
  BY PathFacts, TreeIs
<1>3. ASSUME NEW e \in Selected(o) PROVE Len(o) <= Len(e[1])
  <2>1. CASE e[1] = o
    BY <1>2, <2>1
  <2>2. CASE Places(o, e[1]) # {}
    <3>1. PICK i \in 0 .. Len(e[1]) - Len(o) - 1 : TRUE
      BY <2>2 DEF Places
    <3> QED
      BY <1>1, <1>2, <3>1
  <2> QED
    BY <2>1, <2>2 DEF Selected
<1>4. ASSUME NEW e \in Tree, Within(e[1], o) PROVE e \in Selected(o)
  <2>1. CASE Len(e[1]) <= Len(o)
    <3>1. e[1] = o
      BY <1>2, <1>4, <2>1, WithinAll
    <3> QED
      BY <3>1 DEF Selected
  <2>2. CASE ~ (Len(e[1]) <= Len(o))
    <3>1. 0 \in 0 .. Len(e[1]) - Len(o) - 1
      BY <1>2, <2>2
    <3>2. SubSeq(e[1], 0 + 1, 0 + Len(o)) = o
      BY <1>2, <1>4 DEF Within
    <3> QED
      BY <3>1, <3>2 DEF Selected, Places
  <2> QED
    BY <2>1, <2>2
<1> QED
  BY <1>1, <1>3, <1>4, RestrictBag DEF Tree

\* Beginning a request,
LEMMA BeginTyped ==
    ASSUME RequestsTyped, NEW w \in Sessions,
           NEW request \in {"mkdir", "put", "rename", "copy"},
           NEW o \in Paths \cup {Root}, NEW n \in Paths, NEW s \in RowBags,
           RequestTyped(request, o, n, s), Begin(w, request, o, n, s)
    PROVE  RequestsTyped'
<1>1. /\ op' \in [Sessions -> {"none", "mkdir", "put", "rename", "copy"}]
      /\ old' \in [Sessions -> Paths \cup {Root}] /\ new' \in [Sessions -> Paths \cup {Root}]
      /\ sel' \in [Sessions -> RowBags]
  BY DEF RequestsTyped, Begin
<1>2. /\ op'[w] = request /\ old'[w] = o /\ new'[w] = n /\ sel'[w] = s
      /\ \A v \in Sessions \ {w} :
            op'[v] = op[v] /\ old'[v] = old[v] /\ new'[v] = new[v] /\ sel'[v] = sel[v]
  BY DEF RequestsTyped, Begin
<1>3. \A v \in Sessions : RequestTyped(op'[v], old'[v], new'[v], sel'[v])
  BY <1>2 DEF RequestsTyped
<1> QED
  BY <1>1, <1>3 DEF RequestsTyped

\* ending it,
LEMMA EndTyped ==
    ASSUME RequestsTyped, NEW w \in Sessions, End(w)
    PROVE  RequestsTyped' /\ op'[w] = "none"
<1>0. Once({}) \in RowBags
  BY OnceBag
<1>1. /\ op' \in [Sessions -> {"none", "mkdir", "put", "rename", "copy"}]
      /\ old' \in [Sessions -> Paths \cup {Root}] /\ new' \in [Sessions -> Paths \cup {Root}]
      /\ sel' \in [Sessions -> RowBags]
  BY <1>0 DEF RequestsTyped, End
<1>2. /\ op'[w] = "none"
      /\ \A v \in Sessions \ {w} :
            op'[v] = op[v] /\ old'[v] = old[v] /\ new'[v] = new[v] /\ sel'[v] = sel[v]
  BY DEF RequestsTyped, End
<1>3. \A v \in Sessions : RequestTyped(op'[v], old'[v], new'[v], sel'[v])
  BY <1>2 DEF RequestsTyped, RequestTyped
<1> QED
  BY <1>1, <1>2, <1>3 DEF RequestsTyped

\* and working off one of its rows keep the types,
LEMMA LessTyped ==
    ASSUME RequestsTyped, NEW w \in Sessions, NEW e \in DOMAIN sel[w],
           sel' = [sel EXCEPT ![w] = Without(@, e)], UNCHANGED <<op, old, new>>
    PROVE  RequestsTyped'
<1>1. /\ Without(sel[w], e) \in RowBags
      /\ DOMAIN Without(sel[w], e) \subseteq DOMAIN sel[w]
  BY WithoutBag DEF RequestsTyped
<1>2. /\ sel' \in [Sessions -> RowBags] /\ sel'[w] = Without(sel[w], e)
      /\ \A v \in Sessions \ {w} : sel'[v] = sel[v]
  BY <1>1 DEF RequestsTyped
<1>3. \A v \in Sessions : RequestTyped(op[v], old[v], new[v], sel'[v])
  BY <1>1, <1>2 DEF RequestsTyped, RequestTyped
<1> QED
  BY <1>2, <1>3 DEF RequestsTyped

\* as does a request of one statement.
LEMMA SingleTyped == ASSUME RequestsTyped, UNCHANGED requestVars PROVE RequestsTyped'
  BY DEF RequestsTyped, requestVars

\* The types after a step that begins a request.
LEMMA RequestStepTyped ==
    ASSUME Typed, NEW w \in Sessions, Request(w)
    PROVE  Typed'
<1>0. rows \in RowBags /\ RequestsTyped /\ Once({}) \in RowBags
  BY OnceBag DEF Typed
<1>1. ASSUME NEW p \in Paths, Mkdir(w, p) \/ Put(w, p) PROVE Typed'
  <2>1. PICK request \in {"mkdir", "put"} : Begin(w, request, Root, p, Once({}))
    BY <1>1 DEF Mkdir, Put
  <2>2. RequestTyped(request, Root, p, Once({}))
    BY DEF RequestTyped
  <2>3. RequestsTyped'
    BY <1>0, <2>1, <2>2, BeginTyped
  <2> QED
    BY <1>0, <1>1, <2>3 DEF Mkdir, Put, Typed
<1>2. ASSUME NEW o \in Paths, Delete(w, o) PROVE Typed'
  <2>1. RequestsTyped'
    BY <1>0, <1>2, SingleTyped DEF Delete, Single
  <2>2. Restrict(rows, Tree \ Selected(o)) \in RowBags
    BY <1>0, RestrictBag DEF Tree
  <2> QED
    BY <1>0, <1>2, <2>1, <2>2 DEF Delete, Typed
<1>3. ASSUME NEW o \in Paths, NEW n \in Paths, RenameSelect(w, o, n) PROVE Typed'
  <2>1. /\ Restrict(rows, Selected(o)) \in RowBags
        /\ \A e \in DOMAIN Restrict(rows, Selected(o)) : Len(o) <= Len(e[1])
    BY <1>0, SelectedIs
  <2>2. RequestTyped("rename", o, n, Restrict(rows, Selected(o)))
    BY <1>3, <2>1 DEF RenameSelect, Target, RequestTyped
  <2>3. PICK s \in RowBags : s = Restrict(rows, Selected(o))
    BY <2>1
  <2>4. RequestsTyped'
    BY <1>0, <1>3, <2>2, <2>3, BeginTyped DEF RenameSelect
  <2> QED
    BY <1>0, <1>3, <2>4 DEF RenameSelect, Typed
<1>4. ASSUME NEW o \in Paths, NEW n \in Paths, MoveFile(w, o, n) PROVE Typed'
  <2>1. RequestsTyped'
    BY <1>0, <1>4, SingleTyped DEF MoveFile, Single
  <2>2. CASE Update(o, n)
    BY <1>0, <2>1, <2>2, UpdateBag DEF Typed
  <2>3. CASE UNCHANGED rows
    BY <1>0, <2>1, <2>3 DEF Typed
  <2> QED
    BY <1>4, <2>2, <2>3 DEF MoveFile
<1>5. ASSUME NEW o \in Paths, NEW n \in Paths, CopySelect(w, o, n) PROVE Typed'
  <2>1. PICK s \in RowBags : s = Restrict(rows, Selected(o))
    BY <1>0, SelectedIs
  <2>2. RequestTyped("copy", o, n, s)
    BY DEF RequestTyped
  <2>3. RequestsTyped'
    BY <1>0, <1>5, <2>1, <2>2, BeginTyped DEF CopySelect
  <2> QED
    BY <1>0, <1>5, <2>3 DEF CopySelect, Typed
<1> QED
  BY <1>1, <1>2, <1>3, <1>4, <1>5 DEF Request

\* The types after a statement.
LEMMA StatementTyped ==
    ASSUME Typed, NEW w \in Sessions, Insert(w) \/ RenameUpdate(w) \/ CopyInsert(w)
    PROVE  Typed'
<1>0. rows \in RowBags /\ RequestsTyped
  BY DEF Typed
<1>1. \A p \in Paths, d \in BOOLEAN : Store(p, d) => rows' \in RowBags
  BY <1>0, WithBag DEF Store, Entries
<1>2. CASE Insert(w)
  <2>1. op[w] # "none" /\ End(w)
    BY <1>2 DEF Insert
  <2>2. new[w] \in Paths /\ (op[w] = "mkdir") \in BOOLEAN /\ RequestsTyped'
    BY <1>0, <2>1, EndTyped DEF RequestsTyped, RequestTyped
  <2>3. rows' \in RowBags
    BY <1>0, <1>1, <1>2, <2>2 DEF Insert
  <2> QED
    BY <2>2, <2>3 DEF Typed
<1>3. CASE CopyInsert(w)
  <2>1. PICK e \in DOMAIN sel[w] :
          /\ op[w] = "copy" /\ (Store(new[w], e[2]) \/ UNCHANGED rows)
          /\ End(w) \/ (sel' = [sel EXCEPT ![w] = Without(@, e)] /\ UNCHANGED <<op, old, new>>)
    BY <1>3 DEF CopyInsert
  <2>2. new[w] \in Paths /\ DOMAIN sel[w] \subseteq Entries
    BY <1>0, <2>1, BagIs DEF RequestsTyped, RequestTyped
  <2>3. e[2] \in BOOLEAN
    BY <2>2, EntryIs
  <2>4. rows' \in RowBags
    BY <1>0, <1>1, <2>1, <2>2, <2>3
  <2>5. RequestsTyped'
    BY <1>0, <2>1, EndTyped, LessTyped
  <2> QED
    BY <2>4, <2>5 DEF Typed
<1>4. CASE RenameUpdate(w)
  <2>1. PICK e \in DOMAIN sel[w] :
          /\ op[w] = "rename" /\ (Update(e[1], Moved(e[1], old[w], new[w])) \/ UNCHANGED rows)
          /\ End(w) \/ (sel' = [sel EXCEPT ![w] = Without(@, e)] /\ UNCHANGED <<op, old, new>>)
    BY <1>4 DEF RenameUpdate, Stopped
  <2>2. /\ new[w] \in Paths /\ old[w] \in Paths /\ Len(old[w]) = Len(new[w])
        /\ DOMAIN sel[w] \subseteq Entries /\ Len(old[w]) <= Len(e[1])
    BY <1>0, <2>1, BagIs DEF RequestsTyped, RequestTyped
  <2>3. Moved(e[1], old[w], new[w]) \in Paths
    BY <2>2, EntryIs, MovedPath
  <2>4. rows' \in RowBags
    BY <1>0, <2>1, <2>3, UpdateBag
  <2>5. RequestsTyped'
    BY <1>0, <2>1, EndTyped, LessTyped
  <2> QED
    BY <2>4, <2>5 DEF Typed
<1> QED
  BY <1>2, <1>3, <1>4

\* Every step keeps the types.
LEMMA TypedStep == Typed /\ [TreeNext]_vars => Typed'
<1> SUFFICES ASSUME Typed, [TreeNext]_vars PROVE Typed'
  OBVIOUS
<1>1. ASSUME UNCHANGED <<requestVars, rows>> PROVE Typed'
  BY <1>1, SingleTyped DEF Typed
<1>2. CASE UNCHANGED vars
  BY <1>1, <1>2 DEF vars
<1>3. CASE TreeRestart
  <2>1. Once({}) \in RowBags
    BY OnceBag
  <2>2. RequestsTyped'
    BY <1>3, <2>1 DEF TreeRestart, RequestsTyped, RequestTyped
  <2> QED
    BY <1>3, <2>2 DEF TreeRestart, Typed
<1>4. ASSUME NEW w \in Sessions,
             AccountStep(w) /\ UNCHANGED <<requestVars, rows, goal, mishaps, ops>>
      PROVE  Typed'
  BY <1>1, <1>4
<1> QED
  BY <1>2, <1>3, <1>4, RequestStepTyped, StatementTyped DEF TreeNext

\* They hold at the start.
LEMMA TypedInit ==
    ASSUME TreeInit
    PROVE  Typed /\ \E t \in SUBSET Entries : rows = Once(t) /\ Whole(t)
<1>1. Once({}) \in RowBags
  BY OnceBag
<1>2. RequestsTyped
  BY <1>1 DEF TreeInit, RequestsTyped, RequestTyped
<1>3. \E t \in SUBSET Entries : rows = Once(t) /\ Whole(t)
  <2>1. CASE rows = Once({})
    <3>1. Whole({})
      BY DEF Whole
    <3> QED
      BY <2>1, <3>1
  <2>2. ASSUME NEW f \in [1 .. MaxRows -> (Paths \cup {Root}) \X BOOLEAN],
               Whole({e \in Range(f) : e[1] # Root}), rows = Once({e \in Range(f) : e[1] # Root})
        PROVE  \E t \in SUBSET Entries : rows = Once(t) /\ Whole(t)
    <3>1. Range(f) \subseteq (Paths \cup {Root}) \X BOOLEAN
      BY DEF Range
    <3>2. {e \in Range(f) : e[1] # Root} \subseteq Entries
      BY <3>1 DEF Entries
    <3> QED
      BY <2>2, <3>2
  <2> QED
    BY <2>1, <2>2 DEF TreeInit
<1> QED
  BY <1>2, <1>3, OnceBag DEF Typed

-----------------------------------------------------------------------------
(* What steps change *)

\* Concerns, of the request's data alone.
Involves(request, o, n, p) ==
    /\ request # "none"
    /\ \/ p = Parent(n) \/ Within(p, n)
       \/ request \in {"rename", "copy"} /\ Within(p, o)

\* That it is.
LEMMA ConcernsIs ==
    ASSUME NEW v, NEW p
    PROVE  Concerns(v, p) <=> Involves(op[v], old[v], new[v], p)
  BY DEF Concerns, Involves

\* A row that comes or goes is touched; so is what an UPDATE moves, and where to.
LEMMA TouchedIs ==
    ASSUME rows \in RowBags, rows' \in RowBags
    PROVE  /\ \A e \in (Tree \ Tree') \cup (Tree' \ Tree) : e[1] \in Touched
           /\ \A e : Count(e, rows) # Count(e, rows') => e[1] \in Touched
<1>1. ASSUME NEW e, Count(e, rows) # Count(e, rows') PROVE e[1] \in Touched
  <2>1. e \in Tree \cup Tree'
    BY <1>1, CountIs DEF Tree, Count
  <2> QED
    BY <1>1, <2>1 DEF Touched
<1>2. ASSUME NEW e \in (Tree \ Tree') \cup (Tree' \ Tree)
      PROVE  Count(e, rows) # Count(e, rows')
  <2>1. e \in Tree <=> Count(e, rows) # 0
    BY CountIs DEF Tree
  <2>2. e \in Tree' <=> Count(e, rows') # 0
    BY CountIs DEF Tree
  <2> QED
    BY <1>2, <2>1, <2>2
<1> QED
  BY <1>1, <1>2

\* An UPDATE touches the old path and the new one.
LEMMA UpdateTouches ==
    ASSUME rows \in RowBags, NEW o \in Paths, NEW n \in Paths, o # n, At(o) # {}, Update(o, n)
    PROVE  o \in Touched /\ n \in Touched
<1>1. /\ rows' \in RowBags
      /\ Tree' = (Tree \ At(o)) \cup {<<n, f[2]>> : f \in At(o)}
      /\ \A e \in At(o) : Count(<<n, e[2]>>, rows') > Count(<<n, e[2]>>, rows)
  BY UpdateBag
<1>2. PICK e : e \in At(o)
  OBVIOUS
<1>3. e[1] = o /\ e \in Tree \ Tree'
  BY <1>1, <1>2 DEF At
<1>4. o \in Touched
  BY <1>1, <1>3, TouchedIs
<1>5. PICK g : g = <<n, e[2]>>
  OBVIOUS
<1>6. g[1] = n /\ Count(g, rows') > Count(g, rows)
  BY <1>1, <1>2, <1>5
<1>7. Count(g, rows') \in Nat /\ Count(g, rows) \in Nat
  BY <1>1, CountIs
<1>8. Count(g, rows) # Count(g, rows')
  BY <1>6, <1>7
<1> QED
  BY <1>1, <1>4, <1>6, <1>8, TouchedIs

\* Without a mishap no touched path was another request's concern.
LEMMA NotRaced ==
    ASSUME NEW w \in Sessions, NEW more, Note(w, more), mishaps' = {},
           NEW v \in Sessions \ {w}, NEW p \in Touched
    PROVE  ~ Concerns(v, p)
  BY DEF Note

\* A step of u that is no mishap changes neither the requests of the others nor
\* the rows that they rely on.
LEMMA StepFrame ==
    ASSUME Typed, NEW u \in Sessions, mishaps' = {},
           Request(u) \/ Insert(u) \/ RenameUpdate(u) \/ CopyInsert(u),
           NEW v \in Sessions \ {u}
    PROVE  /\ op'[v] = op[v] /\ old'[v] = old[v] /\ new'[v] = new[v] /\ sel'[v] = sel[v]
           /\ \A p \in Touched : ~ Concerns(v, p)
<1> DEFINE Same == op'[v] = op[v] /\ old'[v] = old[v] /\ new'[v] = new[v] /\ sel'[v] = sel[v]
<1> DEFINE Spared == \A p \in Touched : ~ Concerns(v, p)
<1>0. RequestsTyped
  BY DEF Typed
<1>1. ASSUME NEW request, NEW o, NEW n, NEW s, Begin(u, request, o, n, s) PROVE Same
  BY <1>0, <1>1 DEF Begin, RequestsTyped
<1>2. ASSUME End(u) PROVE Same
  BY <1>0, <1>2 DEF End, RequestsTyped
<1>3. ASSUME UNCHANGED rows PROVE Spared
  BY <1>3 DEF Touched, Tree
<1>4. ASSUME NEW more, Note(u, more) PROVE Spared
  BY <1>4, NotRaced
<1>5. ASSUME UNCHANGED <<op, old, new>>, NEW s, sel' = [sel EXCEPT ![u] = s] PROVE Same
  BY <1>0, <1>5 DEF RequestsTyped
<1>6. CASE Request(u)
  <2>1. ASSUME NEW p \in Paths, Mkdir(u, p) \/ Put(u, p) PROVE Same /\ Spared
    BY <1>1, <1>3, <2>1 DEF Mkdir, Put
  <2>2. ASSUME NEW p \in Paths, Delete(u, p) PROVE Same /\ Spared
    <3>1. Same
      BY <2>2 DEF Delete, Single, requestVars
    <3> QED
      BY <1>3, <1>4, <2>2, <3>1 DEF Delete
  <2>3. ASSUME NEW o \in Paths, NEW n \in Paths, RenameSelect(u, o, n) PROVE Same /\ Spared
    BY <1>1, <1>3, <2>3 DEF RenameSelect
  <2>4. ASSUME NEW o \in Paths, NEW n \in Paths, MoveFile(u, o, n) PROVE Same /\ Spared
    <3>1. Same
      BY <2>4 DEF MoveFile, Single, requestVars
    <3> QED
      BY <1>3, <1>4, <2>4, <3>1 DEF MoveFile
  <2>5. ASSUME NEW o \in Paths, NEW n \in Paths, CopySelect(u, o, n) PROVE Same /\ Spared
    BY <1>1, <1>3, <2>5 DEF CopySelect
  <2> QED
    BY <1>6, <2>1, <2>2, <2>3, <2>4, <2>5 DEF Request
<1>7. CASE Insert(u)
  BY <1>2, <1>3, <1>4, <1>7 DEF Insert
<1>8. CASE RenameUpdate(u)
  <2>1. Spared
    BY <1>3, <1>4, <1>8 DEF RenameUpdate, Stopped
  <2>2. Same
    BY <1>2, <1>5, <1>8 DEF RenameUpdate
  <2> QED
    BY <2>1, <2>2
<1>9. CASE CopyInsert(u)
  <2>1. Spared
    BY <1>3, <1>4, <1>9 DEF CopyInsert
  <2>2. Same
    BY <1>2, <1>5, <1>9 DEF CopyInsert
  <2> QED
    BY <2>1, <2>2
<1> QED
  BY <1>6, <1>7, <1>8, <1>9

\* Mishaps are never forgotten.
LEMMA NoMishapBefore == [TreeNext]_vars /\ mishaps' = {} => mishaps = {}
<1> SUFFICES ASSUME [TreeNext]_vars, mishaps' = {} PROVE mishaps \subseteq mishaps'
  OBVIOUS
<1>1. ASSUME NEW w \in Sessions, Request(w) PROVE mishaps \subseteq mishaps'
  <2>1. ASSUME NEW p \in Paths, Mkdir(w, p) \/ Put(w, p) \/ Delete(w, p)
        PROVE  mishaps \subseteq mishaps'
    BY <2>1 DEF Mkdir, Put, Delete, Note
  <2>2. ASSUME NEW o \in Paths, NEW n \in Paths,
               RenameSelect(w, o, n) \/ MoveFile(w, o, n) \/ CopySelect(w, o, n)
        PROVE  mishaps \subseteq mishaps'
    BY <2>2 DEF RenameSelect, MoveFile, CopySelect, Note
  <2> QED
    BY <1>1, <2>1, <2>2 DEF Request
<1>2. ASSUME NEW w \in Sessions, Insert(w) PROVE mishaps \subseteq mishaps'
  BY <1>2 DEF Insert, Note
<1>3. ASSUME NEW w \in Sessions, CopyInsert(w) PROVE mishaps \subseteq mishaps'
  BY <1>3 DEF CopyInsert, Note
<1>4. ASSUME NEW w \in Sessions, RenameUpdate(w) PROVE mishaps \subseteq mishaps'
  BY <1>4 DEF RenameUpdate, Note, Stopped
<1>5. CASE TreeRestart
  BY <1>5 DEF TreeRestart
<1>6. CASE UNCHANGED mishaps
  BY <1>6
<1> QED
  BY <1>1, <1>2, <1>3, <1>4, <1>5, <1>6 DEF TreeNext, vars

-----------------------------------------------------------------------------
(* Two renames in each other's way *)

\* The sessions within a rename.
Renaming == {w \in Sessions : op[w] = "rename"}

\* A row that the rename of v is to move; and its UPDATE races with the request of w.
Mine(v, e) == e \in DOMAIN sel[v] /\ e \in Tree /\ Within(e[1], old[v])
Blocked(v, e, w) == Concerns(w, e[1]) \/ Concerns(w, Moved(e[1], old[v], new[v]))

\* Every row left to v is in w's way, and a row left to w is in v's.
StuckPair(v, w) ==
    /\ v \in Renaming /\ w \in Renaming /\ v # w
    /\ DOMAIN sel[v] # {} /\ \A f \in DOMAIN sel[v] : Mine(v, f) /\ Blocked(v, f, w)
    /\ \E e \in DOMAIN sel[w] : Mine(w, e) /\ Blocked(w, e, v)

\* Neither can end without a race: of v every row, of w one.
Stuck == \E v, w \in Sessions : StuckPair(v, w)

\* The UPDATE of such a row.
LEMMA BlockedUpdate ==
    ASSUME Typed, NEW v \in Sessions, NEW w \in Sessions, v # w, op[v] = "rename",
           NEW e \in DOMAIN sel[v], Within(e[1], old[v]), At(e[1]) # {}, Blocked(v, e, w),
           Update(e[1], Moved(e[1], old[v], new[v])), Note(v, {})
    PROVE  mishaps' # {}
<1> DEFINE to == Moved(e[1], old[v], new[v])
<1>0. /\ rows \in RowBags /\ e[1] \in Paths /\ e[1] \in Seq(Names)
      /\ old[v] \in Paths /\ new[v] \in Paths /\ old[v] # new[v] /\ Len(old[v]) = Len(new[v])
      /\ Len(old[v]) <= Len(e[1]) /\ Within(e[1], old[v])
      /\ old[v] \in Seq(Names) /\ new[v] \in Seq(Names)
  <2>1. sel[v] \in RowBags
    BY DEF Typed, RequestsTyped
  <2>2. e \in Entries
    BY <2>1, BagIs
  <2> QED
    BY <2>2, EntryIs, PathFacts DEF Typed, RequestsTyped, RequestTyped
<1>1. to \in Paths
  BY <1>0, MovedPath
<1>2. to # e[1]
  <2>1. Within(to, new[v])
    BY <1>0, MovedWithin
  <2>2. ~ Within(e[1], new[v])
    <3>1. SUFFICES ASSUME Within(e[1], new[v]) PROVE FALSE
      OBVIOUS
    <3>2. Within(old[v], new[v]) \/ Within(new[v], old[v])
      BY <1>0, <3>1, WithinAll
    <3> QED
      BY <1>0, <3>2, WithinAll
  <2> QED
    BY <2>1, <2>2
<1>3. e[1] \in Touched /\ to \in Touched
  BY <1>0, <1>1, <1>2, UpdateTouches
<1>4. Concerns(w, e[1]) \/ Concerns(w, to)
  BY DEF Blocked
<1> QED
  BY <1>3, <1>4, NotRaced

\* Of a step of anybody else, or of another row of w.
LEMMA StuckStays ==
    ASSUME Typed, Typed', NEW v \in Sessions, NEW w \in Sessions, StuckPair(v, w),
           [TreeNext]_vars, mishaps' = {}
    PROVE  StuckPair(v, w)'
<1>0. /\ op[v] = "rename" /\ op[w] = "rename" /\ v # w
      /\ rows \in RowBags /\ rows' \in RowBags /\ RequestsTyped /\ RequestsTyped'
  BY DEF StuckPair, Renaming, Typed
\* The steps that leave the two renames alone.
<1>1. ASSUME op'[v] = op[v], old'[v] = old[v], new'[v] = new[v], sel'[v] = sel[v],
             op'[w] = op[w], old'[w] = old[w], new'[w] = new[w],
             \A e \in DOMAIN sel[w] : Mine(w, e) /\ Blocked(w, e, v) => e \in DOMAIN sel'[w],
             \A e \in Tree : Within(e[1], old[v]) => e \in Tree',
             \A e \in DOMAIN sel[w] : Mine(w, e) /\ Blocked(w, e, v) => e \in Tree'
      PROVE  StuckPair(v, w)'
  <2>1. \A p : Concerns(v, p)' <=> Concerns(v, p)
    BY <1>1 DEF Concerns
  <2>2. \A p : Concerns(w, p)' <=> Concerns(w, p)
    BY <1>1 DEF Concerns
  <2>3. \A f \in DOMAIN sel'[v] : Mine(v, f)' /\ Blocked(v, f, w)'
    BY <1>1, <2>2 DEF StuckPair, Mine, Blocked
  <2>4. PICK e \in DOMAIN sel[w] : Mine(w, e) /\ Blocked(w, e, v)
    BY DEF StuckPair
  <2>5. e \in DOMAIN sel'[w] /\ Mine(w, e)' /\ Blocked(w, e, v)'
    BY <1>1, <2>1, <2>4 DEF Mine, Blocked
  <2> QED
    BY <1>1, <2>3, <2>5 DEF StuckPair, Renaming
<1>2. ASSUME NEW u \in Sessions, u # w, Request(u) \/ Insert(u) \/ RenameUpdate(u) \/ CopyInsert(u)
      PROVE  \A e \in Tree : Within(e[1], old[w]) => e \in Tree'
  <2>1. SUFFICES ASSUME NEW e \in Tree, Within(e[1], old[w]), e \notin Tree' PROVE FALSE
    OBVIOUS
  <2>2. e[1] \in Touched
    BY <1>0, <2>1, TouchedIs
  <2>3. Concerns(w, e[1])
    BY <1>0, <2>1 DEF Concerns
  <2> QED
    BY <1>2, <2>2, <2>3, StepFrame
<1>3. ASSUME NEW u \in Sessions, u # v, Request(u) \/ Insert(u) \/ RenameUpdate(u) \/ CopyInsert(u)
      PROVE  \A e \in Tree : Within(e[1], old[v]) => e \in Tree'
  <2>1. SUFFICES ASSUME NEW e \in Tree, Within(e[1], old[v]), e \notin Tree' PROVE FALSE
    OBVIOUS
  <2>2. e[1] \in Touched
    BY <1>0, <2>1, TouchedIs
  <2>3. Concerns(v, e[1])
    BY <1>0, <2>1 DEF Concerns
  <2> QED
    BY <1>3, <2>2, <2>3, StepFrame
<1>4. ASSUME UNCHANGED <<requestVars, rows>> PROVE StuckPair(v, w)'
  BY <1>1, <1>4 DEF requestVars, Tree, Mine
<1>5. ASSUME NEW u \in Sessions, Request(u) \/ Insert(u) \/ RenameUpdate(u) \/ CopyInsert(u),
             u # v, u # w
      PROVE  StuckPair(v, w)'
  <2>1. /\ op'[v] = op[v] /\ old'[v] = old[v] /\ new'[v] = new[v] /\ sel'[v] = sel[v]
        /\ op'[w] = op[w] /\ old'[w] = old[w] /\ new'[w] = new[w] /\ sel'[w] = sel[w]
    BY <1>5, StepFrame
  <2>2. \A e \in DOMAIN sel[w] : Mine(w, e) => e \in Tree'
    BY <1>2, <1>5 DEF Mine
  <2> QED
    BY <1>1, <1>3, <1>5, <2>1, <2>2
<1>6. ASSUME NEW u \in {v, w}, Request(u) \/ Insert(u) \/ RenameUpdate(u) \/ CopyInsert(u)
      PROVE  \E e \in DOMAIN sel[u] :
               /\ Update(e[1], Moved(e[1], old[u], new[u])) /\ Note(u, {})
               /\ IF sel[u] = Once({e}) THEN End(u)
                  ELSE sel' = [sel EXCEPT ![u] = Without(@, e)] /\ UNCHANGED <<op, old, new>>
  <2>1. RenameUpdate(u)
    BY <1>0, <1>6 DEF Request, MaySend, Insert, CopyInsert
  <2> QED
    BY <2>1 DEF RenameUpdate, Stopped
<1>7. ASSUME Request(v) \/ Insert(v) \/ RenameUpdate(v) \/ CopyInsert(v) PROVE FALSE
  <2>1. PICK e \in DOMAIN sel[v] : Update(e[1], Moved(e[1], old[v], new[v])) /\ Note(v, {})
    BY <1>6, <1>7
  <2>2. Mine(v, e) /\ Blocked(v, e, w)
    BY DEF StuckPair
  <2> QED
    BY <1>0, <2>1, <2>2, BlockedUpdate DEF Mine, At
<1>8. ASSUME Request(w) \/ Insert(w) \/ RenameUpdate(w) \/ CopyInsert(w) PROVE StuckPair(v, w)'
  <2>1. PICK e \in DOMAIN sel[w] :
           /\ Update(e[1], Moved(e[1], old[w], new[w])) /\ Note(w, {})
           /\ IF sel[w] = Once({e}) THEN End(w)
              ELSE sel' = [sel EXCEPT ![w] = Without(@, e)] /\ UNCHANGED <<op, old, new>>
    BY <1>6, <1>8
  <2>0. ~ (Within(e[1], old[w]) /\ At(e[1]) # {} /\ Blocked(w, e, v))
    BY <1>0, <2>1, BlockedUpdate
  <2>2. ~ (Mine(w, e) /\ Blocked(w, e, v))
    BY <2>0 DEF Mine, At
  <2>3. PICK f \in DOMAIN sel[w] : Mine(w, f) /\ Blocked(w, f, v)
    BY DEF StuckPair
  <2>4. DOMAIN Once({e}) = {e}
    BY DEF Once
  <2>5. sel[w] # Once({e})
    BY <2>2, <2>3, <2>4
  <2>6. sel' = [sel EXCEPT ![w] = Without(@, e)] /\ UNCHANGED <<op, old, new>>
    BY <2>1, <2>5
  <2>7. sel'[v] = sel[v] /\ sel'[w] = Without(sel[w], e)
    BY <1>0, <2>6 DEF RequestsTyped
  <2>8. DOMAIN sel[w] \ {e} \subseteq DOMAIN sel'[w]
    BY <1>0, <2>7, WithoutBag DEF RequestsTyped
  <2>9. ASSUME NEW g \in DOMAIN sel[w], Mine(w, g) /\ Blocked(w, g, v) PROVE g \in Tree'
    <3>1. SUFFICES ASSUME g \notin Tree' PROVE FALSE
      OBVIOUS
    <3>2. g \in Tree /\ Within(g[1], old[w])
      BY <2>9 DEF Mine
    <3>3. g \in At(e[1]) /\ g[1] = e[1]
      BY <2>1, <3>1, <3>2 DEF Update, Tree, At
    <3>4. Blocked(w, e, v)
      BY <2>9, <3>3 DEF Blocked
    <3> QED
      BY <2>0, <3>2, <3>3, <3>4
  <2>10. \A e1 \in DOMAIN sel[w] : Mine(w, e1) /\ Blocked(w, e1, v) => e1 \in DOMAIN sel'[w]
    BY <2>2, <2>8
  <2>11. \A e1 \in Tree : Within(e1[1], old[v]) => e1 \in Tree'
    BY <1>0, <1>3, <1>8
  <2> QED
    BY <1>1, <2>6, <2>7, <2>9, <2>10, <2>11
<1>9. ~ TreeRestart
  BY <1>0 DEF TreeRestart
<1> QED
  BY <1>4, <1>5, <1>7, <1>8, <1>9 DEF TreeNext, vars

-----------------------------------------------------------------------------
(* The inductive invariant *)

\* The rows within d.
Below(t, d) == {e \in t : Within(e[1], d)}

\* What a request has seen of the tree t is still so.
Fits(t, request, o, n, s, started) ==
    request # "none" =>
        /\ IsDir(t, Parent(n))
        /\ ~ started /\ request # "put" => \A e \in t : e[1] # n
        /\ request = "copy" => \E e \in DOMAIN s : s = Once({e})
        /\ request = "rename" => s = Once(Below(t, o)) /\ Below(t, o) # {}

\* The renames of the sessions A.
Moves(A) == {<<old[w], new[w]>> : w \in A}

\* A are the renames that have moved a row already.
TidyWith(A) ==
    /\ A \subseteq Renaming
    /\ rows = Once(Tree)
    /\ \A w \in Sessions : Fits(Tree, op[w], old[w], new[w], sel[w], w \in A)
    /\ \A v, w \in A : v # w => Apart(<<old[v], new[v]>>, <<old[w], new[w]>>)
    /\ WholeUnder(Moves(A), Tree)

\* There is such a set.
Tidy == \E A \in SUBSET Sessions : TidyWith(A)

\* A change to rows that do not concern the request leaves it what it has seen.
LEMMA FitsStays ==
    ASSUME NEW t, NEW u, NEW request, NEW o, NEW n \in Seq(Names), NEW s, NEW started,
           Fits(t, request, o, n, s, started),
           \A e \in (t \ u) \cup (u \ t) : ~ Involves(request, o, n, e[1])
    PROVE  Fits(u, request, o, n, s, started)
<1> SUFFICES ASSUME request # "none" PROVE Fits(u, request, o, n, s, started)
  BY DEF Fits
<1>1. IsDir(u, Parent(n))
  <2>1. CASE Parent(n) = Root
    BY <2>1 DEF IsDir
  <2>2. CASE <<Parent(n), TRUE>> \in t
    <3>1. PICK e : e = <<Parent(n), TRUE>>
      OBVIOUS
    <3>2. e[1] = Parent(n)
      BY <3>1
    <3>3. Involves(request, o, n, e[1])
      BY <3>2 DEF Involves
    <3> QED
      BY <2>2, <3>1, <3>3 DEF IsDir
  <2> QED
    BY <2>1, <2>2 DEF Fits, IsDir
<1>2. \A e \in u : e[1] = n => e \in t
  BY WithinItself DEF Involves
<1>3. ASSUME request = "rename" PROVE Below(u, o) = Below(t, o)
  BY <1>3 DEF Below, Involves
<1> QED
  BY <1>1, <1>2, <1>3 DEF Fits

\* Dirs, by its rows.
LEMMA DirIs ==
    ASSUME rows \in RowBags, NEW p
    PROVE  p \in Dirs <=> IsDir(Tree, p)
<1>1. ASSUME NEW e \in Tree, e[2] PROVE <<e[1], TRUE>> \in Tree
  <2>1. e = <<e[1], e[2]>> /\ e[2] \in BOOLEAN
    BY TreeIs
  <2>2. e[2] = TRUE
    BY <1>1, <2>1
  <2>3. e = <<e[1], TRUE>>
    BY <2>1, <2>2
  <2> QED
    BY <2>3
<1>2. ASSUME p \in Dirs PROVE IsDir(Tree, p)
  BY <1>1, <1>2 DEF Dirs, IsDir
<1>3. ASSUME <<p, TRUE>> \in Tree PROVE p \in Dirs
  <2>1. PICK e : e = <<p, TRUE>>
    OBVIOUS
  <2>2. e[1] = p /\ e[2]
    BY <2>1
  <2> QED
    BY <1>3, <2>1, <2>2 DEF Dirs
<1> QED
  BY <1>2, <1>3 DEF IsDir, Dirs

\* What is known of the renames under way.
LEMMA MovesAre ==
    ASSUME Typed, NEW A \in SUBSET Sessions, TidyWith(A)
    PROVE  /\ \A w \in A : /\ op[w] = "rename" /\ <<old[w], new[w]>> \in Moves(A)
                           /\ old[w] \in Paths /\ new[w] \in Paths
                           /\ old[w] # new[w] /\ Len(old[w]) = Len(new[w])
           /\ \A m \in Moves(A) : \E w \in A : m[1] = old[w] /\ m[2] = new[w]
           /\ RenamesOK(Moves(A)) /\ Based(Moves(A), Tree)
           /\ Tree \in SUBSET Entries
           /\ \A e, f \in Tree : e[1] = f[1] => e = f
           /\ \A p : (\A v \in A : ~ Concerns(v, p)) => Quiet(Moves(A), p)
<1>1. \A w \in A : /\ op[w] = "rename" /\ <<old[w], new[w]>> \in Moves(A)
                   /\ old[w] \in Paths /\ new[w] \in Paths
                   /\ old[w] # new[w] /\ Len(old[w]) = Len(new[w])
  BY DEF TidyWith, Renaming, Typed, RequestsTyped, RequestTyped, Moves
<1>2. \A m \in Moves(A) : \E w \in A : m = <<old[w], new[w]>> /\ m[1] = old[w] /\ m[2] = new[w]
  BY DEF Moves
<1>3. RenamesOK(Moves(A))
  <2>1. /\ Moves(A) \subseteq Paths \X Paths
        /\ \A m \in Moves(A) : Len(m[1]) = Len(m[2]) /\ m[1] # m[2]
    BY <1>1, <1>2
  <2>2. ASSUME NEW m \in Moves(A), NEW l \in Moves(A), m # l PROVE Apart(m, l)
    <3>1. PICK v \in A : m = <<old[v], new[v]>>
      BY <1>2
    <3>2. PICK w \in A : l = <<old[w], new[w]>>
      BY <1>2
    <3> QED
      BY <2>2, <3>1, <3>2 DEF TidyWith
  <2> QED
    BY <2>1, <2>2 DEF RenamesOK
<1>4. ASSUME NEW m \in Moves(A)
      PROVE  IsDir(Tree, Parent(m[2])) /\ \E e \in Tree : Within(e[1], m[1])
  <2>1. PICK w \in A : m[1] = old[w] /\ m[2] = new[w]
    BY <1>2
  <2>2. Fits(Tree, op[w], old[w], new[w], sel[w], w \in A) /\ op[w] = "rename"
    BY <1>1 DEF TidyWith
  <2> QED
    BY <2>1, <2>2 DEF Fits, Below
<1>5. Tree \in SUBSET Entries
  BY TreeIs DEF Typed
<1>6. \A e, f \in Tree : e[1] = f[1] => e = f
  BY DEF TidyWith, WholeUnder
<1>7. ASSUME NEW p, \A v \in A : ~ Concerns(v, p) PROVE Quiet(Moves(A), p)
  BY <1>1, <1>2, <1>7 DEF Quiet, Concerns
<1> QED
  BY <1>1, <1>2, <1>3, <1>4, <1>5, <1>6, <1>7 DEF Based

\* A step of u that makes the tree t: the requests of the others still fit.
LEMMA TidyNext ==
    ASSUME Typed, Typed', NEW A \in SUBSET Sessions, TidyWith(A), mishaps' = {},
           NEW u \in Sessions, Request(u) \/ Insert(u) \/ RenameUpdate(u) \/ CopyInsert(u),
           NEW t, rows' = Once(t), NEW B \in SUBSET Sessions, B \subseteq A, A \ B \subseteq {u},
           u \in B => op'[u] = "rename" /\ old'[u] = old[u] /\ new'[u] = new[u],
           WholeUnder(Moves(B), t),
           Fits(t, op'[u], old'[u], new'[u], sel'[u], u \in B)
    PROVE  TidyWith(B)'
<1>1. Tree' = t
  BY DEF Tree, Once
<1>2. \A v \in Sessions \ {u} : /\ op'[v] = op[v] /\ old'[v] = old[v] /\ new'[v] = new[v]
                                /\ sel'[v] = sel[v] /\ \A p \in Touched : ~ Concerns(v, p)
  BY StepFrame
<1>3. \A v \in B : op'[v] = "rename" /\ old'[v] = old[v] /\ new'[v] = new[v]
  <2> TAKE v \in B
  <2>1. CASE v = u
    BY <2>1
  <2>2. CASE v # u
    <3>1. v \in A /\ v \in Sessions \ {u}
      BY <2>2
    <3>2. op[v] = "rename"
      BY <3>1, MovesAre
    <3> QED
      BY <1>2, <3>1, <3>2
  <2> QED
    BY <2>1, <2>2
<1>4. ASSUME NEW v \in Sessions, v # u
      PROVE  Fits(t, op'[v], old'[v], new'[v], sel'[v], v \in B)
  <2>1. (v \in A) = (v \in B)
    BY <1>4
  <2>2. Fits(Tree, op[v], old[v], new[v], sel[v], v \in B)
    BY <2>1 DEF TidyWith
  <2>3. \A e \in (Tree \ t) \cup (t \ Tree) : ~ Involves(op[v], old[v], new[v], e[1])
    BY <1>1, <1>2, <1>4, TouchedIs, ConcernsIs DEF Typed
  <2>4. new[v] \in Seq(Names)
    <3>1. new[v] \in Paths \cup {Root} /\ Root \in Seq(Names)
      BY TreeAssumption DEF Typed, RequestsTyped, Root
    <3> QED
      BY <3>1, PathFacts
  <2>5. Fits(t, op[v], old[v], new[v], sel[v], v \in B)
    BY <2>2, <2>3, <2>4, FitsStays
  <2> QED
    BY <1>2, <1>4, <2>5
<1>5. Moves(B)' = Moves(B)
  BY <1>3 DEF Moves
<1>6. \A v, w \in B : v # w => Apart(<<old'[v], new'[v]>>, <<old'[w], new'[w]>>)
  BY <1>3 DEF TidyWith
<1>7. B \subseteq Renaming'
  BY <1>3 DEF Renaming
<1>8. \A v \in Sessions : Fits(Tree', op'[v], old'[v], new'[v], sel'[v], v \in B)
  BY <1>1, <1>4
<1> QED
  BY <1>1, <1>5, <1>6, <1>7, <1>8 DEF TidyWith

\* A request without a mishap selects nothing but what is within its path.
LEMMA OddIs ==
    ASSUME NEW o, NEW n, NEW s, Odd(o, n, s) = {}
    PROVE  (\A e \in Tree : e[1] # n) /\ \A f \in s : Within(f[1], o)
<1>1. \A e \in At(n) : "taken" \in Odd(o, n, s)
  BY DEF Odd
<1>2. \A f \in s : ~ Within(f[1], o) => "stray" \in Odd(o, n, s)
  BY DEF Odd
<1> QED
  BY <1>1, <1>2 DEF At

\* A request that begins: the tree stays, and what it has seen is so.
LEMMA TidyBegin ==
    ASSUME Typed, Typed', NEW A \in SUBSET Sessions, TidyWith(A), mishaps' = {},
           NEW w \in Sessions, Request(w), rows' = rows,
           NEW request, NEW o, NEW n, NEW s, Begin(w, request, o, n, s),
           Fits(Tree, request, o, n, s, FALSE)
    PROVE  Tidy'
<1>1. op[w] = "none" /\ w \notin A
  BY MovesAre DEF Request, MaySend
<1>2. op'[w] = request /\ old'[w] = o /\ new'[w] = n /\ sel'[w] = s
  BY DEF Begin, Typed, RequestsTyped
<1>3. rows' = Once(Tree) /\ WholeUnder(Moves(A), Tree)
  BY DEF TidyWith
<1>4. (w \in A) = FALSE
  BY <1>1
<1>5. Fits(Tree, op'[w], old'[w], new'[w], sel'[w], w \in A)
  BY <1>2, <1>4
<1>6. TidyWith(A)'
  BY <1>1, <1>3, <1>5, TidyNext
<1> QED
  BY <1>6 DEF Tidy

\* A request that ends, or is of one statement, with the tree t.
LEMMA TidyEnd ==
    ASSUME Typed, Typed', NEW A \in SUBSET Sessions, TidyWith(A), mishaps' = {},
           NEW w \in Sessions, Request(w) \/ Insert(w) \/ RenameUpdate(w) \/ CopyInsert(w),
           op[w] # "rename", op'[w] = "none",
           NEW t, rows' = Once(t), WholeUnder(Moves(A), t)
    PROVE  Tidy'
<1>1. w \notin A
  BY MovesAre
<1>2. Fits(t, op'[w], old'[w], new'[w], sel'[w], w \in A)
  BY DEF Fits
<1>3. TidyWith(A)'
  BY <1>1, <1>2, TidyNext
<1> QED
  BY <1>3 DEF Tidy

\* What a step that changes the rows of paths touches, the started renames are not about.
LEMMA QuietTouched ==
    ASSUME Typed, Typed', NEW A \in SUBSET Sessions, TidyWith(A), mishaps' = {},
           NEW u \in Sessions, u \notin A,
           Request(u) \/ Insert(u) \/ RenameUpdate(u) \/ CopyInsert(u)
    PROVE  \A e \in (Tree \ Tree') \cup (Tree' \ Tree) : Quiet(Moves(A), e[1])
<1>1. rows \in RowBags /\ rows' \in RowBags
  BY DEF Typed
<1>2. \A v \in A, p \in Touched : ~ Concerns(v, p)
  BY StepFrame
<1> QED
  BY <1>1, <1>2, TouchedIs, MovesAre

\* The steps one by one: the SELECT of mkdir_request, and an upload's request, which
\* makes none,
LEMMA MkdirTidy ==
    ASSUME Typed, Typed', NEW A \in SUBSET Sessions, TidyWith(A), mishaps' = {},
           NEW w \in Sessions, Request(w), NEW p \in Paths, Mkdir(w, p) \/ Put(w, p)
    PROVE  Tidy'
<1>1. IsDir(Tree, Parent(p)) /\ UNCHANGED rows
  BY DirIs DEF Mkdir, Put, Typed
<1>2. CASE Mkdir(w, p)
  <2>1. \A e \in Tree : e[1] # p
    BY <1>2 DEF Mkdir, At
  <2>2. Fits(Tree, "mkdir", Root, p, Once({}), FALSE)
    BY <1>1, <2>1 DEF Fits
  <2> QED
    BY <1>1, <1>2, <2>2, TidyBegin DEF Mkdir
<1>3. CASE Put(w, p)
  <2>1. Fits(Tree, "put", Root, p, Once({}), FALSE)
    BY <1>1 DEF Fits
  <2> QED
    BY <1>1, <1>3, <2>1, TidyBegin DEF Put
<1> QED
  BY <1>2, <1>3

\* of changename_request,
LEMMA RenameSelectTidy ==
    ASSUME Typed, Typed', NEW A \in SUBSET Sessions, TidyWith(A), mishaps' = {},
           NEW w \in Sessions, Request(w), NEW o \in Paths, NEW n \in Paths, RenameSelect(w, o, n)
    PROVE  Tidy'
<1>0. rows \in RowBags /\ rows = Once(Tree) /\ Tree \in SUBSET Entries
  BY TreeIs DEF Typed, TidyWith
<1>1. Odd(o, n, Selected(o)) = {}
  BY DEF RenameSelect
<1>2. (\A e \in Tree : e[1] # n) /\ \A f \in Selected(o) : Within(f[1], o)
  BY <1>1, OddIs
<1>3. Selected(o) = Below(Tree, o)
  BY <1>0, <1>2, SelectedIs DEF Below
<1>4. Below(Tree, o) # {}
  BY <1>0, <1>3, SelectedIs DEF RenameSelect
<1>5. Restrict(rows, Selected(o)) = Once(Below(Tree, o))
  BY <1>0, <1>3, RestrictOnce DEF Below
<1>6. IsDir(Tree, Parent(n))
  BY <1>0, DirIs DEF RenameSelect, Target
<1>7. Fits(Tree, "rename", o, n, Restrict(rows, Selected(o)), FALSE)
  BY <1>2, <1>4, <1>5, <1>6 DEF Fits
<1> QED
  BY <1>7, TidyBegin DEF RenameSelect

\* of copyfile_request,
LEMMA CopySelectTidy ==
    ASSUME Typed, Typed', NEW A \in SUBSET Sessions, TidyWith(A), mishaps' = {},
           NEW w \in Sessions, Request(w), NEW o \in Paths, NEW n \in Paths, CopySelect(w, o, n)
    PROVE  Tidy'
<1>0. rows \in RowBags /\ rows = Once(Tree) /\ Tree \in SUBSET Entries
  BY TreeIs DEF Typed, TidyWith
<1>1. Odd(o, n, Selected(o)) = {} /\ {"copied" : e \in Selected(o) \ At(o)} = {}
  BY DEF CopySelect
<1>2. (\A e \in Tree : e[1] # n)
  BY <1>1, OddIs
<1>3. Selected(o) = At(o)
  BY <1>0, <1>1, SelectedIs
<1>4. PICK e \in Tree : At(o) = {e}
  BY MovesAre DEF CopySelect, At
<1>5. Restrict(rows, Selected(o)) = Once({e})
  BY <1>0, <1>3, <1>4, RestrictOnce
<1>6. DOMAIN Once({e}) = {e}
  BY DEF Once
<1>7. IsDir(Tree, Parent(n))
  BY <1>0, DirIs DEF CopySelect, Target
<1>8. Fits(Tree, "copy", o, n, Restrict(rows, Selected(o)), FALSE)
  BY <1>2, <1>5, <1>6, <1>7 DEF Fits
<1> QED
  BY <1>8, TidyBegin DEF CopySelect

\* the DELETE,
LEMMA DeleteTidy ==
    ASSUME Typed, Typed', NEW A \in SUBSET Sessions, TidyWith(A), mishaps' = {},
           NEW w \in Sessions, Request(w), NEW o \in Paths, Delete(w, o)
    PROVE  Tidy'
<1>0. /\ rows \in RowBags /\ rows = Once(Tree) /\ Tree \in SUBSET Entries
      /\ op[w] = "none" /\ op'[w] = "none" /\ w \notin A
  BY TreeIs, MovesAre DEF Typed, TidyWith, Delete, Single, requestVars, Request, MaySend
<1>1. CASE UNCHANGED rows
  BY <1>0, <1>1, TidyEnd DEF TidyWith
<1>2. CASE rows' = Restrict(rows, Tree \ Selected(o)) /\ Note(w, Odd(o, Root, Selected(o)))
  <2>1. Odd(o, Root, Selected(o)) = {}
    BY <1>2 DEF Note
  <2>2. \A f \in Selected(o) : Within(f[1], o)
    BY <2>1, OddIs
  <2>3. PICK e0 \in Tree : e0[1] = o
    BY DEF Delete, At
  <2>4. PICK t \in SUBSET Tree : t = {e \in Tree : ~ Within(e[1], e0[1])}
    OBVIOUS
  <2>5. Tree \ Selected(o) = t
    BY <1>0, <2>2, <2>3, <2>4, SelectedIs
  <2>6. rows' = Once(t)
    BY <1>0, <1>2, <2>5, RestrictOnce
  <2>7. Tree' = t
    BY <2>6 DEF Once, Tree
  <2>8. \A e \in Tree : Within(e[1], e0[1]) => Quiet(Moves(A), e[1])
    BY <1>0, <2>4, <2>7, QuietTouched
  <2>9. WholeUnder(Moves(A), t)
    <3>1. /\ RenamesOK(Moves(A)) /\ WholeUnder(Moves(A), Tree) /\ Based(Moves(A), Tree)
      BY MovesAre DEF TidyWith
    <3> QED
      BY <1>0, <2>4, <2>8, <3>1, TreeDelete
  <2> QED
    BY <1>0, <2>6, <2>9, TidyEnd
<1> QED
  BY <1>1, <1>2 DEF Delete

\* an INSERT,
LEMMA StoreTidy ==
    ASSUME Typed, Typed', NEW A \in SUBSET Sessions, TidyWith(A), mishaps' = {},
           NEW w \in Sessions, Insert(w) \/ CopyInsert(w),
           op[w] \in {"mkdir", "put", "copy"}, op'[w] = "none",
           NEW d \in BOOLEAN,
           UNCHANGED rows \/ (Store(new[w], d) /\ \A e \in Tree : e[1] # new[w])
    PROVE  Tidy'
<1>0. /\ rows \in RowBags /\ rows = Once(Tree) /\ Tree \in SUBSET Entries /\ w \notin A
      /\ new[w] \in Paths
  BY TreeIs, MovesAre DEF Typed, TidyWith, RequestsTyped, RequestTyped
<1>1. CASE UNCHANGED rows
  BY <1>0, <1>1, TidyEnd DEF TidyWith
<1>2. CASE Store(new[w], d) /\ \A e \in Tree : e[1] # new[w]
  <2>1. Fits(Tree, op[w], old[w], new[w], sel[w], w \in A)
    BY DEF TidyWith
  <2>2. IsDir(Tree, Parent(new[w])) /\ \A e \in Tree : e[1] # new[w]
    BY <1>0, <1>2, <2>1 DEF Fits
  <2>3. PICK e : e = <<new[w], d>>
    OBVIOUS
  <2>4. e[1] = new[w] /\ e \in Entries /\ e \notin Tree
    BY <1>0, <2>2, <2>3 DEF Entries
  <2>5. rows' = Once(Tree \cup {e})
    BY <1>0, <1>2, <2>3, <2>4, WithOnce DEF Store
  <2>6. Tree' = Tree \cup {e}
    BY <2>5 DEF Once, Tree
  <2>7. Quiet(Moves(A), new[w])
    BY <1>0, <2>4, <2>6, QuietTouched
  <2>8. WholeUnder(Moves(A), Tree \cup {e})
    <3>1. /\ RenamesOK(Moves(A)) /\ WholeUnder(Moves(A), Tree)
      BY MovesAre DEF TidyWith
    <3>2. PICK n \in Paths : n = new[w]
      BY <1>0
    <3> QED
      BY <1>0, <2>2, <2>3, <2>7, <3>1, <3>2, TreeInsert
  <2> QED
    BY <1>0, <2>5, <2>8, TidyEnd
<1> QED
  BY <1>1, <1>2

\* that of mkdir_request or of an upload, which finds the path free or is a mishap,
LEMMA InsertTidy ==
    ASSUME Typed, Typed', NEW A \in SUBSET Sessions, TidyWith(A), mishaps' = {},
           NEW w \in Sessions, Insert(w)
    PROVE  Tidy'
<1>1. op[w] \in {"mkdir", "put"} /\ op'[w] = "none"
  BY EndTyped DEF Insert, Typed
<1>2. \/ UNCHANGED rows
      \/ /\ Store(new[w], op[w] = "mkdir")
         /\ Note(w, {"taken" : e \in {f \in At(new[w]) : op[w] = "put"}})
  BY DEF Insert
<1>3. CASE UNCHANGED rows
  BY <1>1, <1>3, StoreTidy
<1>4. CASE /\ Store(new[w], op[w] = "mkdir")
           /\ Note(w, {"taken" : e \in {f \in At(new[w]) : op[w] = "put"}})
  <2>1. CASE op[w] = "mkdir"
    <3>1. Fits(Tree, op[w], old[w], new[w], sel[w], w \in A) /\ w \notin A
      BY <2>1, MovesAre DEF TidyWith
    <3>2. \A e \in Tree : e[1] # new[w]
      BY <2>1, <3>1 DEF Fits
    <3>3. Store(new[w], TRUE)
      BY <1>4, <2>1
    <3> QED
      BY <1>1, <3>2, <3>3, StoreTidy
  <2>2. CASE op[w] = "put"
    <3>1. {"taken" : e \in {f \in At(new[w]) : op[w] = "put"}} = {}
      BY <1>4 DEF Note
    <3>2. \A e \in At(new[w]) :
              "taken" \in {"taken" : f \in {g \in At(new[w]) : op[w] = "put"}}
      BY <2>2
    <3>3. \A e \in Tree : e[1] # new[w]
      BY <3>1, <3>2 DEF At
    <3>4. Store(new[w], FALSE)
      BY <1>4, <2>2
    <3> QED
      BY <1>1, <3>3, <3>4, StoreTidy
  <2> QED
    BY <1>1, <2>1, <2>2
<1> QED
  BY <1>2, <1>3, <1>4

\* and that of copyfile_request,
LEMMA CopyInsertTidy ==
    ASSUME Typed, Typed', NEW A \in SUBSET Sessions, TidyWith(A), mishaps' = {},
           NEW w \in Sessions, CopyInsert(w)
    PROVE  Tidy'
<1>1. PICK e \in DOMAIN sel[w] :
        /\ op[w] = "copy" /\ (Store(new[w], e[2]) \/ UNCHANGED rows)
        /\ End(w) \/ (sel[w] # Once({e}))
  BY DEF CopyInsert
<1>2. Fits(Tree, op[w], old[w], new[w], sel[w], w \in A)
  BY DEF TidyWith
<1>3. PICK f \in DOMAIN sel[w] : sel[w] = Once({f})
  BY <1>1, <1>2 DEF Fits
<1>4. e = f
  BY <1>3 DEF Once
<1>5. op'[w] = "none"
  BY <1>1, <1>3, <1>4, EndTyped DEF Typed
<1>6. e[2] \in BOOLEAN
  <2>1. sel[w] \in RowBags
    BY DEF Typed, RequestsTyped
  <2> QED
    BY <2>1, BagIs, EntryIs
<1>7. \A g \in Tree : g[1] # new[w]
  <2>1. w \notin A
    BY <1>1, MovesAre
  <2> QED
    BY <1>1, <1>2, <2>1 DEF Fits
<1> QED
  BY <1>1, <1>5, <1>6, <1>7, StoreTidy

\* the UPDATE of movefile_request,
LEMMA MoveFileTidy ==
    ASSUME Typed, Typed', NEW A \in SUBSET Sessions, TidyWith(A), mishaps' = {},
           NEW w \in Sessions, Request(w), NEW o \in Paths, NEW n \in Paths, MoveFile(w, o, n)
    PROVE  Tidy'
<1>0. /\ rows \in RowBags /\ rows = Once(Tree) /\ Tree \in SUBSET Entries
      /\ op[w] = "none" /\ op'[w] = "none" /\ w \notin A
  BY TreeIs, MovesAre DEF Typed, TidyWith, MoveFile, Single, requestVars, Request, MaySend
<1>1. CASE UNCHANGED rows
  BY <1>0, <1>1, TidyEnd DEF TidyWith
<1>2. CASE /\ Update(o, n)
           /\ Note(w, Odd(o, n, {}) \cup {"moved" : e \in {f \in Tree \ At(o) : Within(f[1], o)}})
  <2>1. Odd(o, n, {}) = {} /\ {"moved" : e \in {f \in Tree \ At(o) : Within(f[1], o)}} = {}
    BY <1>2 DEF Note
  <2>2. \A e \in Tree : e[1] # n
    BY <2>1, OddIs
  <2>3. PICK e0 \in Tree : At(o) = {e0}
    BY MovesAre DEF MoveFile, At
  <2>4. e0[1] = o /\ e0[2] \in BOOLEAN
    BY <1>0, <2>3, TreeIs DEF At
  <2>5. \A e \in Tree : Within(e[1], o) => e = e0
    BY <2>1, <2>3
  <2>6. PICK t : t = (Tree \ {e0}) \cup {<<n, e0[2]>>}
    OBVIOUS
  <2>7. rows' = Once(t) /\ Tree' = t
    BY <1>0, <1>2, <2>2, <2>3, <2>6, UpdateOnce
  <2>8. <<n, e0[2]>>[1] = n /\ <<n, e0[2]>> \in Tree' \ Tree /\ e0 \in Tree \ Tree'
    <3>1. <<n, e0[2]>>[1] = n
      OBVIOUS
    <3> QED
      BY <2>2, <2>6, <2>7, <3>1
  <2>9. Quiet(Moves(A), o) /\ Quiet(Moves(A), n)
    BY <1>0, <2>4, <2>8, QuietTouched
  <2>10. WholeUnder(Moves(A), t)
    <3>1. /\ RenamesOK(Moves(A)) /\ WholeUnder(Moves(A), Tree) /\ Based(Moves(A), Tree)
      BY MovesAre DEF TidyWith
    <3>2. IsDir(Tree, Parent(n)) /\ ~ Within(n, o)
      BY <1>0, DirIs DEF MoveFile, Target
    <3> QED
      BY <1>0, <2>2, <2>4, <2>5, <2>6, <2>9, <3>1, <3>2, TreeMove
  <2> QED
    BY <1>0, <2>7, <2>10, TidyEnd
<1> QED
  BY <1>1, <1>2 DEF MoveFile

\* The UPDATE of a row by a rename that has begun to move rows.
LEMMA UpdateTidy ==
    ASSUME Typed, Typed', NEW A \in SUBSET Sessions, TidyWith(A), mishaps' = {},
           NEW w \in A, RenameUpdate(w)
    PROVE  Tidy'
<1>1. PICK e \in DOMAIN sel[w] :
        /\ Update(e[1], Moved(e[1], old[w], new[w]))
        /\ IF sel[w] = Once({e}) THEN End(w)
           ELSE sel' = [sel EXCEPT ![w] = Without(@, e)] /\ UNCHANGED <<op, old, new>>
  BY DEF RenameUpdate, Stopped
<1> DEFINE o == old[w]
<1> DEFINE n == new[w]
<1> DEFINE m == <<o, n>>
<1>2. /\ rows \in RowBags /\ rows = Once(Tree) /\ Tree \in SUBSET Entries
      /\ RequestsTyped /\ w \in Sessions
  BY TreeIs DEF Typed, TidyWith
<1>3. /\ op[w] = "rename" /\ o \in Paths /\ n \in Paths /\ o # n /\ Len(o) = Len(n)
      /\ m \in Moves(A) /\ RenamesOK(Moves(A)) /\ WholeUnder(Moves(A), Tree)
  BY MovesAre DEF TidyWith
<1>4. /\ IsDir(Tree, Parent(n)) /\ sel[w] = Once(Below(Tree, o))
  BY <1>3 DEF TidyWith, Fits
<1>5. DOMAIN sel[w] = Below(Tree, o)
  BY <1>4 DEF Once
<1>6. e \in Tree /\ Within(e[1], o) /\ e[1] \in Paths /\ e[1] \in Seq(Names)
  BY <1>2, <1>5, TreeIs DEF Below
<1>7. At(e[1]) = {e}
  BY <1>6, MovesAre DEF At
<1>8. PICK e1 : e1 = <<Moved(e[1], m[1], m[2]), e[2]>>
  OBVIOUS
<1>9. e1 = <<Moved(e[1], o, n), e[2]>> /\ e1[1] = Moved(e[1], o, n)
  BY <1>8
<1> HIDE DEF o, n, m
<1>10. m[1] = o /\ m[2] = n
  BY DEF m
<1>11. PICK t : t = (Tree \ {e}) \cup {e1}
  OBVIOUS
<1>12. /\ e1 \in Entries /\ ~ Within(e1[1], o) /\ Within(e1[1], n)
       /\ \A f \in Tree : f[1] # e1[1]
       /\ WholeUnder(Moves(A), t)
  <2>1. Within(e[1], m[1])
    BY <1>6, <1>10
  <2>2. PICK M : M = Moves(A)
    OBVIOUS
  <2>3. RenamesOK(M) /\ WholeUnder(M, Tree)
    BY <1>3, <2>2
  <2>4. PICK l \in M : l = m
    BY <1>3, <2>2
  <2>5. PICK u \in SUBSET Entries : u = Tree
    BY <1>2
  <2>6. e \in u /\ Within(e[1], l[1]) /\ WholeUnder(M, u)
    BY <1>6, <2>1, <2>3, <2>4, <2>5
  <2>7. PICK q : q = Moved(e[1], l[1], l[2])
    OBVIOUS
  <2>8. /\ q \in Paths /\ ~ Within(q, l[1]) /\ Within(q, l[2])
        /\ \A f \in u : f[1] # q
        /\ WholeUnder(M, (u \ {e}) \cup {<<q, e[2]>>})
    <3>1. q \in Paths /\ ~ Within(q, l[1]) /\ Within(q, l[2])
      BY <2>3, <2>6, <2>7, TreeUpdate
    <3>2. \A f \in u : f[1] # q
      BY <2>3, <2>6, <2>7, TreeUpdate
    <3>3. WholeUnder(M, (u \ {e}) \cup {<<q, e[2]>>})
      BY <2>3, <2>6, <2>7, TreeUpdate
    <3> QED
      BY <3>1, <3>2, <3>3
  <2>9. e1 = <<q, e[2]>> /\ e1[1] = q /\ e[2] \in BOOLEAN
    BY <1>2, <1>6, <1>8, <2>4, <2>7, TreeIs
  <2> QED
    BY <1>10, <1>11, <2>2, <2>4, <2>5, <2>8, <2>9 DEF Entries
<1>13. e1[1] \in Paths
  BY <1>12, EntryIs
<1>14. rows' = Once(t) /\ Tree' = t
  <2>1. Update(e[1], e1[1])
    BY <1>1, <1>9 DEF o, n
  <2>2. PICK p \in Paths : p = e[1]
    BY <1>6
  <2>3. PICK q \in Paths : q = e1[1]
    BY <1>13
  <2>4. rows' = Once((Tree \ {e}) \cup {<<q, e[2]>>}) /\ Tree' = (Tree \ {e}) \cup {<<q, e[2]>>}
    BY <1>2, <1>6, <1>7, <1>12, <2>1, <2>2, <2>3, UpdateOnce
  <2> QED
    BY <1>9, <1>11, <2>3, <2>4
<1>15. Below(t, o) = Below(Tree, o) \ {e}
  BY <1>6, <1>11, <1>12 DEF Below
<1>16. CASE sel[w] = Once({e})
  <2>1. PICK B \in SUBSET Sessions : B = A \ {w}
    OBVIOUS
  <2>2. op'[w] = "none"
    BY <1>1, <1>2, <1>16, EndTyped
  <2>3. Below(Tree, o) = {e}
    BY <1>5, <1>16 DEF Once
  <2>4. \A f \in t : ~ Within(f[1], m[1])
    BY <1>10, <1>15, <2>3 DEF Below
  <2>5. Moves(B) = Moves(A) \ {m}
    <3>1. ASSUME NEW v \in B PROVE <<old[v], new[v]>> \in Moves(A) /\ <<old[v], new[v]>> # m
      <4>1. v \in A /\ v # w
        BY <2>1
      <4>2. Apart(<<old[v], new[v]>>, m)
        BY <4>1 DEF TidyWith, m, o, n
      <4>3. ~ Apart(m, m)
        <5>1. Within(o, o)
          BY <1>3, PathFacts, WithinItself
        <5> QED
          BY <1>10, <5>1 DEF Apart, Incomparable
      <4> QED
        BY <4>1, <4>2, <4>3 DEF Moves
    <3>2. \A x \in Moves(A) : x # m => x \in Moves(B)
      BY <2>1 DEF Moves, m, o, n
    <3> QED
      BY <3>1, <3>2 DEF Moves
  <2>6. WholeUnder(Moves(B), t)
    <3>1. t \in SUBSET Entries
      BY <1>2, <1>11, <1>12
    <3> QED
      BY <1>3, <1>12, <2>4, <2>5, <3>1, TreeFinish
  <2>7. Fits(t, op'[w], old'[w], new'[w], sel'[w], w \in B)
    BY <2>2 DEF Fits
  <2>8. TidyWith(B)'
    BY <1>2, <1>14, <2>1, <2>6, <2>7, TidyNext
  <2> QED
    BY <2>8 DEF Tidy
<1>17. CASE sel[w] # Once({e})
  <2>1. sel' = [sel EXCEPT ![w] = Without(@, e)] /\ UNCHANGED <<op, old, new>>
    BY <1>1, <1>17
  <2>2. Below(Tree, o) \in SUBSET Entries /\ e \in Below(Tree, o)
    BY <1>2, <1>6 DEF Below
  <2>3. sel'[w] = Once(Below(t, o))
    <3>1. sel'[w] = Without(Once(Below(Tree, o)), e)
      BY <1>2, <1>4, <2>1 DEF RequestsTyped
    <3>2. Without(Once(Below(Tree, o)), e) = Once(Below(Tree, o) \ {e})
      BY <2>2, WithoutOnce
    <3> QED
      BY <1>15, <3>1, <3>2
  <2>4. Below(t, o) # {}
    <3>1. SUFFICES ASSUME Below(Tree, o) = {e} PROVE FALSE
      BY <1>15, <2>2
    <3> QED
      BY <1>4, <1>17, <3>1
  <2>5. IsDir(t, Parent(n))
    <3>1. CASE Parent(n) = Root
      BY <3>1 DEF IsDir
    <3>2. CASE <<Parent(n), TRUE>> \in Tree
      <4>1. PICK d : d = <<Parent(n), TRUE>>
        OBVIOUS
      <4>2. d[1] = Parent(n)
        BY <4>1
      <4>3. ~ Within(Parent(n), o)
        <5>1. /\ n \in Seq(Names) /\ o \in Seq(Names) /\ Parent(n) \in Seq(Names)
              /\ Within(n, Parent(n)) /\ Len(n) \in Nat
          BY <1>3, PathFacts
        <5>2. SUFFICES ASSUME Within(Parent(n), o) PROVE FALSE
          OBVIOUS
        <5>3. Within(n, o)
          BY <5>1, <5>2, WithinAll
        <5> QED
          BY <1>3, <5>1, <5>3, WithinAll
      <4>4. d # e
        BY <1>6, <4>2, <4>3
      <4> QED
        BY <1>11, <3>2, <4>1, <4>4 DEF IsDir
    <3> QED
      BY <1>4, <3>1, <3>2 DEF IsDir
  <2>6. Fits(t, op'[w], old'[w], new'[w], sel'[w], w \in A)
    <3>1. op'[w] = "rename" /\ old'[w] = o /\ new'[w] = n
      BY <1>3, <2>1 DEF o, n
    <3> QED
      BY <2>3, <2>4, <2>5, <3>1 DEF Fits
  <2>7. TidyWith(A)'
    BY <1>2, <1>3, <1>12, <1>14, <2>1, <2>6, TidyNext
  <2> QED
    BY <2>7 DEF Tidy
<1> QED
  BY <1>16, <1>17

\* The first UPDATE of a rename: it has nothing to do with those under way, or one of
\* the two will race.
LEMMA FirstUpdate ==
    ASSUME Typed, Typed', NEW A \in SUBSET Sessions, TidyWith(A), mishaps' = {},
           NEW w \in Sessions, w \notin A, RenameUpdate(w)
    PROVE  Stuck \/ TidyWith(A \cup {w})
<1> DEFINE o == old[w]
<1> DEFINE n == new[w]
<1> DEFINE M == Moves(A)
<1>1. PICK e \in DOMAIN sel[w] : op[w] = "rename" /\ Update(e[1], Moved(e[1], o, n))
  BY DEF RenameUpdate, Stopped
<1>2. /\ rows \in RowBags /\ rows = Once(Tree) /\ Tree \in SUBSET Entries /\ RequestsTyped
      /\ \A f, g \in Tree : f[1] = g[1] => f = g
  BY TreeIs, MovesAre DEF Typed, TidyWith
<1>3. /\ o \in Paths /\ n \in Paths /\ o # n /\ Len(o) = Len(n)
      /\ o \in Seq(Names) /\ n \in Seq(Names)
  BY <1>1, <1>2, PathFacts DEF RequestsTyped, RequestTyped
<1>4. Fits(Tree, "rename", o, n, sel[w], FALSE)
  <2>1. Fits(Tree, op[w], old[w], new[w], sel[w], w \in A)
    BY DEF TidyWith
  <2>2. (w \in A) = FALSE
    OBVIOUS
  <2> QED
    BY <1>1, <2>1, <2>2
<1>5. /\ IsDir(Tree, Parent(n)) /\ \A f \in Tree : f[1] # n
      /\ sel[w] = Once(Below(Tree, o)) /\ DOMAIN sel[w] = Below(Tree, o)
  BY <1>4 DEF Fits, Once
<1>6. RenamesOK(M) /\ WholeUnder(M, Tree) /\ Based(M, Tree)
  BY MovesAre DEF TidyWith
<1>7. e \in Tree /\ Within(e[1], o) /\ e[1] \in Paths /\ e[1] \in Seq(Names)
  BY <1>2, <1>5, TreeIs DEF Below
<1>8. PICK q : q = Moved(e[1], o, n)
  OBVIOUS
<1>9. q \in Paths /\ Within(q, n)
  <2>1. Len(o) <= Len(e[1])
    BY <1>3, <1>7, WithinIs
  <2> QED
    BY <1>3, <1>7, <1>8, <2>1, MovedPath, MovedWithin
<1>10. Quiet(M, e[1]) /\ Quiet(M, q)
  <2>1. e[1] # q
    <3>1. SUFFICES ASSUME e[1] = q PROVE FALSE
      OBVIOUS
    <3>2. Within(o, n) \/ Within(n, o)
      BY <1>3, <1>7, <1>9, <3>1, WithinAll
    <3> QED
      BY <1>3, <3>2, WithinAll
  <2>2. At(e[1]) # {}
    BY <1>7 DEF At
  <2>3. e[1] \in Touched /\ q \in Touched
    BY <1>1, <1>2, <1>7, <1>8, <1>9, <2>1, <2>2, UpdateTouches
  <2>4. \A v \in A, p \in Touched : ~ Concerns(v, p)
    BY StepFrame
  <2> QED
    BY <2>3, <2>4, MovesAre
<1> HIDE DEF o, n, M
\* One of A has its old or its new path within o.
<1>11. ASSUME NEW v \in A, Within(old[v], o) \/ Within(new[v], o) PROVE Stuck
  <2>0. /\ v \in Sessions /\ v # w /\ op[v] = "rename"
        /\ old[v] \in Paths /\ new[v] \in Paths /\ Len(old[v]) = Len(new[v])
        /\ old[v] \in Seq(Names) /\ new[v] \in Seq(Names)
    BY MovesAre, PathFacts
  <2>1. Fits(Tree, "rename", old[v], new[v], sel[v], v \in A)
    BY <2>0 DEF TidyWith
  <2>2. /\ IsDir(Tree, Parent(new[v])) /\ DOMAIN sel[v] = Below(Tree, old[v])
        /\ DOMAIN sel[v] # {}
    BY <2>1 DEF Fits, Once
  <2>3. ASSUME NEW f \in DOMAIN sel[v] PROVE Mine(v, f) /\ Blocked(v, f, w)
    <3>1. f \in Tree /\ Within(f[1], old[v]) /\ f[1] \in Seq(Names)
      BY <1>2, <2>2, TreeIs DEF Below
    <3>2. CASE Within(old[v], o)
      <4>1. Within(f[1], o)
        BY <1>3, <2>0, <3>1, <3>2, WithinAll
      <4> QED
        BY <1>1, <3>1, <4>1 DEF Mine, Blocked, Concerns, o
    <3>3. CASE Within(new[v], o)
      <4>1. /\ Moved(f[1], old[v], new[v]) \in Seq(Names)
            /\ Within(Moved(f[1], old[v], new[v]), new[v])
        BY <2>0, <3>1, MovedWithin
      <4>2. Within(Moved(f[1], old[v], new[v]), o)
        BY <1>3, <2>0, <3>3, <4>1, WithinAll
      <4> QED
        BY <1>1, <3>1, <4>2 DEF Mine, Blocked, Concerns, o
    <3> QED
      BY <1>11, <3>2, <3>3
  <2>4. ASSUME NEW f \in Tree, Within(f[1], o), Concerns(v, f[1])
        PROVE  \E g \in DOMAIN sel[w] : Mine(w, g) /\ Blocked(w, g, v)
    BY <1>5, <2>4 DEF Below, Mine, Blocked, o
  <2>5. \E f \in Tree : Within(f[1], o) /\ Concerns(v, f[1])
    <3>1. CASE Within(old[v], o)
      <4>1. PICK f \in Tree : Within(f[1], old[v])
        BY <2>2 DEF Below
      <4>2. Within(f[1], o)
        <5>1. f[1] \in Seq(Names)
          BY <1>2, TreeIs
        <5> QED
          BY <1>3, <2>0, <3>1, <4>1, <5>1, WithinAll
      <4> QED
        BY <2>0, <4>1, <4>2 DEF Concerns
    <3>2. CASE Within(new[v], o)
      <4>1. new[v] # o
        <5>1. SUFFICES ASSUME new[v] = o PROVE FALSE
          OBVIOUS
        <5>2. <<old[v], new[v]>> \in M
          BY DEF M, Moves
        <5>3. ~ Within(e[1], <<old[v], new[v]>>[2])
          BY <1>10, <5>2 DEF Quiet
        <5> QED
          BY <1>7, <5>1, <5>3
      <4>2. PICK p \in Paths : p = new[v]
        BY <2>0
      <4>3. /\ p \in Seq(Names) /\ Len(p) \in Nat /\ Parent(p) = Upto(p, Len(p) - 1)
            /\ (Parent(p) = Root <=> Len(p) = 2) /\ Len(o) \in Nat /\ Len(o) >= 2
        BY <1>3, PathFacts
      <4>4. Len(o) < Len(p)
        BY <1>3, <3>2, <4>1, <4>2, <4>3, WithinAll
      <4>5. PICK k \in 0 .. Len(p) : k = Len(p) - 1 /\ Len(o) <= k /\ Len(p) > 2
        BY <4>3, <4>4
      <4>6. Within(Parent(p), o)
        BY <1>3, <3>2, <4>2, <4>3, <4>5, UptoWithin
      <4>7. Parent(p) # Root
        BY <4>3, <4>5
      <4>8. PICK f : f = <<Parent(p), TRUE>>
        OBVIOUS
      <4>9. f \in Tree
        BY <2>2, <4>2, <4>7, <4>8 DEF IsDir
      <4>10. f[1] = Parent(new[v])
        BY <4>2, <4>8
      <4> QED
        BY <2>0, <4>2, <4>6, <4>9, <4>10 DEF Concerns
    <3> QED
      BY <1>11, <3>1, <3>2
  <2>6. StuckPair(v, w)
    BY <1>1, <2>0, <2>2, <2>3, <2>4, <2>5 DEF StuckPair, Renaming
  <2> QED
    BY <2>0, <2>6 DEF Stuck
<1>12. ASSUME \A v \in A : ~ Within(old[v], o) /\ ~ Within(new[v], o)
       PROVE  TidyWith(A \cup {w})
  <2>1. ASSUME NEW m \in M PROVE Apart(m, <<o, n>>)
    <3>1. ~ Within(m[1], o) /\ ~ Within(m[2], o)
      BY <1>12, MovesAre DEF M
    <3> QED
      BY <1>2, <1>3, <1>5, <1>6, <1>7, <1>9, <1>10, <3>1, TreeApart
  <2>2. ASSUME NEW f \in Tree PROVE Dest(M, f[1]) # n
    <3>1. f[1] \in Paths /\ f[1] # n
      BY <1>2, <1>5, TreeIs
    <3>2. CASE Dest(M, f[1]) = f[1]
      BY <3>1, <3>2
    <3>3. ASSUME NEW m \in M, Within(Dest(M, f[1]), m[2]) PROVE Dest(M, f[1]) # n
      BY <2>1, <3>3 DEF Apart, Incomparable
    <3> QED
      BY <1>6, <3>1, <3>2, <3>3, DestIs
  <2>3. WholeUnder(M \cup {<<o, n>>}, Tree)
    BY <1>2, <1>3, <1>5, <1>6, <1>7, <2>1, <2>2, TreeStart
  <2>4. Moves(A \cup {w}) = M \cup {<<o, n>>}
    BY DEF Moves, M, o, n
  <2>5. A \cup {w} \subseteq Renaming
    BY <1>1 DEF TidyWith, Renaming
  <2>6. ASSUME NEW v \in Sessions
        PROVE  Fits(Tree, op[v], old[v], new[v], sel[v], v \in A \cup {w})
    BY DEF TidyWith, Fits
  <2>7. ASSUME NEW u \in A \cup {w}, NEW v \in A \cup {w}, u # v
        PROVE  Apart(<<old[u], new[u]>>, <<old[v], new[v]>>)
    <3>1. \A x \in A : Apart(<<old[x], new[x]>>, <<o, n>>)
      BY <2>1 DEF M, Moves
    <3>2. CASE u \in A /\ v \in A
      BY <2>7, <3>2 DEF TidyWith
    <3>3. CASE u \in A /\ v = w
      BY <3>1, <3>3 DEF o, n
    <3>4. CASE u = w /\ v \in A
      BY <3>1, <3>4 DEF o, n, Apart, Incomparable
    <3> QED
      BY <2>7, <3>2, <3>3, <3>4
  <2> QED
    BY <1>2, <2>3, <2>4, <2>5, <2>6, <2>7 DEF TidyWith
<1> QED
  BY <1>11, <1>12

\* A rename ends whatever disturbs it in a mishap, so a step keeps the tree tidy, or the
\* renames in each other's way.
TreeInv == mishaps = {} => Stuck \/ Tidy

\* Every step keeps the invariant.
LEMMA TreeStep ==
    ASSUME Typed, Typed', TreeInv, [TreeNext]_vars
    PROVE  TreeInv'
<1> SUFFICES ASSUME mishaps' = {} PROVE Stuck' \/ Tidy'
  BY DEF TreeInv
<1>1. ASSUME Stuck PROVE Stuck'
  <2>1. PICK v \in Sessions, w \in Sessions : StuckPair(v, w)
    BY <1>1 DEF Stuck
  <2>2. StuckPair(v, w)'
    BY <2>1, StuckStays
  <2> QED
    BY <2>2 DEF Stuck
<1>2. ASSUME NEW A \in SUBSET Sessions, TidyWith(A), ~ Stuck PROVE Tidy'
  <2>1. CASE UNCHANGED <<requestVars, rows>>
    <3>1. TidyWith(A)'
      BY <1>2, <2>1 DEF requestVars, TidyWith, Tree, Moves, Renaming
    <3> QED
      BY <3>1 DEF Tidy
  <2>2. CASE TreeRestart
    <3>1. \A w \in Sessions : op[w] # "rename"
      BY <2>2 DEF TreeRestart
    <3>2. A = {}
      BY <1>2, <3>1 DEF TidyWith, Renaming
    <3>3. rows' = Once(Tree') /\ WholeUnder(Moves({}), Tree')
      BY <1>2, <2>2, <3>2 DEF TreeRestart, TidyWith, Tree
    <3>4. \A w \in Sessions : op'[w] = "none"
      BY <2>2 DEF TreeRestart
    <3>5. \A w \in Sessions : Fits(Tree', op'[w], old'[w], new'[w], sel'[w], w \in {})
      BY <3>4 DEF Fits
    <3>6. Moves({})' = Moves({})
      BY DEF Moves
    <3>7. TidyWith({})'
      BY <3>3, <3>5, <3>6 DEF TidyWith
    <3> QED
      BY <3>7 DEF Tidy
  <2>3. ASSUME NEW w \in Sessions, Request(w) PROVE Tidy'
    <3>1. ASSUME NEW p \in Paths, Mkdir(w, p) \/ Put(w, p) \/ Delete(w, p) PROVE Tidy'
      BY <1>2, <2>3, <3>1, MkdirTidy, DeleteTidy
    <3>2. ASSUME NEW o \in Paths, NEW n \in Paths,
                 RenameSelect(w, o, n) \/ MoveFile(w, o, n) \/ CopySelect(w, o, n)
          PROVE  Tidy'
      BY <1>2, <2>3, <3>2, RenameSelectTidy, MoveFileTidy, CopySelectTidy
    <3> QED
      BY <2>3, <3>1, <3>2 DEF Request
  <2>4. ASSUME NEW w \in Sessions, RenameUpdate(w) PROVE Tidy'
    <3>1. CASE w \in A
      BY <1>2, <2>4, <3>1, UpdateTidy
    <3>2. CASE w \notin A
      <4>1. TidyWith(A \cup {w})
        BY <1>2, <2>4, <3>2, FirstUpdate
      <4>2. PICK B \in SUBSET Sessions : B = A \cup {w}
        OBVIOUS
      <4> QED
        BY <2>4, <4>1, <4>2, UpdateTidy
    <3> QED
      BY <3>1, <3>2
  <2>5. ASSUME NEW w \in Sessions, Insert(w) \/ CopyInsert(w) PROVE Tidy'
    BY <1>2, <2>5, InsertTidy, CopyInsertTidy
  <2> QED
    BY <2>1, <2>2, <2>3, <2>4, <2>5 DEF TreeNext, vars
<1> QED
  BY <1>1, <1>2, NoMishapBefore DEF TreeInv, Tidy

\* It holds at the start.
LEMMA TreeStart0 ==
    ASSUME TreeInit
    PROVE  TreeInv
<1>1. PICK t \in SUBSET Entries : rows = Once(t) /\ Whole(t)
  BY TypedInit
<1>2. Tree = t
  BY <1>1 DEF Once, Tree
<1>3. \A w \in Sessions : op[w] = "none"
  BY DEF TreeInit
<1>4. Moves({}) = {}
  BY DEF Moves
<1>5. TidyWith({})
  BY <1>1, <1>2, <1>3, <1>4, TreeStill DEF TidyWith, Fits
<1> QED
  BY <1>5 DEF TreeInv, Tidy

\* Types and trees, always.
LEMMA TreeInvariant == TreeSpec => [](Typed /\ TreeInv)
<1>1. TreeInit => Typed /\ TreeInv
  BY TypedInit, TreeStart0
<1>2. Typed /\ TreeInv /\ [TreeNext]_vars => (Typed /\ TreeInv)'
  BY TypedStep, TreeStep
<1> QED
  BY <1>1, <1>2, PTL DEF TreeSpec

\* The tree is whole when no rename is under way.
LEMMA SettledIsWhole ==
    ASSUME Typed, TreeInv, Settled
    PROVE  rows = Once(Tree) /\ Whole(Tree)
<1>1. ~ Stuck
  BY DEF Settled, Stuck, StuckPair, Renaming
<1>2. PICK A \in SUBSET Sessions : TidyWith(A)
  BY <1>1 DEF Settled, TreeInv, Tidy
<1>3. A = {}
  BY <1>2 DEF TidyWith, Renaming, Settled
<1>4. Moves(A) = {}
  BY <1>3 DEF Moves
<1>5. Tree \in SUBSET Entries
  BY TreeIs DEF Typed
<1> QED
  BY <1>2, <1>4, <1>5, TreeStill DEF TidyWith

\* Requests that do not touch each other's paths leave the tree whole (TreeWhole).
THEOREM TreeAlwaysWhole == TreeSpec => []TreeWhole
<1>1. Typed /\ TreeInv => TreeWhole
  BY SettledIsWhole DEF TreeWhole
<1> QED
  BY <1>1, TreeInvariant, PTL

\* The listing of a directory, of which no name within the path but the first is the
\* user's: REGEXP finds the directory at the beginning of the path only.
LEMMA ListedIs ==
    ASSUME NEW p \in Paths, NEW d \in Paths \cup {Root}, \A i \in 2 .. Len(p) : p[i] # User
    PROVE  (Places(d, p) # {} /\ \A i \in Places(d, p) : i + Len(d) + 1 = Len(p)) <=> d = Parent(p)
<1>1. /\ p \in Seq(Names) /\ Len(p) \in Nat /\ Len(p) >= 2 /\ Len(Parent(p)) = Len(p) - 1
      /\ Parent(p) \in Seq(Names) /\ Parent(p) = SubSeq(p, 1, Len(p) - 1)
  BY PathFacts DEF Parent
<1>2. d \in Seq(Names) /\ Len(d) \in Nat /\ Len(d) >= 1 /\ d[1] = User
  <2>1. CASE d = Root
    BY <2>1, TreeAssumption DEF Root
  <2>2. CASE d \in Paths
    BY <2>2, PathsAre, TreeAssumption
  <2> QED
    BY <2>1, <2>2
<1>3. ASSUME NEW i \in Places(d, p) PROVE i = 0 /\ d = SubSeq(p, 1, Len(d))
  <2>1. i \in Nat /\ i + Len(d) + 1 <= Len(p) /\ SubSeq(p, i + 1, i + Len(d)) = d
    BY <1>1, <1>2 DEF Places
  <2>2. i + 1 \in 1 .. Len(p) + 1 /\ i + Len(d) \in (i + 1) - 1 .. Len(p)
    BY <1>1, <1>2, <2>1
  <2>3. \A j \in 1 .. (i + Len(d)) - (i + 1) + 1 :
           SubSeq(p, i + 1, i + Len(d))[j] = p[(i + 1) + j - 1]
    <3>1. i + 1 \in Int /\ i + Len(d) \in Int
      BY <2>2
    <3>2. \A j \in i + 1 .. i + Len(d) : p[j] \in Names
      BY <1>1, <2>2
    <3> QED
      BY <3>1, <3>2, SubSeqProperties
  <2>4. 1 \in 1 .. (i + Len(d)) - (i + 1) + 1 /\ (i + 1) + 1 - 1 = i + 1
    BY <1>2, <2>1
  <2>5. p[i + 1] = User
    BY <1>2, <2>1, <2>3, <2>4
  <2>6. i = 0
    <3>1. i # 0 => i + 1 \in 2 .. Len(p)
      BY <1>1, <1>2, <2>1
    <3> QED
      BY <2>5, <3>1
  <2>7. 0 + 1 = 1 /\ 0 + Len(d) = Len(d)
    BY <1>2
  <2> QED
    BY <2>1, <2>6, <2>7
<1>4. ASSUME Places(d, p) # {}, \A i \in Places(d, p) : i + Len(d) + 1 = Len(p)
      PROVE  d = Parent(p)
  <2>1. PICK i \in Places(d, p) : TRUE
    BY <1>4
  <2>2. i = 0 /\ d = SubSeq(p, 1, Len(d)) /\ i + Len(d) + 1 = Len(p)
    BY <1>3, <1>4, <2>1
  <2>3. Len(d) = Len(p) - 1
    <3>1. PICK k, l \in Nat : k = Len(d) /\ l = Len(p)
      BY <1>1, <1>2
    <3>2. 0 + k + 1 = l
      BY <2>2, <3>1
    <3>3. k = l - 1
      BY <3>2
    <3> QED
      BY <3>1, <3>3
  <2> QED
    BY <1>1, <2>2, <2>3
<1>5. ASSUME d = Parent(p)
      PROVE  Places(d, p) # {} /\ \A i \in Places(d, p) : i + Len(d) + 1 = Len(p)
  <2>1. Len(d) = Len(p) - 1 /\ 0 \in 0 .. Len(p) - Len(d) - 1 /\ 0 + 1 = 1 /\ 0 + Len(d) = Len(d)
    BY <1>1, <1>2, <1>5
  <2>2. SubSeq(p, 0 + 1, 0 + Len(d)) = d
    BY <1>1, <1>5, <2>1
  <2>3. 0 \in Places(d, p)
    BY <2>1, <2>2 DEF Places
  <2>4. \A i \in Places(d, p) : i = 0
    BY <1>3
  <2> QED
    BY <1>1, <1>2, <2>1, <2>3, <2>4
<1> QED
  BY <1>4, <1>5

\* And the listings lead to every row, by one way (ListedOnce).
THEOREM RowsAlwaysListedOnce == TreeSpec => []ListedOnce
<1>1. ASSUME Typed, TreeInv PROVE ListedOnce
  <2> SUFFICES ASSUME Settled, \A e \in Tree : \A i \in 2 .. Len(e[1]) : e[1][i] # User,
                      NEW e \in Tree
               PROVE  {d \in Dirs : e \in Listed(d)} = {Parent(e[1])}
    BY DEF ListedOnce
  <2>1. Whole(Tree)
    BY <1>1, SettledIsWhole
  <2>2. \A f \in Tree : f[1] \in Paths
    BY <1>1, TreeIs DEF Typed
  <2>3. Parent(e[1]) \in Dirs
    <3>1. Parent(e[1]) = Root \/ <<Parent(e[1]), TRUE>> \in Tree
      BY <2>1 DEF Whole
    <3>2. /\ <<Parent(e[1]), TRUE>>[1] = Parent(e[1]) /\ <<Parent(e[1]), TRUE>>[2] = TRUE
      OBVIOUS
    <3> QED
      BY <3>1, <3>2 DEF Dirs
  <2>4. ASSUME NEW d \in Dirs PROVE e \in Listed(d) <=> d = Parent(e[1])
    <3>1. d \in Paths \cup {Root}
      BY <2>2 DEF Dirs
    <3>2. (Places(d, e[1]) # {} /\ \A i \in Places(d, e[1]) : i + Len(d) + 1 = Len(e[1]))
            <=> d = Parent(e[1])
      BY <2>2, <3>1, ListedIs
    <3> QED
      BY <3>2 DEF Listed
  <2> QED
    BY <2>3, <2>4
<1>2. Typed /\ TreeInv => ListedOnce
  BY <1>1
<1> QED
  BY <1>2, TreeInvariant, PTL

-----------------------------------------------------------------------------
(* The rename that the history follows *)

\* Where the rows of o and of n are when o has become n.
Image(t, o, n) == {<<Moved(e[1], o, n), e[2]>> : e \in Below(t, o)} \cup Below(t, n)

\* The type of the history.
GoalTyped ==
    goal \in [state : {"none", "open", "done"}, old : Paths \cup {Root}, new : Paths \cup {Root},
              tree : SUBSET Entries, by : SUBSET Sessions]

\* Session w, if it is renaming, will move every row that is left.
Carries(w) ==
    op[w] = "rename" =>
        /\ old[w] = goal.old /\ new[w] = goal.new
        /\ \A e \in DOMAIN sel[w] : Within(e[1], goal.old)
        /\ Below(Tree, goal.old) \subseteq DOMAIN sel[w]

\* The rows a followed rename is about lead to its goal; whoever is to end it carries
\* all that is left; and when it is done they are there.
Followed ==
    /\ goal.old \in Paths /\ goal.new \in Paths
    /\ goal.old # goal.new /\ Len(goal.old) = Len(goal.new)
    /\ goal.tree = Image(Tree, goal.old, goal.new)
    /\ goal.state = "done" => Below(Tree, goal.old) = {}
    /\ goal.state = "open" => \A w \in goal.by : op[w] = "rename"
    /\ \A w \in goal.by : Carries(w)

\* The inductive invariant.
GoalInv ==
    /\ GoalTyped
    /\ goal.state = "none" => goal.by = {}
    /\ goal.state # "none" => Followed

\* The rows of p in the tree t have become rows of q in u.
Updates(t, p, q, u) ==
    \A x : x \in u <=> \/ x \in t /\ x[1] # p
                       \/ \E f \in t : f[1] = p /\ x = <<q, f[2]>>

\* An UPDATE that takes a row to where it is to go leaves the image as it is.
LEMMA ImageUpdate ==
    ASSUME NEW t \in SUBSET Entries, NEW o \in Paths, NEW n \in Paths, o # n, Len(o) = Len(n),
           NEW p \in Paths, Within(p, o), NEW q, q = Moved(p, o, n),
           NEW u, Updates(t, p, q, u)
    PROVE  /\ Image(u, o, n) = Image(t, o, n)
           /\ \A x : x \in Below(u, o) <=> x \in Below(t, o) /\ x[1] # p
<1>0. /\ o \in Seq(Names) /\ n \in Seq(Names) /\ p \in Seq(Names)
      /\ \A e \in t : e[1] \in Seq(Names) /\ e = <<e[1], e[2]>>
  BY PathFacts, EntryIs
<1>1. q \in Seq(Names) /\ Within(q, n)
  BY <1>0, MovedWithin
<1>2. \A r \in Seq(Names) : ~ (Within(r, o) /\ Within(r, n))
  BY <1>0, WithinAll
<1>3. ~ Within(q, o) /\ ~ Within(p, n)
  BY <1>0, <1>1, <1>2
<1>4. \A f : <<q, f[2]>>[1] = q /\ <<q, f[2]>>[2] = f[2]
  OBVIOUS
<1>5. \A x : x \in Below(u, o) <=> x \in Below(t, o) /\ x[1] # p
  BY <1>3, <1>4 DEF Below, Updates
<1>6. ASSUME NEW x \in Image(u, o, n) PROVE x \in Image(t, o, n)
  <2>1. ASSUME NEW e \in Below(u, o), x = <<Moved(e[1], o, n), e[2]>> PROVE x \in Image(t, o, n)
    BY <1>5, <2>1 DEF Image
  <2>2. ASSUME x \in u, Within(x[1], n) PROVE x \in Image(t, o, n)
    <3>1. CASE x \in t
      BY <2>2, <3>1 DEF Image, Below
    <3>2. ASSUME NEW f \in t, f[1] = p, x = <<q, f[2]>> PROVE x \in Image(t, o, n)
      BY <3>2 DEF Image, Below
    <3> QED
      BY <2>2, <3>1, <3>2 DEF Updates
  <2> QED
    BY <2>1, <2>2 DEF Image, Below
<1>7. ASSUME NEW x \in Image(t, o, n) PROVE x \in Image(u, o, n)
  <2>1. ASSUME NEW e \in t, Within(e[1], o), x = <<Moved(e[1], o, n), e[2]>>
        PROVE  x \in Image(u, o, n)
    <3>1. CASE e[1] = p
      <4>1. x = <<q, e[2]>> /\ x \in u /\ x[1] = q
        BY <2>1, <3>1 DEF Updates
      <4> QED
        BY <1>1, <4>1 DEF Image, Below
    <3>2. CASE e[1] # p
      BY <2>1, <3>2 DEF Image, Below, Updates
    <3> QED
      BY <3>1, <3>2
  <2>2. ASSUME x \in t, Within(x[1], n) PROVE x \in Image(u, o, n)
    BY <1>3, <2>2 DEF Image, Below, Updates
  <2> QED
    BY <2>1, <2>2 DEF Image, Below
<1> QED
  BY <1>5, <1>6, <1>7

\* What the history remembers is typed.
LEMMA GoalIs ==
    ASSUME GoalTyped
    PROVE  /\ \A B \in SUBSET Sessions :
                /\ [goal EXCEPT !.by = B].by = B /\ [goal EXCEPT !.by = B].state = goal.state
                /\ [goal EXCEPT !.by = B].old = goal.old /\ [goal EXCEPT !.by = B].new = goal.new
                /\ [goal EXCEPT !.by = B].tree = goal.tree
           /\ [goal EXCEPT !.by = goal.by] = goal
           /\ [goal EXCEPT !.state = "done"].state = "done"
           /\ [goal EXCEPT !.state = "done"].by = goal.by
           /\ [goal EXCEPT !.state = "done"].old = goal.old
           /\ [goal EXCEPT !.state = "done"].new = goal.new
           /\ [goal EXCEPT !.state = "done"].tree = goal.tree
           /\ goal.by \in SUBSET Sessions /\ goal.state \in {"none", "open", "done"}
  BY DEF GoalTyped

\* A rename that is given up.
LEMMA GoalNone == ASSUME goal' = NoGoal PROVE GoalInv'
<1>1. goal' \in [state : {"none", "open", "done"}, old : Paths \cup {Root}, new : Paths \cup {Root},
                 tree : SUBSET Entries, by : SUBSET Sessions]
  BY DEF NoGoal
<1>2. goal'.state = "none" /\ goal'.by = {}
  BY DEF NoGoal
<1> QED
  BY <1>1, <1>2 DEF GoalInv, GoalTyped

\* A step that does not touch what is followed, while some sessions may give up.
LEMMA GoalKept ==
    ASSUME Typed, Typed', GoalInv, NEW B \in SUBSET goal.by, goal' = [goal EXCEPT !.by = B],
           \A p \in Touched : ~ InGoal(p),
           \A w \in B : \/ /\ op'[w] = op[w] /\ old'[w] = old[w] /\ new'[w] = new[w]
                           /\ sel'[w] = sel[w]
                        \/ op[w] # "rename" /\ op'[w] # "rename"
    PROVE  GoalInv'
<1>1. /\ B \in SUBSET Sessions /\ GoalTyped
      /\ goal'.by = B /\ goal'.state = goal.state /\ goal'.old = goal.old
      /\ goal'.new = goal.new /\ goal'.tree = goal.tree
  BY GoalIs DEF GoalInv
<1>2. GoalTyped'
  BY <1>1 DEF GoalTyped
<1>3. CASE goal.state = "none"
  BY <1>1, <1>2, <1>3 DEF GoalInv
<1>4. CASE goal.state # "none"
  <2>0. Followed
    BY <1>4 DEF GoalInv
  <2>1. \A e \in (Tree \ Tree') \cup (Tree' \ Tree) :
            ~ Within(e[1], goal.old) /\ ~ Within(e[1], goal.new)
    BY TouchedIs DEF Typed, InGoal
  <2>2. /\ Below(Tree', goal.old) = Below(Tree, goal.old)
        /\ Below(Tree', goal.new) = Below(Tree, goal.new)
    BY <2>1 DEF Below
  <2>3. Image(Tree', goal.old, goal.new) = Image(Tree, goal.old, goal.new)
    BY <2>2 DEF Image
  <2>4. \A w \in B : Carries(w)'
    BY <1>1, <2>0, <2>2 DEF Carries, Followed
  <2>5. goal.state = "open" => \A w \in B : op'[w] = "rename"
    BY <2>0 DEF Followed
  <2>6. Followed'
    BY <1>1, <2>0, <2>2, <2>3, <2>4, <2>5 DEF Followed
  <2> QED
    BY <1>1, <1>2, <1>4, <2>6 DEF GoalInv
<1> QED
  BY <1>3, <1>4

\* A step of a request that does not end the rename.
LEMMA GoalKeep ==
    ASSUME Typed, Typed', GoalInv, Keep \/ UNCHANGED <<rows, goal>>,
           \A w \in goal.by : \/ /\ op'[w] = op[w] /\ old'[w] = old[w] /\ new'[w] = new[w]
                                 /\ sel'[w] = sel[w]
                              \/ op[w] # "rename" /\ op'[w] # "rename"
    PROVE  GoalInv'
<1>0. GoalTyped
  BY DEF GoalInv
<1>1. CASE goal' = NoGoal
  BY <1>1, GoalNone
<1>2. ASSUME goal' = goal, \A p \in Touched : ~ InGoal(p) PROVE GoalInv'
  BY <1>0, <1>2, GoalIs, GoalKept
<1>3. CASE UNCHANGED <<rows, goal>>
  <2>1. Touched = {}
    BY <1>3 DEF Touched, Tree
  <2> QED
    BY <1>2, <1>3, <2>1
<1>4. ASSUME Keep, goal.state = "none" PROVE GoalInv'
  <2>1. goal' = goal /\ goal.by = {}
    BY <1>4 DEF Keep, GoalInv
  <2> QED
    BY <1>0, <1>4, <2>1 DEF GoalInv, GoalTyped
<1>5. ASSUME Keep, goal.state # "none" PROVE GoalInv'
  BY <1>1, <1>2, <1>5 DEF Keep
<1> QED
  BY <1>3, <1>4, <1>5

\* The SELECT of a rename.
LEMMA GoalRenameSelect ==
    ASSUME Typed, Typed', GoalInv, NEW w \in Sessions, op[w] = "none",
           NEW o \in Paths, NEW n \in Paths, RenameSelect(w, o, n)
    PROVE  GoalInv'
<1>0. /\ GoalTyped /\ RequestsTyped /\ rows \in RowBags /\ rows' = rows /\ Tree' = Tree
      /\ o # n /\ Len(o) = Len(n) /\ o \in Seq(Names) /\ n \in Seq(Names)
  BY PathFacts DEF GoalInv, Typed, RenameSelect, Target, Tree
<1>1. /\ op'[w] = "rename" /\ old'[w] = o /\ new'[w] = n
      /\ sel'[w] = Restrict(rows, Selected(o)) /\ DOMAIN sel'[w] = Selected(o)
      /\ \A v \in Sessions \ {w} :
            op'[v] = op[v] /\ old'[v] = old[v] /\ new'[v] = new[v] /\ sel'[v] = sel[v]
  BY <1>0, SelectedIs DEF RenameSelect, Begin, RequestsTyped
<1>2. ASSUME "stray" \notin Odd(o, n, Selected(o))
      PROVE  \A e \in DOMAIN sel'[w] : Within(e[1], o)
  BY <1>1, <1>2 DEF Odd
<1>3. Below(Tree, o) \subseteq DOMAIN sel'[w]
  BY <1>0, <1>1, SelectedIs DEF Below
<1>4. CASE /\ Again(o, n) /\ goal' = [goal EXCEPT !.by = @ \cup {w}]
           /\ "stray" \notin Odd(o, n, Selected(o))
  <2>0. Followed /\ goal.old = o /\ goal.new = n /\ goal.state = "open"
    BY <1>4 DEF Again, GoalInv
  <2>1. PICK B \in SUBSET Sessions : B = goal.by \cup {w}
    BY <1>0, GoalIs
  <2>2. /\ goal'.by = B /\ goal'.state = "open" /\ goal'.old = o /\ goal'.new = n
        /\ goal'.tree = goal.tree
    BY <1>0, <1>4, <2>0, <2>1, GoalIs
  <2>3. GoalTyped'
    BY <1>0, <1>4, <2>1 DEF GoalTyped
  <2>4. Carries(w)'
    BY <1>0, <1>1, <1>2, <1>3, <1>4, <2>2 DEF Carries
  <2>5. \A v \in B : Carries(v)' /\ op'[v] = "rename"
    BY <1>0, <1>1, <2>0, <2>1, <2>2, <2>4 DEF Carries, Followed
  <2>6. Followed'
    BY <1>0, <2>0, <2>2, <2>5 DEF Followed
  <2> QED
    BY <2>2, <2>3, <2>6 DEF GoalInv
<1>5. CASE goal.state = "open" /\ goal' = goal
  <2>1. w \notin goal.by
    BY <1>0, <1>5 DEF GoalInv, Followed
  <2>2. \A v \in goal.by : /\ op'[v] = op[v] /\ old'[v] = old[v] /\ new'[v] = new[v]
                           /\ sel'[v] = sel[v]
    BY <1>0, <1>1, <2>1, GoalIs
  <2> QED
    BY <1>0, <1>5, <2>2, GoalKeep
<1>6. CASE Clear(o, n) /\ goal' = Goal(w, o, n)
  <2>0. "stray" \notin Odd(o, n, Selected(o)) /\ Below(Tree, n) = {}
    BY <1>6 DEF Clear, Below
  <2>1. /\ goal'.by = {w} /\ goal'.state = "open" /\ goal'.old = o /\ goal'.new = n
        /\ goal'.tree = Image(Tree, o, n)
    BY <1>6, <2>0 DEF Goal, Image, Below
  <2>2. Image(Tree, o, n) \in SUBSET Entries
    <3>1. ASSUME NEW e \in Tree, Within(e[1], o) PROVE <<Moved(e[1], o, n), e[2]>> \in Entries
      <4>1. e[1] \in Paths /\ e[1] \in Seq(Names) /\ e[2] \in BOOLEAN
        BY <1>0, TreeIs
      <4>2. Len(o) <= Len(e[1])
        BY <1>0, <3>1, <4>1, WithinIs
      <4> QED
        BY <1>0, <4>1, <4>2, MovedPath DEF Entries
    <3> QED
      BY <2>0, <3>1 DEF Image, Below
  <2>3. goal' = [state |-> "open", old |-> o, new |-> n, by |-> {w}, tree |-> Image(Tree, o, n)]
    BY <1>6, <2>0 DEF Goal, Image, Below
  <2>4. GoalTyped'
    BY <2>2, <2>3 DEF GoalTyped
  <2>5. Carries(w)'
    BY <1>0, <1>1, <1>2, <1>3, <2>0, <2>1 DEF Carries
  <2>6. Followed'
    BY <1>0, <1>1, <2>1, <2>5 DEF Followed
  <2> QED
    BY <2>1, <2>4, <2>6 DEF GoalInv
<1>7. \/ goal' = NoGoal
      \/ goal.state = "open" /\ goal' = goal
      \/ Clear(o, n) /\ goal' = Goal(w, o, n)
      \/ /\ Again(o, n) /\ goal' = [goal EXCEPT !.by = @ \cup {w}]
         /\ "stray" \notin Odd(o, n, Selected(o))
  <2>1. goal' = CASE Again(o, n) /\ "stray" \notin Odd(o, n, Selected(o)) ->
                          [goal EXCEPT !.by = @ \cup {w}]
                  [] ~ Again(o, n) /\ goal.state = "open" -> goal
                  [] goal.state # "open" /\ Clear(o, n) -> Goal(w, o, n)
                  [] OTHER -> NoGoal
    BY DEF RenameSelect
  <2>2. CASE Again(o, n) /\ "stray" \notin Odd(o, n, Selected(o))
    <3>1. goal.state = "open"
      BY <2>2 DEF Again
    <3> QED
      BY <2>1, <2>2, <3>1
  <2>3. CASE ~ Again(o, n) /\ goal.state = "open"
    BY <2>1, <2>3
  <2>4. CASE goal.state # "open" /\ Clear(o, n)
    <3>1. ~ Again(o, n)
      BY <2>4 DEF Again
    <3> QED
      BY <2>1, <2>4, <3>1
  <2>5. CASE /\ ~ (Again(o, n) /\ "stray" \notin Odd(o, n, Selected(o)))
             /\ ~ (~ Again(o, n) /\ goal.state = "open") /\ ~ (goal.state # "open" /\ Clear(o, n))
    BY <2>1, <2>5
  <2> QED
    BY <2>2, <2>3, <2>4, <2>5
<1> QED
  BY <1>4, <1>5, <1>6, <1>7, GoalNone

\* The other requests' first steps,
LEMMA GoalRequest ==
    ASSUME Typed, Typed', GoalInv, NEW w \in Sessions, Request(w)
    PROVE  GoalInv'
<1>0. op[w] = "none" /\ RequestsTyped /\ GoalTyped
  BY DEF Request, MaySend, Typed, GoalInv
<1>1. ASSUME NEW request \in {"mkdir", "put", "copy"}, NEW o, NEW n, NEW s,
             Begin(w, request, o, n, s), UNCHANGED <<rows, goal>>
      PROVE  GoalInv'
  <2>1. op'[w] # "rename" /\ \A v \in Sessions \ {w} :
            op'[v] = op[v] /\ old'[v] = old[v] /\ new'[v] = new[v] /\ sel'[v] = sel[v]
    BY <1>0, <1>1 DEF Begin, RequestsTyped
  <2>2. \A v \in goal.by : \/ /\ op'[v] = op[v] /\ old'[v] = old[v] /\ new'[v] = new[v]
                              /\ sel'[v] = sel[v]
                           \/ op[v] # "rename" /\ op'[v] # "rename"
    BY <1>0, <2>1, GoalIs
  <2> QED
    BY <1>1, <2>2, GoalKeep
<1>2. ASSUME Single, Keep \/ UNCHANGED <<rows, goal>> PROVE GoalInv'
  BY <1>2, GoalKeep DEF Single, requestVars
<1>3. ASSUME NEW p \in Paths, Mkdir(w, p) \/ Put(w, p) PROVE GoalInv'
  <2>1. PICK request \in {"mkdir", "put"} : Begin(w, request, Root, p, Once({}))
    BY <1>3 DEF Mkdir, Put
  <2> QED
    BY <1>1, <1>3, <2>1 DEF Mkdir, Put
<1>4. ASSUME NEW p \in Paths, Delete(w, p) PROVE GoalInv'
  BY <1>2, <1>4 DEF Delete
<1>5. ASSUME NEW o \in Paths, NEW n \in Paths, MoveFile(w, o, n) PROVE GoalInv'
  BY <1>2, <1>5 DEF MoveFile
<1>6. ASSUME NEW o \in Paths, NEW n \in Paths, CopySelect(w, o, n) PROVE GoalInv'
  BY <1>1, <1>6 DEF CopySelect
<1> QED
  BY <1>0, <1>3, <1>4, <1>5, <1>6, GoalRenameSelect DEF Request

\* their INSERTs,
LEMMA GoalInsert ==
    ASSUME Typed, Typed', GoalInv, NEW w \in Sessions, Insert(w) \/ CopyInsert(w)
    PROVE  GoalInv'
<1>0. RequestsTyped /\ GoalTyped
  BY DEF Typed, GoalInv
<1>1. op[w] # "rename" /\ op'[w] # "rename" /\ (Keep \/ UNCHANGED <<rows, goal>>)
  <2>1. CASE Insert(w)
    BY <1>0, <2>1, EndTyped DEF Insert
  <2>2. CASE CopyInsert(w)
    BY <1>0, <2>2, EndTyped DEF CopyInsert
  <2> QED
    BY <2>1, <2>2
<1>2. \A v \in Sessions \ {w} :
         op'[v] = op[v] /\ old'[v] = old[v] /\ new'[v] = new[v] /\ sel'[v] = sel[v]
  BY <1>0 DEF Insert, CopyInsert, End, RequestsTyped
<1>3. \A v \in goal.by : \/ /\ op'[v] = op[v] /\ old'[v] = old[v] /\ new'[v] = new[v]
                            /\ sel'[v] = sel[v]
                         \/ op[v] # "rename" /\ op'[v] # "rename"
  BY <1>0, <1>1, <1>2, GoalIs
<1> QED
  BY <1>1, <1>3, GoalKeep

\* and the UPDATEs of a rename, whether it is followed or not.
LEMMA GoalRenameUpdate ==
    ASSUME Typed, Typed', GoalInv, NEW w \in Sessions, RenameUpdate(w)
    PROVE  GoalInv'
<1>0. RequestsTyped /\ GoalTyped /\ rows \in RowBags
  BY DEF Typed, GoalInv
<1>1. PICK e \in DOMAIN sel[w] :
        /\ op[w] = "rename"
        /\ \/ /\ Update(e[1], Moved(e[1], old[w], new[w]))
              /\ IF sel[w] = Once({e}) THEN End(w)
                 ELSE sel' = [sel EXCEPT ![w] = Without(@, e)] /\ UNCHANGED <<op, old, new>>
              /\ IF w \in goal.by
                 THEN goal' = IF sel[w] = Once({e}) THEN [goal EXCEPT !.state = "done"] ELSE goal
                 ELSE Keep
           \/ End(w) /\ Stopped(w)
  BY DEF RenameUpdate
<1>2. \A v \in Sessions \ {w} :
         op'[v] = op[v] /\ old'[v] = old[v] /\ new'[v] = new[v] /\ sel'[v] = sel[v]
  BY <1>0, <1>1 DEF End, RequestsTyped
<1>3. CASE Stopped(w)
  <2>1. PICK B \in SUBSET goal.by : B = goal.by \ {w}
    OBVIOUS
  <2>2. goal' = [goal EXCEPT !.by = B] /\ Touched = {}
    BY <1>3, <2>1 DEF Stopped, Touched, Tree
  <2>3. \A v \in B : op'[v] = op[v] /\ old'[v] = old[v] /\ new'[v] = new[v] /\ sel'[v] = sel[v]
    BY <1>0, <1>2, <2>1, GoalIs
  <2> QED
    BY <2>2, <2>3, GoalKept
<1>4. CASE w \notin goal.by /\ Keep
  <2>1. \A v \in goal.by : /\ op'[v] = op[v] /\ old'[v] = old[v]
                           /\ new'[v] = new[v] /\ sel'[v] = sel[v]
    BY <1>0, <1>2, <1>4, GoalIs
  <2> QED
    BY <1>4, <2>1, GoalKeep
<1>5. ASSUME w \in goal.by, Update(e[1], Moved(e[1], old[w], new[w])),
             IF sel[w] = Once({e}) THEN End(w)
             ELSE sel' = [sel EXCEPT ![w] = Without(@, e)] /\ UNCHANGED <<op, old, new>>,
             goal' = IF sel[w] = Once({e}) THEN [goal EXCEPT !.state = "done"] ELSE goal
      PROVE  GoalInv'
  <2>1. Followed /\ Carries(w)
    BY <1>5 DEF GoalInv, Followed
  <2>2. PICK o \in Paths, n \in Paths : o = goal.old /\ n = goal.new
    BY <2>1 DEF Followed
  <2>3. /\ old[w] = o /\ new[w] = n /\ o # n /\ Len(o) = Len(n) /\ Within(e[1], o)
        /\ Below(Tree, o) \subseteq DOMAIN sel[w]
    BY <1>1, <2>1, <2>2 DEF Followed, Carries
  <2>4. e[1] \in Paths /\ Tree \in SUBSET Entries
    <3>1. sel[w] \in RowBags
      BY <1>0 DEF RequestsTyped
    <3>2. e \in Entries
      BY <3>1, BagIs
    <3> QED
      BY <1>0, <3>2, EntryIs, TreeIs
  <2>5. PICK q : q = Moved(e[1], o, n)
    OBVIOUS
  <2>6. q \in Paths
    <3>1. Len(o) <= Len(e[1])
      BY <2>3, <2>4, PathFacts, WithinIs
    <3> QED
      BY <2>3, <2>4, <2>5, <3>1, MovedPath
  <2>7. Tree' = {f \in Tree : f[1] # e[1]} \cup {<<q, f[2]>> : f \in {f \in Tree : f[1] = e[1]}}
    <3>1. Tree' = (Tree \ At(e[1])) \cup {<<q, f[2]>> : f \in At(e[1])}
      BY <1>0, <1>5, <2>3, <2>5, <2>6, UpdateBag
    <3> QED
      BY <3>1 DEF At
  <2>8. /\ Image(Tree', o, n) = Image(Tree, o, n)
        /\ \A x : x \in Below(Tree', o) <=> x \in Below(Tree, o) /\ x[1] # e[1]
    <3>1. PICK t \in SUBSET Entries : t = Tree
      BY <2>4
    <3>2. PICK u : u = Tree'
      OBVIOUS
    <3>3. PICK p \in Paths : p = e[1]
      BY <2>4
    <3>4. Updates(t, p, q, u)
      BY <2>7, <3>1, <3>2, <3>3 DEF Updates
    <3>5. /\ Image(u, o, n) = Image(t, o, n)
          /\ \A x : x \in Below(u, o) <=> x \in Below(t, o) /\ x[1] # p
      <4>1. o # n /\ Len(o) = Len(n) /\ Within(p, o) /\ q = Moved(p, o, n)
        BY <2>3, <2>5, <3>3
      <4> QED
        BY <3>4, <4>1, ImageUpdate
    <3> QED
      BY <3>1, <3>2, <3>3, <3>5
  <2>9. /\ goal'.by = goal.by /\ goal'.old = o /\ goal'.new = n /\ goal'.tree = goal.tree
        /\ goal'.state # "none" /\ goal.state # "none"
    BY <1>0, <1>5, <2>2, GoalIs DEF GoalInv
  <2>10. GoalTyped'
    BY <1>0, <1>5 DEF GoalTyped
  <2>11. ASSUME NEW v \in goal.by, v # w PROVE Carries(v)'
    BY <1>0, <1>2, <2>1, <2>2, <2>8, <2>9, <2>11, GoalIs DEF Carries, Followed
  <2>12. CASE sel[w] = Once({e})
    <3>1. op'[w] = "none"
      BY <1>0, <1>5, <2>12, EndTyped
    <3>2. Below(Tree', o) = {}
      BY <2>3, <2>8, <2>12 DEF Once
    <3>3. \A v \in goal.by : Carries(v)'
      BY <2>11, <3>1 DEF Carries
    <3>4. goal'.state = "done"
      BY <1>0, <1>5, <2>12, GoalIs
    <3>5. Followed'
      BY <2>1, <2>2, <2>3, <2>8, <2>9, <3>2, <3>3, <3>4 DEF Followed
    <3> QED
      BY <2>9, <2>10, <3>5 DEF GoalInv
  <2>13. CASE sel[w] # Once({e})
    <3>1. sel' = [sel EXCEPT ![w] = Without(@, e)] /\ UNCHANGED <<op, old, new, goal>>
      BY <1>5, <2>13
    <3>2. /\ DOMAIN sel[w] \ {e} \subseteq DOMAIN sel'[w]
          /\ DOMAIN sel'[w] \subseteq DOMAIN sel[w]
      BY <1>0, <3>1, WithoutBag DEF RequestsTyped
    <3>3. Below(Tree', o) \subseteq DOMAIN sel'[w]
      BY <2>3, <2>8, <3>2
    <3>4. Carries(w)'
      BY <1>1, <2>1, <2>2, <2>9, <3>1, <3>2, <3>3 DEF Carries
    <3>5. \A v \in goal.by : Carries(v)'
      BY <2>11, <3>4
    <3>6. goal.state = "done" => Below(Tree', o) = {}
      BY <2>1, <2>2, <2>8 DEF Followed
    <3>7. Followed'
      BY <2>1, <2>2, <2>3, <2>8, <2>9, <3>1, <3>5, <3>6 DEF Followed
    <3> QED
      BY <2>9, <2>10, <3>7 DEF GoalInv
  <2> QED
    BY <2>12, <2>13
<1> QED
  BY <1>1, <1>3, <1>4, <1>5

\* Types and the history, always.
LEMMA GoalInvariant == TreeSpec => [](Typed /\ GoalInv)
<1>1. TreeInit => Typed /\ GoalInv
  <2> SUFFICES ASSUME TreeInit PROVE Typed /\ GoalInv
    OBVIOUS
  <2>1. goal = NoGoal
    BY DEF TreeInit
  <2>2. GoalTyped /\ goal.state = "none" /\ goal.by = {}
    BY <2>1 DEF NoGoal, GoalTyped
  <2> QED
    BY <2>2, TypedInit DEF GoalInv
<1>2. Typed /\ GoalInv /\ [TreeNext]_vars => (Typed /\ GoalInv)'
  <2> SUFFICES ASSUME Typed, GoalInv, [TreeNext]_vars PROVE Typed' /\ GoalInv'
    OBVIOUS
  <2>0. Typed' /\ GoalTyped
    BY TypedStep DEF GoalInv
  <2>1. CASE UNCHANGED <<requestVars, rows, goal>>
    BY <2>0, <2>1, GoalKeep DEF requestVars
  <2>2. CASE TreeRestart
    <3>1. PICK B \in SUBSET goal.by : B = {}
      OBVIOUS
    <3>2. goal' = [goal EXCEPT !.by = B] /\ Touched = {}
      BY <2>2, <3>1 DEF TreeRestart, Touched, Tree
    <3> QED
      BY <2>0, <3>1, <3>2, GoalKept
  <2> QED
    BY <2>0, <2>1, <2>2, GoalRequest, GoalInsert, GoalRenameUpdate DEF TreeNext, vars
<1> QED
  BY <1>1, <1>2, PTL DEF TreeSpec

\* A rename that nobody disturbs moves the whole directory, repeated or not (RenameWhole).
THEOREM RenamesAlwaysWhole == TreeSpec => []RenameWhole
<1>1. GoalInv => RenameWhole
  <2> SUFFICES ASSUME GoalInv, goal.state = "done" PROVE GoalTree = goal.tree
    BY DEF RenameWhole
  <2>1. Followed /\ Below(Tree, goal.old) = {}
    BY DEF GoalInv, Followed
  <2>2. GoalTree = Below(Tree, goal.new)
    BY <2>1 DEF GoalTree, InGoal, Below
  <2>3. Image(Tree, goal.old, goal.new) = Below(Tree, goal.new)
    BY <2>1 DEF Image
  <2> QED
    BY <2>1, <2>2, <2>3 DEF Followed
<1> QED
  BY <1>1, GoalInvariant, PTL

-----------------------------------------------------------------------------
(* Accounts *)

\* Rows of the table users and the map agree while there is at most one; who is about to
\* make the root directory is the only one, and the row is his.
AccountInv ==
    /\ AccountTypeOK
    /\ table = <<>> => /\ users = None /\ roots = 0 /\ answered = {}
                       /\ \A w \in Sessions : session[w] # "root"
    /\ Len(table) = 1 => /\ users = table[1] /\ answered \subseteq {table[1]}
                         /\ answered # {} => roots = 1
                         /\ \A w \in Sessions : session[w] = "root" =>
                              /\ password[w] = table[1] /\ roots = 0 /\ answered = {}
                              /\ \A v \in Sessions : session[v] = "root" => v = w

\* What Append does to the table's rows.
LEMMA Rows ==
    ASSUME NEW S, NEW s \in Seq(S), NEW x \in S
    PROVE  /\ s = <<>> <=> Len(s) = 0
           /\ Append(s, x) \in Seq(S) /\ Len(Append(s, x)) = Len(s) + 1 /\ Append(s, x) # <<>>
           /\ s = <<>> => Append(s, x)[1] = x
           /\ Len(s) \in Nat
<1>1. Len(s) \in Nat /\ (s = <<>> <=> Len(s) = 0)
  BY EmptySeq
<1>2. /\ Append(s, x) \in Seq(S) /\ Len(Append(s, x)) = Len(s) + 1
      /\ Append(s, x)[Len(s) + 1] = x
  BY AppendProperties
<1>3. Append(s, x) # <<>>
  BY <1>1, <1>2, EmptySeq
<1>4. s = <<>> => Append(s, x)[1] = x
  BY <1>1, <1>2
<1> QED
  BY <1>1, <1>2, <1>3, <1>4

\* Every step of a session keeps it,
LEMMA AccountStepKeeps ==
    ASSUME AccountInv, NEW w \in Sessions, AccountStep(w)
    PROVE  AccountInv'
<1>0. /\ password[w] \in Passwords /\ table \in Seq(Passwords) /\ Len(table) \in Nat
      /\ session \in [Sessions -> {"out", "insert", "root", "in"}]
      /\ password \in [Sessions -> Passwords] /\ None \notin Passwords
  BY AccountAssumption DEF AccountInv, AccountTypeOK
<1>1. CASE Register(w)
  BY <1>0, <1>1 DEF Register, Goto, AccountInv, AccountTypeOK
<1>2. CASE Login(w)
  BY <1>0, <1>2 DEF Login, Goto, AccountInv, AccountTypeOK
<1>3. CASE InsertUser(w)
  <2>0. /\ keyed \in BOOLEAN /\ users \in Passwords \cup {None} /\ answered \subseteq Passwords
        /\ roots \in Nat /\ troubles \in 0 .. MaxTroubles /\ MaxTroubles \in Nat
    BY AccountAssumption DEF AccountInv, AccountTypeOK
  <2>1. ASSUME Works, table' = Append(table, password[w]),
               users' = IF users = None THEN password[w] ELSE users, Goto(w, "root")
        PROVE  AccountInv'
    <3>1. /\ table = <<>> <=> Len(table) = 0
          /\ table' \in Seq(Passwords) /\ Len(table') = Len(table) + 1 /\ table' # <<>>
          /\ table = <<>> => table'[1] = password[w]
      BY <1>0, <2>1, Rows
    <3>2. AccountTypeOK'
      BY <1>0, <1>3, <2>0, <2>1, <3>1 DEF InsertUser, AccountTypeOK, Goto, Works
    <3>3. UNCHANGED <<roots, answered, password>>
      BY <1>3 DEF InsertUser
    <3>4. ASSUME Len(table') = 1
          PROVE  /\ users' = table'[1] /\ answered' = {} /\ roots' = 0
                 /\ \A v \in Sessions : session'[v] = "root" => v = w
                 /\ password'[w] = table'[1]
      <4>1. table = <<>>
        BY <1>0, <3>1, <3>4
      <4> QED
        BY <1>0, <2>1, <3>1, <3>3, <4>1 DEF AccountInv, Goto
    <3> QED
      BY <3>1, <3>2, <3>4 DEF AccountInv
  <2>2. ASSUME UNCHANGED <<users, table>>, Works \/ Fails, Goto(w, "out")
        PROVE  AccountInv'
    <3>1. troubles' \in 0 .. MaxTroubles
      BY <2>0, <2>2 DEF Works, Fails
    <3> QED
      BY <1>0, <1>3, <2>2, <3>1 DEF InsertUser, AccountInv, AccountTypeOK, Goto
  <2> QED
    BY <1>3, <2>1, <2>2 DEF InsertUser
<1>4. CASE InsertRoot(w)
  <2>0. /\ keyed \in BOOLEAN /\ users \in Passwords \cup {None} /\ answered \subseteq Passwords
        /\ roots \in Nat /\ troubles \in 0 .. MaxTroubles /\ MaxTroubles \in Nat
    BY AccountAssumption DEF AccountInv, AccountTypeOK
  <2>1. troubles' \in 0 .. MaxTroubles
    BY <1>4, <2>0 DEF InsertRoot, Works, Fails
  <2>2. AccountTypeOK'
    BY <1>0, <1>4, <2>0, <2>1 DEF InsertRoot, AccountTypeOK, Goto
  <2>3. table # <<>>
    BY <1>4 DEF InsertRoot, AccountInv
  <2>4. /\ UNCHANGED <<keyed, password, users, table>>
        /\ \A v \in Sessions : session'[v] = "root" => v # w /\ session[v] = "root"
    BY <1>0, <1>4 DEF InsertRoot, Goto
  <2>5. ASSUME Len(table) = 1
        PROVE  /\ users = table[1] /\ password[w] = table[1] /\ roots = 0 /\ answered = {}
               /\ \A v \in Sessions : session[v] = "root" => v = w
    BY <1>4, <2>5 DEF InsertRoot, AccountInv
  <2>6. ASSUME Len(table) = 1
        PROVE  answered' \subseteq {table[1]} /\ (answered' # {} => roots' = 1)
    BY <1>4, <2>5, <2>6 DEF InsertRoot
  <2> QED
    BY <2>2, <2>3, <2>4, <2>5, <2>6 DEF AccountInv
<1> QED
  BY <1>1, <1>2, <1>3, <1>4 DEF AccountStep

\* a restart does,
LEMMA AccountRestartKeeps ==
    ASSUME AccountInv, Restart
    PROVE  AccountInv'
<1>0. /\ table \in Seq(Passwords) /\ Len(table) \in Nat /\ MaxTroubles \in Nat
      /\ table = <<>> => Len(table) = 0
  BY AccountAssumption, EmptySeq DEF AccountInv, AccountTypeOK
<1>1. \A i \in DOMAIN table : i \in 1 .. Len(table) /\ table[i] \in Passwords
  BY <1>0
<1>2. users' \in Passwords \cup {None}
  BY <1>1 DEF Restart
<1>3. AccountTypeOK'
  BY <1>0, <1>2 DEF Restart, Fails, AccountInv, AccountTypeOK
<1>4. table = <<>> => users' = None
  BY <1>0, <1>1 DEF Restart
<1>5. Len(table) = 1 => users' = table[1]
  BY <1>0, <1>1 DEF Restart
<1> QED
  BY <1>3, <1>4, <1>5 DEF Restart, AccountInv

\* and so it always holds.
LEMMA AccountInvariant == TreeSpec => []AccountInv
<1>1. TreeInit => AccountInv
  <2> SUFFICES ASSUME TreeInit PROVE AccountInv
    OBVIOUS
  <2>0. /\ keyed \in BOOLEAN /\ password \in [Sessions -> Passwords] /\ troubles = 0
        /\ MaxTroubles \in Nat
    BY AccountAssumption DEF TreeInit, AccountInit
  <2>1. CASE NoAccount
    <3>1. table \in Seq(Passwords) /\ Len(table) = 0
      BY <2>1 DEF NoAccount
    <3> QED
      BY <2>0, <2>1, <3>1 DEF NoAccount, AccountInv, AccountTypeOK
  <2>2. ASSUME NEW p \in Passwords, Existing(p) PROVE AccountInv
    <3>1. table \in Seq(Passwords) /\ Len(table) = 1 /\ table # <<>> /\ table[1] = p
      BY <2>2 DEF Existing
    <3> QED
      BY <2>0, <2>2, <3>1 DEF Existing, AccountInv, AccountTypeOK
  <2> QED
    BY <2>1, <2>2 DEF TreeInit
<1>2. AccountInv /\ [TreeNext]_vars => AccountInv'
  <2> SUFFICES ASSUME AccountInv, [TreeNext]_vars PROVE AccountInv'
    OBVIOUS
  <2>1. ASSUME UNCHANGED accountVars, Works \/ Fails PROVE AccountInv'
    <3>1. troubles' \in 0 .. MaxTroubles
      BY <2>1, AccountAssumption DEF AccountInv, AccountTypeOK, Works, Fails
    <3> QED
      BY <2>1, <3>1 DEF AccountInv, AccountTypeOK, accountVars
  <2>2. CASE UNCHANGED vars
    BY <2>1, <2>2 DEF vars, Works
  <2>3. CASE TreeRestart
    BY <2>3, AccountRestartKeeps DEF TreeRestart
  <2>4. ASSUME NEW w \in Sessions, AccountStep(w) PROVE AccountInv'
    BY <2>4, AccountStepKeeps
  <2>5. ASSUME NEW w \in Sessions, Request(w) \/ Insert(w) \/ RenameUpdate(w) \/ CopyInsert(w)
        PROVE  UNCHANGED accountVars /\ (Works \/ Fails)
    <3>1. CASE Request(w)
      BY <3>1 DEF Request, Mkdir, Put, Delete, RenameSelect, MoveFile, CopySelect, Works
    <3>2. CASE Insert(w)
      BY <3>2 DEF Insert
    <3>3. CASE RenameUpdate(w)
      BY <3>3 DEF RenameUpdate
    <3>4. CASE CopyInsert(w)
      BY <3>4 DEF CopyInsert
    <3> QED
      BY <2>5, <3>1, <3>2, <3>3, <3>4
  <2> QED
    BY <2>1, <2>2, <2>3, <2>4, <2>5 DEF TreeNext
<1> QED
  BY <1>1, <1>2, PTL DEF TreeSpec

\* Whoever was told that the name is his keeps it (AccountKept).
THEOREM AccountsAlwaysKept == TreeSpec => []AccountKept
<1>1. AccountInv => AccountKept
  <2> SUFFICES ASSUME AccountInv, Len(table) <= 1 PROVE AccountKept
    BY DEF AccountKept
  <2>1. table \in Seq(Passwords) /\ (table = <<>> <=> Len(table) = 0) /\ Len(table) \in Nat
    BY EmptySeq DEF AccountInv, AccountTypeOK
  <2>2. CASE table = <<>>
    BY <2>2 DEF AccountInv, AccountKept
  <2>3. CASE Len(table) = 1
    BY <2>3 DEF AccountInv, AccountKept
  <2>4. Len(table) = 0 \/ Len(table) = 1
    <3>1. PICK k \in Nat : k = Len(table)
      BY <2>1
    <3>2. k <= 1
      BY <3>1
    <3> QED
      BY <3>1, <3>2
  <2> QED
    BY <2>1, <2>2, <2>3, <2>4
<1> QED
  BY <1>1, AccountInvariant, PTL
=============================================================================
