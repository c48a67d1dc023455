----------------------------- MODULE IntakeProofs -----------------------------
(***************************************************************************)
(* Uploads and text extraction, for files, pages and names of any size:    *)
(* what is in memory is bounded, a stored name is safe to show, the worker *)
(* parses nothing that its own rules refuse, and every page is read whole  *)
(* and in a reader's order.                                                *)
(***************************************************************************)
EXTENDS Intake, TLAPS, FiniteSetTheorems, WellFoundedInduction

-----------------------------------------------------------------------------
(* Lists.                                                                  *)

\* A set of natural numbers that is not empty has a least element.
LEMMA LeastNat == ASSUME NEW T, T \subseteq Nat, T # {} PROVE \E x \in T : \A y \in T : x <= y
<1>1. PICK x \in T : \A y \in T : ~(<<y, x>> \in OpToRel(<, Nat))
  BY NatLessThanWellFounded, WFMin
<1>2. \A y \in T : ~(y < x)
  BY <1>1 DEF OpToRel
<1>. QED
  BY <1>2

\* R orders S strictly, and any two of its elements.
Orders(R, S) ==
    /\ \A x \in S : <<x, x>> \notin R
    /\ \A x, y \in S : x # y => <<x, y>> \in R \/ <<y, x>> \in R
    /\ \A x, y, z \in S : <<x, y>> \in R /\ <<y, z>> \in R => <<x, z>> \in R

\* q lists S, by R.
Lists(q, R, S) ==
    /\ q \in [1..Cardinality(S) -> S]
    /\ \A i, j \in 1..Cardinality(S) : i < j => <<q[i], q[j]>> \in R

\* A list of a finite set, by a strict order, has each element once.
LEMMA ListsAll ==
    ASSUME NEW S, IsFiniteSet(S), NEW R, Orders(R, S), NEW q, Lists(q, R, S)
    PROVE  /\ Cardinality(S) \in Nat
           /\ \A i, j \in 1..Cardinality(S) : q[i] = q[j] => i = j
           /\ \A x \in S : \E i \in 1..Cardinality(S) : q[i] = x
<1> DEFINE n == Cardinality(S)
<1>1. n \in Nat
  BY FS_CardinalityType
<1>2. IsFiniteSet(1..n) /\ Cardinality(1..n) = n
  BY <1>1, FS_Interval
<1>3. \A i, j \in 1..n : q[i] = q[j] => i = j
  <2> SUFFICES ASSUME NEW i \in 1..n, NEW j \in 1..n, q[i] = q[j], i # j PROVE FALSE
    OBVIOUS
  <2>1. q[i] \in S /\ q[j] \in S
    BY DEF Lists
  <2>2. i < j \/ j < i
    BY <1>1
  <2>. QED
    BY <2>1, <2>2 DEF Lists, Orders
<1>4. q \in Injection(1..n, S)
  BY <1>3 DEF Lists, Injection, IsInjective
<1>5. q \in Surjection(1..n, S)
  BY <1>2, <1>4, FS_Injection
<1>. QED
  BY <1>1, <1>3, <1>5 DEF Surjection

\* A finite set that R orders can be listed.
LEMMA ListExists ==
    ASSUME NEW S, IsFiniteSet(S), NEW R, Orders(R, S)
    PROVE  \E q : Lists(q, R, S)
<1> DEFINE Bad == {n \in Nat : \E T \in SUBSET S : Cardinality(T) = n /\ ~\E q : Lists(q, R, T)}
<1>1. \A T \in SUBSET S : IsFiniteSet(T) /\ Cardinality(T) \in Nat /\ Orders(R, T)
  BY FS_Subset, FS_CardinalityType DEF Orders
<1>2. SUFFICES ASSUME Bad # {} PROVE FALSE
  BY <1>1
<1>3. PICK n \in Bad : \A m \in Bad : n <= m
  <2>1. Bad \subseteq Nat
    OBVIOUS
  <2> HIDE DEF Bad
  <2>. QED
    BY <1>2, <2>1, LeastNat
<1>4. PICK T \in SUBSET S : Cardinality(T) = n /\ ~\E q : Lists(q, R, T)
  BY <1>3
<1>5. n \in Nat /\ IsFiniteSet(T) /\ Orders(R, T)
  BY <1>1, <1>3
<1>6. ASSUME NEW x \in T PROVE Cardinality(T \ {x}) = n - 1 /\ \E q : Lists(q, R, T \ {x})
  <2>1. Cardinality(T \ {x}) = n - 1
    BY <1>4, <1>5, FS_RemoveElement
  <2>2. T \ {x} \in SUBSET S /\ n - 1 \in Nat
    BY <1>1, <2>1
  <2>3. n - 1 \notin Bad
    BY <1>3, <1>5, <2>2
  <2>. QED
    BY <2>1, <2>2, <2>3
<1>7. T # {}
  <2> SUFFICES ASSUME T = {} PROVE FALSE
    OBVIOUS
  <2>1. n = 0
    BY <1>4, FS_EmptySet
  <2>2. Lists([i \in 1..0 |-> 0], R, T)
    BY <1>4, <2>1 DEF Lists
  <2>. QED
    BY <1>4, <2>2
<1>8. PICK m \in T : \A y \in T \ {m} : <<y, m>> \in R
  <2>1. PICK x \in T : TRUE
    BY <1>7
  <2>2. PICK q : Lists(q, R, T \ {x})
    BY <1>6
  <2>3. Cardinality(T \ {x}) = n - 1 /\ IsFiniteSet(T \ {x}) /\ Orders(R, T \ {x}) /\ n - 1 \in Nat
    BY <1>1, <1>6
  <2>4. \A y \in T \ {x} : \E i \in 1..(n - 1) : q[i] = y
    BY <2>2, <2>3, ListsAll
  <2>5. CASE n = 1
    <3>1. T \ {x} = {}
      BY <2>4, <2>5
    <3>. QED
      BY <3>1
  <2>6. CASE n # 1
    <3>1. n - 1 \in 1..(n - 1)
      BY <1>5, <2>3, <2>6
    <3> DEFINE l == q[n - 1]
    <3>2. l \in T \ {x}
      BY <2>2, <2>3, <3>1 DEF Lists
    <3>3. ASSUME NEW y \in T \ {x} PROVE y = l \/ <<y, l>> \in R
      <4>1. PICK i \in 1..(n - 1) : q[i] = y
        BY <2>4
      <4>2. i = n - 1 \/ i < n - 1
        BY <1>5
      <4>. QED
        BY <2>2, <2>3, <3>1, <4>1, <4>2 DEF Lists
    <3> HIDE DEF l
    <3>4. CASE <<x, l>> \in R
      BY <3>2, <3>3, <3>4
    <3>5. CASE <<l, x>> \in R
      BY <1>5, <3>2, <3>3, <3>5 DEF Orders
    <3>. QED
      BY <1>5, <3>2, <3>4, <3>5 DEF Orders
  <2>. QED
    BY <2>5, <2>6
<1>9. PICK q : Lists(q, R, T \ {m})
  BY <1>6
<1>10. Cardinality(T \ {m}) = n - 1 /\ n - 1 \in Nat
  BY <1>1, <1>6
<1> DEFINE r == [i \in 1..n |-> IF i = n THEN m ELSE q[i]]
<1>11. \A i \in 1..n : i = n \/ i \in 1..(n - 1)
  BY <1>5
<1>12. r \in [1..n -> T]
  BY <1>9, <1>10, <1>11 DEF Lists
<1>13. ASSUME NEW i \in 1..n, NEW j \in 1..n, i < j PROVE <<r[i], r[j]>> \in R
  <2>1. i \in 1..(n - 1) /\ i # n
    BY <1>5, <1>13
  <2>2. q[i] \in T \ {m} /\ r[i] = q[i]
    BY <1>9, <1>10, <2>1 DEF Lists
  <2>3. CASE j = n
    BY <1>8, <2>2, <2>3
  <2>4. CASE j # n
    BY <1>9, <1>10, <1>11, <1>13, <2>1, <2>2, <2>4 DEF Lists
  <2>. QED
    BY <2>3, <2>4
<1>14. Lists(r, R, T)
  BY <1>4, <1>12, <1>13 DEF Lists
<1>. QED
  BY <1>4, <1>14

-----------------------------------------------------------------------------
(* The inductive invariant.                                                *)

\* The blocks of page p in the order of the page, from the top.
AboveOn(p) == {r \in (DOMAIN pdf.pages[p]) \X (DOMAIN pdf.pages[p]) : Above(p, r[1], r[2])}

\* The pairs of blocks of page p that a person reads in this order.
ReadOn(p) == {r \in Kept(pdf.pages[p]) \X Kept(pdf.pages[p]) : ReadBefore(p, r[1], r[2])}

\* s is a list of what a set has, in the order R.
Follows(s, R, S) ==
    /\ s \in Seq(S)
    /\ \A x \in S : \E i \in 1..Len(s) : s[i] = x
    /\ \A i, j \in 1..Len(s) : i < j => <<s[i], s[j]>> \in R

\* The blocks of the page that the loop has passed.
Walked == Kept(pdf.pages[Page]) \ todo

\* The open band: the blocks of either column since the last full-width block.
BandOK ==
    /\ left \subseteq Walked /\ right \subseteq Walked
    /\ \A b \in left : InLeftColumn(Page, b)
    /\ \A b \in right : ~InLeftColumn(Page, b) /\ ~CrossesMiddle(Page, b)

\* The loop down a page: what is passed is above what is not, what is read is above
\* the open band, and the last block that was read is a full-width one below the
\* others.
WalkOK ==
    /\ Len(pages) < Len(pdf.pages)
    /\ todo \subseteq Kept(pdf.pages[Page])
    /\ \A x \in Walked, y \in todo : Above(Page, x, y)
    /\ BandOK
    /\ Follows(ordered, ReadOn(Page), Walked \ (left \cup right))
    /\ \A i \in 1..Len(ordered), y \in left \cup right : Above(Page, ordered[i], y)
    /\ ordered # <<>> => CrossesMiddle(Page, ordered[Len(ordered)])
    /\ \A i \in 1..Len(ordered) : i # Len(ordered) => Above(Page, ordered[i], ordered[Len(ordered)])

\* Between two pages nothing of a page is left over.
PageClean == todo = {} /\ left = {} /\ right = {} /\ ordered = <<>>

ExtractInv ==
    /\ pdf \in Pdfs
    /\ pages \in Seq(Seq(Nat)) /\ Len(pages) <= Len(pdf.pages)
    /\ phase \in {"idle", "open", "load", "walk", "done"}
    /\ phase \in {"idle", "open", "load"} => PageClean
    /\ phase = "walk" => WalkOK
    /\ \A p \in 1..Len(pages) : Follows(pages[p], ReadOn(p), Kept(pdf.pages[p]))

-----------------------------------------------------------------------------
(* The blocks of a page.                                                   *)

\* A page has finitely many blocks, with edges that compare.
LEMMA PageBlocks ==
    ASSUME pdf \in Pdfs, NEW p \in 1..Len(pdf.pages)
    PROVE  /\ DOMAIN pdf.pages[p] \subseteq Nat
           /\ IsFiniteSet(DOMAIN pdf.pages[p])
           /\ Kept(pdf.pages[p]) \subseteq DOMAIN pdf.pages[p]
           /\ \A b \in DOMAIN pdf.pages[p] :
                pdf.pages[p][b].x0 \in Nat /\ pdf.pages[p][b].x1 \in Nat /\ pdf.pages[p][b].y0 \in Nat
<1>1. pdf.pages \in Seq(Seq(Block))
  BY ExtractionAssumption DEF IsPdf
<1>2. pdf.pages[p] \in Seq(Block)
  BY <1>1
<1> DEFINE n == Len(pdf.pages[p])
<1>3. DOMAIN pdf.pages[p] = 1..n /\ n \in Nat /\ \A b \in 1..n : pdf.pages[p][b] \in Block
  BY <1>2
<1>4. IsFiniteSet(1..n)
  BY <1>3, FS_Interval
<1>5. \A b \in Block : b.x0 \in Nat /\ b.x1 \in Nat /\ b.y0 \in Nat
  BY ExtractionAssumption DEF Block
<1>. QED
  BY <1>3, <1>4, <1>5 DEF Kept

\* From the top, and from the left, is a strict order on the blocks of a page.
LEMMA AboveOrders ==
    ASSUME pdf \in Pdfs, NEW p \in 1..Len(pdf.pages)
    PROVE  Orders(AboveOn(p), DOMAIN pdf.pages[p])
<1> DEFINE D == DOMAIN pdf.pages[p]
           X(b) == pdf.pages[p][b].x0
           Y(b) == pdf.pages[p][b].y0
<1>1. \A b \in D : b \in Nat /\ X(b) \in Nat /\ Y(b) \in Nat
  BY PageBlocks
<1>2. \A a, b \in D : <<a, b>> \in AboveOn(p)
            <=> (\/ Y(a) < Y(b) \/ (Y(a) = Y(b) /\ X(a) < X(b)) \/ (Y(a) = Y(b) /\ X(a) = X(b) /\ a < b))
  BY DEF AboveOn, Above
<1> HIDE DEF D, X, Y
<1>3. Orders(AboveOn(p), D)
  <2>1. \A x \in D : <<x, x>> \notin AboveOn(p)
    BY <1>1, <1>2
  <2>2. \A x, y \in D : x # y => <<x, y>> \in AboveOn(p) \/ <<y, x>> \in AboveOn(p)
    BY <1>1, <1>2
  <2>3. \A x, y, z \in D : <<x, y>> \in AboveOn(p) /\ <<y, z>> \in AboveOn(p) => <<x, z>> \in AboveOn(p)
    BY <1>1, <1>2
  <2>. QED
    BY <2>1, <2>2, <2>3 DEF Orders
<1>. QED
  BY <1>3 DEF D

\* Above, as the relation it is.
LEMMA AboveIs ==
    ASSUME pdf \in Pdfs, NEW p \in 1..Len(pdf.pages),
           NEW x \in DOMAIN pdf.pages[p], NEW y \in DOMAIN pdf.pages[p]
    PROVE  /\ <<x, y>> \in AboveOn(p) <=> Above(p, x, y)
           /\ ~Above(p, x, x)
           /\ Above(p, x, y) => ~Above(p, y, x)
           /\ \A z \in DOMAIN pdf.pages[p] : Above(p, x, y) /\ Above(p, y, z) => Above(p, x, z)
<1>1. \A a, b \in DOMAIN pdf.pages[p] : <<a, b>> \in AboveOn(p) <=> Above(p, a, b)
  BY DEF AboveOn
<1>. QED
  BY <1>1, AboveOrders DEF Orders

\* A strict order stays one on fewer elements.
LEMMA OrdersSubset ==
    ASSUME NEW S, NEW T \in SUBSET S, NEW R, Orders(R, S)
    PROVE  Orders(R, T)
BY DEF Orders

\* Sorted lists the blocks it is given from the top.
LEMMA SortedLists ==
    ASSUME pdf \in Pdfs, Page \in 1..Len(pdf.pages), NEW bs \in SUBSET (DOMAIN pdf.pages[Page])
    PROVE  /\ IsFiniteSet(bs) /\ Orders(AboveOn(Page), bs)
           /\ Lists(Sorted(bs), AboveOn(Page), bs)
<1>1. IsFiniteSet(bs) /\ Orders(AboveOn(Page), bs)
  BY PageBlocks, AboveOrders, FS_Subset, OrdersSubset
<1>2. PICK q : Lists(q, AboveOn(Page), bs)
  BY <1>1, ListExists
<1> DEFINE Ok(r) == \A i, j \in DOMAIN r : i < j => Above(Page, r[i], r[j])
           F == [1..Cardinality(bs) -> bs]
<1>3. \A r \in F : Ok(r) <=> Lists(r, AboveOn(Page), bs)
  <2> SUFFICES ASSUME NEW r \in F PROVE Ok(r) <=> Lists(r, AboveOn(Page), bs)
    OBVIOUS
  <2>1. DOMAIN r = 1..Cardinality(bs) /\ \A i \in DOMAIN r : r[i] \in DOMAIN pdf.pages[Page]
    OBVIOUS
  <2>2. \A a, b \in DOMAIN pdf.pages[Page] : <<a, b>> \in AboveOn(Page) <=> Above(Page, a, b)
    BY AboveIs
  <2>. QED
    BY <2>1, <2>2 DEF Lists
<1>4. q \in F /\ Ok(q)
  BY <1>2, <1>3 DEF Lists
<1>5. Sorted(bs) = CHOOSE r \in F : Ok(r)
  BY DEF Sorted
<1> HIDE DEF Ok, F
<1>6. Sorted(bs) \in F /\ Ok(Sorted(bs))
  BY <1>4, <1>5
<1>. QED
  BY <1>1, <1>3, <1>6

\* The first element of a set that is not empty.
LEMMA FirstExists ==
    ASSUME NEW S, IsFiniteSet(S), NEW R, Orders(R, S), S # {}
    PROVE  \E x \in S : \A y \in S \ {x} : <<x, y>> \in R
<1>1. PICK q : Lists(q, R, S)
  BY ListExists
<1>2. /\ Cardinality(S) \in Nat
      /\ \A x \in S : \E i \in 1..Cardinality(S) : q[i] = x
  BY <1>1, ListsAll
<1>3. 1 \in 1..Cardinality(S)
  BY <1>2
<1>4. q[1] \in S
  BY <1>1, <1>3 DEF Lists
<1>5. ASSUME NEW y \in S \ {q[1]} PROVE <<q[1], y>> \in R
  <2>1. PICK i \in 1..Cardinality(S) : q[i] = y
    BY <1>2
  <2>2. 1 < i
    BY <1>2, <2>1
  <2>. QED
    BY <1>1, <1>3, <2>1, <2>2 DEF Lists
<1>. QED
  BY <1>4, <1>5

-----------------------------------------------------------------------------
(* A page that is read.                                                    *)

\* Two lists, one after the other.
LEMMA FollowsConcat ==
    ASSUME NEW S, NEW T, NEW R, NEW u, NEW v, Follows(u, R, S), Follows(v, R, T),
           \A x \in S, y \in T : <<x, y>> \in R
    PROVE  Follows(u \o v, R, S \cup T)
<1> DEFINE w == u \o v
<1>1. u \in Seq(S \cup T) /\ v \in Seq(S \cup T) /\ Len(u) \in Nat /\ Len(v) \in Nat
  BY DEF Follows
<1>2. w \in Seq(S \cup T) /\ Len(w) = Len(u) + Len(v)
  BY <1>1
<1>3. \A i \in 1..Len(u) : w[i] = u[i] /\ i \in 1..Len(w) /\ u[i] \in S
  BY <1>1, <1>2 DEF Follows
<1>4. \A i \in 1..Len(v) : w[Len(u) + i] = v[i] /\ Len(u) + i \in 1..Len(w) /\ v[i] \in T
  BY <1>1, <1>2 DEF Follows
<1>5. \A i \in 1..Len(w) : i \in 1..Len(u) \/ (i - Len(u) \in 1..Len(v) /\ i > Len(u))
  BY <1>1, <1>2
<1> HIDE DEF w
<1>6. \A x \in S \cup T : \E i \in 1..Len(w) : w[i] = x
  <2> SUFFICES ASSUME NEW x \in S \cup T PROVE \E i \in 1..Len(w) : w[i] = x
    OBVIOUS
  <2>1. CASE x \in S
    BY <1>3, <2>1 DEF Follows
  <2>2. CASE x \in T
    BY <1>4, <2>2 DEF Follows
  <2>. QED
    BY <2>1, <2>2
<1>7. ASSUME NEW i \in 1..Len(w), NEW j \in 1..Len(w), i < j PROVE <<w[i], w[j]>> \in R
  <2>1. CASE j \in 1..Len(u)
    <3>1. i \in 1..Len(u)
      BY <1>1, <1>7, <2>1
    <3>. QED
      BY <1>3, <1>7, <2>1, <3>1 DEF Follows
  <2>2. CASE i \in 1..Len(u) /\ j - Len(u) \in 1..Len(v) /\ j > Len(u)
    <3>1. w[j] = v[j - Len(u)] /\ v[j - Len(u)] \in T
      <4>1. Len(u) + (j - Len(u)) = j
        BY <1>1
      <4>. QED
        BY <1>4, <2>2, <4>1
    <3>. QED
      BY <1>3, <2>2, <3>1
  <2>3. CASE i - Len(u) \in 1..Len(v) /\ i > Len(u) /\ j - Len(u) \in 1..Len(v) /\ j > Len(u)
    <3>1. Len(u) + (j - Len(u)) = j /\ Len(u) + (i - Len(u)) = i /\ i - Len(u) < j - Len(u)
      BY <1>1, <1>7
    <3>2. w[j] = v[j - Len(u)] /\ w[i] = v[i - Len(u)]
      BY <1>4, <2>3, <3>1
    <3>. QED
      BY <2>3, <3>1, <3>2 DEF Follows
  <2>4. i \in 1..Len(u) \/ (i - Len(u) \in 1..Len(v) /\ i > Len(u))
    BY <1>5
  <2>5. j \in 1..Len(u) \/ (j - Len(u) \in 1..Len(v) /\ j > Len(u))
    BY <1>5
  <2>. QED
    BY <2>1, <2>2, <2>3, <2>4, <2>5, <1>1, <1>7
<1>8. Follows(w, R, S \cup T)
  BY <1>2, <1>6, <1>7 DEF Follows, w
<1>. QED
  BY <1>8 DEF w

\* A list by one order is a list by any order that agrees with it.
LEMMA ListsFollows ==
    ASSUME NEW S, IsFiniteSet(S), NEW A, Orders(A, S), NEW R, NEW q, Lists(q, A, S),
           \A x, y \in S : <<x, y>> \in A => <<x, y>> \in R
    PROVE  Follows(q, R, S)
<1>1. /\ Cardinality(S) \in Nat
      /\ \A x \in S : \E i \in 1..Cardinality(S) : q[i] = x
  BY ListsAll
<1>2. q \in Seq(S) /\ Len(q) = Cardinality(S)
  BY <1>1 DEF Lists
<1>3. \A i \in 1..Cardinality(S) : q[i] \in S
  BY DEF Lists
<1>. QED
  BY <1>1, <1>2, <1>3 DEF Lists, Follows

\* When the open band is closed, everything the loop has passed is read, and in a
\* reader's order: a full-width block that parted two blocks of the band would have
\* been read, and so would be above both.
LEMMA BandReads ==
    ASSUME pdf \in Pdfs, pages \in Seq(Seq(Nat)), WalkOK
    PROVE  /\ Page \in 1..Len(pdf.pages)
           /\ Follows(ordered \o Band(left, right), ReadOn(Page), Walked)
<1> DEFINE K == Kept(pdf.pages[Page])
           D == DOMAIN pdf.pages[Page]
<1>1. Page \in 1..Len(pdf.pages)
  <2>1. Len(pdf.pages) \in Nat /\ Len(pages) \in Nat
    BY ExtractionAssumption DEF IsPdf
  <2>. QED
    BY <2>1 DEF WalkOK, Page
<1>2. K \subseteq D
  BY <1>1, PageBlocks
<1>3. Walked \subseteq K /\ todo \subseteq K /\ left \subseteq Walked /\ right \subseteq Walked
  BY DEF Walked, WalkOK, BandOK
<1>4. \A x, y \in D : Above(Page, x, y) => ~Above(Page, y, x)
  BY <1>1, AboveIs
<1>5. ASSUME NEW c \in K, CrossesMiddle(Page, c), NEW x \in left \cup right, NEW y \in left \cup right
      PROVE  ~((c = x \/ Above(Page, x, c)) /\ (c = y \/ Above(Page, c, y)))
  <2>1. c \notin left \cup right
    BY <1>5 DEF WalkOK, BandOK, InLeftColumn
  <2>2. CASE c \in todo
    <3>1. Above(Page, y, c)
      BY <1>3, <2>2 DEF WalkOK
    <3>. QED
      BY <1>2, <1>3, <1>4, <2>1, <3>1
  <2>3. CASE c \notin todo
    <3>1. c \in Walked \ (left \cup right)
      BY <2>1, <2>3 DEF Walked
    <3>2. PICK i \in 1..Len(ordered) : ordered[i] = c
      BY <3>1 DEF WalkOK, Follows
    <3>3. Above(Page, c, x)
      BY <3>2 DEF WalkOK
    <3>. QED
      BY <1>2, <1>3, <1>4, <2>1, <3>3
  <2>. QED
    BY <2>2, <2>3
<1>6. ASSUME NEW x \in left \cup right, NEW y \in left \cup right,
             \/ InLeftColumn(Page, x) /\ ~InLeftColumn(Page, y)
             \/ (InLeftColumn(Page, x) <=> InLeftColumn(Page, y)) /\ Above(Page, x, y)
      PROVE  <<x, y>> \in ReadOn(Page)
  <2>1. ReadBefore(Page, x, y)
    BY <1>5, <1>6 DEF ReadBefore
  <2>. QED
    BY <1>3, <2>1 DEF ReadOn
<1>7. Follows(Sorted(left), ReadOn(Page), left)
  <2>1. left \in SUBSET D
    BY <1>2, <1>3
  <2>2. IsFiniteSet(left) /\ Orders(AboveOn(Page), left) /\ Lists(Sorted(left), AboveOn(Page), left)
    BY <1>1, <2>1, SortedLists
  <2>3. \A x, y \in left : <<x, y>> \in AboveOn(Page) => Above(Page, x, y)
    BY <1>1, <2>1, AboveIs
  <2>4. \A x, y \in left : <<x, y>> \in AboveOn(Page) => <<x, y>> \in ReadOn(Page)
    BY <1>6, <2>3 DEF WalkOK, BandOK
  <2>. QED
    BY <2>2, <2>4, ListsFollows
<1>8. Follows(Sorted(right), ReadOn(Page), right)
  <2>1. right \in SUBSET D
    BY <1>2, <1>3
  <2>2. IsFiniteSet(right) /\ Orders(AboveOn(Page), right) /\ Lists(Sorted(right), AboveOn(Page), right)
    BY <1>1, <2>1, SortedLists
  <2>3. \A x, y \in right : <<x, y>> \in AboveOn(Page) => Above(Page, x, y)
    BY <1>1, <2>1, AboveIs
  <2>4. \A x, y \in right : <<x, y>> \in AboveOn(Page) => <<x, y>> \in ReadOn(Page)
    BY <1>6, <2>3 DEF WalkOK, BandOK
  <2>. QED
    BY <2>2, <2>4, ListsFollows
<1>9. \A x \in left, y \in right : <<x, y>> \in ReadOn(Page)
  BY <1>6 DEF WalkOK, BandOK
<1>10. Follows(Band(left, right), ReadOn(Page), left \cup right)
  BY <1>7, <1>8, <1>9, FollowsConcat DEF Band
<1>11. ASSUME NEW x \in Walked \ (left \cup right), NEW y \in left \cup right
       PROVE  <<x, y>> \in ReadOn(Page)
  <2>1. PICK i \in 1..Len(ordered) : ordered[i] = x
    BY DEF WalkOK, Follows
  <2> DEFINE c == ordered[Len(ordered)]
  <2>2. Len(ordered) \in 1..Len(ordered) /\ ordered # <<>> /\ c \in Walked
    BY <2>1 DEF WalkOK, Follows
  <2>3. CrossesMiddle(Page, c) /\ (c = x \/ Above(Page, x, c)) /\ Above(Page, c, y) /\ Above(Page, x, y)
    BY <2>1, <2>2 DEF WalkOK
  <2>4. c \in K
    BY <1>3, <2>2
  <2> HIDE DEF c
  <2>5. ReadBefore(Page, x, y)
    BY <2>3, <2>4 DEF ReadBefore
  <2>. QED
    BY <1>3, <2>5 DEF ReadOn
<1>12. Follows(ordered, ReadOn(Page), Walked \ (left \cup right))
  BY DEF WalkOK
<1>13. Follows(ordered \o Band(left, right), ReadOn(Page), (Walked \ (left \cup right)) \cup (left \cup right))
  BY <1>10, <1>11, <1>12, FollowsConcat
<1>14. (Walked \ (left \cup right)) \cup (left \cup right) = Walked
  BY <1>3
<1>. QED
  BY <1>1, <1>13, <1>14

-----------------------------------------------------------------------------
(* The steps of the extraction.                                            *)

\* The order in which a page is read is the file's, and no step changes the file.
LEMMA SameOrder == ASSUME pdf' = pdf PROVE \A p : ReadOn(p)' = ReadOn(p)
BY DEF ReadOn, ReadBefore, Kept, Above, CrossesMiddle, InLeftColumn

\* The loop's invariant, after a step on the same page.
LEMMA WalkAfter ==
    ASSUME pdf' = pdf, pages' = pages,
           NEW passed, passed = Kept(pdf.pages[Page]) \ todo',
           Len(pages) < Len(pdf.pages),
           todo' \subseteq Kept(pdf.pages[Page]),
           \A x \in passed, y \in todo' : Above(Page, x, y),
           left' \subseteq passed, right' \subseteq passed,
           \A b \in left' : InLeftColumn(Page, b),
           \A b \in right' : ~InLeftColumn(Page, b) /\ ~CrossesMiddle(Page, b),
           Follows(ordered', ReadOn(Page), passed \ (left' \cup right')),
           \A i \in 1..Len(ordered'), y \in left' \cup right' : Above(Page, ordered'[i], y),
           ordered' # <<>> => CrossesMiddle(Page, ordered'[Len(ordered')]),
           \A i \in 1..Len(ordered') :
                i # Len(ordered') => Above(Page, ordered'[i], ordered'[Len(ordered')])
    PROVE  WalkOK'
<1>1. Page' = Page
  BY DEF Page
<1>2. ReadOn(Page)' = ReadOn(Page)
  <2>1. \A a, b : (ReadBefore(Page, a, b))' <=> ReadBefore(Page, a, b)
    BY <1>1 DEF ReadBefore, Kept, Above, CrossesMiddle, InLeftColumn
  <2>2. \A r : r \in ReadOn(Page)' <=> r \in ReadOn(Page)
    BY <1>1, <2>1 DEF ReadOn, Kept
  <2>. QED
    BY <2>2
<1>3. Walked' = passed
  BY <1>1 DEF Walked, Kept
<1>4. BandOK'
  BY <1>1, <1>3 DEF BandOK, InLeftColumn, CrossesMiddle
<1>5. (todo \subseteq Kept(pdf.pages[Page]))'
  BY <1>1 DEF Kept
<1>6. (\A x \in Walked, y \in todo : Above(Page, x, y))'
  BY <1>1, <1>3 DEF Above
<1>7. (\A i \in 1..Len(ordered), y \in left \cup right : Above(Page, ordered[i], y))'
  BY <1>1 DEF Above
<1>8. (ordered # <<>> => CrossesMiddle(Page, ordered[Len(ordered)]))'
  BY <1>1 DEF CrossesMiddle
<1>9. (\A i \in 1..Len(ordered) : i # Len(ordered) => Above(Page, ordered[i], ordered[Len(ordered)]))'
  BY <1>1 DEF Above
<1>10. (Follows(ordered, ReadOn(Page), Walked \ (left \cup right)))'
  BY <1>2, <1>3
<1>. QED
  BY <1>4, <1>5, <1>6, <1>7, <1>8, <1>9, <1>10 DEF WalkOK

\* The loop takes the block of those it has not passed that is above the others.
LEMMA NextBlock ==
    ASSUME pdf \in Pdfs, pages \in Seq(Seq(Nat)), WalkOK, todo # {},
           NEW b, b = CHOOSE x \in todo : \A y \in todo \ {x} : Above(Page, x, y)
    PROVE  b \in todo /\ \A y \in todo \ {b} : Above(Page, b, y)
<1>1. Page \in 1..Len(pdf.pages)
  BY BandReads
<1>2. todo \in SUBSET (DOMAIN pdf.pages[Page])
  BY <1>1, PageBlocks DEF WalkOK
<1>3. IsFiniteSet(todo) /\ Orders(AboveOn(Page), todo)
  BY <1>1, <1>2, PageBlocks, AboveOrders, FS_Subset, OrdersSubset
<1>4. PICK x \in todo : \A y \in todo \ {x} : <<x, y>> \in AboveOn(Page)
  <2>1. todo # {}
    OBVIOUS
  <2>. QED
    BY ONLY <1>3, <2>1, FirstExists
<1>5. \A y \in todo \ {x} : Above(Page, x, y)
  BY <1>1, <1>2, <1>4, AboveIs
<1>. QED
  BY <1>5

\* One turn of the loop keeps its invariant.
LEMMA WalkStep == ASSUME pdf \in Pdfs, pages \in Seq(Seq(Nat)), WalkOK, Walk PROVE WalkOK'
<1> DEFINE b == CHOOSE x \in todo : \A y \in todo \ {x} : Above(Page, x, y)
           K == Kept(pdf.pages[Page])
           passed == K \ todo'
<1>1. b \in todo /\ \A y \in todo \ {b} : Above(Page, b, y)
  BY NextBlock DEF Walk
<1>2. /\ todo' = todo \ {b} /\ pdf' = pdf /\ pages' = pages
      /\ \/ /\ CrossesMiddle(Page, b)
            /\ ordered' = Append(ordered \o Band(left, right), b)
            /\ left' = {} /\ right' = {}
         \/ InLeftColumn(Page, b) /\ left' = left \cup {b} /\ right' = right /\ ordered' = ordered
         \/ /\ ~CrossesMiddle(Page, b) /\ ~InLeftColumn(Page, b)
            /\ right' = right \cup {b} /\ left' = left /\ ordered' = ordered
  BY DEF Walk
<1> HIDE DEF b
<1>3. Page \in 1..Len(pdf.pages) /\ Follows(ordered \o Band(left, right), ReadOn(Page), Walked)
  BY BandReads
<1>4. K \subseteq DOMAIN pdf.pages[Page]
  BY <1>3, PageBlocks
<1>5. /\ todo \subseteq K /\ Walked \subseteq K /\ b \in K /\ b \notin Walked
      /\ passed = Walked \cup {b}
  BY <1>1, <1>2 DEF WalkOK, Walked
<1>6. \A x \in passed, y \in todo' : Above(Page, x, y)
  BY <1>1, <1>2, <1>5 DEF WalkOK
<1>7. \A x \in Walked : Above(Page, x, b)
  BY <1>1 DEF WalkOK
<1>8. todo' \subseteq K /\ Len(pages) < Len(pdf.pages)
  BY <1>2, <1>5 DEF WalkOK
<1> HIDE DEF passed
<1>9. left \subseteq Walked /\ right \subseteq Walked
  BY DEF WalkOK, BandOK
<1>10. ordered \in Seq(Walked) /\ \A i \in 1..Len(ordered) : ordered[i] \in Walked
  <2>1. ordered \in Seq(Walked \ (left \cup right))
    BY DEF WalkOK, Follows
  <2>. QED
    BY <2>1
<1>11. CASE CrossesMiddle(Page, b) /\ ordered' = Append(ordered \o Band(left, right), b) /\ left' = {} /\ right' = {}
  <2> DEFINE u == ordered \o Band(left, right)
  <2>1. Follows(<<b>>, ReadOn(Page), {b})
    BY DEF Follows
  <2>2. ASSUME NEW x \in Walked, NEW y \in {b} PROVE <<x, y>> \in ReadOn(Page)
    <3>1. ReadBefore(Page, x, b)
      BY <1>5, <1>7, <1>11 DEF ReadBefore
    <3>. QED
      BY <1>5, <3>1 DEF ReadOn
  <2>3. Follows(u \o <<b>>, ReadOn(Page), Walked \cup {b})
    BY <1>3, <2>1, <2>2, FollowsConcat
  <2>4. u \in Seq(Walked)
    BY <1>3 DEF Follows
  <2> HIDE DEF u
  <2>5. ordered' = Append(u, b) /\ Append(u, b) = u \o <<b>>
    BY <1>11, <2>4 DEF u
  <2>6. Follows(ordered', ReadOn(Page), passed \ (left' \cup right'))
    <3>1. passed \ (left' \cup right') = Walked \cup {b}
      BY <1>5, <1>11
    <3>. QED
      BY <2>3, <2>5, <3>1
  <2>7. /\ Len(ordered') = Len(u) + 1 /\ Len(u) \in Nat /\ ordered'[Len(ordered')] = b
        /\ \A i \in 1..Len(u) : ordered'[i] = u[i] /\ u[i] \in Walked
    BY <2>4, <2>5
  <2>8. \A i \in 1..Len(ordered') :
            i # Len(ordered') => Above(Page, ordered'[i], ordered'[Len(ordered')])
    <3> SUFFICES ASSUME NEW i \in 1..Len(ordered'), i # Len(ordered')
                 PROVE  Above(Page, ordered'[i], b)
      BY <2>7
    <3>1. i \in 1..Len(u)
      BY <2>7
    <3>. QED
      BY <1>7, <2>7, <3>1
  <2>. QED
    BY <1>2, <1>6, <1>8, <1>11, <2>6, <2>7, <2>8, WalkAfter DEF passed
<1>12. CASE InLeftColumn(Page, b) /\ left' = left \cup {b} /\ right' = right /\ ordered' = ordered
  <2>1. left' \subseteq passed /\ right' \subseteq passed
    BY <1>5, <1>9, <1>12
  <2>2. /\ \A x \in left' : InLeftColumn(Page, x)
        /\ \A x \in right' : ~InLeftColumn(Page, x) /\ ~CrossesMiddle(Page, x)
    BY <1>12 DEF WalkOK, BandOK
  <2>3. passed \ (left' \cup right') = Walked \ (left \cup right)
    BY <1>5, <1>12
  <2>4. Follows(ordered', ReadOn(Page), passed \ (left' \cup right'))
    BY <1>12, <2>3 DEF WalkOK
  <2>5. \A i \in 1..Len(ordered'), y \in left' \cup right' : Above(Page, ordered'[i], y)
    BY <1>7, <1>10, <1>12 DEF WalkOK
  <2>6. /\ ordered' # <<>> => CrossesMiddle(Page, ordered'[Len(ordered')])
        /\ \A i \in 1..Len(ordered') :
                i # Len(ordered') => Above(Page, ordered'[i], ordered'[Len(ordered')])
    BY <1>12 DEF WalkOK
  <2>. QED
    BY <1>2, <1>6, <1>8, <2>1, <2>2, <2>4, <2>5, <2>6, WalkAfter DEF passed
<1>13. CASE /\ ~CrossesMiddle(Page, b) /\ ~InLeftColumn(Page, b)
            /\ right' = right \cup {b} /\ left' = left /\ ordered' = ordered
  <2>1. left' \subseteq passed /\ right' \subseteq passed
    BY <1>5, <1>9, <1>13
  <2>2. /\ \A x \in left' : InLeftColumn(Page, x)
        /\ \A x \in right' : ~InLeftColumn(Page, x) /\ ~CrossesMiddle(Page, x)
    BY <1>13 DEF WalkOK, BandOK
  <2>3. passed \ (left' \cup right') = Walked \ (left \cup right)
    BY <1>5, <1>13
  <2>4. Follows(ordered', ReadOn(Page), passed \ (left' \cup right'))
    BY <1>13, <2>3 DEF WalkOK
  <2>5. \A i \in 1..Len(ordered'), y \in left' \cup right' : Above(Page, ordered'[i], y)
    BY <1>7, <1>10, <1>13 DEF WalkOK
  <2>6. /\ ordered' # <<>> => CrossesMiddle(Page, ordered'[Len(ordered')])
        /\ \A i \in 1..Len(ordered') :
                i # Len(ordered') => Above(Page, ordered'[i], ordered'[Len(ordered')])
    BY <1>13 DEF WalkOK
  <2>. QED
    BY <1>2, <1>6, <1>8, <2>1, <2>2, <2>4, <2>5, <2>6, WalkAfter DEF passed
<1>. QED
  BY <1>2, <1>11, <1>12, <1>13

\* A page that is loaded is walked from its top.
LEMMA LoadStep ==
    ASSUME pdf \in Pdfs, pages \in Seq(Seq(Nat)), PageClean, LoadPage, phase' = "walk"
    PROVE  WalkOK'
<1>1. /\ todo' = Kept(pdf.pages[Page]) /\ left' = {} /\ right' = {} /\ ordered' = <<>>
      /\ pdf' = pdf /\ pages' = pages /\ Len(pages) < Len(pdf.pages)
  BY DEF LoadPage, End, PageClean, page
<1> DEFINE passed == Kept(pdf.pages[Page]) \ todo'
<1>2. passed = {}
  BY <1>1
<1>3. Follows(ordered', ReadOn(Page), passed \ (left' \cup right'))
  <2>1. Follows(<<>>, ReadOn(Page), {})
    BY DEF Follows
  <2>. QED
    BY <1>1, <1>2, <2>1
<1>4. Len(ordered') = 0
  BY <1>1
<1> HIDE DEF passed
<1>. QED
  BY <1>1, <1>2, <1>3, <1>4, WalkAfter DEF passed

\* Nothing but the file's bytes decides a step: the extraction never changes the
\* file, and each of its steps keeps the invariant.
LEMMA ExtractStep == ExtractInv /\ Extract => ExtractInv' /\ pdf' = pdf
<1> SUFFICES ASSUME ExtractInv, Extract PROVE ExtractInv' /\ pdf' = pdf
  OBVIOUS
<1> USE DEF extraction, page
<1>1. pdf \in Pdfs /\ pages \in Seq(Seq(Nat)) /\ Len(pages) <= Len(pdf.pages) /\ Len(pages) \in Nat
  BY DEF ExtractInv
<1>2. ASSUME pdf' = pdf, pages' = pages
      PROVE  \A p \in 1..Len(pages') : (Follows(pages[p], ReadOn(p), Kept(pdf.pages[p])))'
  <2>1. \A p : ReadOn(p)' = ReadOn(p)
    BY <1>2, SameOrder
  <2>. QED
    BY <1>2, <2>1 DEF ExtractInv
<1>3. CASE Open
  BY <1>1, <1>2, <1>3 DEF Open, End, ExtractInv, PageClean
<1>4. CASE LoadPage
  <2>1. pdf' = pdf /\ pages' = pages /\ phase = "load" /\ phase' \in {"walk", "done"}
    BY <1>4 DEF LoadPage, End
  <2>2. phase' = "walk" => WalkOK'
    BY <1>1, <1>4, <2>1, LoadStep DEF ExtractInv
  <2>. QED
    BY <1>1, <1>2, <2>1, <2>2 DEF ExtractInv
<1>5. CASE Walk
  <2>1. pdf' = pdf /\ pages' = pages /\ phase = "walk" /\ phase' = "walk"
    BY <1>5 DEF Walk
  <2>2. WalkOK'
    BY <1>1, <1>5, <2>1, WalkStep DEF ExtractInv
  <2>. QED
    BY <1>1, <1>2, <2>1, <2>2 DEF ExtractInv
<1>6. CASE EndPage
  <2> DEFINE o == ordered \o Band(left, right)
  <2>1. /\ pdf' = pdf /\ pages' = Append(pages, o) /\ phase = "walk" /\ phase' = "load"
        /\ todo = {} /\ PageClean'
    BY <1>6 DEF EndPage, PageClean
  <2>2. Page \in 1..Len(pdf.pages) /\ Follows(o, ReadOn(Page), Walked) /\ Len(pages) < Len(pdf.pages)
    BY <1>1, <2>1, BandReads DEF ExtractInv, WalkOK
  <2>3. Walked = Kept(pdf.pages[Page]) /\ Walked \subseteq Nat
    BY <1>1, <2>1, <2>2, PageBlocks DEF Walked
  <2>4. o \in Seq(Nat)
    <3>1. o \in Seq(Walked)
      BY <2>2 DEF Follows
    <3> HIDE DEF o
    <3>. QED
      BY <2>3, <3>1
  <2> HIDE DEF o
  <2>5. /\ pages' \in Seq(Seq(Nat)) /\ Len(pages') = Len(pages) + 1
        /\ \A p \in 1..Len(pages) : pages'[p] = pages[p]
        /\ pages'[Len(pages) + 1] = o
    <3> DEFINE T == Seq(Nat)
    <3>1. o \in T /\ pages \in Seq(T)
      BY <1>1, <2>4
    <3> HIDE DEF T
    <3>2. /\ pages' \in Seq(T) /\ Len(pages') = Len(pages) + 1
          /\ \A p \in 1..Len(pages) : pages'[p] = pages[p]
          /\ pages'[Len(pages) + 1] = o
      BY <2>1, <3>1
    <3>. QED
      BY <3>2 DEF T
  <2>6. \A p : ReadOn(p)' = ReadOn(p)
    BY <2>1, SameOrder
  <2>7. ASSUME NEW p \in 1..Len(pages')
        PROVE  (Follows(pages[p], ReadOn(p), Kept(pdf.pages[p])))'
    <3>1. CASE p \in 1..Len(pages)
      BY <2>1, <2>5, <2>6, <3>1 DEF ExtractInv
    <3>2. CASE p = Len(pages) + 1
      BY <2>1, <2>2, <2>3, <2>5, <2>6, <3>2 DEF Page
    <3>. QED
      BY <1>1, <2>5, <3>1, <3>2
  <2>8. Len(pages') <= Len(pdf.pages)
    <3>1. Len(pdf.pages) \in Nat
      BY <1>1, ExtractionAssumption DEF IsPdf
    <3>. QED
      BY <1>1, <2>2, <2>5, <3>1
  <2>. QED
    BY <1>1, <2>1, <2>5, <2>7, <2>8 DEF ExtractInv
<1>7. CASE Finish
  BY <1>1, <1>2, <1>7 DEF Finish, End, ExtractInv
<1>8. CASE Killed
  <2>1. pdf' = pdf /\ pages' = <<>> /\ phase' = "done"
    BY <1>8 DEF Killed, End
  <2>2. Len(pdf.pages) \in Nat
    BY <1>1, ExtractionAssumption DEF IsPdf
  <2>. QED
    BY <1>1, <2>1, <2>2 DEF ExtractInv
<1>. QED
  BY <1>3, <1>4, <1>5, <1>6, <1>7, <1>8 DEF Extract

-----------------------------------------------------------------------------
(* display_filename.                                                       *)

\* The order of two places in a name.
NumberOrder == {r \in Nat \X Nat : r[1] < r[2]}

\* What is picked from a sequence, and from where.
LEMMA PickIs ==
    ASSUME NEW S, NEW s \in Seq(S), NEW at \in SUBSET (1..Len(s))
    PROVE  /\ Pick(s, at) \in Seq(S)
           /\ \E q : /\ \A i \in 1..Len(Pick(s, at)) : q[i] \in at /\ Pick(s, at)[i] = s[q[i]]
                     /\ \A i, j \in 1..Len(Pick(s, at)) : i < j => q[i] < q[j]
                     /\ \A x \in at : \E i \in 1..Len(Pick(s, at)) : q[i] = x
<1> DEFINE n == Cardinality(at)
           F == [1..n -> at]
           Ok(q) == \A i, j \in DOMAIN q : i < j => q[i] < q[j]
<1>1. IsFiniteSet(at) /\ n \in Nat /\ at \subseteq Nat
  <2>1. Len(s) \in Nat /\ at \subseteq 1..Len(s)
    OBVIOUS
  <2>2. IsFiniteSet(1..Len(s))
    BY <2>1, FS_Interval
  <2>3. IsFiniteSet(at)
    BY <2>1, <2>2, FS_Subset
  <2>4. n \in Nat
    BY <2>3, FS_CardinalityType
  <2>. QED
    BY <2>1, <2>3, <2>4
<1>2. Orders(NumberOrder, at)
  BY <1>1 DEF Orders, NumberOrder
<1>3. PICK r : Lists(r, NumberOrder, at)
  BY <1>1, <1>2, ListExists
<1>4. \A q \in F : Ok(q) <=> Lists(q, NumberOrder, at)
  <2> SUFFICES ASSUME NEW q \in F PROVE Ok(q) <=> Lists(q, NumberOrder, at)
    OBVIOUS
  <2>1. DOMAIN q = 1..n /\ \A i \in 1..n : q[i] \in Nat
    BY <1>1
  <2>. QED
    BY <2>1 DEF Lists, NumberOrder
<1>5. r \in F /\ Ok(r)
  BY <1>3, <1>4 DEF Lists
<1> DEFINE q == CHOOSE q \in F : Ok(q)
<1>6. Pick(s, at) = [i \in DOMAIN q |-> s[q[i]]]
  BY DEF Pick
<1> HIDE DEF Ok, F
<1>7. q \in F /\ Ok(q)
  BY <1>5
<1> HIDE DEF q
<1>8. Lists(q, NumberOrder, at) /\ \A i, j \in 1..n : i < j => q[i] < q[j]
  BY <1>4, <1>7 DEF F, Ok
<1>9. DOMAIN q = 1..n /\ \A i \in 1..n : q[i] \in at
  BY <1>7 DEF F
<1>10. \A x \in at : \E i \in 1..n : q[i] = x
  BY <1>1, <1>2, <1>8, ListsAll
<1>11. Pick(s, at) \in Seq(S) /\ Len(Pick(s, at)) = n
  <2>1. \A x \in 1..Len(s) : s[x] \in S
    OBVIOUS
  <2>2. \A i \in 1..n : q[i] \in 1..Len(s)
    BY <1>9
  <2>3. \A i \in 1..n : s[q[i]] \in S
    BY <2>1, <2>2
  <2>. QED
    BY <1>1, <1>6, <1>9, <2>3
<1>. QED
  BY <1>6, <1>8, <1>9, <1>10, <1>11

\* The name after each of the steps it is cleaned in.
LEMMA Components ==
    ASSUME NEW s \in Seq(Characters)
    PROVE  /\ LastComponent(s) \in Seq(Characters)
           /\ \A i \in 1..Len(LastComponent(s)) : LastComponent(s)[i] # "separator"
<1> DEFINE at == {i \in DOMAIN s : \A j \in i..Len(s) : s[j] # "separator"}
           p == Pick(s, at)
<1>1. at \in SUBSET (1..Len(s)) /\ \A i \in at : s[i] # "separator"
  <2>1. DOMAIN s = 1..Len(s) /\ Len(s) \in Nat /\ \A i \in 1..Len(s) : i \in i..Len(s)
    OBVIOUS
  <2>. QED
    BY <2>1
<1> HIDE DEF at
<1>2. /\ p \in Seq(Characters)
      /\ \E q : \A i \in 1..Len(p) : q[i] \in at /\ p[i] = s[q[i]]
  BY <1>1, PickIs
<1> HIDE DEF p
<1>3. \A i \in 1..Len(p) : p[i] # "separator"
  BY <1>1, <1>2
<1>4. LastComponent(s) = p
  BY DEF LastComponent, p, at
<1>. QED
  BY <1>2, <1>3, <1>4

LEMMA Visibles ==
    ASSUME NEW s \in Seq(Characters)
    PROVE  /\ Visible(s) \in Seq(Characters)
           /\ \A i \in 1..Len(Visible(s)) :
                Visible(s)[i] # "format" /\ \E j \in 1..Len(s) : Visible(s)[i] = s[j]
<1> DEFINE at == {i \in DOMAIN s : s[i] # "format"}
           p == Pick(s, at)
<1>1. at \in SUBSET (1..Len(s)) /\ \A i \in at : s[i] # "format"
  OBVIOUS
<1> HIDE DEF at
<1>2. /\ p \in Seq(Characters)
      /\ \E q : \A i \in 1..Len(p) : q[i] \in at /\ p[i] = s[q[i]]
  BY <1>1, PickIs
<1> HIDE DEF p
<1>3. \A i \in 1..Len(p) : p[i] # "format" /\ \E j \in 1..Len(s) : p[i] = s[j]
  BY <1>1, <1>2
<1>4. Visible(s) = p
  BY DEF Visible, p, at
<1>. QED
  BY <1>2, <1>3, <1>4

LEMMA Trims ==
    ASSUME NEW s \in Seq(Characters)
    PROVE  /\ Trimmed(s) \in Seq(Characters)
           /\ \A i \in 1..Len(Trimmed(s)) : \E j \in 1..Len(s) : Trimmed(s)[i] = s[j]
           /\ Trimmed(s) # <<>> =>
                Trimmed(s)[1] # "space" /\ Trimmed(s)[Len(Trimmed(s))] # "space"
<1> DEFINE inked == {i \in DOMAIN s : s[i] # "space"}
           at == {i \in DOMAIN s : \E j, k \in inked : j <= i /\ i <= k}
           p == Pick(s, at)
<1>1. /\ at \in SUBSET (1..Len(s)) /\ inked \subseteq at /\ at \subseteq Nat
      /\ \A i \in at : \E j, k \in inked : j <= i /\ i <= k
      /\ \A i \in inked : s[i] # "space"
  OBVIOUS
<1> HIDE DEF at, inked
<1>2. /\ p \in Seq(Characters)
      /\ \E q : /\ \A i \in 1..Len(p) : q[i] \in at /\ p[i] = s[q[i]]
                /\ \A i, j \in 1..Len(p) : i < j => q[i] < q[j]
                /\ \A x \in at : \E i \in 1..Len(p) : q[i] = x
  BY <1>1, PickIs
<1> HIDE DEF p
<1>3. PICK q : /\ \A i \in 1..Len(p) : q[i] \in at /\ p[i] = s[q[i]]
               /\ \A i, j \in 1..Len(p) : i < j => q[i] < q[j]
               /\ \A x \in at : \E i \in 1..Len(p) : q[i] = x
  BY <1>2
<1>4. \A i \in 1..Len(p) : \E j \in 1..Len(s) : p[i] = s[j]
  BY <1>1, <1>3
<1>5. ASSUME p # <<>> PROVE p[1] # "space" /\ p[Len(p)] # "space"
  <2>1. Len(p) \in Nat /\ 1 \in 1..Len(p) /\ Len(p) \in 1..Len(p)
    BY <1>2, <1>5
  <2>2. q[1] \in inked
    <3>1. PICK j \in inked : j <= q[1]
      BY <1>1, <1>3, <2>1
    <3>2. PICK i \in 1..Len(p) : q[i] = j
      BY <1>1, <1>3
    <3>3. i = 1 \/ 1 < i
      BY <2>1
    <3>4. q[1] \in Nat /\ j \in Nat
      BY <1>1, <1>3, <2>1
    <3>. QED
      BY <1>3, <2>1, <3>1, <3>2, <3>3, <3>4
  <2>3. q[Len(p)] \in inked
    <3>1. PICK k \in inked : q[Len(p)] <= k
      BY <1>1, <1>3, <2>1
    <3>2. PICK i \in 1..Len(p) : q[i] = k
      BY <1>1, <1>3
    <3>3. i = Len(p) \/ i < Len(p)
      BY <2>1
    <3>4. q[Len(p)] \in Nat /\ k \in Nat
      BY <1>1, <1>3, <2>1
    <3>. QED
      BY <1>3, <2>1, <3>1, <3>2, <3>3, <3>4
  <2>. QED
    BY <1>1, <1>3, <2>1, <2>2, <2>3
<1>6. Trimmed(s) = p
  BY DEF Trimmed, p, at, inked
<1>. QED
  BY <1>2, <1>4, <1>5, <1>6

LEMMA Normalises == ASSUME NEW s \in Seq(Characters) PROVE Normalised(s) \in Seq(Characters)
<1> DEFINE composed == {i \in DOMAIN s : s[i] = "e" /\ i < Len(s) /\ s[i + 1] = "mark"}
           t == [i \in DOMAIN s |-> IF i \in composed THEN "eacute" ELSE s[i]]
           at == {i \in DOMAIN s : i - 1 \notin composed}
<1>1. Normalised(s) = Pick(t, at)
  BY DEF Normalised
<1> HIDE DEF composed
<1>2. t \in Seq(Characters) /\ Len(t) = Len(s) /\ at \in SUBSET (1..Len(s))
  <2>1. "eacute" \in Characters
    BY DEF Characters
  <2>. QED
    BY <2>1
<1> HIDE DEF t, at
<1>. QED
  BY <1>1, <1>2, PickIs

\* A name that can be shown: its characters, and its ends.
Clean(n) ==
    /\ \A i \in 1..Len(n) : n[i] # "separator" /\ n[i] # "format"
    /\ n # <<>> => n[1] # "space" /\ n[Len(n)] # "space"

\* Whatever a client calls its file, the name that is kept is clean.
LEMMA NamesAreClean ==
    ASSUME NEW s \in Seq(Characters)
    PROVE  DisplayName(s) \in Seq(Characters) /\ Clean(DisplayName(s))
<1> DEFINE c == LastComponent(Normalised(s))
           v == Visible(c)
           n == Trimmed(v)
<1>1. c \in Seq(Characters) /\ \A i \in 1..Len(c) : c[i] # "separator"
  BY Normalises, Components
<1> HIDE DEF c
<1>2. /\ v \in Seq(Characters)
      /\ \A i \in 1..Len(v) : v[i] # "format" /\ \E j \in 1..Len(c) : v[i] = c[j]
  BY <1>1, Visibles
<1> HIDE DEF v
<1>3. /\ n \in Seq(Characters)
      /\ \A i \in 1..Len(n) : \E j \in 1..Len(v) : n[i] = v[j]
      /\ n # <<>> => n[1] # "space" /\ n[Len(n)] # "space"
  BY <1>2, Trims
<1> HIDE DEF n
<1>4. Clean(n)
  BY <1>1, <1>2, <1>3 DEF Clean
<1>5. DisplayName(s) = n
  BY DEF DisplayName, n, v, c
<1>. QED
  BY <1>3, <1>4, <1>5

-----------------------------------------------------------------------------
(* The upload's own steps, and the theorems.                               *)

\* The worker has not begun.
Untouched == phase = "idle" /\ outcome = "running" /\ pages = <<>>

\* The parser read the file to its end.
Finished == outcome \in {"extracted", "page_count_mismatch", "no_extractable_text", "parsed"}

\* Why the worker goes on with a file, or refuses it.
WorkerInv ==
    /\ maxPages \in Nat /\ limit \in Nat /\ recorded \in Nat
    /\ phase # "done" <=> outcome = "running"
    /\ phase \in {"idle", "open"} => pages = <<>>
    /\ phase \in {"load", "walk"} \/ Finished =>
            pdf.opens /\ ~pdf.locked /\ 1 <= Len(pdf.pages) /\ Len(pdf.pages) <= maxPages
    /\ Finished => Len(pages) = Len(pdf.pages)
    /\ outcome = "parsed" => recorded \in {0, Len(pages)} /\ \E p \in DOMAIN pages : pages[p] # <<>>
    /\ outcome = "page_count_mismatch" => recorded # Len(pages)
    /\ outcome \in {"open_failed", "encrypted", "page_limit_exceeded"} => pages = <<>>
    /\ outcome \in {"open_failed", "encrypted"} => ~pdf.opens \/ pdf.locked \/ Len(pdf.pages) < 1
    /\ outcome = "page_limit_exceeded" => Len(pdf.pages) > maxPages \/ recorded > maxPages
    /\ step = "stored" => /\ pdf.opens /\ ~pdf.locked
                          /\ 1 <= Len(pdf.pages) /\ Len(pdf.pages) <= limit
                          /\ recorded = Len(pdf.pages)

\* Every step of the worker, the parser's included, has its reason.
LEMMA WorkerStep ==
    ASSUME WorkerInv, Len(pdf.pages) \in Nat, Len(pages) \in Nat, Verify \/ Work \/ Judge
    PROVE  WorkerInv'
<1> USE DEF WorkerInv, Finished, End, page, intake
<1>1. CASE Verify
  BY <1>1 DEF Verify
<1>2. CASE Judge
  BY <1>2 DEF Judge
<1>3. CASE Work /\ Open
  BY <1>3 DEF Work, Open
<1>4. CASE Work /\ LoadPage
  BY <1>4 DEF Work, LoadPage
<1>5. CASE Work /\ (Walk \/ EndPage)
  <2>1. /\ pdf' = pdf /\ maxPages' = maxPages /\ outcome' = outcome /\ phase' \in {"walk", "load"}
        /\ phase = "walk" /\ limit' = limit /\ recorded' = recorded /\ step' = step
    BY <1>5 DEF Work, Walk, EndPage
  <2>. QED
    BY <2>1
<1>6. CASE Work /\ Finish
  BY <1>6 DEF Work, Finish
<1>7. CASE Work /\ Killed
  BY <1>7 DEF Work, Killed
<1>. QED
  BY <1>1, <1>2, <1>3, <1>4, <1>5, <1>6, <1>7 DEF Work, Extract

\* What each step of an upload leaves established for the next.
IntakeInv ==
    /\ ExtractInv
    /\ WorkerInv
    /\ step \in {"name", "read", "validate", "stored", "rejected", "earlier"}
    /\ raw \in Seq(Characters)
    /\ received \in Nat /\ received <= pdf.size /\ received <= MaxBytes + ReadBytes
    /\ step # "rejected" => received <= MaxBytes
    /\ step \in {"validate", "stored"} => received = pdf.size
    /\ step \in {"read", "validate", "stored"} =>
            name \in Seq(Characters) /\ Usable(name) /\ Clean(name)
    /\ step \notin {"stored", "earlier"} => Untouched

LEMMA IntakeInvInit == Init => IntakeInv
<1> SUFFICES ASSUME Init PROVE IntakeInv
  OBVIOUS
<1>1. /\ raw \in Seq(Characters) /\ pdf \in Pdfs /\ step \in {"name", "earlier"}
      /\ limit \in Nat /\ recorded \in Nat /\ maxPages \in Nat
  <2>1. CASE step = "name"
    <3>1. PICK a \in Arrivals : raw = a.raw /\ pdf = a.pdf /\ limit = a.limit /\ maxPages = a.maxPages
      BY <2>1 DEF Init
    <3>2. recorded = 0
      BY <2>1 DEF Init
    <3>. QED
      BY <2>1, <3>1, <3>2, IntakeAssumption
  <2>2. CASE step = "earlier"
    <3>1. PICK e \in Earlier : pdf = e.pdf /\ recorded = e.recorded /\ maxPages = e.maxPages
      BY <2>2 DEF Init
    <3>2. raw = <<>> /\ limit = 0
      BY <2>2 DEF Init
    <3>3. raw \in Seq(Characters)
      BY <3>2
    <3>. QED
      BY <2>2, <3>1, <3>2, <3>3, IntakeAssumption
  <2>. QED
    BY <2>1, <2>2 DEF Init
<1>2. pdf.size \in Nat /\ Len(pdf.pages) \in Nat
  BY <1>1, ExtractionAssumption DEF IsPdf
<1>3. ExtractInv
  BY <1>1, <1>2 DEF Init, InitExtraction, ExtractInv, PageClean
<1>4. received = 0 /\ Untouched
  BY DEF Init, InitExtraction, Untouched
<1>5. WorkerInv
  BY <1>1, <1>4 DEF WorkerInv, Untouched, Finished
<1>. QED
  BY <1>1, <1>2, <1>3, <1>4, <1>5, IntakeAssumption DEF IntakeInv

\* While an upload is not stored the worker has nothing to answer for.
LEMMA IdleWorker ==
    ASSUME WorkerInv, Untouched', maxPages' \in Nat, limit' \in Nat, recorded' \in Nat,
           (step = "stored" => /\ pdf.opens /\ ~pdf.locked
                               /\ 1 <= Len(pdf.pages) /\ Len(pdf.pages) <= limit
                               /\ recorded = Len(pdf.pages))'
    PROVE  WorkerInv'
BY DEF WorkerInv, Untouched, Finished

LEMMA IntakeInvStep == IntakeInv /\ [Next]_vars => IntakeInv'
<1> SUFFICES ASSUME IntakeInv, [Next]_vars PROVE IntakeInv'
  OBVIOUS
<1>1. pdf \in Pdfs /\ pdf.size \in Nat /\ Len(pdf.pages) \in Nat
  BY ExtractionAssumption DEF IntakeInv, ExtractInv, IsPdf
<1>2. ASSUME UNCHANGED extraction
      PROVE  ExtractInv' /\ pdf' = pdf /\ maxPages' = maxPages /\ (Untouched' <=> Untouched)
  <2>1. /\ pdf' = pdf /\ phase' = phase /\ outcome' = outcome /\ todo' = todo /\ left' = left
        /\ right' = right /\ ordered' = ordered /\ pages' = pages /\ maxPages' = maxPages
    BY <1>2 DEF extraction, page
  <2>2. ExtractInv'
    <3>1. \A p : ReadOn(p)' = ReadOn(p)
      BY <2>1, SameOrder
    <3>2. WalkOK => WalkOK'
      <4> SUFFICES ASSUME WalkOK PROVE WalkOK'
        OBVIOUS
      <4>1. Walked = Kept(pdf.pages[Page]) \ todo'
        BY <2>1 DEF Walked
      <4> DEFINE W == Walked
      <4>2. /\ Len(pages) < Len(pdf.pages)
            /\ todo' \subseteq Kept(pdf.pages[Page])
            /\ \A x \in W, y \in todo' : Above(Page, x, y)
            /\ left' \subseteq W /\ right' \subseteq W
            /\ \A b \in left' : InLeftColumn(Page, b)
            /\ \A b \in right' : ~InLeftColumn(Page, b) /\ ~CrossesMiddle(Page, b)
            /\ Follows(ordered', ReadOn(Page), W \ (left' \cup right'))
            /\ \A i \in 1..Len(ordered'), y \in left' \cup right' : Above(Page, ordered'[i], y)
            /\ ordered' # <<>> => CrossesMiddle(Page, ordered'[Len(ordered')])
            /\ \A i \in 1..Len(ordered') :
                i # Len(ordered') => Above(Page, ordered'[i], ordered'[Len(ordered')])
        BY <2>1 DEF WalkOK, BandOK
      <4> HIDE DEF W
      <4>3. W = Kept(pdf.pages[Page]) \ todo'
        BY <4>1 DEF W
      <4>. QED
        BY <2>1, <4>2, <4>3, WalkAfter
    <3>3. PageClean' <=> PageClean
      BY <2>1 DEF PageClean
    <3>. QED
      BY <2>1, <3>1, <3>2, <3>3 DEF ExtractInv, IntakeInv
  <2>. QED
    BY <2>1, <2>2 DEF Untouched
<1>3. CASE Name
  <2>1. /\ UNCHANGED extraction /\ raw' = raw /\ received' = received /\ step = "name"
        /\ limit' = limit /\ recorded' = recorded
        /\ \/ Usable(DisplayName(raw)) /\ name' = DisplayName(raw) /\ step' = "read"
           \/ step' = "rejected"
    BY <1>3 DEF Name, Conclude
  <2>2. ExtractInv' /\ pdf' = pdf /\ maxPages' = maxPages /\ (Untouched' <=> Untouched)
    BY <1>2, <2>1
  <2>3. step' = "read" => name' \in Seq(Characters) /\ Usable(name)' /\ Clean(name')
    BY <2>1, NamesAreClean DEF IntakeInv, Usable
  <2>4. WorkerInv'
    BY <2>1, <2>2, IdleWorker DEF IntakeInv, WorkerInv
  <2>. QED
    BY <2>1, <2>2, <2>3, <2>4 DEF IntakeInv
<1>4. CASE Read
  <2> DEFINE chunk == Smaller(ReadBytes, pdf.size - received)
  <2>1. /\ UNCHANGED extraction /\ raw' = raw /\ name' = name /\ received' = received + chunk /\ step = "read"
        /\ limit' = limit /\ recorded' = recorded
        /\ \/ chunk = 0 /\ step' = "validate"
           \/ chunk # 0 /\ received + chunk > MaxBytes /\ step' = "rejected"
           \/ chunk # 0 /\ ~(received + chunk > MaxBytes) /\ step' = "read"
    BY <1>4 DEF Read, Conclude
  <2>2. ExtractInv' /\ pdf' = pdf /\ maxPages' = maxPages /\ (Untouched' <=> Untouched)
    BY <1>2, <2>1
  <2>3. /\ chunk \in Nat /\ chunk <= ReadBytes /\ chunk <= pdf.size - received
        /\ chunk = 0 => received = pdf.size
    BY <1>1, IntakeAssumption DEF Smaller, IntakeInv
  <2> HIDE DEF chunk
  <2>4. /\ received' \in Nat /\ received' <= pdf.size /\ received' <= MaxBytes + ReadBytes
        /\ step' # "rejected" => received' <= MaxBytes
        /\ step' = "validate" => received' = pdf.size
    BY <1>1, <2>1, <2>3, IntakeAssumption DEF IntakeInv
  <2>5. name \in Seq(Characters) /\ Usable(name)' /\ Clean(name)
    BY <2>1 DEF IntakeInv, Usable
  <2>6. WorkerInv'
    BY <2>1, <2>2, IdleWorker DEF IntakeInv, WorkerInv
  <2>. QED
    BY <2>1, <2>2, <2>4, <2>5, <2>6 DEF IntakeInv
<1>5. CASE Validate
  <2>1. /\ UNCHANGED extraction /\ raw' = raw /\ name' = name /\ received' = received /\ step = "validate"
        /\ limit' = limit
        /\ \/ Refusal = "none" /\ step' = "stored" /\ recorded' = Len(pdf.pages)
           \/ step' = "rejected" /\ recorded' = recorded
    BY <1>5 DEF Validate, Conclude
  <2>2. ExtractInv' /\ pdf' = pdf /\ maxPages' = maxPages /\ (Untouched' <=> Untouched)
    BY <1>2, <2>1
  <2>3. Refusal = "none" => pdf.opens /\ ~pdf.locked /\ 1 <= Len(pdf.pages) /\ Len(pdf.pages) <= limit
    BY <1>1 DEF Refusal, IntakeInv, WorkerInv
  <2>4. name \in Seq(Characters) /\ Usable(name)' /\ Clean(name)
    BY <2>1 DEF IntakeInv, Usable
  <2>5. WorkerInv'
    BY <1>1, <2>1, <2>2, <2>3, IdleWorker DEF IntakeInv, WorkerInv
  <2>. QED
    BY <2>1, <2>2, <2>4, <2>5 DEF IntakeInv
<1>6. CASE Verify \/ Work \/ Judge
  <2>1. /\ step \in {"stored", "earlier"}
        /\ step' = step /\ raw' = raw /\ name' = name /\ received' = received
    BY <1>6 DEF Verify, Work, Judge, Stored, intake
  <2>2. ExtractInv' /\ pdf' = pdf
    <3>1. CASE Work
      BY <3>1, ExtractStep DEF Work, IntakeInv
    <3>2. CASE Verify \/ Judge
      <4>1. /\ pdf' = pdf /\ todo' = todo /\ left' = left /\ right' = right /\ ordered' = ordered
            /\ pages' = pages /\ phase \in {"idle", "done"} /\ phase' \in {"open", "done"}
            /\ phase' = "open" => phase = "idle"
        BY <3>2 DEF Verify, Judge, End, page, IntakeInv, WorkerInv
      <4>2. \A p : ReadOn(p)' = ReadOn(p)
        BY <4>1, SameOrder
      <4>. QED
        BY <4>1, <4>2 DEF ExtractInv, IntakeInv, PageClean
    <3>. QED
      BY <1>6, <3>1, <3>2
  <2>3. WorkerInv'
    BY <1>1, <1>6, WorkerStep DEF IntakeInv, ExtractInv
  <2>4. step = "stored" => name \in Seq(Characters) /\ Usable(name)' /\ Clean(name)
    BY <2>1 DEF IntakeInv, Usable
  <2>. QED
    BY <2>1, <2>2, <2>3, <2>4 DEF IntakeInv
<1>7. CASE UNCHANGED vars
  <2>1. /\ UNCHANGED extraction /\ step' = step /\ raw' = raw /\ name' = name /\ received' = received
        /\ limit' = limit /\ recorded' = recorded
    BY <1>7 DEF vars, intake
  <2>2. ExtractInv' /\ pdf' = pdf /\ maxPages' = maxPages /\ (Untouched' <=> Untouched)
    BY <1>2, <2>1
  <2>3. Usable(name)' <=> Usable(name)
    BY <2>1 DEF Usable
  <2>4. WorkerInv'
    BY <2>1 DEF extraction, page, IntakeInv, WorkerInv, Finished
  <2>. QED
    BY <2>1, <2>2, <2>3, <2>4 DEF IntakeInv
<1>. QED
  BY <1>3, <1>4, <1>5, <1>6, <1>7 DEF Next

\* Uploads and extractions keep their invariant, whatever arrives.
THEOREM IntakeIsInductive == Spec => []IntakeInv
BY IntakeInvInit, IntakeInvStep, PTL DEF Spec

\* A name that is stored by display_filename is safe to show, for every name a
\* client can send.
THEOREM StoredNamesAreSafe == Spec => []NameIsSafe
<1>1. IntakeInv => NameIsSafe
  <2> SUFFICES ASSUME IntakeInv, step = "stored" PROVE
        /\ Usable(name)
        /\ {name[i] : i \in DOMAIN name} \cap {"separator", "format"} = {}
        /\ name[1] # "space" /\ Last(name) # "space"
    BY DEF NameIsSafe
  <2>1. name \in Seq(Characters) /\ Usable(name) /\ Clean(name) /\ name # <<>>
    BY DEF IntakeInv, Usable
  <2>2. DOMAIN name = 1..Len(name)
    BY <2>1
  <2>. QED
    BY <2>1, <2>2 DEF Clean, Last
<1>. QED
  BY <1>1, IntakeIsInductive, PTL

\* read_capped holds at most one chunk more than the limit, whatever a file's size
\* and the limits are, and a stored file was read whole.
THEOREM UploadsFitInMemory == Spec => []MemoryIsBounded
<1>1. IntakeInv => MemoryIsBounded
  BY DEF IntakeInv, MemoryIsBounded
<1>. QED
  BY <1>1, IntakeIsInductive, PTL

\* For every file, recorded count and pair of caps, the worker parses a document
\* only within its own rules, and refuses one that the upload accepted only when its
\* cap is the lower one.
THEOREM WorkersDecideAfresh == Spec => []WorkerDecidesAfresh
<1>1. IntakeInv => WorkerDecidesAfresh
  <2> SUFFICES ASSUME IntakeInv PROVE WorkerDecidesAfresh
    OBVIOUS
  <2>1. Len(pdf.pages) \in Nat /\ WorkerInv
    BY ExtractionAssumption DEF IntakeInv, ExtractInv, IsPdf
  <2>. QED
    BY <2>1 DEF WorkerInv, Finished, WorkerDecidesAfresh
<1>. QED
  BY <1>1, IntakeIsInductive, PTL

\* reading_order puts the blocks of every page in a reader's order, for pages of any
\* number of blocks, wherever they lie.
THEOREM PagesReadInOrder == Spec => []HumanOrder
<1>1. IntakeInv => HumanOrder
  <2> SUFFICES ASSUME IntakeInv, NEW p \in DOMAIN pages, NEW i \in DOMAIN pages[p], NEW j \in DOMAIN pages[p], i < j
               PROVE  ReadBefore(p, pages[p][i], pages[p][j])
    BY DEF HumanOrder
  <2>1. pages \in Seq(Seq(Nat)) /\ p \in 1..Len(pages)
    BY DEF IntakeInv, ExtractInv
  <2>2. Follows(pages[p], ReadOn(p), Kept(pdf.pages[p]))
    BY <2>1 DEF IntakeInv, ExtractInv
  <2>3. DOMAIN pages[p] = 1..Len(pages[p])
    BY <2>2 DEF Follows
  <2>4. <<pages[p][i], pages[p][j]>> \in ReadOn(p)
    BY <2>2, <2>3 DEF Follows
  <2>. QED
    BY <2>4 DEF ReadOn
<1>. QED
  BY <1>1, IntakeIsInductive, PTL

\* No block is read before itself, so none is read twice.
LEMMA ReadOnce ==
    ASSUME pdf \in Pdfs, NEW p \in 1..Len(pdf.pages), NEW x
    PROVE  <<x, x>> \notin ReadOn(p)
<1> SUFFICES ASSUME <<x, x>> \in ReadOn(p) PROVE FALSE
  OBVIOUS
<1>1. x \in Kept(pdf.pages[p]) /\ ReadBefore(p, x, x)
  BY DEF ReadOn
<1>2. ~Above(p, x, x)
  BY <1>1, PageBlocks, AboveIs
<1>. QED
  BY <1>1, <1>2 DEF ReadBefore

\* reading_order loses no block and repeats none: a finished page is a list of its
\* readable blocks.
THEOREM PagesReadWhole == Spec => []AllTextOnce
<1>1. IntakeInv => AllTextOnce
  <2> SUFFICES ASSUME IntakeInv, NEW p \in DOMAIN pages
               PROVE  /\ {pages[p][i] : i \in DOMAIN pages[p]} = Kept(pdf.pages[p])
                      /\ Len(pages[p]) = Cardinality(Kept(pdf.pages[p]))
    BY DEF AllTextOnce
  <2> DEFINE s == pages[p]
             K == Kept(pdf.pages[p])
  <2>1. /\ pdf \in Pdfs /\ pages \in Seq(Seq(Nat)) /\ p \in 1..Len(pages)
        /\ Len(pages) <= Len(pdf.pages) /\ Len(pages) \in Nat
    BY DEF IntakeInv, ExtractInv
  <2>2. Follows(s, ReadOn(p), K)
    BY <2>1 DEF IntakeInv, ExtractInv
  <2>3. p \in 1..Len(pdf.pages)
    <3>1. Len(pdf.pages) \in Nat
      BY <2>1, ExtractionAssumption DEF IsPdf
    <3>. QED
      BY <2>1, <3>1
  <2>4. IsFiniteSet(K)
    BY <2>1, <2>3, PageBlocks, FS_Subset
  <2> HIDE DEF s, K
  <2>5. s \in Seq(K) /\ DOMAIN s = 1..Len(s) /\ Len(s) \in Nat /\ s \in [1..Len(s) -> K]
    BY <2>2 DEF Follows
  <2>6. {s[i] : i \in DOMAIN s} = K
    BY <2>2, <2>5 DEF Follows
  <2>7. \A i, j \in 1..Len(s) : s[i] = s[j] => i = j
    <3> SUFFICES ASSUME NEW i \in 1..Len(s), NEW j \in 1..Len(s), s[i] = s[j], i < j PROVE FALSE
      BY <2>5
    <3>1. <<s[i], s[i]>> \in ReadOn(p)
      BY <2>2 DEF Follows
    <3>. QED
      BY <2>1, <2>3, <3>1, ReadOnce
  <2>8. s \in Bijection(1..Len(s), K)
    BY <2>2, <2>5, <2>7 DEF Bijection, Injection, Surjection, IsInjective, Follows
  <2>9. Len(s) = Cardinality(K)
    <3>1. IsFiniteSet(1..Len(s)) /\ Cardinality(1..Len(s)) = Len(s)
      <4> DEFINE n == Len(s)
      <4>1. n \in Nat
        BY <2>5
      <4> HIDE DEF n
      <4>2. IsFiniteSet(1..n) /\ Cardinality(1..n) = n
        BY <4>1, FS_Interval
      <4>. QED
        BY <4>2 DEF n
    <3>. QED
      BY <2>4, <2>8, <3>1, FS_Bijection DEF ExistsBijection
  <2>. QED
    BY <2>6, <2>9 DEF s, K
<1>. QED
  BY <1>1, IntakeIsInductive, PTL

=============================================================================
