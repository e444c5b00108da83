--------------------------- MODULE CatalogPagesProofs ---------------------------
(***************************************************************************)
(* What a client receives that reads a listing page by page while the      *)
(* catalog changes, proved for every catalog, page size and limit: rows    *)
(* come in order, unchanged results once, all of them, and as many as the  *)
(* count announced.  The argument is the order of the cursor: whatever     *)
(* more than a page of rows lies ahead of also lies behind the cursor of   *)
(* that page.                                                              *)
(***************************************************************************)
EXTENDS CatalogPages, FiniteSetTheorems, TLAPS

-----------------------------------------------------------------------------
(* The order of rows.                                                      *)

RowRec == [id : Nat, tier : Nat, rank : Nat, mt : Nat]

\* Rows are totally ordered.
LEMMA RowsAreOrdered ==
  /\ \A r, s \in RowRec : r # s => Ahead(r, s) \/ Ahead(s, r)
  /\ \A r, s \in RowRec : Ahead(r, s) => r # s /\ ~Ahead(s, r)
  /\ \A r, s, t \in RowRec : Ahead(r, s) /\ Ahead(s, t) => Ahead(r, t)
<1>1. ASSUME NEW r \in RowRec, NEW s \in RowRec, r # s PROVE Ahead(r, s) \/ Ahead(s, r)
  <2>1. /\ r.id \in Nat /\ r.tier \in Nat /\ r.rank \in Nat /\ r.mt \in Nat
        /\ s.id \in Nat /\ s.tier \in Nat /\ s.rank \in Nat /\ s.mt \in Nat
    BY DEF RowRec
  <2>2. r.id # s.id \/ r.tier # s.tier \/ r.rank # s.rank \/ r.mt # s.mt
    BY <1>1 DEF RowRec
  <2> QED
    BY <2>1, <2>2 DEF Ahead
<1>2. ASSUME NEW r \in RowRec, NEW s \in RowRec, Ahead(r, s) PROVE r # s /\ ~Ahead(s, r)
  BY <1>2 DEF RowRec, Ahead
<1>3. ASSUME NEW r \in RowRec, NEW s \in RowRec, NEW t \in RowRec, Ahead(r, s), Ahead(s, t) PROVE Ahead(r, t)
  BY <1>3 DEF RowRec, Ahead
<1> QED
  BY <1>1, <1>2, <1>3

\* Each place in a finite set of rows is taken by one row, and the rows ahead of a
\* row have the places before its own.
LEMMA PlacesTaken ==
  ASSUME NEW S \in SUBSET RowRec, IsFiniteSet(S)
  PROVE  /\ Cardinality(S) \in Nat
         /\ \A r \in S : Place(r, S) \in 1..Cardinality(S)
         /\ \A r, s \in S : Ahead(r, s) => Place(r, S) < Place(s, S)
         /\ \A r, s \in S : Place(r, S) = Place(s, S) => r = s
         /\ \A i \in 1..Cardinality(S) : \E r \in S : Place(r, S) = i
<1> DEFINE Before(r) == {o \in S : Ahead(o, r)}
<1>0. Cardinality(S) \in Nat
  BY FS_CardinalityType
<1>1. ASSUME NEW r \in S PROVE IsFiniteSet(Before(r)) /\ Cardinality(Before(r)) \in Nat
  <2>1. Before(r) \in SUBSET S
    OBVIOUS
  <2>2. IsFiniteSet(Before(r))
    BY <2>1, FS_Subset
  <2> QED
    BY <2>2, FS_CardinalityType
<1>2. ASSUME NEW r \in S PROVE Place(r, S) \in 1..Cardinality(S)
  <2>1. r \notin Before(r)
    BY RowsAreOrdered
  <2>2. Before(r) \in SUBSET (S \ {r})
    BY <2>1
  <2>3. IsFiniteSet(S \ {r}) /\ Cardinality(S \ {r}) = Cardinality(S) - 1
    BY FS_RemoveElement
  <2>4. Cardinality(Before(r)) <= Cardinality(S) - 1
    BY <2>2, <2>3, FS_Subset
  <2> QED
    BY <1>0, <1>1, <2>4 DEF Place
<1>3. ASSUME NEW r \in S, NEW s \in S, Ahead(r, s) PROVE Place(r, S) < Place(s, S)
  <2>1. r \notin Before(r)
    BY RowsAreOrdered
  <2>2. Before(r) \cup {r} \in SUBSET Before(s)
    BY <1>3, RowsAreOrdered
  <2>3. Cardinality(Before(r) \cup {r}) = Cardinality(Before(r)) + 1
    BY <1>1, <2>1, FS_AddElement
  <2>4. Cardinality(Before(r) \cup {r}) <= Cardinality(Before(s))
    BY <1>1, <2>2, FS_Subset
  <2> QED
    BY <1>1, <2>3, <2>4 DEF Place
<1>4. ASSUME NEW r \in S, NEW s \in S, Place(r, S) = Place(s, S) PROVE r = s
  <2>1. Place(r, S) \in Nat
    BY <1>2
  <2> QED
    BY <1>3, <1>4, <2>1, RowsAreOrdered
<1>5. ASSUME NEW i \in 1..Cardinality(S) PROVE \E r \in S : Place(r, S) = i
  <2> DEFINE f == [r \in S |-> Place(r, S)]
  <2> DEFINE T == 1..Cardinality(S)
  <2>1. IsFiniteSet(T) /\ Cardinality(T) = Cardinality(S)
    BY <1>0, FS_Interval
  <2>2. f \in Injection(S, T)
    BY <1>2, <1>4 DEF Injection, IsInjective
  <2>3. f \in Surjection(S, T)
    BY <2>1, <2>2, FS_Injection
  <2>4. \E r \in S : f[r] = i
    BY <2>3 DEF Surjection
  <2> QED
    BY <2>4
<1> QED
  BY <1>0, <1>2, <1>3, <1>4, <1>5

\* A listing in order has the rows of its set, each once, the first ones ahead.
LEMMA OrderedListing ==
  ASSUME NEW S \in SUBSET RowRec, IsFiniteSet(S)
  PROVE  /\ InOrder(S) \in Seq(RowRec) /\ Len(InOrder(S)) = Cardinality(S) /\ Cardinality(S) \in Nat
         /\ \A i \in 1..Len(InOrder(S)) : InOrder(S)[i] \in S
         /\ \A r \in S : \E i \in 1..Len(InOrder(S)) : InOrder(S)[i] = r
         /\ \A i, j \in 1..Len(InOrder(S)) : i < j => Ahead(InOrder(S)[i], InOrder(S)[j])
<1> DEFINE n == Cardinality(S)
<1> DEFINE s == InOrder(S)
<1>1. n \in Nat
  BY PlacesTaken
<1>2. ASSUME NEW i \in 1..n PROVE s[i] \in S /\ Place(s[i], S) = i
  <2>1. s[i] = CHOOSE r \in S : Place(r, S) = i
    BY DEF InOrder
  <2>2. \E r \in S : Place(r, S) = i
    BY PlacesTaken
  <2> QED
    BY <2>1, <2>2
<1>3. s \in [1..n -> RowRec]
  <2>1. s = [i \in 1..n |-> s[i]]
    BY DEF InOrder
  <2> QED
    BY <1>2, <2>1
<1>4. s \in Seq(RowRec) /\ Len(s) = n
  BY <1>1, <1>3
<1>5. ASSUME NEW r \in S PROVE \E i \in 1..n : s[i] = r
  <2>1. Place(r, S) \in 1..n
    BY PlacesTaken
  <2>2. s[Place(r, S)] \in S /\ Place(s[Place(r, S)], S) = Place(r, S)
    BY <1>2, <2>1
  <2>3. s[Place(r, S)] = r
    BY <2>2, PlacesTaken
  <2> QED
    BY <2>1, <2>3
<1>6. ASSUME NEW i \in 1..n, NEW j \in 1..n, i < j PROVE Ahead(s[i], s[j])
  <2>1. s[i] \in S /\ s[j] \in S /\ Place(s[i], S) = i /\ Place(s[j], S) = j
    BY <1>2
  <2>2. s[i] # s[j] /\ ~Ahead(s[j], s[i])
    BY <1>6, <2>1, PlacesTaken
  <2> QED
    BY <2>1, <2>2, RowsAreOrdered
<1> QED
  BY <1>1, <1>2, <1>4, <1>5, <1>6

\* When at least n rows lie ahead of a row, the n-th of the listing does.
LEMMA AheadOfTheNth ==
  ASSUME NEW S \in SUBSET RowRec, IsFiniteSet(S), NEW r \in RowRec, NEW n \in Nat \ {0},
         NEW X \in SUBSET S, \A x \in X : Ahead(x, r), Cardinality(X) >= n
  PROVE  n <= Len(InOrder(S)) /\ Ahead(InOrder(S)[n], r)
<1> DEFINE s == InOrder(S)
<1>1. IsFiniteSet(X) /\ Cardinality(X) <= Cardinality(S) /\ Cardinality(X) \in Nat
  BY FS_Subset, FS_CardinalityType
<1>2. n \in 1..Len(s) /\ s[n] \in S /\ Len(s) = Cardinality(S) /\ Cardinality(S) \in Nat
  BY <1>1, OrderedListing
<1>3. SUFFICES ASSUME ~Ahead(s[n], r) PROVE FALSE
  BY <1>2
<1> DEFINE T == 1..(n - 1)
<1>4. ASSUME NEW x \in X PROVE Place(x, S) \in T
  <2>1. PICK i \in 1..Len(s) : s[i] = x
    BY OrderedListing
  <2>2. ~(n < i)
    BY <1>2, <1>3, <2>1, OrderedListing, RowsAreOrdered
  <2>3. i # n
    BY <1>3, <2>1
  <2>4. Ahead(x, s[n])
    BY <1>2, <2>1, <2>2, <2>3, OrderedListing
  <2>5. Place(x, S) < Place(s[n], S) /\ Place(x, S) \in 1..Cardinality(S)
    BY <1>2, <2>4, PlacesTaken
  <2>6. Place(s[n], S) = n
    <3>1. s[n] = CHOOSE o \in S : Place(o, S) = n
      BY <1>2 DEF InOrder
    <3>2. \E o \in S : Place(o, S) = n
      BY <1>2, PlacesTaken
    <3> QED
      BY <3>1, <3>2
  <2> QED
    BY <2>5, <2>6
<1> DEFINE f == [x \in X |-> Place(x, S)]
<1>5. f \in Injection(X, T)
  BY <1>4, PlacesTaken DEF Injection, IsInjective
<1>6. IsFiniteSet(T) /\ Cardinality(T) = n - 1
  BY FS_Interval
<1>7. Cardinality(X) <= n - 1
  BY <1>5, <1>6, FS_Injection
<1> QED
  BY <1>1, <1>7

\* A finite set that is not empty has a row that no other is ahead of.
LEMMA FirstRow ==
  ASSUME NEW S \in SUBSET RowRec, IsFiniteSet(S), S # {}
  PROVE  \E r \in S : \A o \in S : ~Ahead(o, r)
<1>1. 1 \in 1..Cardinality(S)
  BY FS_EmptySet, PlacesTaken
<1>2. PICK r \in S : Place(r, S) = 1
  BY <1>1, PlacesTaken
<1>3. ASSUME NEW o \in S PROVE ~Ahead(o, r)
  <2>1. Place(o, S) \in 1..Cardinality(S)
    BY PlacesTaken
  <2> QED
    BY <1>2, <2>1, PlacesTaken
<1> QED
  BY <1>3

-----------------------------------------------------------------------------
(* The rows of a listing.                                                  *)

CatalogOK ==
  /\ mtime \in [Assets -> Nat] /\ stored \in [Assets -> Nat] /\ rank \in [Assets -> Ranks]
  /\ text \in [Assets -> SUBSET Texts]
  /\ active \in SUBSET Assets /\ gone \in SUBSET Assets /\ derived \in SUBSET Assets

\* The image of a finite set is finite.
LEMMA FiniteImage ==
  ASSUME NEW D, IsFiniteSet(D), NEW f, f = [x \in D |-> f[x]]
  PROVE  IsFiniteSet({f[x] : x \in D})
<1> DEFINE T == {f[x] : x \in D}
<1>1. f \in Surjection(D, T)
  BY DEF Surjection
<1> QED
  BY <1>1, FS_Surjection

\* The assets are finitely many, and so are any of them.
LEMMA FiniteAssets ==
  ASSUME NEW D \in SUBSET Assets
  PROVE  IsFiniteSet(D) /\ Cardinality(D) \in Nat
BY PagesAssumption, FS_Subset, FS_CardinalityType

\* What the rows of an asset are made of.
LEMMA RowsOfAssets ==
  ASSUME CatalogOK, NEW a \in Assets
  PROVE  /\ \A s \in Texts : Copy(a, s) \in RowRec /\ Copy(a, s).id = a
         /\ Filtered(a) \in RowRec /\ Filtered(a).id = a
         /\ Inspected(a) \in RowRec /\ Inspected(a).id = a
         /\ Document(a) \in RowRec /\ Document(a).id = a
         /\ Listed(a) \in RowRec /\ Listed(a).id = a
<1>1. a \in Nat /\ mtime[a] \in Nat /\ stored[a] \in Nat /\ rank[a] \in Nat
  BY PagesAssumption DEF CatalogOK, Ranks
<1>2. \A s \in Texts : TierOf[s] \in Nat
  BY DEF Texts, TierOf
<1> QED
  BY <1>1, <1>2 DEF Copy, Filtered, Inspected, Document, Listed, Row, RowRec

\* The copies of a set of assets.
LEMMA CopiesAreRows ==
  ASSUME CatalogOK, NEW found \in SUBSET Assets, NEW s \in Texts
  PROVE  /\ CopiesOf(found, s) \in SUBSET RowRec /\ IsFiniteSet(CopiesOf(found, s))
         /\ \A r : r \in CopiesOf(found, s) <=> r.id \in found /\ Usable(r.id, s) /\ r = Copy(r.id, s)
<1> DEFINE D == {b \in found : Usable(b, s)}
<1> DEFINE f == [a \in D |-> Copy(a, s)]
<1>1. CopiesOf(found, s) = {f[a] : a \in D}
  BY DEF CopiesOf
<1>2. IsFiniteSet(D)
  BY FiniteAssets
<1>3. IsFiniteSet({f[a] : a \in D})
  BY <1>2, FiniteImage
<1>4. \A r : r \in CopiesOf(found, s) <=> r.id \in found /\ Usable(r.id, s) /\ r = Copy(r.id, s)
  BY RowsOfAssets DEF CopiesOf
<1>5. CopiesOf(found, s) \in SUBSET RowRec
  BY RowsOfAssets DEF CopiesOf
<1>6. IsFiniteSet(CopiesOf(found, s))
  BY <1>1, <1>3
<1> QED
  BY <1>4, <1>5, <1>6

\* All copies, column by column.
LEMMA CopiesByText ==
  ASSUME CatalogOK
  PROVE  /\ Copies \in SUBSET RowRec /\ IsFiniteSet(Copies)
         /\ \A r : r \in Copies <=> \E s \in Texts : r \in CopiesOf({a \in Assets : s \in text[a]}, s)
<1> DEFINE C(s) == CopiesOf({a \in Assets : s \in text[a]}, s)
<1>1. Copies = (C("name") \cup C("prompt")) \cup C("negative")
  BY DEF Copies, Texts
<1>2. \A s \in Texts : C(s) \in SUBSET RowRec /\ IsFiniteSet(C(s))
  <2> SUFFICES ASSUME NEW s \in Texts PROVE C(s) \in SUBSET RowRec /\ IsFiniteSet(C(s))
    OBVIOUS
  <2>1. {a \in Assets : s \in text[a]} \in SUBSET Assets
    OBVIOUS
  <2> QED
    BY <2>1, CopiesAreRows
<1>3. "name" \in Texts /\ "prompt" \in Texts /\ "negative" \in Texts
  BY DEF Texts
<1>4. IsFiniteSet(C("name") \cup C("prompt"))
  BY <1>2, <1>3, FS_Union
<1>5. IsFiniteSet((C("name") \cup C("prompt")) \cup C("negative"))
  BY <1>2, <1>3, <1>4, FS_Union
<1> QED
  BY <1>1, <1>2, <1>3, <1>5 DEF Copies

\* The rows of one asset each, by kind.
LEMMA ResultsOfAssets ==
  ASSUME CatalogOK
  PROVE  /\ \A r : r \in Results("fields") <=>
              r.id \in active /\ "prompt" \in text[r.id] /\ Current(r.id) /\ r = Filtered(r.id)
         /\ \A r : r \in Results("raw") <=>
              r.id \in active \cap derived /\ "prompt" \in text[r.id] /\ r = Document(r.id)
         /\ \A r : r \in Results("inspector") <=>
              r.id \in active \ gone /\ Current(r.id) /\ r = Inspected(r.id)
         /\ \A r : r \in Results("browse") <=> r.id \in active /\ r = Listed(r.id)
<1>1. active \subseteq Assets
  BY DEF CatalogOK
<1>2. ASSUME NEW r
      PROVE  r \in Results("fields") <=>
               r.id \in active /\ "prompt" \in text[r.id] /\ Current(r.id) /\ r = Filtered(r.id)
  <2>1. Results("fields") = {Filtered(a) : a \in {b \in active : "prompt" \in text[b] /\ Current(b)}}
    BY DEF Results
  <2> QED
    BY <1>1, <2>1, RowsOfAssets
<1>3. ASSUME NEW r
      PROVE  r \in Results("raw") <=>
               r.id \in active \cap derived /\ "prompt" \in text[r.id] /\ r = Document(r.id)
  <2>1. Results("raw") = {Document(a) : a \in {b \in active \cap derived : "prompt" \in text[b]}}
    BY DEF Results, Documents
  <2> QED
    BY <1>1, <2>1, RowsOfAssets
<1>4. ASSUME NEW r
      PROVE  r \in Results("inspector") <=> r.id \in active \ gone /\ Current(r.id) /\ r = Inspected(r.id)
  <2>1. Results("inspector") = {Inspected(a) : a \in {b \in active \ gone : Current(b)}}
    BY DEF Results
  <2> QED
    BY <1>1, <2>1, RowsOfAssets
<1>5. ASSUME NEW r PROVE r \in Results("browse") <=> r.id \in active /\ r = Listed(r.id)
  <2>1. Results("browse") = {Listed(a) : a \in active}
    BY DEF Results
  <2> QED
    BY <1>1, <2>1, RowsOfAssets
<1> QED
  BY <1>2, <1>3, <1>4, <1>5

\* A prompt that is in use has a newest file.
LEMMA GroupsAreRows ==
  ASSUME CatalogOK, NEW v \in {PromptOf[a] : a \in active \cap derived}
  PROVE  Group(v) \in RowRec /\ Group(v).id = v
<1> DEFINE U == UsersOf(v)
<1>1. U \in SUBSET Assets /\ U # {}
  BY DEF UsersOf, CatalogOK
<1>2. IsFiniteSet(U) /\ Cardinality(U) \in Nat
  BY <1>1, FiniteAssets
<1>3. v \in Nat
  BY PagesAssumption DEF CatalogOK
<1> DEFINE f == [a \in U |-> Row(a, 0, 0, mtime[a])]
<1> DEFINE S == {f[a] : a \in U}
<1>4. \A a \in U : f[a] \in RowRec /\ f[a].mt = mtime[a] /\ f[a].tier = 0 /\ f[a].rank = 0 /\ mtime[a] \in Nat
  BY <1>1, PagesAssumption DEF Row, RowRec, CatalogOK
<1>5. S \in SUBSET RowRec /\ S # {}
  BY <1>1, <1>4
<1>6. IsFiniteSet(S)
  <2>1. f = [a \in U |-> f[a]]
    OBVIOUS
  <2> HIDE DEF f, U
  <2> QED
    BY <1>2, <2>1, FiniteImage
<1>7. PICK r \in S : \A o \in S : ~Ahead(o, r)
  BY <1>5, <1>6, FirstRow
<1>8. PICK n \in U : f[n] = r
  BY <1>7
<1>9. \A a \in U : mtime[a] <= mtime[n]
  <2> SUFFICES ASSUME NEW a \in U PROVE mtime[a] <= mtime[n]
    OBVIOUS
  <2>1. ~Ahead(f[a], f[n])
    BY <1>7, <1>8
  <2> QED
    BY <1>4, <2>1 DEF Ahead
<1>10. Newest(U) \in {mtime[a] : a \in U}
  BY <1>8, <1>9 DEF Newest
<1>11. Newest(U) \in Nat
  BY <1>4, <1>10
<1> QED
  BY <1>2, <1>3, <1>11 DEF Group, Row, RowRec

LEMMA ResultsOfPrompts ==
  ASSUME CatalogOK
  PROVE  \A r : r \in Results("usage") <=>
           r.id \in {PromptOf[a] : a \in active \cap derived} /\ r = Group(r.id)
<1>1. Results("usage") = {Group(v) : v \in {PromptOf[a] : a \in active \cap derived}}
  BY DEF Results, Groups
<1> QED
  BY <1>1, GroupsAreRows

Copied == {"plain", "legacy", "scoped"}

\* Every listing is a finite set of rows.
LEMMA ResultsAreRows ==
  ASSUME CatalogOK, NEW kind \in Kinds
  PROVE  Results(kind) \in SUBSET RowRec /\ IsFiniteSet(Results(kind))
<1>0. active \subseteq Assets
  BY DEF CatalogOK
<1>1. CASE kind \in Copied
  <2>1. Results(kind) = Copies
    BY <1>1 DEF Copied, Results
  <2> QED
    BY <2>1, CopiesByText
<1>2. CASE kind = "fields"
  <2> DEFINE D == {b \in active : "prompt" \in text[b] /\ Current(b)}
  <2> DEFINE f == [a \in D |-> Filtered(a)]
  <2>1. Results(kind) = {f[a] : a \in D}
    BY <1>2 DEF Results
  <2>2. IsFiniteSet(D)
    BY <1>0, FiniteAssets
  <2>3. IsFiniteSet({f[a] : a \in D})
    BY <2>2, FiniteImage
  <2>4. Results(kind) \in SUBSET RowRec
    BY <1>0, <2>1, RowsOfAssets
  <2> QED
    BY <2>1, <2>3, <2>4
<1>3. CASE kind = "raw"
  <2> DEFINE D == {b \in active \cap derived : "prompt" \in text[b]}
  <2> DEFINE f == [a \in D |-> Document(a)]
  <2>1. Results(kind) = {f[a] : a \in D}
    BY <1>3 DEF Results, Documents
  <2>2. IsFiniteSet(D)
    BY <1>0, FiniteAssets
  <2>3. IsFiniteSet({f[a] : a \in D})
    BY <2>2, FiniteImage
  <2>4. Results(kind) \in SUBSET RowRec
    BY <1>0, <2>1, RowsOfAssets
  <2> QED
    BY <2>1, <2>3, <2>4
<1>4. CASE kind = "inspector"
  <2> DEFINE D == {b \in active \ gone : Current(b)}
  <2> DEFINE f == [a \in D |-> Inspected(a)]
  <2>1. Results(kind) = {f[a] : a \in D}
    BY <1>4 DEF Results
  <2>2. IsFiniteSet(D)
    BY <1>0, FiniteAssets
  <2>3. IsFiniteSet({f[a] : a \in D})
    BY <2>2, FiniteImage
  <2>4. Results(kind) \in SUBSET RowRec
    BY <1>0, <2>1, RowsOfAssets
  <2> QED
    BY <2>1, <2>3, <2>4
<1>5. CASE kind = "browse"
  <2> DEFINE f == [a \in active |-> Listed(a)]
  <2>1. Results(kind) = {f[a] : a \in active}
    BY <1>5 DEF Results
  <2>2. IsFiniteSet(active)
    BY <1>0, FiniteAssets
  <2>3. IsFiniteSet({f[a] : a \in active})
    BY <2>2, FiniteImage
  <2>4. Results(kind) \in SUBSET RowRec
    BY <1>0, <2>1, RowsOfAssets
  <2> QED
    BY <2>1, <2>3, <2>4
<1>6. CASE kind = "usage"
  <2> DEFINE D == active \cap derived
  <2> DEFINE p == [a \in D |-> PromptOf[a]]
  <2> DEFINE V == {p[a] : a \in D}
  <2> DEFINE f == [v \in V |-> Group(v)]
  <2>1. V = {PromptOf[a] : a \in active \cap derived}
    OBVIOUS
  <2>2. IsFiniteSet(D)
    BY <1>0, FiniteAssets
  <2>3. IsFiniteSet(V)
    BY <2>2, FiniteImage
  <2> HIDE DEF V
  <2>4. IsFiniteSet({f[v] : v \in V})
    BY <2>3, FiniteImage
  <2>5. Results(kind) = {f[v] : v \in V}
    BY <1>6, <2>1 DEF Results, Groups
  <2>6. \A v \in V : f[v] \in RowRec
    BY <2>1, GroupsAreRows
  <2> QED
    BY <2>4, <2>5, <2>6
<1> QED
  BY <1>1, <1>2, <1>3, <1>4, <1>5, <1>6 DEF Kinds, Searches, Copied

\* But for the copies of searches, an id has one row.
LEMMA OneRowEach ==
  ASSUME CatalogOK, NEW kind \in Kinds \ Copied
  PROVE  \A r, o \in Results(kind) : r.id = o.id => r = o
<1>1. kind \in {"fields", "raw", "inspector", "browse", "usage"}
  BY DEF Kinds, Searches, Copied
<1> QED
  BY <1>1, ResultsOfAssets, ResultsOfPrompts

-----------------------------------------------------------------------------
(* Preselections and candidates.                                           *)

\* What is among the first is ahead of what is not; a limit that is not reached
\* leaves nothing out.
LEMMA FirstOnes ==
  ASSUME NEW D, IsFiniteSet(D), NEW rows, DOMAIN rows = D, \A a \in D : rows[a] \in RowRec, NEW n \in Nat
  PROVE  /\ First(n, rows) \in SUBSET D
         /\ \A a \in First(n, rows), b \in D \ First(n, rows) : Ahead(rows[a], rows[b])
         /\ Cardinality(D) <= n => First(n, rows) = D
<1> DEFINE Before(a) == {b \in D : Ahead(rows[b], rows[a])}
<1>1. \A a \in D : a \in First(n, rows) <=> Cardinality(Before(a)) < n
  BY DEF First
<1>2. ASSUME NEW a \in D PROVE IsFiniteSet(Before(a)) /\ Cardinality(Before(a)) \in Nat
  <2>1. Before(a) \in SUBSET D
    OBVIOUS
  <2>2. IsFiniteSet(Before(a))
    BY <2>1, FS_Subset
  <2> QED
    BY <2>2, FS_CardinalityType
<1>3. First(n, rows) \in SUBSET D
  BY DEF First
<1>4. ASSUME NEW a \in First(n, rows), NEW b \in D \ First(n, rows) PROVE Ahead(rows[a], rows[b])
  <2>1. a \in D /\ b \in D /\ Cardinality(Before(a)) < n /\ ~(Cardinality(Before(b)) < n)
    BY <1>1, <1>3, <1>4
  <2>2. SUFFICES ASSUME ~Ahead(rows[a], rows[b]) PROVE FALSE
    OBVIOUS
  <2>3. Before(b) \in SUBSET Before(a)
    BY <2>1, <2>2, RowsAreOrdered
  <2>4. Cardinality(Before(b)) <= Cardinality(Before(a))
    BY <1>2, <2>1, <2>3, FS_Subset
  <2>5. Cardinality(Before(a)) \in Nat /\ Cardinality(Before(b)) \in Nat
    BY <1>2, <2>1
  <2> HIDE DEF Before
  <2> QED
    BY <2>1, <2>4, <2>5
<1>5. ASSUME Cardinality(D) <= n PROVE First(n, rows) = D
  <2>1. ASSUME NEW a \in D PROVE a \in First(n, rows)
    <3>1. Before(a) \in SUBSET (D \ {a})
      BY RowsAreOrdered
    <3>2. IsFiniteSet(D \ {a}) /\ Cardinality(D \ {a}) = Cardinality(D) - 1 /\ Cardinality(D) \in Nat
      BY FS_RemoveElement, FS_CardinalityType
    <3>3. Cardinality(Before(a)) <= Cardinality(D) - 1
      BY <3>1, <3>2, FS_Subset
    <3>4. Cardinality(Before(a)) \in Nat /\ (a \in First(n, rows) <=> Cardinality(Before(a)) < n)
      BY <1>1, <1>2
    <3> HIDE DEF Before
    <3> QED
      BY <1>5, <3>2, <3>3, <3>4
  <2> QED
    BY <1>3, <2>1
<1> QED
  BY <1>3, <1>4, <1>5

\* The metadata rows a search preselects.
LEMMA SearchPreselection ==
  ASSUME CatalogOK, NEW s \in Texts, NEW limit \in Nat
  PROVE  /\ Matching(s) \in SUBSET Assets /\ \A a \in Matching(s) : s \in text[a]
         /\ Preselected(s, limit) \in SUBSET Matching(s)
         /\ \A a \in Preselected(s, limit), b \in Matching(s) \ Preselected(s, limit) :
              Ahead(PreRow(a, s), PreRow(b, s))
         /\ Cardinality(Matching(s)) <= limit => Preselected(s, limit) = Matching(s)
<1> DEFINE D == Matching(s)
<1> DEFINE f == [a \in D |-> PreRow(a, s)]
<1>1. D \in SUBSET Assets /\ \A a \in D : s \in text[a]
  BY DEF Matching
<1>2. IsFiniteSet(D)
  BY <1>1, FiniteAssets
<1>3. ASSUME NEW a \in Assets PROVE PreRow(a, s) \in RowRec
  <2>1. RowId[a] \in Nat /\ stored[a] \in Nat /\ rank[a] \in Nat
    BY PagesAssumption DEF CatalogOK, Ranks
  <2>2. TierOf[s] \in Nat
    BY DEF Texts, TierOf
  <2> QED
    BY <2>1, <2>2, RowsOfAssets DEF PreRow, Row, RowRec
<1>4. Preselected(s, limit) = First(limit, f) /\ DOMAIN f = D /\ \A a \in D : f[a] \in RowRec /\ f[a] = PreRow(a, s)
  BY <1>1, <1>3 DEF Preselected
<1> HIDE DEF f, D
<1>5. /\ First(limit, f) \in SUBSET D
      /\ \A a \in First(limit, f), b \in D \ First(limit, f) : Ahead(f[a], f[b])
      /\ Cardinality(D) <= limit => First(limit, f) = D
  BY <1>2, <1>4, FirstOnes
<1>6. /\ Preselected(s, limit) \in SUBSET D
      /\ \A a \in Preselected(s, limit), b \in D \ Preselected(s, limit) : Ahead(PreRow(a, s), PreRow(b, s))
      /\ Cardinality(D) <= limit => Preselected(s, limit) = D
  BY <1>4, <1>5
<1> QED
  BY <1>1, <1>6 DEF D

LEMMA FieldPreselection ==
  ASSUME CatalogOK, NEW limit \in Nat
  PROVE  /\ FieldMatching \in SUBSET Assets
         /\ FieldPreselected(limit) \in SUBSET FieldMatching
         /\ \A a \in FieldPreselected(limit), b \in FieldMatching \ FieldPreselected(limit) :
              Ahead(Filtered(a), Filtered(b))
         /\ Cardinality(FieldMatching) <= limit => FieldPreselected(limit) = FieldMatching
<1> DEFINE D == FieldMatching
<1> DEFINE f == [a \in D |-> Filtered(a)]
<1>1. D \in SUBSET Assets
  BY DEF FieldMatching, CatalogOK
<1>2. IsFiniteSet(D)
  BY <1>1, FiniteAssets
<1>4. FieldPreselected(limit) = First(limit, f) /\ DOMAIN f = D /\ \A a \in D : f[a] \in RowRec /\ f[a] = Filtered(a)
  BY <1>1, RowsOfAssets DEF FieldPreselected
<1> HIDE DEF f, D
<1>5. /\ First(limit, f) \in SUBSET D
      /\ \A a \in First(limit, f), b \in D \ First(limit, f) : Ahead(f[a], f[b])
      /\ Cardinality(D) <= limit => First(limit, f) = D
  BY <1>2, <1>4, FirstOnes
<1>6. /\ FieldPreselected(limit) \in SUBSET D
      /\ \A a \in FieldPreselected(limit), b \in D \ FieldPreselected(limit) : Ahead(Filtered(a), Filtered(b))
      /\ Cardinality(D) <= limit => FieldPreselected(limit) = D
  BY <1>4, <1>5
<1> QED
  BY <1>1, <1>6 DEF D

LEMMA InspectorPreselection ==
  ASSUME CatalogOK, NEW limit \in Nat
  PROVE  /\ InspectorMatching \in SUBSET active /\ InspectorMatching \in SUBSET Assets
         /\ \A a \in InspectorPreselected(limit) : a \in InspectorMatching /\ AboveCutoff(a, limit)
         /\ \A a \in InspectorPreselected(limit), b \in InspectorMatching \ InspectorPreselected(limit) :
              AboveCutoff(b, limit) => Ahead(Inspected(a), Inspected(b))
<1> DEFINE D == {b \in InspectorMatching : AboveCutoff(b, limit)}
<1> DEFINE f == [a \in D |-> Inspected(a)]
<1>1. InspectorMatching \in SUBSET active /\ InspectorMatching \in SUBSET Assets
  BY DEF InspectorMatching, CatalogOK
<1>2. IsFiniteSet(D)
  BY <1>1, FiniteAssets
<1>3. /\ InspectorPreselected(limit) = First(limit + Slack, f) /\ DOMAIN f = D
      /\ \A a \in D : f[a] \in RowRec /\ f[a] = Inspected(a)
  BY <1>1, RowsOfAssets DEF InspectorPreselected
<1>4. limit + Slack \in Nat
  BY PagesAssumption
<1>5. \A a : a \in D <=> a \in InspectorMatching /\ AboveCutoff(a, limit)
  OBVIOUS
<1> HIDE DEF f, D
<1>6. /\ First(limit + Slack, f) \in SUBSET D
      /\ \A a \in First(limit + Slack, f), b \in D \ First(limit + Slack, f) : Ahead(f[a], f[b])
  BY <1>2, <1>3, <1>4, FirstOnes
<1>7. \A a \in InspectorPreselected(limit), b \in D \ InspectorPreselected(limit) : Ahead(Inspected(a), Inspected(b))
  BY <1>3, <1>6
<1> QED
  BY <1>1, <1>3, <1>5, <1>6, <1>7

\* The copies there are, and those that a bounded search looks at.
LEMMA CopyOfText ==
  ASSUME CatalogOK
  PROVE  \A r : r \in Copies <=> \E s \in Texts :
           r.id \in Assets /\ s \in text[r.id] /\ Usable(r.id, s) /\ r = Copy(r.id, s)
<1>1. ASSUME NEW s \in Texts, NEW r
      PROVE  r \in CopiesOf({a \in Assets : s \in text[a]}, s) <=>
               r.id \in Assets /\ s \in text[r.id] /\ Usable(r.id, s) /\ r = Copy(r.id, s)
  <2>1. {a \in Assets : s \in text[a]} \in SUBSET Assets
    OBVIOUS
  <2> QED
    BY <2>1, CopiesAreRows
<1> QED
  BY <1>1, CopiesByText

LEMMA BoundedCopies ==
  ASSUME CatalogOK, NEW limit \in Nat
  PROVE  /\ Bounded(limit) \in SUBSET Copies
         /\ \A a \in Assets : "name" \in text[a] /\ Usable(a, "name") => Copy(a, "name") \in Bounded(limit)
         /\ \A s \in {"prompt", "negative"} : \A a \in Preselected(s, limit) :
              Usable(a, s) => Copy(a, s) \in Bounded(limit)
<1> DEFINE N == {a \in Assets : "name" \in text[a]}
<1>0. "name" \in Texts /\ "prompt" \in Texts /\ "negative" \in Texts
  BY DEF Texts
<1>1. \A r : r \in Bounded(limit) <=>
        \/ r \in CopiesOf(N, "name")
        \/ \E s \in {"prompt", "negative"} : r \in CopiesOf(Preselected(s, limit), s)
  BY DEF Bounded
<1>2. N \in SUBSET Assets /\ \A a \in Assets : a \in N <=> "name" \in text[a]
  OBVIOUS
<1>3. ASSUME NEW s \in {"prompt", "negative"}
      PROVE  Preselected(s, limit) \in SUBSET Assets /\ \A a \in Preselected(s, limit) : s \in text[a]
  BY <1>0, SearchPreselection
<1> HIDE DEF N
<1>4. /\ \A r : r \in CopiesOf(N, "name") <=> r.id \in N /\ Usable(r.id, "name") /\ r = Copy(r.id, "name")
      /\ \A s \in {"prompt", "negative"} : \A r : r \in CopiesOf(Preselected(s, limit), s) <=>
           r.id \in Preselected(s, limit) /\ Usable(r.id, s) /\ r = Copy(r.id, s)
  BY <1>0, <1>2, <1>3, CopiesAreRows
<1>5. ASSUME NEW r \in Bounded(limit) PROVE r \in Copies
  <2>1. CASE r \in CopiesOf(N, "name")
    BY <1>0, <1>2, <1>4, <2>1, CopyOfText
  <2>2. CASE \E s \in {"prompt", "negative"} : r \in CopiesOf(Preselected(s, limit), s)
    BY <1>0, <1>3, <1>4, <2>2, CopyOfText
  <2> QED
    BY <1>1, <2>1, <2>2
<1>6. ASSUME NEW a \in Assets, "name" \in text[a], Usable(a, "name") PROVE Copy(a, "name") \in Bounded(limit)
  <2>1. Copy(a, "name").id = a
    BY <1>0, RowsOfAssets
  <2> QED
    BY <1>1, <1>2, <1>4, <1>6, <2>1
<1>7. ASSUME NEW s \in {"prompt", "negative"}, NEW a \in Preselected(s, limit), Usable(a, s)
      PROVE  Copy(a, s) \in Bounded(limit)
  <2>1. Copy(a, s).id = a
    BY <1>0, <1>3, RowsOfAssets
  <2> QED
    BY <1>1, <1>4, <1>7, <2>1
<1> QED
  BY <1>5, <1>6, <1>7

\* The kinds of search that look at a bounded number of rows.
Cut == reader.kind = "plain" \/ (reader.kind = "legacy" /\ reader.begun)

\* Whatever a page is made of is a result.
LEMMA CandidatesAreResults ==
  ASSUME CatalogOK, reader.kind \in Kinds \ {"inspector"}
  PROVE  /\ Candidates \in SUBSET Results(reader.kind)
         /\ reader.kind \notin {"plain", "legacy", "fields"} => Candidates = Results(reader.kind)
         /\ reader.kind = "legacy" /\ ~reader.begun => Candidates = Copies
         /\ Cut => Candidates = Bounded(CandidateLimit) /\ Results(reader.kind) = Copies
<1>0. CandidateLimit \in Nat
  BY PagesAssumption
<1>1. CASE Cut
  <2>1. Candidates = Bounded(CandidateLimit) /\ Results(reader.kind) = Copies
    BY <1>1 DEF Cut, Candidates, Results
  <2>2. reader.kind \in {"plain", "legacy"} /\ (reader.kind = "legacy" => reader.begun)
    BY <1>1 DEF Cut
  <2> QED
    BY <1>0, <2>1, <2>2, BoundedCopies
<1>2. CASE reader.kind = "fields"
  <2>1. Candidates = {Filtered(a) : a \in {b \in FieldPreselected(CandidateLimit) : Current(b)}}
    BY <1>2 DEF Candidates
  <2>2. \A a \in FieldPreselected(CandidateLimit) : a \in Assets /\ a \in active /\ "prompt" \in text[a]
    BY <1>0, FieldPreselection DEF FieldMatching, CatalogOK
  <2>3. \A a \in FieldPreselected(CandidateLimit) : Current(a) => Filtered(a) \in Results("fields")
    BY <2>2, RowsOfAssets, ResultsOfAssets
  <2> QED
    BY <1>2, <2>1, <2>3 DEF Cut
<1>3. CASE reader.kind # "fields" /\ ~Cut
  <2>1. Candidates = Results(reader.kind)
    BY <1>3 DEF Cut, Candidates
  <2>2. reader.kind = "legacy" => Results(reader.kind) = Copies
    BY DEF Results
  <2> QED
    BY <1>3, <2>1, <2>2
<1> QED
  BY <1>1, <1>2, <1>3

\* Best copies: every id has one and only one.
LEMMA BestRows ==
  ASSUME NEW R \in SUBSET RowRec, IsFiniteSet(R)
  PROVE  /\ Best(R) \in SUBSET R
         /\ \A r \in R : \E o \in Best(R) : o.id = r.id /\ (o = r \/ Ahead(o, r))
         /\ \A r, o \in Best(R) : r.id = o.id => r = o
         /\ IsFiniteSet(Best(R)) /\ Cardinality(Best(R)) = Cardinality({r.id : r \in R})
<1>1. Best(R) \in SUBSET R
  BY DEF Best
<1>2. ASSUME NEW r \in R PROVE \E o \in Best(R) : o.id = r.id /\ (o = r \/ Ahead(o, r))
  <2> DEFINE S == {o \in R : o.id = r.id}
  <2>1. S \in SUBSET R /\ S # {}
    OBVIOUS
  <2>2. IsFiniteSet(S) /\ S \in SUBSET RowRec
    BY <2>1, FS_Subset
  <2>3. PICK o \in S : \A x \in S : ~Ahead(x, o)
    BY <2>1, <2>2, FirstRow
  <2>4. o \in Best(R)
    BY <2>3 DEF Best
  <2>5. o = r \/ Ahead(o, r)
    BY <2>3, RowsAreOrdered
  <2> QED
    BY <2>3, <2>4, <2>5
<1>3. \A r, o \in Best(R) : r.id = o.id => r = o
  BY RowsAreOrdered DEF Best
<1>4. IsFiniteSet(Best(R))
  BY <1>1, FS_Subset
<1> DEFINE I == {r.id : r \in R}
<1> DEFINE f == [r \in Best(R) |-> r.id]
<1>5. f \in Surjection(Best(R), I)
  <2>1. f \in [Best(R) -> I]
    BY <1>1
  <2>2. \A i \in I : \E o \in Best(R) : f[o] = i
    BY <1>2
  <2> QED
    BY <2>1, <2>2 DEF Surjection
<1>6. f \in Injection(Best(R), I)
  <2>1. f \in [Best(R) -> I]
    BY <1>1
  <2> QED
    BY <1>3, <2>1 DEF Injection, IsInjective
<1>7. Cardinality(I) = Cardinality(Best(R))
  BY <1>4, <1>5, <1>6, FS_Surjection
<1> QED
  BY <1>1, <1>2, <1>3, <1>4, <1>7

\* The best copy of an id depends on its own copies only.
LEMMA BestById ==
  ASSUME NEW R, NEW Q, NEW i, {r \in R : r.id = i} = {r \in Q : r.id = i}
  PROVE  \A r : r.id = i => (r \in R <=> r \in Q) /\ (r \in Best(R) <=> r \in Best(Q))
<1>1. \A r : r.id = i => (r \in R <=> r \in Q)
  OBVIOUS
<1> QED
  BY <1>1 DEF Best

-----------------------------------------------------------------------------
(* A page.                                                                 *)

\* What a page brings: results behind the cursor, in order, and a cursor that none
\* of them is behind.
PageFits(page) ==
  /\ page.rows \in Seq(RowRec) /\ page.more \in BOOLEAN /\ page.exact \in BOOLEAN
  /\ \A i \in 1..Len(page.rows) :
       /\ page.rows[i] \in Results(reader.kind) /\ Behind(page.rows[i])
       /\ reader.kind \notin {"plain", "legacy"} => page.rows[i] \in Best(Results(reader.kind))
  /\ \A i, j \in 1..Len(page.rows) : i < j => Ahead(page.rows[i], page.rows[j])
  /\ page.more /\ page.exact /\ reader.kind # "browse" =>
       /\ page.after \in RowRec /\ Behind(page.after)
       /\ \A i \in 1..Len(page.rows) : page.rows[i] = page.after \/ Ahead(page.rows[i], page.after)

\* What it does not bring is behind the next cursor.
PageCovers(page) ==
  \A r \in Best(Results(reader.kind)) : Behind(r) =>
    \/ \E i \in 1..Len(page.rows) : page.rows[i] = r
    \/ page.more /\ Ahead(page.after, r)

\* The rows a page is cut from.
PageRows == {r \in Best(Candidates) : Behind(r)}

\* The first rows of a listing.
LEMMA StartOf ==
  ASSUME NEW rows \in Seq(RowRec), NEW n \in Nat
  PROVE  /\ Start(rows, n) \in Seq(RowRec)
         /\ Len(Start(rows, n)) = (IF Len(rows) > n THEN n ELSE Len(rows)) /\ Len(rows) \in Nat
         /\ \A i \in 1..Len(Start(rows, n)) : Start(rows, n)[i] = rows[i] /\ i \in 1..Len(rows)
BY DEF Start

LEMMA PageIsOfResults ==
  ASSUME CatalogOK, reader.kind \in Kinds \ {"inspector"}
  PROVE  /\ PageRows \in SUBSET RowRec /\ IsFiniteSet(PageRows)
         /\ Candidates \in SUBSET RowRec /\ IsFiniteSet(Candidates)
         /\ \A r \in PageRows : r \in Best(Candidates) /\ r \in Results(reader.kind) /\ Behind(r)
         /\ reader.kind \notin {"plain", "legacy"} => \A r \in PageRows : r \in Best(Results(reader.kind))
<1>1. Results(reader.kind) \in SUBSET RowRec /\ IsFiniteSet(Results(reader.kind))
  BY ResultsAreRows
<1>2. Candidates \in SUBSET Results(reader.kind)
  BY CandidatesAreResults
<1>3. Candidates \in SUBSET RowRec /\ IsFiniteSet(Candidates)
  BY <1>1, <1>2, FS_Subset
<1>4. PageRows \in SUBSET Candidates
  BY DEF PageRows, Best
<1>5. PageRows \in SUBSET RowRec /\ IsFiniteSet(PageRows)
  BY <1>3, <1>4, FS_Subset
<1>6. ASSUME reader.kind \notin {"plain", "legacy"}, NEW r \in PageRows PROVE r \in Best(Results(reader.kind))
  <2>1. CASE reader.kind = "fields"
    <3>1. reader.kind \in Kinds \ Copied
      BY <2>1 DEF Copied, Kinds, Searches
    <3>2. \A o \in Results(reader.kind) : o.id = r.id => o = r
      BY <1>2, <1>4, <3>1, OneRowEach
    <3>3. ~Ahead(r, r)
      BY <1>5, RowsAreOrdered
    <3> QED
      BY <1>2, <1>4, <3>2, <3>3 DEF Best
  <2>2. CASE reader.kind # "fields"
    BY <1>6, <2>2, CandidatesAreResults DEF PageRows
  <2> QED
    BY <2>1, <2>2
<1> QED
  BY <1>2, <1>3, <1>4, <1>5, <1>6 DEF PageRows

\* A keyset page is cut from the front.
LEMMA PageIsCut ==
  ASSUME CatalogOK, reader.kind \in Kinds \ {"inspector", "browse"}, reader.offset = 0
  PROVE  /\ Fetched = InOrder(PageRows)
         /\ PageOf(Fetched).rows = Start(InOrder(PageRows), PageSize) /\ PageOf(Fetched).exact = TRUE
         /\ PageOf(Fetched).more \in BOOLEAN
         /\ PageOf(Fetched).more <=> Len(InOrder(PageRows)) > PageSize
         /\ PageOf(Fetched).more => PageOf(Fetched).after = InOrder(PageRows)[PageSize]
<1> DEFINE rows == InOrder(PageRows)
<1>1. rows \in Seq(RowRec) /\ Len(rows) \in Nat
  BY PageIsOfResults, OrderedListing
<1>2. Fetched = IF 0 > Len(rows) THEN <<>> ELSE SubSeq(rows, 0 + 1, Len(rows))
  BY DEF Fetched, PageRows
<1> HIDE DEF rows
<1>3. Fetched = rows
  BY <1>1, <1>2
<1>4. PICK page : page = PageOf(Fetched)
  OBVIOUS
<1>5. page = [rows |-> Start(rows, PageSize), more |-> Len(rows) > PageSize, exact |-> TRUE,
              after |-> IF Len(rows) > PageSize /\ reader.kind # "browse" THEN rows[PageSize] ELSE NoRow]
  BY <1>3, <1>4 DEF PageOf, NextCursor
<1>6. page.rows = Start(rows, PageSize) /\ page.exact = TRUE /\ page.more = (Len(rows) > PageSize)
  BY <1>5
<1>7. (Len(rows) > PageSize) \in BOOLEAN
  OBVIOUS
<1>8. page.more \in BOOLEAN /\ (page.more <=> Len(rows) > PageSize)
  BY <1>6, <1>7, Zenon
<1>9. page.more => page.after = rows[PageSize]
  BY <1>5, <1>8
<1> QED
  BY <1>3, <1>4, <1>6, <1>8, <1>9 DEF rows

LEMMA FetchedFits ==
  ASSUME CatalogOK, reader.kind \in Kinds \ {"inspector", "browse"}, reader.offset = 0
  PROVE  PageFits(PageOf(Fetched))
<1> DEFINE rows == InOrder(PageRows)
<1>1. PICK page : page = PageOf(Fetched)
  OBVIOUS
<1>2. /\ page.rows = Start(rows, PageSize) /\ page.exact = TRUE
      /\ page.more \in BOOLEAN /\ (page.more <=> Len(rows) > PageSize)
      /\ (page.more => page.after = rows[PageSize])
  BY <1>1, PageIsCut
<1>3. /\ rows \in Seq(RowRec) /\ Len(rows) \in Nat
      /\ \A i \in 1..Len(rows) : rows[i] \in PageRows
      /\ \A i, j \in 1..Len(rows) : i < j => Ahead(rows[i], rows[j])
  BY PageIsOfResults, OrderedListing
<1> HIDE DEF rows
<1>4. PageSize \in Nat \ {0}
  BY PagesAssumption
<1>5. /\ page.rows \in Seq(RowRec) /\ Len(page.rows) \in Nat /\ Len(page.rows) <= PageSize
      /\ \A i \in 1..Len(page.rows) : page.rows[i] = rows[i] /\ i \in 1..Len(rows)
  BY <1>2, <1>3, <1>4, StartOf
<1>6. \A i, j \in 1..Len(page.rows) : i < j => Ahead(page.rows[i], page.rows[j])
  BY <1>3, <1>5
<1>7. ASSUME NEW i \in 1..Len(page.rows)
      PROVE  /\ page.rows[i] \in Results(reader.kind) /\ Behind(page.rows[i])
             /\ reader.kind \notin {"plain", "legacy"} => page.rows[i] \in Best(Results(reader.kind))
  BY <1>3, <1>5, PageIsOfResults
<1>8. ASSUME page.more
      PROVE  /\ page.after \in RowRec /\ Behind(page.after)
             /\ \A i \in 1..Len(page.rows) : page.rows[i] = page.after \/ Ahead(page.rows[i], page.after)
  <2>1. PageSize \in 1..Len(rows) /\ page.after = rows[PageSize]
    BY <1>2, <1>3, <1>4, <1>8
  <2>2. page.after \in RowRec /\ Behind(page.after)
    BY <1>3, <2>1, PageIsOfResults
  <2>3. ASSUME NEW i \in 1..Len(page.rows) PROVE page.rows[i] = page.after \/ Ahead(page.rows[i], page.after)
    <3>1. i \in 1..Len(rows) /\ i <= PageSize /\ page.rows[i] = rows[i]
      BY <1>4, <1>5
    <3>2. i = PageSize \/ i < PageSize
      BY <1>4, <3>1
    <3> QED
      BY <1>3, <2>1, <3>1, <3>2
  <2> QED
    BY <2>2, <2>3
<1>9. page.more \in BOOLEAN /\ page.exact \in BOOLEAN
  BY <1>2
<1> QED
  BY <1>1, <1>5, <1>6, <1>7, <1>8, <1>9 DEF PageFits

\* A row that has more than a page of others ahead of it is behind the next cursor.
LEMMA BehindTheNext ==
  ASSUME CatalogOK, reader.kind \in Kinds \ {"inspector", "browse"}, reader.offset = 0,
         NEW r \in RowRec, NEW X \in SUBSET PageRows, \A x \in X : Ahead(x, r), Cardinality(X) > PageSize
  PROVE  PageOf(Fetched).more /\ Ahead(PageOf(Fetched).after, r)
<1> DEFINE rows == InOrder(PageRows)
<1>1. PageSize \in Nat \ {0} /\ PageSize + 1 \in Nat \ {0}
  BY PagesAssumption
<1>2. IsFiniteSet(X) /\ Cardinality(X) \in Nat
  BY PageIsOfResults, FS_Subset, FS_CardinalityType
<1>3. PageSize + 1 <= Len(rows) /\ Ahead(rows[PageSize + 1], r)
  BY <1>1, <1>2, PageIsOfResults, AheadOfTheNth
<1>4. PageSize <= Len(rows) /\ Ahead(rows[PageSize], r)
  BY <1>1, <1>2, PageIsOfResults, AheadOfTheNth
<1>5. Len(rows) \in Nat
  BY PageIsOfResults, OrderedListing
<1> HIDE DEF rows
<1>6. Len(rows) > PageSize
  BY <1>1, <1>3, <1>5
<1> QED
  BY <1>4, <1>6, PageIsCut DEF rows

\* What is among the candidates is on the page or behind the next cursor.
LEMMA CandidateIsCovered ==
  ASSUME CatalogOK, reader.kind \in Kinds \ {"inspector", "browse"}, reader.offset = 0,
         NEW r \in Best(Results(reader.kind)), Behind(r), r \in Candidates
  PROVE  \/ \E i \in 1..Len(PageOf(Fetched).rows) : PageOf(Fetched).rows[i] = r
         \/ PageOf(Fetched).more /\ Ahead(PageOf(Fetched).after, r)
<1> DEFINE rows == InOrder(PageRows)
<1>1. Candidates \in SUBSET Results(reader.kind)
  BY CandidatesAreResults
<1>2. r \in PageRows
  BY <1>1 DEF PageRows, Best
<1>3. PICK p \in 1..Len(rows) : rows[p] = r
  BY <1>2, PageIsOfResults, OrderedListing
<1>4. /\ rows \in Seq(RowRec) /\ Len(rows) \in Nat
      /\ \A i, j \in 1..Len(rows) : i < j => Ahead(rows[i], rows[j])
  BY PageIsOfResults, OrderedListing
<1> HIDE DEF rows
<1>5. PageSize \in Nat \ {0}
  BY PagesAssumption
<1>6. PICK page : page = PageOf(Fetched)
  OBVIOUS
<1>7. /\ page.rows = Start(rows, PageSize) /\ (page.more <=> Len(rows) > PageSize)
      /\ page.more => page.after = rows[PageSize]
  BY <1>6, PageIsCut DEF rows
<1>8. CASE p <= PageSize
  <2>1. p \in 1..Len(page.rows) /\ page.rows[p] = rows[p]
    BY <1>3, <1>4, <1>5, <1>7, <1>8, StartOf
  <2> QED
    BY <1>3, <1>6, <2>1
<1>9. CASE ~(p <= PageSize)
  <2>1. PageSize \in 1..Len(rows) /\ PageSize < p /\ Len(rows) > PageSize
    BY <1>3, <1>4, <1>5, <1>9
  <2>2. Ahead(rows[PageSize], r)
    BY <1>3, <1>4, <2>1
  <2> QED
    BY <1>6, <1>7, <2>1, <2>2
<1> QED
  BY <1>8, <1>9

\* Of the usable rows ahead of one, each has a place in the page's rows.
LEMMA IdsAreRows ==
  ASSUME CatalogOK, reader.kind \in Kinds \ {"inspector", "browse"}, NEW r, NEW K,
         \A b \in K : \E q \in PageRows : q.id = b /\ Ahead(q, r)
  PROVE  \E X \in SUBSET PageRows : (\A x \in X : Ahead(x, r)) /\ Cardinality(X) >= Cardinality(K)
                                    /\ Cardinality(X) \in Nat /\ Cardinality(K) \in Nat
<1> DEFINE X == {q \in PageRows : q.id \in K /\ Ahead(q, r)}
<1> DEFINE f == [q \in X |-> q.id]
<1>1. X \in SUBSET PageRows /\ \A x \in X : Ahead(x, r)
  OBVIOUS
<1>2. IsFiniteSet(X)
  BY <1>1, PageIsOfResults, FS_Subset
<1>3. f \in Surjection(X, K)
  BY DEF Surjection
<1>4. IsFiniteSet(K) /\ Cardinality(K) <= Cardinality(X)
  BY <1>2, <1>3, FS_Surjection
<1>5. Cardinality(X) \in Nat /\ Cardinality(K) \in Nat
  BY <1>2, <1>4, FS_CardinalityType
<1> QED
  BY <1>1, <1>4, <1>5

\* A copy that a bounded search leaves out has more than a page of usable rows ahead.
LEMMA SearchIsCovered ==
  ASSUME CatalogOK, reader.kind \in Kinds, reader.offset = 0, Cut, ~SearchShort(Fetched),
         NEW r \in Best(Copies), Behind(r), r \notin Candidates
  PROVE  PageOf(Fetched).more /\ Ahead(PageOf(Fetched).after, r)
<1> DEFINE limit == CandidateLimit
<1>0. /\ limit \in Nat /\ PageSize \in Nat
      /\ reader.kind \in Kinds \ {"inspector", "browse"} /\ reader.kind # "browse"
      /\ "name" \in Texts /\ "prompt" \in Texts /\ "negative" \in Texts
  BY PagesAssumption DEF Cut, Texts
<1>1. Candidates = Bounded(limit) /\ Bounded(limit) \in SUBSET Copies
  BY <1>0, CandidatesAreResults, BoundedCopies
<1>2. PICK a, s : s \in Texts /\ a \in Assets /\ s \in text[a] /\ Usable(a, s) /\ r = Copy(a, s) /\ r.id = a
  BY CopyOfText DEF Best
<1>3. s \in {"prompt", "negative"}
  BY <1>0, <1>1, <1>2, BoundedCopies DEF Texts
<1>4. a \in Matching(s)
  BY <1>0, <1>2 DEF Matching, Usable, Behind
<1>5. a \notin Preselected(s, limit)
  BY <1>0, <1>1, <1>2, <1>3, BoundedCopies
<1> DEFINE K == Preselected(s, limit) \cap UsefulTo(Fetched, s)
<1>6. ~Lacking(Preselected(s, limit), Matching(s), UsefulTo(Fetched, s), PageSize) /\ ~TieCut(s)
  BY <1>3 DEF SearchShort
<1>7. ~(Cardinality(K) <= PageSize)
  BY <1>4, <1>5, <1>6 DEF Lacking
<1>8. ASSUME NEW b \in K PROVE \E q \in PageRows : q.id = b /\ Ahead(q, r)
  <2>1. b \in Preselected(s, limit) /\ b \in Matching(s) /\ b \in Assets
    BY <1>0, <1>2, SearchPreselection
  <2>2. Fetched = InOrder(PageRows)
    BY <1>0, PageIsCut
  <2>3. PICK q \in Range(InOrder(PageRows)) : q.id = b /\ Usable(b, s)
    BY <2>2 DEF UsefulTo
  <2>4. q \in PageRows
    <3>1. PICK i \in DOMAIN InOrder(PageRows) : q = InOrder(PageRows)[i]
      BY <2>3 DEF Range
    <3>2. i \in 1..Len(InOrder(PageRows))
      BY <1>0, <3>1, PageIsOfResults, OrderedListing
    <3> QED
      BY <1>0, <3>1, <3>2, PageIsOfResults, OrderedListing
  <2>5. Copy(b, s) \in Candidates /\ Copy(b, s).id = b /\ Copy(b, s) \in RowRec /\ Copy(a, s) \in RowRec
    BY <1>0, <1>1, <1>2, <1>3, <2>1, <2>3, BoundedCopies, RowsOfAssets
  <2>6. q \in RowRec /\ ~Ahead(Copy(b, s), q)
    BY <1>0, <2>3, <2>4, <2>5, PageIsOfResults DEF PageRows, Best
  <2>7. Ahead(PreRow(b, s), PreRow(a, s))
    BY <1>0, <1>2, <1>4, <1>5, <2>1, SearchPreselection
  <2>8. Ahead(Copy(b, s), Copy(a, s))
    <3>1. CASE reader.begun
      BY <2>7, <3>1 DEF PreRow
    <3>2. CASE ~reader.begun
      <4>1. ~(rank[b] = rank[a] /\ stored[b] = stored[a])
        BY <1>4, <1>5, <1>6, <2>1, <3>2 DEF TieCut
      <4>2. stored[a] = mtime[a] /\ stored[b] = mtime[b]
        BY <1>2, <1>3, <2>3 DEF Usable, Current
      <4>3. /\ PreRow(b, s) = Row(RowId[b], TierOf[s], rank[b], stored[b])
            /\ PreRow(a, s) = Row(RowId[a], TierOf[s], rank[a], stored[a])
        BY <3>2 DEF PreRow
      <4>4. rank[a] \in Nat /\ rank[b] \in Nat /\ stored[a] \in Nat /\ stored[b] \in Nat /\ TierOf[s] \in Nat
        BY <1>2, <2>1 DEF CatalogOK, Ranks, Texts, TierOf
      <4>5. rank[b] < rank[a] \/ (rank[b] = rank[a] /\ stored[b] > stored[a])
        BY <2>7, <4>1, <4>3, <4>4 DEF Ahead, Row
      <4> QED
        BY <4>2, <4>4, <4>5 DEF Copy, Row, Ahead
    <3> QED
      BY <3>1, <3>2
  <2>9. Ahead(q, r)
    BY <1>2, <2>5, <2>6, <2>8, RowsAreOrdered
  <2> QED
    BY <2>3, <2>4, <2>9
<1>9. PICK X \in SUBSET PageRows : /\ \A x \in X : Ahead(x, r)
                                   /\ Cardinality(X) >= Cardinality(K)
                                   /\ Cardinality(X) \in Nat /\ Cardinality(K) \in Nat
  <2> HIDE DEF K
  <2> QED
    BY <1>0, <1>8, IdsAreRows
<1>10. Cardinality(X) > PageSize
  BY <1>0, <1>7, <1>9
<1>11. r \in RowRec
  BY <1>2, RowsOfAssets
<1> QED
  BY <1>0, <1>9, <1>10, <1>11, BehindTheNext

\* The same of a search by fields.
LEMMA FieldsAreCovered ==
  ASSUME CatalogOK, reader.kind = "fields", reader.offset = 0, ~PageShort(Fetched),
         NEW r \in Best(Results("fields")), Behind(r), r \notin Candidates
  PROVE  PageOf(Fetched).more /\ Ahead(PageOf(Fetched).after, r)
<1> DEFINE limit == CandidateLimit
<1>0. /\ limit \in Nat /\ PageSize \in Nat /\ reader.kind \in Kinds \ {"inspector", "browse"}
      /\ reader.kind \in Kinds \ Copied /\ reader.kind # "browse"
  BY PagesAssumption DEF Kinds, Searches, Copied
<1>1. Candidates = {Filtered(b) : b \in {c \in FieldPreselected(limit) : Current(c)}}
  BY DEF Candidates
<1>2. PICK a : a \in active /\ a \in Assets /\ "prompt" \in text[a] /\ Current(a) /\ r = Filtered(a)
  BY ResultsOfAssets DEF Best, CatalogOK
<1>3. a \in FieldMatching
  BY <1>2 DEF FieldMatching
<1>4. a \notin FieldPreselected(limit)
  BY <1>1, <1>2
<1> DEFINE C == {c \in Assets : Current(c)}
<1> DEFINE K == FieldPreselected(limit) \cap C
<1>5. ~Lacking(FieldPreselected(limit), FieldMatching, C, PageSize)
  BY DEF PageShort
<1>6. ~(Cardinality(K) <= PageSize)
  BY <1>3, <1>4, <1>5 DEF Lacking
<1>7. ASSUME NEW b \in K PROVE \E q \in PageRows : q.id = b /\ Ahead(q, r)
  <2>1. b \in FieldPreselected(limit) /\ b \in FieldMatching /\ b \in Assets /\ Current(b)
    BY <1>0, FieldPreselection
  <2>2. Ahead(Filtered(b), Filtered(a)) /\ Filtered(b).id = b /\ Filtered(b) \in RowRec
    BY <1>0, <1>3, <1>4, <2>1, FieldPreselection, RowsOfAssets
  <2>3. Filtered(b) \in Candidates
    BY <1>1, <2>1
  <2>4. ASSUME NEW o \in Candidates, o.id = Filtered(b).id PROVE ~Ahead(o, Filtered(b))
    <3>1. o = Filtered(b)
      BY <1>0, <2>3, <2>4, CandidatesAreResults, OneRowEach
    <3> QED
      BY <2>2, <3>1, RowsAreOrdered
  <2>5. Filtered(b) \in PageRows
    BY <2>1, <2>3, <2>4 DEF PageRows, Best, FieldMatching
  <2> QED
    BY <1>2, <2>2, <2>5
<1>8. PICK X \in SUBSET PageRows : /\ \A x \in X : Ahead(x, r)
                                   /\ Cardinality(X) >= Cardinality(K)
                                   /\ Cardinality(X) \in Nat /\ Cardinality(K) \in Nat
  <2> HIDE DEF K
  <2> QED
    BY <1>0, <1>7, IdsAreRows
<1>9. Cardinality(X) > PageSize
  BY <1>0, <1>6, <1>8
<1>10. r \in RowRec
  BY <1>2, RowsOfAssets
<1> QED
  BY <1>0, <1>8, <1>9, <1>10, BehindTheNext

LEMMA FetchedCovers ==
  ASSUME CatalogOK, reader.kind \in Kinds \ {"inspector", "browse"}, reader.offset = 0, ~PageShort(Fetched)
  PROVE  PageCovers(PageOf(Fetched))
<1> SUFFICES ASSUME NEW r \in Best(Results(reader.kind)), Behind(r)
             PROVE  \/ \E i \in 1..Len(PageOf(Fetched).rows) : PageOf(Fetched).rows[i] = r
                    \/ PageOf(Fetched).more /\ Ahead(PageOf(Fetched).after, r)
  BY DEF PageCovers
<1>1. CASE r \in Candidates
  BY <1>1, CandidateIsCovered
<1>2. CASE r \notin Candidates /\ Cut
  <2>1. Results(reader.kind) = Copies
    BY <1>2, CandidatesAreResults
  <2>2. ~SearchShort(Fetched)
    BY <1>2 DEF PageShort, Cut
  <2> QED
    BY <1>2, <2>1, <2>2, SearchIsCovered
<1>3. CASE r \notin Candidates /\ reader.kind = "fields"
  BY <1>3, FieldsAreCovered
<1>4. CASE r \notin Candidates /\ ~Cut /\ reader.kind # "fields"
  <2>1. Candidates = Results(reader.kind)
    BY <1>4, CandidatesAreResults DEF Cut, Results
  <2> QED
    BY <1>4, <2>1 DEF Best
<1> QED
  BY <1>1, <1>2, <1>3, <1>4

-----------------------------------------------------------------------------
(* A page of the inspector.                                                *)

InspectorSet(limit) == {Inspected(a) : a \in {b \in InspectorPreselected(limit) : Current(b)}}
ShownSet(limit) == {r \in Range(Start(InspectorRows(limit), limit)) : r.id \notin gone}

LEMMA InspectorRowsAre ==
  ASSUME CatalogOK, NEW limit \in Nat
  PROVE  /\ InspectorRows(limit) = InOrder(InspectorSet(limit))
         /\ InspectorSet(limit) \in SUBSET RowRec /\ IsFiniteSet(InspectorSet(limit))
         /\ \A r : r \in InspectorSet(limit) <=>
              r.id \in InspectorPreselected(limit) /\ Current(r.id) /\ r = Inspected(r.id)
         /\ \A r \in InspectorSet(limit) : r.id \in active /\ r.id # 0 /\ Behind(r)
<1>1. \A a \in InspectorPreselected(limit) : a \in Assets /\ a \in active /\ a \in InspectorMatching
  BY InspectorPreselection
<1>2. \A a \in InspectorPreselected(limit) : Behind(Inspected(a))
  BY <1>1 DEF InspectorMatching
<1>3. \A r : r \in InspectorSet(limit) <=>
        r.id \in InspectorPreselected(limit) /\ Current(r.id) /\ r = Inspected(r.id)
  BY <1>1, RowsOfAssets DEF InspectorSet
<1>4. InspectorSet(limit) \in SUBSET RowRec
  BY <1>1, <1>3, RowsOfAssets
<1>5. \A r \in InspectorSet(limit) : r.id \in active /\ r.id # 0 /\ Behind(r)
  BY <1>1, <1>2, <1>3, PagesAssumption
<1>6. IsFiniteSet(InspectorSet(limit))
  <2> DEFINE D == {b \in InspectorPreselected(limit) : Current(b)}
  <2> DEFINE f == [a \in D |-> Inspected(a)]
  <2>1. D \in SUBSET Assets
    BY <1>1
  <2>2. IsFiniteSet(D)
    BY <2>1, FiniteAssets
  <2>3. InspectorSet(limit) = {f[a] : a \in D}
    BY DEF InspectorSet
  <2>4. IsFiniteSet({f[a] : a \in D})
    BY <2>2, FiniteImage
  <2> QED
    BY <2>3, <2>4
<1>7. InspectorRows(limit) = InOrder(InspectorSet(limit))
  BY DEF InspectorRows, InspectorSet
<1> QED
  BY <1>3, <1>4, <1>5, <1>6, <1>7

\* What is shown of them are the first ones whose file is there.
LEMMA ShownRowsAre ==
  ASSUME CatalogOK, NEW limit \in Nat
  PROVE  /\ Shown(InspectorRows(limit), limit) = InOrder(ShownSet(limit))
         /\ ShownSet(limit) \in SUBSET InspectorSet(limit) /\ ShownSet(limit) \in SUBSET RowRec
         /\ IsFiniteSet(ShownSet(limit))
         /\ \A r \in ShownSet(limit) : r.id \notin gone
         /\ \A r \in ShownSet(limit) : \E p \in 1..Len(InspectorRows(limit)) :
              p <= limit /\ InspectorRows(limit)[p] = r
         /\ \A p \in 1..Len(InspectorRows(limit)) :
              p <= limit /\ InspectorRows(limit)[p].id \notin gone => InspectorRows(limit)[p] \in ShownSet(limit)
<1> DEFINE rows == InspectorRows(limit)
<1>1. /\ rows \in Seq(RowRec) /\ Len(rows) \in Nat
      /\ \A p \in 1..Len(rows) : rows[p] \in InspectorSet(limit)
      /\ InspectorSet(limit) \in SUBSET RowRec /\ IsFiniteSet(InspectorSet(limit))
  BY InspectorRowsAre, OrderedListing
<1> DEFINE start == Start(rows, limit)
<1>2. /\ start \in Seq(RowRec) /\ Len(start) = (IF Len(rows) > limit THEN limit ELSE Len(rows))
      /\ \A i \in 1..Len(start) : start[i] = rows[i] /\ i \in 1..Len(rows)
  <2> HIDE DEF rows
  <2> QED
    BY <1>1, StartOf
<1>3. Shown(rows, limit) = InOrder(ShownSet(limit))
  BY DEF Shown, ShownSet
<1>4. \A r : r \in ShownSet(limit) <=> r \in Range(start) /\ r.id \notin gone
  BY DEF ShownSet
<1> HIDE DEF rows, start
<1>5. DOMAIN start = 1..Len(start) /\ Len(start) \in Nat
  BY <1>2
<1>6. \A r : r \in Range(start) <=> \E i \in 1..Len(start) : r = start[i]
  BY <1>5 DEF Range
<1>7. \A r \in ShownSet(limit) : r.id \notin gone /\ \E p \in 1..Len(rows) : p <= limit /\ rows[p] = r
  BY <1>1, <1>2, <1>4, <1>5, <1>6
<1>8. \A p \in 1..Len(rows) : p <= limit /\ rows[p].id \notin gone => rows[p] \in ShownSet(limit)
  BY <1>1, <1>2, <1>4, <1>5, <1>6
<1>9. ShownSet(limit) \in SUBSET InspectorSet(limit)
  BY <1>1, <1>7
<1>10. ShownSet(limit) \in SUBSET RowRec /\ IsFiniteSet(ShownSet(limit))
  BY <1>1, <1>9, FS_Subset
<1> QED
  BY <1>3, <1>7, <1>8, <1>9, <1>10 DEF rows

\* The page, and its cursor as long as the time in it survives.
LEMMA InspectorPageIs ==
  ASSUME CatalogOK, NEW limit \in Nat \ {0}
  PROVE  LET rows == InOrder(InspectorSet(limit))
             shown == InOrder(ShownSet(limit))
             page == InspectorPage(limit)
         IN  /\ page.rows = Start(shown, PageSize) /\ page.more \in BOOLEAN /\ page.exact \in BOOLEAN
             /\ page.more <=> Len(rows) > limit \/ Len(shown) > PageSize
             /\ page.more /\ page.exact =>
                  \/ page.rows # <<>> /\ page.after = page.rows[Len(page.rows)]
                  \/ page.rows = <<>> /\ Len(rows) > limit /\ page.after = rows[limit]
<1> DEFINE rows == InOrder(InspectorSet(limit))
<1> DEFINE shown == InOrder(ShownSet(limit))
<1> DEFINE list == Start(shown, PageSize)
<1> DEFINE more == Len(rows) > limit \/ Len(shown) > PageSize
<1> DEFINE after == CASE ~more -> NoRow
                      [] more /\ list # <<>> -> [list[Len(list)] EXCEPT !.mt = AsFloat[@]]
                      [] more /\ list = <<>> -> rows[limit]
<1> DEFINE exact == after \in Range(rows) \cup {NoRow}
<1>1. PICK page : page = InspectorPage(limit)
  OBVIOUS
<1>2. InspectorRows(limit) = rows /\ Shown(rows, limit) = shown
  BY InspectorRowsAre, ShownRowsAre
<1>3. page = [rows |-> list, more |-> more, exact |-> exact, after |-> after]
  BY <1>1, <1>2 DEF InspectorPage
<1>4. /\ rows \in Seq(RowRec) /\ Len(rows) \in Nat
      /\ \A i \in 1..Len(rows) : rows[i] \in InspectorSet(limit)
  BY InspectorRowsAre, OrderedListing
<1>5. /\ shown \in Seq(RowRec) /\ Len(shown) \in Nat
      /\ \A i \in 1..Len(shown) : shown[i] \in ShownSet(limit) /\ shown[i] \in InspectorSet(limit)
  BY ShownRowsAre, OrderedListing
<1>6. PageSize \in Nat \ {0}
  BY PagesAssumption
<1> HIDE DEF rows, shown
<1>7. /\ list \in Seq(RowRec) /\ Len(list) \in Nat
      /\ \A i \in 1..Len(list) : list[i] = shown[i] /\ i \in 1..Len(shown)
      /\ Len(list) = (IF Len(shown) > PageSize THEN PageSize ELSE Len(shown))
  BY <1>5, <1>6, StartOf
<1> HIDE DEF list
<1>8. more \in BOOLEAN /\ exact \in BOOLEAN
  OBVIOUS
<1>9. page.rows = list /\ page.after = after /\ page.more = more /\ page.exact = exact
  BY <1>3
<1>10. more /\ list # <<>> => after = [list[Len(list)] EXCEPT !.mt = AsFloat[@]]
  OBVIOUS
<1>11. more /\ list = <<>> => after = rows[limit]
  OBVIOUS
<1> HIDE DEF more, exact
<1>12. page.more \in BOOLEAN /\ page.exact \in BOOLEAN /\ (page.more <=> more) /\ (page.exact <=> exact)
  BY <1>8, <1>9, Zenon
<1>13. exact => after \in Range(rows) \cup {NoRow}
  BY DEF exact
<1> HIDE DEF after
<1>14. ASSUME more, exact, list # <<>> PROVE after = list[Len(list)]
  <2>1. PICK o : o = list[Len(list)]
    OBVIOUS
  <2>2. o \in InspectorSet(limit) /\ o \in RowRec /\ o.id # 0
    <3>1. Len(list) \in 1..Len(list)
      BY <1>7, <1>14
    <3> QED
      BY <1>5, <1>7, <2>1, <3>1, InspectorRowsAre
  <2>3. after = [o EXCEPT !.mt = AsFloat[@]]
    BY <1>10, <1>14, <2>1
  <2>4. after.id = o.id
    BY <2>2, <2>3 DEF RowRec
  <2>5. after # NoRow
    BY <2>2, <2>4 DEF NoRow
  <2>6. PICK i \in DOMAIN rows : after = rows[i]
    BY <1>13, <1>14, <2>5 DEF Range
  <2>7. after \in InspectorSet(limit)
    BY <1>4, <2>6
  <2> QED
    BY <2>1, <2>2, <2>4, <2>7, InspectorRowsAre
<1>15. ASSUME more, list = <<>> PROVE Len(rows) > limit /\ after = rows[limit]
  <2>1. Len(shown) = 0
    BY <1>5, <1>6, <1>7, <1>15
  <2> QED
    BY <1>6, <1>11, <1>15, <2>1 DEF more
<1>16. page.more <=> Len(rows) > limit \/ Len(shown) > PageSize
  BY <1>12 DEF more
<1>17. page.more /\ page.exact =>
         \/ page.rows # <<>> /\ page.after = page.rows[Len(page.rows)]
         \/ page.rows = <<>> /\ Len(rows) > limit /\ page.after = rows[limit]
  BY <1>9, <1>12, <1>14, <1>15
<1>18. page.rows = Start(shown, PageSize)
  BY <1>9 DEF list
<1> QED
  BY <1>1, <1>12, <1>16, <1>17, <1>18 DEF rows, shown

\* The inspector's rows are the results, one for each asset, that are behind the cursor.
LEMMA InspectorFits ==
  ASSUME CatalogOK, reader.kind = "inspector", NEW limit \in Nat \ {0}
  PROVE  PageFits(InspectorPage(limit))
<1> DEFINE rows == InOrder(InspectorSet(limit))
<1> DEFINE shown == InOrder(ShownSet(limit))
<1>1. PICK page : page = InspectorPage(limit)
  OBVIOUS
<1>2. /\ page.rows = Start(shown, PageSize) /\ page.more \in BOOLEAN /\ page.exact \in BOOLEAN
      /\ page.more <=> Len(rows) > limit \/ Len(shown) > PageSize
      /\ page.more /\ page.exact =>
           \/ page.rows # <<>> /\ page.after = page.rows[Len(page.rows)]
           \/ page.rows = <<>> /\ Len(rows) > limit /\ page.after = rows[limit]
  BY <1>1, InspectorPageIs
<1>3. /\ rows \in Seq(RowRec) /\ Len(rows) \in Nat
      /\ \A i \in 1..Len(rows) : rows[i] \in InspectorSet(limit)
  BY InspectorRowsAre, OrderedListing
<1>4. /\ shown \in Seq(RowRec) /\ Len(shown) \in Nat
      /\ \A i \in 1..Len(shown) : shown[i] \in ShownSet(limit)
      /\ \A i, j \in 1..Len(shown) : i < j => Ahead(shown[i], shown[j])
  BY ShownRowsAre, OrderedListing
<1>5. PageSize \in Nat \ {0}
  BY PagesAssumption
<1> HIDE DEF rows, shown
<1>6. /\ page.rows \in Seq(RowRec) /\ Len(page.rows) \in Nat
      /\ \A i \in 1..Len(page.rows) : page.rows[i] = shown[i] /\ i \in 1..Len(shown)
  BY <1>2, <1>4, <1>5, StartOf
<1>7. \A i, j \in 1..Len(page.rows) : i < j => Ahead(page.rows[i], page.rows[j])
  BY <1>4, <1>6
<1>8. \A i \in 1..Len(page.rows) : page.rows[i] \in InspectorSet(limit) /\ page.rows[i].id \notin gone
  BY <1>4, <1>6, ShownRowsAre
<1>9. ASSUME NEW r \in InspectorSet(limit), r.id \notin gone
      PROVE  r \in Results(reader.kind) /\ Behind(r) /\ r \in Best(Results(reader.kind))
  <2>1. r \in Results("inspector") /\ Behind(r) /\ r \in RowRec
    BY <1>9, InspectorRowsAre, ResultsOfAssets
  <2>2. \A o \in Results("inspector") : o.id = r.id => o = r
    BY <2>1, OneRowEach DEF Kinds, Searches, Copied
  <2>3. r \in Best(Results("inspector"))
    BY <2>1, <2>2, RowsAreOrdered DEF Best
  <2> QED
    BY <2>1, <2>3
<1>10. ASSUME page.more, page.exact
       PROVE  /\ page.after \in RowRec /\ Behind(page.after)
              /\ \A i \in 1..Len(page.rows) : page.rows[i] = page.after \/ Ahead(page.rows[i], page.after)
  <2>1. CASE page.rows # <<>> /\ page.after = page.rows[Len(page.rows)]
    <3>1. Len(page.rows) \in 1..Len(page.rows)
      BY <1>6, <2>1
    <3>2. page.after \in RowRec /\ Behind(page.after)
      BY <1>8, <2>1, <3>1, InspectorRowsAre
    <3>3. \A i \in 1..Len(page.rows) : i = Len(page.rows) \/ i < Len(page.rows)
      BY <1>6
    <3> QED
      BY <1>7, <2>1, <3>1, <3>2, <3>3
  <2>2. CASE page.rows = <<>> /\ Len(rows) > limit /\ page.after = rows[limit]
    <3>1. limit \in 1..Len(rows)
      BY <1>3, <2>2
    <3>2. page.after \in RowRec /\ Behind(page.after)
      BY <1>3, <2>2, <3>1, InspectorRowsAre
    <3> QED
      BY <2>2, <3>2
  <2> QED
    BY <1>2, <1>10, <2>1, <2>2
<1>11. ASSUME NEW i \in 1..Len(page.rows)
       PROVE  /\ page.rows[i] \in Results(reader.kind) /\ Behind(page.rows[i])
              /\ page.rows[i] \in Best(Results(reader.kind))
  BY <1>8, <1>9
<1> QED
  BY <1>1, <1>2, <1>6, <1>7, <1>10, <1>11 DEF PageFits

\* A row of the inspector that was not preselected has more than a page of others ahead.
LEMMA InspectorIsAhead ==
  ASSUME CatalogOK, NEW limit \in Nat \ {0}, ~InspectorShort(limit),
         NEW a \in active, Behind(Inspected(a)), a \notin InspectorPreselected(limit)
  PROVE  /\ Len(InOrder(InspectorSet(limit))) > limit
         /\ Ahead(InOrder(InspectorSet(limit))[limit], Inspected(a))
<1> DEFINE K == InspectorPreselected(limit) \cap {c \in Assets : Current(c)}
<1>0. a \in Assets /\ limit + Slack \in Nat /\ limit \in Nat
  BY PagesAssumption DEF CatalogOK
<1>1. a \in InspectorMatching
  BY DEF InspectorMatching
<1>2. ~(Cardinality(K) <= limit)
  BY <1>1 DEF InspectorShort, Lacking
<1>3. ASSUME NEW b \in InspectorPreselected(limit) PROVE Ahead(Inspected(b), Inspected(a))
  <2>1. CASE AboveCutoff(a, limit)
    BY <1>1, <2>1, InspectorPreselection
  <2>2. CASE ~AboveCutoff(a, limit)
    <3> DEFINE Newer(c) == {d \in Assets : stored[d] > stored[c]}
    <3>1. b \in Assets /\ AboveCutoff(b, limit)
      BY InspectorPreselection
    <3>2. ~reader.begun /\ ~(Cardinality(Newer(a)) < limit + Slack) /\ Cardinality(Newer(b)) < limit + Slack
      BY <2>2, <3>1 DEF AboveCutoff
    <3>3. stored[a] \in Nat /\ stored[b] \in Nat /\ \A d \in Assets : stored[d] \in Nat
      BY <1>0, <3>1 DEF CatalogOK
    <3>4. stored[b] > stored[a]
      <4>1. SUFFICES ASSUME stored[b] <= stored[a] PROVE FALSE
        BY <3>3
      <4>2. Newer(a) \in SUBSET Newer(b)
        BY <3>3, <4>1
      <4>3. Newer(b) \in SUBSET Assets
        OBVIOUS
      <4>4. IsFiniteSet(Newer(b)) /\ Cardinality(Newer(b)) \in Nat /\ Cardinality(Newer(a)) \in Nat
        BY <4>2, <4>3, FiniteAssets
      <4>5. Cardinality(Newer(a)) <= Cardinality(Newer(b))
        BY <4>2, <4>4, FS_Subset
      <4> HIDE DEF Newer
      <4> QED
        BY <1>0, <3>2, <4>4, <4>5
    <3> QED
      BY <3>3, <3>4 DEF Inspected, Row, Ahead
  <2> QED
    BY <2>1, <2>2
<1> DEFINE S == InspectorSet(limit)
<1> DEFINE X == {q \in S : q.id \in K}
<1> DEFINE f == [q \in X |-> q.id]
<1>4. S \in SUBSET RowRec /\ IsFiniteSet(S)
  BY InspectorRowsAre
<1>5. X \in SUBSET S
  OBVIOUS
<1>6. IsFiniteSet(X)
  BY <1>4, <1>5, FS_Subset
<1>7. ASSUME NEW b \in K PROVE \E q \in X : q.id = b
  <2>1. b \in InspectorPreselected(limit) /\ b \in Assets /\ Current(b)
    OBVIOUS
  <2>2. Inspected(b).id = b
    BY <2>1, RowsOfAssets
  <2> QED
    BY <2>1, <2>2, InspectorRowsAre
<1>8. f \in Surjection(X, K)
  BY <1>7 DEF Surjection
<1>9. IsFiniteSet(K) /\ Cardinality(K) <= Cardinality(X)
  BY <1>6, <1>8, FS_Surjection
<1>10. Cardinality(X) \in Nat /\ Cardinality(K) \in Nat
  BY <1>6, <1>9, FS_CardinalityType
<1>11. \A x \in X : Ahead(x, Inspected(a))
  <2> SUFFICES ASSUME NEW x \in X PROVE Ahead(x, Inspected(a))
    OBVIOUS
  <2>1. x.id \in InspectorPreselected(limit) /\ x = Inspected(x.id)
    BY <1>5, InspectorRowsAre
  <2> QED
    BY <1>3, <2>1
<1>12. Inspected(a) \in RowRec
  BY <1>0, RowsOfAssets
<1>13. Cardinality(X) >= limit + 1 /\ Cardinality(X) >= limit /\ limit + 1 \in Nat \ {0}
  BY <1>0, <1>2, <1>9, <1>10
<1>14. Len(InOrder(S)) \in Nat
  BY <1>4, OrderedListing
<1> HIDE DEF X, S, K
<1>15. limit + 1 <= Len(InOrder(S))
  BY <1>4, <1>5, <1>11, <1>12, <1>13, AheadOfTheNth
<1>16. Ahead(InOrder(S)[limit], Inspected(a))
  BY <1>4, <1>5, <1>11, <1>12, <1>13, AheadOfTheNth
<1> QED
  BY <1>0, <1>14, <1>15, <1>16 DEF S

LEMMA InspectorCovers ==
  ASSUME CatalogOK, reader.kind = "inspector", NEW limit \in Nat \ {0}, ~InspectorShort(limit),
         InspectorPage(limit).exact
  PROVE  PageCovers(InspectorPage(limit))
<1> DEFINE rows == InOrder(InspectorSet(limit))
<1> DEFINE shown == InOrder(ShownSet(limit))
<1>1. PICK page : page = InspectorPage(limit)
  OBVIOUS
<1> SUFFICES ASSUME NEW r \in Best(Results(reader.kind)), Behind(r)
             PROVE  \/ \E i \in 1..Len(page.rows) : page.rows[i] = r
                    \/ page.more /\ Ahead(page.after, r)
  BY <1>1 DEF PageCovers
<1>2. /\ page.rows = Start(shown, PageSize)
      /\ page.more <=> Len(rows) > limit \/ Len(shown) > PageSize
      /\ page.more =>
           \/ page.rows # <<>> /\ page.after = page.rows[Len(page.rows)]
           \/ page.rows = <<>> /\ Len(rows) > limit /\ page.after = rows[limit]
  BY <1>1, InspectorPageIs
<1>3. /\ rows \in Seq(RowRec) /\ Len(rows) \in Nat
      /\ \A i \in 1..Len(rows) : rows[i] \in InspectorSet(limit) /\ rows[i] \in RowRec
      /\ \A x \in InspectorSet(limit) : \E i \in 1..Len(rows) : rows[i] = x
      /\ \A i, j \in 1..Len(rows) : i < j => Ahead(rows[i], rows[j])
  BY InspectorRowsAre, OrderedListing
<1>4. /\ shown \in Seq(RowRec) /\ Len(shown) \in Nat
      /\ \A i \in 1..Len(shown) : shown[i] \in ShownSet(limit) /\ shown[i] \in RowRec
      /\ \A x \in ShownSet(limit) : \E i \in 1..Len(shown) : shown[i] = x
      /\ \A i, j \in 1..Len(shown) : i < j => Ahead(shown[i], shown[j])
  BY ShownRowsAre, OrderedListing
<1>5. PageSize \in Nat \ {0}
  BY PagesAssumption
<1>6. InspectorRows(limit) = rows
  BY InspectorRowsAre
<1>7. /\ \A x \in ShownSet(limit) : \E p \in 1..Len(rows) : p <= limit /\ rows[p] = x
      /\ \A p \in 1..Len(rows) : p <= limit /\ rows[p].id \notin gone => rows[p] \in ShownSet(limit)
  BY <1>6, ShownRowsAre
<1> HIDE DEF rows, shown
<1>8. /\ page.rows \in Seq(RowRec) /\ Len(page.rows) \in Nat
      /\ Len(page.rows) = (IF Len(shown) > PageSize THEN PageSize ELSE Len(shown))
      /\ \A i \in 1..Len(page.rows) : page.rows[i] = shown[i] /\ i \in 1..Len(shown)
  BY <1>2, <1>4, <1>5, StartOf
<1>9. r.id \in active \ gone /\ r.id \in Assets /\ Current(r.id) /\ r = Inspected(r.id) /\ r \in RowRec
  BY ResultsOfAssets, RowsOfAssets DEF Best, CatalogOK
\* The cursor is a row shown on the page, or the last that was looked at.
<1>10. ASSUME page.more
       PROVE  \/ /\ Len(page.rows) \in 1..Len(page.rows) /\ page.after = page.rows[Len(page.rows)]
                 /\ \E q \in 1..Len(rows) : q <= limit /\ page.after = rows[q]
              \/ Len(rows) > limit /\ page.after = rows[limit]
  <2>1. CASE page.rows # <<>> /\ page.after = page.rows[Len(page.rows)]
    <3>1. Len(page.rows) \in 1..Len(page.rows)
      BY <1>8, <2>1
    <3>2. page.after \in ShownSet(limit)
      BY <1>4, <1>8, <2>1, <3>1
    <3> QED
      BY <1>7, <2>1, <3>1, <3>2
  <2>2. CASE page.rows = <<>> /\ Len(rows) > limit /\ page.after = rows[limit]
    BY <2>2
  <2> QED
    BY <1>2, <1>10, <2>1, <2>2
<1>11. CASE r \in ShownSet(limit)
  <2>1. PICK p \in 1..Len(shown) : shown[p] = r
    BY <1>4, <1>11
  <2>2. CASE p <= PageSize
    <3>1. p \in 1..Len(page.rows)
      BY <1>4, <1>5, <1>8, <2>1, <2>2
    <3> QED
      BY <1>8, <2>1, <3>1
  <2>3. CASE ~(p <= PageSize)
    <3>1. Len(shown) > PageSize /\ Len(page.rows) = PageSize /\ PageSize < p /\ PageSize \in 1..Len(shown)
      BY <1>4, <1>5, <1>8, <2>1, <2>3
    <3>2. page.more
      BY <1>2, <3>1
    <3>3. page.rows # <<>>
      BY <1>5, <1>8, <3>1
    <3>4. page.after = page.rows[PageSize] /\ page.rows[PageSize] = shown[PageSize]
      BY <1>2, <1>5, <1>8, <3>1, <3>2, <3>3
    <3>5. Ahead(shown[PageSize], shown[p])
      BY <1>4, <2>1, <3>1
    <3> QED
      BY <2>1, <3>2, <3>4, <3>5
  <2> QED
    BY <2>2, <2>3
<1>12. CASE r \in InspectorSet(limit) /\ r \notin ShownSet(limit)
  <2>1. PICK p \in 1..Len(rows) : rows[p] = r
    BY <1>3, <1>12
  <2>2. ~(p <= limit)
    BY <1>7, <1>9, <1>12, <2>1
  <2>3. Len(rows) > limit /\ limit < p /\ limit \in 1..Len(rows)
    BY <1>3, <2>1, <2>2
  <2>4. page.more
    BY <1>2, <2>3
  <2>5. PICK q \in 1..Len(rows) : q <= limit /\ page.after = rows[q]
    BY <1>10, <2>3, <2>4
  <2>6. q < p
    BY <2>1, <2>3, <2>5
  <2>7. Ahead(rows[q], rows[p])
    BY <1>3, <2>1, <2>5, <2>6
  <2> QED
    BY <2>1, <2>4, <2>5, <2>7
<1>13. CASE r \notin InspectorSet(limit)
  <2>1. r.id \notin InspectorPreselected(limit)
    BY <1>9, <1>13, InspectorRowsAre
  <2>2. Behind(Inspected(r.id)) /\ r.id \in active
    BY <1>9
  <2>3. Len(rows) > limit /\ Ahead(rows[limit], r)
    BY <1>9, <2>1, <2>2, InspectorIsAhead DEF rows
  <2>4. page.more /\ limit \in 1..Len(rows)
    BY <1>2, <1>3, <2>3
  <2>5. PICK q \in 1..Len(rows) : q <= limit /\ page.after = rows[q]
    BY <1>10, <2>4
  <2>6. q = limit \/ Ahead(rows[q], rows[limit])
    BY <1>3, <2>4, <2>5
  <2>7. Ahead(rows[q], r)
    BY <1>3, <1>9, <2>3, <2>4, <2>5, <2>6, RowsAreOrdered
  <2> QED
    BY <2>4, <2>5, <2>7
<1> QED
  BY <1>11, <1>12, <1>13

-----------------------------------------------------------------------------
(* A page of a folder.                                                     *)

Folder == InOrder(Results("browse"))

\* It is the part of the folder behind the offset, as far as a page goes.
LEMMA BrowsePageIs ==
  ASSUME CatalogOK, reader.kind = "browse", reader.offset \in Nat
  PROVE  /\ PageFits(PageOf(Fetched)) /\ PageOf(Fetched).exact = TRUE
         /\ Folder \in Seq(RowRec) /\ Len(Folder) \in Nat
         /\ \A i \in 1..Len(PageOf(Fetched).rows) :
              reader.offset + i \in 1..Len(Folder) /\ PageOf(Fetched).rows[i] = Folder[reader.offset + i]
         /\ PageOf(Fetched).more => Len(PageOf(Fetched).rows) = PageSize
         /\ ~PageOf(Fetched).more /\ reader.offset <= Len(Folder) =>
              reader.offset + Len(PageOf(Fetched).rows) = Len(Folder)
<1> DEFINE n == reader.offset
<1>0. PageSize \in Nat \ {0} /\ n \in Nat /\ reader.kind \in Kinds \ {"inspector"} /\ reader.kind \in Kinds \ Copied
  BY PagesAssumption DEF Kinds, Searches, Copied
<1>1. Results("browse") \in SUBSET RowRec /\ IsFiniteSet(Results("browse"))
  BY <1>0, ResultsAreRows
<1>2. Best(Results("browse")) = Results("browse")
  BY <1>0, <1>1, OneRowEach, RowsAreOrdered DEF Best
<1>3. PageRows = Results("browse")
  BY <1>0, <1>2, CandidatesAreResults DEF PageRows, Behind
<1>4. /\ Folder \in Seq(RowRec) /\ Len(Folder) \in Nat
      /\ \A i \in 1..Len(Folder) : Folder[i] \in Results("browse")
      /\ \A i, j \in 1..Len(Folder) : i < j => Ahead(Folder[i], Folder[j])
  BY <1>1, OrderedListing DEF Folder
<1>5. Fetched = IF n > Len(Folder) THEN <<>> ELSE SubSeq(Folder, n + 1, Len(Folder))
  BY <1>3 DEF Fetched, PageRows, Folder
<1> HIDE DEF n
<1>6. PICK rows : rows = Fetched
  OBVIOUS
<1>7. /\ rows \in Seq(RowRec) /\ Len(rows) \in Nat
      /\ Len(rows) = (IF n > Len(Folder) THEN 0 ELSE Len(Folder) - n)
      /\ \A i \in 1..Len(rows) : n + i \in 1..Len(Folder) /\ rows[i] = Folder[n + i]
  <2>1. CASE n > Len(Folder)
    BY <1>0, <1>4, <1>5, <1>6, <2>1
  <2>2. CASE ~(n > Len(Folder))
    <3>1. rows = SubSeq(Folder, n + 1, Len(Folder))
      BY <1>5, <1>6, <2>2
    <3> QED
      BY <1>0, <1>4, <2>2, <3>1
  <2> QED
    BY <2>1, <2>2
<1>8. PICK page : page = PageOf(Fetched)
  OBVIOUS
<1>9. page = [rows |-> Start(rows, PageSize), more |-> Len(rows) > PageSize, exact |-> TRUE,
              after |-> IF Len(rows) > PageSize /\ reader.kind # "browse" THEN rows[PageSize] ELSE NoRow]
  BY <1>6, <1>8 DEF PageOf, NextCursor
<1>10. page.rows = Start(rows, PageSize) /\ page.exact = TRUE /\ page.more = (Len(rows) > PageSize)
  BY <1>9
<1>11. (Len(rows) > PageSize) \in BOOLEAN
  OBVIOUS
<1>12. page.more \in BOOLEAN /\ (page.more <=> Len(rows) > PageSize)
  BY <1>10, <1>11, Zenon
<1>13. /\ page.rows \in Seq(RowRec) /\ Len(page.rows) \in Nat
       /\ Len(page.rows) = (IF Len(rows) > PageSize THEN PageSize ELSE Len(rows))
       /\ \A i \in 1..Len(page.rows) : page.rows[i] = rows[i] /\ i \in 1..Len(rows)
  BY <1>0, <1>7, <1>10, StartOf
<1>14. \A i \in 1..Len(page.rows) : n + i \in 1..Len(Folder) /\ page.rows[i] = Folder[n + i]
  BY <1>7, <1>13
<1>15. \A i \in 1..Len(page.rows) : page.rows[i] \in Results("browse") /\ Behind(page.rows[i])
  BY <1>4, <1>14 DEF Behind
<1>16. \A i, j \in 1..Len(page.rows) : i < j => Ahead(page.rows[i], page.rows[j])
  <2> SUFFICES ASSUME NEW i \in 1..Len(page.rows), NEW j \in 1..Len(page.rows), i < j
               PROVE  Ahead(page.rows[i], page.rows[j])
    OBVIOUS
  <2>1. n + i < n + j
    BY <1>0
  <2> QED
    BY <1>4, <1>14, <2>1
<1>17. PageFits(page)
  BY <1>2, <1>10, <1>12, <1>13, <1>15, <1>16 DEF PageFits
<1>18. page.more => Len(page.rows) = PageSize
  BY <1>12, <1>13
<1>19. ~page.more /\ n <= Len(Folder) => n + Len(page.rows) = Len(Folder)
  BY <1>0, <1>4, <1>7, <1>12, <1>13
<1> QED
  BY <1>4, <1>8, <1>10, <1>14, <1>17, <1>18, <1>19 DEF n

-----------------------------------------------------------------------------
(* The inductive invariant.                                                *)

ReaderOK ==
  /\ reader = [pc |-> reader.pc, kind |-> reader.kind, begun |-> reader.begun, after |-> reader.after,
               offset |-> reader.offset, exact |-> reader.exact, got |-> reader.got]
  /\ reader.pc \in {"away", "paging", "done", "refused"} /\ reader.kind \in Kinds
  /\ reader.begun \in BOOLEAN /\ reader.exact \in BOOLEAN /\ reader.offset \in Nat /\ reader.got \in Seq(RowRec)
  /\ reader.kind # "inspector" => reader.exact
  /\ reader.kind # "browse" => reader.offset = 0
  /\ reader.begun => reader.pc \in {"paging", "refused"}
  /\ ~reader.begun /\ reader.pc \in {"away", "paging"} => reader.got = <<>> /\ reader.offset = 0
  /\ reader.pc = "away" => ~reader.begun /\ reader.exact
  /\ quiet \in BOOLEAN /\ short \in BOOLEAN

\* Nothing received is behind the cursor.
CursorIsLast ==
  reader.exact /\ reader.kind # "browse" =>
    /\ \A i, j \in 1..Len(reader.got) : i < j => Ahead(reader.got[i], reader.got[j])
    /\ reader.begun =>
         /\ reader.after \in RowRec
         /\ \A i \in 1..Len(reader.got) : reader.got[i] = reader.after \/ Ahead(reader.got[i], reader.after)

\* What was received of an unchanged id is one of its results still.
GotIsResult ==
  \A j \in 1..Len(reader.got) : reader.got[j].id \in steady =>
    /\ reader.got[j] \in Results(reader.kind)
    /\ reader.kind \notin {"plain", "legacy"} => reader.got[j] \in Best(Results(reader.kind))

\* A folder that did not change was received from its start up to the offset.
GotIsStart ==
  reader.kind = "browse" /\ steady # {} =>
    /\ Len(reader.got) <= Len(Folder)
    /\ \A i \in 1..Len(reader.got) : reader.got[i] = Folder[i]
    /\ reader.pc = "paging" => reader.offset = Len(reader.got)
    /\ reader.pc = "done" => Len(reader.got) = Len(Folder)

\* An unchanged result that was not received is behind the cursor.
RestIsBehind ==
  reader.exact /\ ~short /\ reader.kind # "browse" =>
    /\ reader.pc = "paging" =>
         \A i \in steady : i \in GotIds \/ \A r \in Best(Results(reader.kind)) : r.id = i => Behind(r)
    /\ reader.pc = "done" => steady \subseteq GotIds

\* What is steady is a result; while the catalog is quiet the converse holds.
SteadyIsResult ==
  /\ \A i \in steady : \E r \in Results(reader.kind) : r.id = i
  /\ reader.pc = "away" => steady = {}
  /\ quiet /\ reader.pc # "away" =>
       /\ \A r \in Results(reader.kind) : r.id \in steady
       /\ GotIds \subseteq steady

PagesInv ==
  CatalogOK /\ ReaderOK /\ CursorIsLast /\ GotIsResult /\ GotIsStart /\ RestIsBehind /\ SteadyIsResult

\* Results are made of the catalog alone.
LEMMA ResultsStay ==
  ASSUME UNCHANGED catalog, NEW kind \in Kinds
  PROVE  Results(kind)' = Results(kind)
<1>1. /\ mtime' = mtime /\ active' = active /\ gone' = gone /\ stored' = stored /\ text' = text
      /\ rank' = rank /\ derived' = derived
  BY DEF catalog
<1>2. Copies' = Copies
  BY <1>1 DEF Copies, CopiesOf, Usable, Current, Copy
<1>3. Documents' = Documents
  BY <1>1 DEF Documents, Document
<1>4. Groups' = Groups
  <2>1. \A v : UsersOf(v)' = UsersOf(v)
    BY <1>1 DEF UsersOf
  <2>2. \A v : Group(v)' = Group(v)
    BY <1>1, <2>1 DEF Group, Newest
  <2> QED
    BY <1>1, <2>2 DEF Groups
<1>5. \A a : Filtered(a)' = Filtered(a) /\ Inspected(a)' = Inspected(a) /\ Listed(a)' = Listed(a)
             /\ Current(a)' = Current(a)
  BY <1>1 DEF Filtered, Inspected, Listed, Current
<1> QED
  BY <1>1, <1>2, <1>3, <1>4, <1>5 DEF Results

\* One page behind the others.
LEMMA Joined ==
  ASSUME NEW g \in Seq(RowRec), NEW p \in Seq(RowRec)
  PROVE  /\ g \o p \in Seq(RowRec) /\ Len(g \o p) = Len(g) + Len(p)
         /\ Len(g) \in Nat /\ Len(p) \in Nat /\ Len(g \o p) \in Nat
         /\ \A i \in 1..Len(g) : i \in 1..Len(g \o p) /\ (g \o p)[i] = g[i]
         /\ \A i \in 1..Len(p) : Len(g) + i \in 1..Len(g \o p) /\ (g \o p)[Len(g) + i] = p[i]
         /\ \A i \in 1..Len(g \o p) :
              \/ i \in 1..Len(g)
              \/ i - Len(g) \in 1..Len(p) /\ (g \o p)[i] = p[i - Len(g)]
<1>1. Len(g) \in Nat /\ Len(p) \in Nat /\ g \o p \in Seq(RowRec) /\ Len(g \o p) = Len(g) + Len(p)
  OBVIOUS
<1>2. \A i \in 1..Len(g) : i \in 1..Len(g \o p) /\ (g \o p)[i] = g[i]
  BY <1>1
<1>3. \A i \in 1..Len(g \o p) :
        \/ i \in 1..Len(g)
        \/ i - Len(g) \in 1..Len(p) /\ (g \o p)[i] = p[i - Len(g)]
  BY <1>1
<1>4. ASSUME NEW i \in 1..Len(p) PROVE Len(g) + i \in 1..Len(g \o p) /\ (g \o p)[Len(g) + i] = p[i]
  <2>1. PICK n : n = Len(g) + i
    OBVIOUS
  <2>2. n \in 1..Len(g \o p) /\ n \notin 1..Len(g) /\ n - Len(g) = i
    BY <1>1, <2>1
  <2> QED
    BY <1>3, <2>1, <2>2
<1> QED
  BY <1>1, <1>2, <1>3, <1>4

\* What a page changes of the reader.
LEMMA ReceivedParts ==
  ASSUME ReaderOK, NEW page, PageFits(page), Receive(page)
  PROVE  /\ reader'.kind = reader.kind /\ reader'.after = page.after
         /\ reader'.got \in Seq(RowRec) /\ Len(reader'.got) = Len(reader.got) + Len(page.rows)
         /\ Len(reader.got) \in Nat /\ Len(page.rows) \in Nat /\ Len(reader'.got) \in Nat
         /\ \A i \in 1..Len(reader.got) : i \in 1..Len(reader'.got) /\ reader'.got[i] = reader.got[i]
         /\ \A i \in 1..Len(page.rows) :
              Len(reader.got) + i \in 1..Len(reader'.got) /\ reader'.got[Len(reader.got) + i] = page.rows[i]
         /\ \A i \in 1..Len(reader'.got) :
              \/ i \in 1..Len(reader.got)
              \/ i - Len(reader.got) \in 1..Len(page.rows) /\ reader'.got[i] = page.rows[i - Len(reader.got)]
         /\ reader'.pc = IF page.more THEN "paging" ELSE "done"
         /\ reader'.begun \in BOOLEAN /\ (reader'.begun <=> page.more)
         /\ reader'.exact \in BOOLEAN /\ (reader'.exact <=> reader.exact /\ page.exact)
         /\ reader'.offset = IF page.more /\ reader.kind = "browse" THEN reader.offset + PageSize ELSE 0
         /\ reader' = [pc |-> reader'.pc, kind |-> reader'.kind, begun |-> reader'.begun, after |-> reader'.after,
                       offset |-> reader'.offset, exact |-> reader'.exact, got |-> reader'.got]
<1>1. PICK r : r = reader'
  OBVIOUS
<1>2. r = [pc |-> IF page.more THEN "paging" ELSE "done", kind |-> reader.kind, begun |-> page.more,
           after |-> page.after,
           offset |-> IF page.more /\ reader.kind = "browse" THEN reader.offset + PageSize ELSE 0,
           exact |-> reader.exact /\ page.exact, got |-> reader.got \o page.rows]
  BY <1>1 DEF Receive, ReaderOK
<1>3. /\ r.pc = (IF page.more THEN "paging" ELSE "done") /\ r.kind = reader.kind /\ r.after = page.after
      /\ r.offset = (IF page.more /\ reader.kind = "browse" THEN reader.offset + PageSize ELSE 0)
      /\ r.got = reader.got \o page.rows
  BY <1>2
<1>4. r.begun = page.more /\ r.exact = (reader.exact /\ page.exact)
  BY <1>2
<1>5. page.more \in BOOLEAN /\ (reader.exact /\ page.exact) \in BOOLEAN
  BY DEF PageFits
<1>6. r.begun \in BOOLEAN /\ (r.begun <=> page.more) /\ r.exact \in BOOLEAN /\ (r.exact <=> reader.exact /\ page.exact)
  BY <1>4, <1>5, Zenon
<1>7. r = [pc |-> r.pc, kind |-> r.kind, begun |-> r.begun, after |-> r.after,
           offset |-> r.offset, exact |-> r.exact, got |-> r.got]
  BY <1>2
<1>8. reader.got \in Seq(RowRec) /\ page.rows \in Seq(RowRec)
  BY DEF ReaderOK, PageFits
<1>9. /\ r.got \in Seq(RowRec) /\ Len(r.got) = Len(reader.got) + Len(page.rows)
      /\ Len(reader.got) \in Nat /\ Len(page.rows) \in Nat /\ Len(r.got) \in Nat
      /\ \A i \in 1..Len(reader.got) : i \in 1..Len(r.got) /\ r.got[i] = reader.got[i]
      /\ \A i \in 1..Len(page.rows) :
           Len(reader.got) + i \in 1..Len(r.got) /\ r.got[Len(reader.got) + i] = page.rows[i]
      /\ \A i \in 1..Len(r.got) :
           \/ i \in 1..Len(reader.got)
           \/ i - Len(reader.got) \in 1..Len(page.rows) /\ r.got[i] = page.rows[i - Len(reader.got)]
  <2>1. PICK g, p, h : g = reader.got /\ p = page.rows /\ h = r.got
    OBVIOUS
  <2>2. g \in Seq(RowRec) /\ p \in Seq(RowRec) /\ h = g \o p
    BY <1>3, <1>8, <2>1
  <2>3. /\ h \in Seq(RowRec) /\ Len(h) = Len(g) + Len(p) /\ Len(g) \in Nat /\ Len(p) \in Nat /\ Len(h) \in Nat
        /\ \A i \in 1..Len(g) : i \in 1..Len(h) /\ h[i] = g[i]
        /\ \A i \in 1..Len(p) : Len(g) + i \in 1..Len(h) /\ h[Len(g) + i] = p[i]
        /\ \A i \in 1..Len(h) : i \in 1..Len(g) \/ (i - Len(g) \in 1..Len(p) /\ h[i] = p[i - Len(g)])
    BY <2>2, Joined
  <2> QED
    BY <2>1, <2>3, Zenon
<1> QED
  BY <1>1, <1>3, <1>6, <1>7, <1>9

\* What the client has.
LEMMA GotIdsAre ==
  ASSUME ReaderOK
  PROVE  \A i : i \in GotIds <=> \E j \in 1..Len(reader.got) : reader.got[j].id = i
BY DEF GotIds, ReaderOK

\* A page is received and nothing else happens.
PageComes(page) ==
  /\ reader.pc = "paging" /\ PageFits(page) /\ Receive(page)
  /\ UNCHANGED <<catalog, steady, quiet>>
  /\ short' \in BOOLEAN /\ (short => short')
  /\ reader.kind # "inspector" => page.exact = TRUE
  /\ reader.kind # "browse" /\ reader.exact /\ page.exact /\ ~short' => PageCovers(page)
  /\ reader.kind = "browse" => page = PageOf(Fetched)

LEMMA PageKeepsReader ==
  ASSUME CatalogOK, ReaderOK, NEW page, PageComes(page)
  PROVE  ReaderOK' /\ CatalogOK'
<1>1. ReaderOK'
  <2>1. reader.kind \in Kinds /\ quiet \in BOOLEAN /\ reader.offset \in Nat
        /\ (reader.kind # "inspector" => reader.exact) /\ (reader.kind # "browse" => reader.offset = 0)
    BY DEF ReaderOK
  <2>2. /\ reader'.kind = reader.kind /\ reader'.got \in Seq(RowRec)
        /\ reader'.pc = (IF page.more THEN "paging" ELSE "done")
        /\ reader'.begun \in BOOLEAN /\ (reader'.begun <=> page.more)
        /\ reader'.exact \in BOOLEAN /\ (reader'.exact <=> reader.exact /\ page.exact)
        /\ reader'.offset = (IF page.more /\ reader.kind = "browse" THEN reader.offset + PageSize ELSE 0)
        /\ reader' = [pc |-> reader'.pc, kind |-> reader'.kind, begun |-> reader'.begun, after |-> reader'.after,
                      offset |-> reader'.offset, exact |-> reader'.exact, got |-> reader'.got]
    BY ReceivedParts DEF PageComes
  <2>3. reader'.offset \in Nat /\ (reader'.kind # "browse" => reader'.offset = 0)
    BY <2>1, <2>2, PagesAssumption
  <2>4. reader'.kind # "inspector" => reader'.exact
    BY <2>1, <2>2 DEF PageComes
  <2>5. quiet' \in BOOLEAN /\ short' \in BOOLEAN
    BY <2>1 DEF PageComes
  <2>6. reader'.pc \in {"paging", "done"} /\ (reader'.begun <=> reader'.pc = "paging")
    BY <2>2
  <2> QED
    BY <2>1, <2>2, <2>3, <2>4, <2>5, <2>6 DEF ReaderOK
<1>2. CatalogOK'
  BY DEF PageComes, catalog, CatalogOK
<1> QED
  BY <1>1, <1>2

\* What a page brings comes after what was there.
LEMMA PageKeepsOrder ==
  ASSUME CatalogOK, ReaderOK, CursorIsLast, NEW page, PageComes(page)
  PROVE  CursorIsLast'
<1> DEFINE n == Len(reader.got)
<1>1. SUFFICES ASSUME reader.exact, page.exact, reader.kind # "browse" PROVE CursorIsLast'
  BY ReceivedParts DEF PageComes, CursorIsLast
<1>2. /\ n \in Nat /\ Len(page.rows) \in Nat
      /\ \A i \in 1..n : reader'.got[i] = reader.got[i]
      /\ \A i \in 1..Len(reader'.got) :
           \/ i \in 1..n
           \/ i - n \in 1..Len(page.rows) /\ reader'.got[i] = page.rows[i - n]
      /\ reader'.begun <=> page.more
      /\ reader'.after = page.after
  BY ReceivedParts DEF PageComes
<1>3. /\ \A i \in 1..Len(page.rows) : Behind(page.rows[i]) /\ page.rows[i] \in RowRec
      /\ \A i, j \in 1..Len(page.rows) : i < j => Ahead(page.rows[i], page.rows[j])
      /\ page.more =>
           /\ page.after \in RowRec /\ Behind(page.after)
           /\ \A i \in 1..Len(page.rows) : page.rows[i] = page.after \/ Ahead(page.rows[i], page.after)
  BY <1>1 DEF PageComes, PageFits
<1>4. /\ \A i \in 1..n : reader.got[i] \in RowRec
      /\ ~reader.begun => n = 0
  BY DEF ReaderOK, PageComes
<1>5. /\ \A i, j \in 1..n : i < j => Ahead(reader.got[i], reader.got[j])
      /\ reader.begun => reader.after \in RowRec
                         /\ \A i \in 1..n : reader.got[i] = reader.after \/ Ahead(reader.got[i], reader.after)
  BY <1>1 DEF CursorIsLast
\* Whatever is behind the old cursor is behind all that was there.
<1>6. ASSUME NEW r \in RowRec, Behind(r), NEW i \in 1..n PROVE Ahead(reader.got[i], r)
  <2>1. reader.begun
    BY <1>2, <1>4
  <2>2. Ahead(reader.after, r)
    BY <1>1, <1>6, <2>1 DEF Behind
  <2> QED
    BY <1>4, <1>5, <1>6, <2>1, <2>2, RowsAreOrdered
<1> HIDE DEF n
<1>7. ASSUME NEW i \in 1..Len(reader'.got), NEW j \in 1..Len(reader'.got), i < j
      PROVE  Ahead(reader'.got[i], reader'.got[j])
  <2>1. CASE j \in 1..n
    <3>1. i \in 1..n
      BY <1>2, <1>7, <2>1
    <3> QED
      BY <1>2, <1>5, <1>7, <2>1, <3>1
  <2>2. CASE i \in 1..n /\ j - n \in 1..Len(page.rows) /\ reader'.got[j] = page.rows[j - n]
    BY <1>2, <1>3, <1>6, <2>2
  <2>3. CASE /\ i - n \in 1..Len(page.rows) /\ reader'.got[i] = page.rows[i - n]
             /\ j - n \in 1..Len(page.rows) /\ reader'.got[j] = page.rows[j - n]
    <3>1. i - n < j - n
      BY <1>2, <1>7
    <3> QED
      BY <1>3, <2>3, <3>1
  <2> QED
    BY <1>2, <2>1, <2>2, <2>3
<1>8. ASSUME page.more, NEW i \in 1..Len(reader'.got)
      PROVE  reader'.got[i] = page.after \/ Ahead(reader'.got[i], page.after)
  BY <1>2, <1>3, <1>6, <1>8
<1> QED
  BY <1>2, <1>3, <1>7, <1>8 DEF CursorIsLast

LEMMA PageKeepsResults ==
  ASSUME CatalogOK, ReaderOK, GotIsResult, SteadyIsResult, NEW page, PageComes(page)
  PROVE  GotIsResult' /\ SteadyIsResult'
<1> DEFINE n == Len(reader.got)
<1> DEFINE R == Results(reader.kind)
<1>1. reader.kind \in Kinds /\ reader'.kind = reader.kind /\ R' = R
  <2>1. reader.kind \in Kinds /\ reader'.kind = reader.kind
    BY ReceivedParts DEF ReaderOK, PageComes
  <2>2. UNCHANGED catalog
    BY DEF PageComes
  <2> QED
    BY <2>1, <2>2, ResultsStay
<1>2. Best(R)' = Best(R)
  BY <1>1 DEF Best
<1>3. /\ n \in Nat /\ Len(page.rows) \in Nat
      /\ \A i \in 1..n : reader'.got[i] = reader.got[i]
      /\ \A i \in 1..Len(reader'.got) :
           \/ i \in 1..n
           \/ i - n \in 1..Len(page.rows) /\ reader'.got[i] = page.rows[i - n]
      /\ reader'.pc # "away"
  BY ReceivedParts DEF PageComes
<1>4. \A i \in 1..Len(page.rows) :
        page.rows[i] \in R /\ (reader.kind \notin {"plain", "legacy"} => page.rows[i] \in Best(R))
  BY DEF PageComes, PageFits
<1>5. steady' = steady /\ quiet' = quiet /\ reader.pc = "paging"
  BY DEF PageComes
<1>6. GotIsResult'
  <2> SUFFICES ASSUME NEW j \in 1..Len(reader'.got), reader'.got[j].id \in steady
               PROVE  /\ reader'.got[j] \in R
                      /\ reader.kind \notin {"plain", "legacy"} => reader'.got[j] \in Best(R)
    BY <1>1, <1>2, <1>5 DEF GotIsResult
  <2>1. CASE j \in 1..n
    BY <1>3, <2>1 DEF GotIsResult
  <2>2. CASE j - n \in 1..Len(page.rows) /\ reader'.got[j] = page.rows[j - n]
    BY <1>4, <2>2
  <2> QED
    BY <1>3, <2>1, <2>2
<1>7. ASSUME quiet, NEW i \in GotIds' PROVE i \in steady
  <2>1. \A r \in R : r.id \in steady
    BY <1>5, <1>7 DEF SteadyIsResult
  <2>2. PICK j \in 1..Len(reader'.got) : reader'.got[j].id = i
    <3>1. ReaderOK'
      BY PageKeepsReader
    <3> QED
      BY <3>1, <1>7, GotIdsAre DEF GotIds, ReaderOK
  <2>3. CASE j \in 1..n
    <3>1. i \in GotIds
      BY <1>3, <2>2, <2>3, GotIdsAre
    <3> QED
      BY <1>5, <1>7, <3>1 DEF SteadyIsResult
  <2>4. CASE j - n \in 1..Len(page.rows) /\ reader'.got[j] = page.rows[j - n]
    BY <1>4, <2>1, <2>2, <2>4
  <2> QED
    BY <1>3, <2>3, <2>4
<1>8. SteadyIsResult'
  <2>1. \A i \in steady : \E r \in R : r.id = i
    BY DEF SteadyIsResult
  <2>2. quiet => \A r \in R : r.id \in steady
    BY <1>5 DEF SteadyIsResult
  <2> QED
    BY <1>1, <1>3, <1>5, <1>7, <2>1, <2>2 DEF SteadyIsResult
<1> QED
  BY <1>6, <1>8

LEMMA PageKeepsStart ==
  ASSUME CatalogOK, ReaderOK, GotIsStart, NEW page, PageComes(page)
  PROVE  GotIsStart'
<1> DEFINE n == Len(reader.got)
<1>1. SUFFICES ASSUME reader.kind = "browse", steady # {} PROVE GotIsStart'
  BY ReceivedParts DEF PageComes, GotIsStart
<1>2. Folder' = Folder
  <2>1. "browse" \in Kinds /\ UNCHANGED catalog
    BY DEF PageComes, Kinds
  <2> QED
    BY <2>1, ResultsStay DEF Folder
<1>3. /\ n \in Nat /\ Len(page.rows) \in Nat /\ Len(reader'.got) = n + Len(page.rows)
      /\ \A i \in 1..n : reader'.got[i] = reader.got[i]
      /\ \A i \in 1..Len(reader'.got) :
           \/ i \in 1..n
           \/ i - n \in 1..Len(page.rows) /\ reader'.got[i] = page.rows[i - n]
      /\ reader'.pc = (IF page.more THEN "paging" ELSE "done")
      /\ reader'.offset = (IF page.more THEN reader.offset + PageSize ELSE 0)
  BY <1>1, ReceivedParts DEF PageComes
<1>4. n <= Len(Folder) /\ reader.offset = n /\ \A i \in 1..n : reader.got[i] = Folder[i]
  BY <1>1 DEF GotIsStart, PageComes
<1>5. page = PageOf(Fetched) /\ steady' = steady
  BY <1>1 DEF PageComes
<1>6. /\ Len(Folder) \in Nat
      /\ \A i \in 1..Len(page.rows) : n + i \in 1..Len(Folder) /\ page.rows[i] = Folder[n + i]
      /\ page.more => Len(page.rows) = PageSize
      /\ ~page.more => n + Len(page.rows) = Len(Folder)
  BY <1>1, <1>3, <1>4, <1>5, BrowsePageIs
<1> HIDE DEF n
<1>7. Len(reader'.got) <= Len(Folder)
  <2>1. CASE Len(page.rows) = 0
    BY <1>3, <1>4, <1>6, <2>1
  <2>2. CASE Len(page.rows) # 0
    <3>1. Len(page.rows) \in 1..Len(page.rows)
      BY <1>3, <2>2
    <3> QED
      BY <1>3, <1>6, <3>1
  <2> QED
    BY <2>1, <2>2
<1>8. ASSUME NEW i \in 1..Len(reader'.got) PROVE reader'.got[i] = Folder[i]
  <2>1. CASE i \in 1..n
    BY <1>3, <1>4, <2>1
  <2>2. CASE i - n \in 1..Len(page.rows) /\ reader'.got[i] = page.rows[i - n]
    <3>1. n + (i - n) = i
      BY <1>3
    <3> QED
      BY <1>6, <2>2, <3>1
  <2> QED
    BY <1>3, <2>1, <2>2
<1>9. reader'.pc = "paging" => reader'.offset = Len(reader'.got)
  BY <1>3, <1>4, <1>6
<1>10. reader'.pc = "done" => Len(reader'.got) = Len(Folder)
  BY <1>3, <1>6
<1> QED
  BY <1>2, <1>7, <1>8, <1>9, <1>10 DEF GotIsStart

\* What the page does not bring stays behind the cursor.
LEMMA PageKeepsRest ==
  ASSUME CatalogOK, ReaderOK, RestIsBehind, SteadyIsResult, NEW page, PageComes(page)
  PROVE  RestIsBehind'
<1> DEFINE n == Len(reader.got)
<1> DEFINE R == Results(reader.kind)
<1>1. SUFFICES ASSUME reader.exact, page.exact, ~short', reader.kind # "browse" PROVE RestIsBehind'
  BY ReceivedParts DEF PageComes, RestIsBehind
<1>2. reader.kind \in Kinds /\ reader'.kind = reader.kind /\ R' = R
  <2>1. reader.kind \in Kinds /\ reader'.kind = reader.kind
    BY ReceivedParts DEF ReaderOK, PageComes
  <2>2. UNCHANGED catalog
    BY DEF PageComes
  <2> QED
    BY <2>1, <2>2, ResultsStay
<1>3. Best(R)' = Best(R)
  BY <1>2 DEF Best
<1>4. R \in SUBSET RowRec /\ IsFiniteSet(R)
  BY <1>2, ResultsAreRows
<1>5. /\ n \in Nat /\ Len(page.rows) \in Nat
      /\ \A i \in 1..n : i \in 1..Len(reader'.got) /\ reader'.got[i] = reader.got[i]
      /\ \A i \in 1..Len(page.rows) : n + i \in 1..Len(reader'.got) /\ reader'.got[n + i] = page.rows[i]
      /\ reader'.pc = (IF page.more THEN "paging" ELSE "done")
      /\ reader'.begun <=> page.more
      /\ reader'.after = page.after
  BY ReceivedParts DEF PageComes
<1>6. PageCovers(page) /\ steady' = steady /\ ~short /\ reader.pc = "paging"
  BY <1>1 DEF PageComes
<1>7. \A i \in steady : i \in GotIds \/ \A r \in Best(R) : r.id = i => Behind(r)
  BY <1>1, <1>6 DEF RestIsBehind
<1>8. \A i : i \in GotIds' <=> \E j \in 1..Len(reader'.got) : reader'.got[j].id = i
  <2>1. ReaderOK'
    BY PageKeepsReader
  <2> QED
    BY <2>1, GotIdsAre DEF GotIds, ReaderOK
<1>9. ASSUME NEW i \in steady, i \notin GotIds', NEW r \in Best(R), r.id = i
      PROVE  page.more /\ Ahead(page.after, r)
  <2>1. i \notin GotIds
    BY <1>5, <1>8, <1>9, GotIdsAre
  <2>2. Behind(r)
    BY <1>7, <1>9, <2>1
  <2>3. ~ \E j \in 1..Len(page.rows) : page.rows[j] = r
    BY <1>5, <1>8, <1>9
  <2> QED
    BY <1>6, <2>2, <2>3 DEF PageCovers
<1>10. CASE page.more
  <2>1. \A i \in steady : i \in GotIds' \/ \A r \in Best(R) : r.id = i => Behind(r)'
    BY <1>1, <1>2, <1>5, <1>9, <1>10 DEF Behind
  <2>2. reader'.pc = "paging"
    BY <1>5, <1>10
  <2> QED
    BY <1>2, <1>3, <1>6, <2>1, <2>2 DEF RestIsBehind
<1>11. CASE ~page.more
  <2>1. reader'.pc = "done"
    BY <1>5, <1>11
  <2>2. ASSUME NEW i \in steady PROVE i \in GotIds'
    <3>1. PICK r \in R : r.id = i
      BY DEF SteadyIsResult
    <3>2. PICK o \in Best(R) : o.id = i
      BY <1>4, <3>1, BestRows
    <3> QED
      BY <1>9, <1>11, <3>2
  <2> QED
    BY <1>6, <2>1, <2>2 DEF RestIsBehind
<1> QED
  BY <1>10, <1>11

\* A page, whatever the listing.
LEMMA FetchKeeps ==
  ASSUME PagesInv, Fetch
  PROVE  PagesInv'
<1>0. /\ CatalogOK /\ ReaderOK /\ reader.pc = "paging" /\ reader.kind \in Kinds /\ short \in BOOLEAN
      /\ (reader.kind # "browse" => reader.offset = 0) /\ reader.offset \in Nat
  BY DEF PagesInv, ReaderOK, Fetch
<1>1. UNCHANGED <<catalog, steady, quiet>>
  BY DEF Fetch
<1>2. ASSUME NEW page, PageComes(page) PROVE PagesInv'
  BY <1>2, PageKeepsReader, PageKeepsOrder, PageKeepsResults, PageKeepsStart, PageKeepsRest DEF PagesInv
<1>3. CASE reader.kind = "inspector"
  <2> DEFINE limit == InspectorLimit
  <2>1. limit \in Nat \ {0}
    BY PagesAssumption DEF InspectorLimit
  <2>2. Receive(InspectorPage(limit)) /\ short' = (short \/ InspectorShort(limit))
    BY <1>3 DEF Fetch
  <2>3. (InspectorShort(limit)) \in BOOLEAN
    BY DEF InspectorShort, Lacking
  <2> HIDE DEF limit
  <2>4. short' \in BOOLEAN /\ (short => short') /\ (~short' => ~InspectorShort(limit))
    BY <1>0, <2>2, <2>3
  <2>5. PageFits(InspectorPage(limit))
    BY <1>0, <1>3, <2>1, InspectorFits
  <2>6. InspectorPage(limit).exact /\ ~short' => PageCovers(InspectorPage(limit))
    BY <1>0, <1>3, <2>1, <2>4, InspectorCovers
  <2> QED
    BY <1>0, <1>1, <1>2, <1>3, <2>2, <2>4, <2>5, <2>6 DEF PageComes
<1>4. CASE reader.kind # "inspector"
  <2>1. Receive(PageOf(Fetched)) /\ short' = (short \/ PageShort(Fetched))
    BY <1>4 DEF Fetch
  <2>2. short' \in BOOLEAN /\ (short => short') /\ (~short' => ~PageShort(Fetched))
    BY <1>0, <2>1
  <2>3. PageFits(PageOf(Fetched)) /\ PageOf(Fetched).exact = TRUE
    BY <1>0, <1>4, FetchedFits, PageIsCut, BrowsePageIs
  <2>4. reader.kind # "browse" /\ ~short' => PageCovers(PageOf(Fetched))
    BY <1>0, <1>4, <2>2, FetchedCovers
  <2> QED
    BY <1>0, <1>1, <1>2, <1>4, <2>1, <2>2, <2>3, <2>4 DEF PageComes
<1> QED
  BY <1>3, <1>4

-----------------------------------------------------------------------------
(* The other steps.                                                        *)

\* A listing is opened: everything in it is steady and nothing is received yet.
LEMMA OpenKeeps ==
  ASSUME PagesInv, NEW kind \in Kinds, Open(kind)
  PROVE  PagesInv'
<1>1. /\ CatalogOK /\ ReaderOK /\ reader.pc = "away" /\ UNCHANGED <<catalog, short>>
      /\ steady' = {r.id : r \in Results(kind)} /\ quiet' = TRUE
  BY DEF Open, PagesInv
<1>2. reader.got = <<>> /\ reader.offset = 0 /\ ~reader.begun /\ reader.exact
  BY <1>1 DEF ReaderOK
<1>3. PICK r : r = reader'
  OBVIOUS
<1>4. r = [reader EXCEPT !.pc = "paging", !.kind = kind]
  BY <1>3 DEF Open
<1>5. r = [pc |-> "paging", kind |-> kind, begun |-> reader.begun, after |-> reader.after,
           offset |-> reader.offset, exact |-> reader.exact, got |-> reader.got]
  BY <1>1, <1>4 DEF ReaderOK
<1>6. r.pc = "paging" /\ r.kind = kind /\ r.after = reader.after /\ r.offset = 0 /\ r.got = <<>>
  BY <1>2, <1>5
<1>7. r.begun = reader.begun /\ r.exact = reader.exact
  BY <1>5
<1>8. r = [pc |-> r.pc, kind |-> r.kind, begun |-> r.begun, after |-> r.after,
           offset |-> r.offset, exact |-> r.exact, got |-> r.got]
  BY <1>5
<1>9. CatalogOK' /\ UNCHANGED catalog
  BY <1>1 DEF CatalogOK, catalog
<1>10. Results(kind)' = Results(kind)
  BY <1>9, ResultsStay
<1>11. <<>> \in Seq(RowRec) /\ Len(<<>>) = 0
  OBVIOUS
<1>12. ReaderOK'
  BY <1>1, <1>2, <1>3, <1>6, <1>7, <1>8, <1>11 DEF ReaderOK
<1>13. CursorIsLast' /\ GotIsResult'
  BY <1>2, <1>3, <1>6, <1>7, <1>11 DEF CursorIsLast, GotIsResult
<1>14. GotIsStart'
  <2>1. ASSUME kind = "browse" PROVE Len(Folder)' \in Nat
    <3>1. Results("browse") \in SUBSET RowRec /\ IsFiniteSet(Results("browse"))
      BY <1>1, <2>1, ResultsAreRows
    <3>2. Len(Folder) \in Nat /\ Folder' = Folder
      BY <1>10, <2>1, <3>1, OrderedListing DEF Folder
    <3> QED
      BY <3>2
  <2> QED
    BY <1>3, <1>6, <1>11, <2>1 DEF GotIsStart
<1>15. ASSUME NEW o PROVE Behind(o)'
  BY <1>2, <1>3, <1>7 DEF Behind
<1>16. RestIsBehind'
  BY <1>3, <1>6, <1>15 DEF RestIsBehind
<1>17. GotIds' = {}
  BY <1>3, <1>6 DEF GotIds
<1>18. SteadyIsResult'
  BY <1>1, <1>3, <1>6, <1>10, <1>17 DEF SteadyIsResult
<1> QED
  BY <1>9, <1>12, <1>13, <1>14, <1>16, <1>18 DEF PagesInv

\* A cursor of another request ends the listing.
LEMMA MisuseKeeps ==
  ASSUME PagesInv, NEW kind \in Kinds, Misuse(kind)
  PROVE  PagesInv'
<1>1. /\ CatalogOK /\ ReaderOK /\ reader.pc = "paging" /\ UNCHANGED <<catalog, steady, quiet, short>>
      /\ reader.begun
  BY DEF Misuse, PagesInv
<1>2. PICK r : r = reader'
  OBVIOUS
<1>3. r = [reader EXCEPT !.pc = "refused"]
  BY <1>2 DEF Misuse
<1>4. r = [pc |-> "refused", kind |-> reader.kind, begun |-> reader.begun, after |-> reader.after,
           offset |-> reader.offset, exact |-> reader.exact, got |-> reader.got]
  BY <1>1, <1>3 DEF ReaderOK
<1>5. /\ r.pc = "refused" /\ r.kind = reader.kind /\ r.after = reader.after /\ r.offset = reader.offset
      /\ r.got = reader.got
  BY <1>4
<1>6. r.begun = reader.begun /\ r.exact = reader.exact
  BY <1>4
<1>7. r = [pc |-> r.pc, kind |-> r.kind, begun |-> r.begun, after |-> r.after,
           offset |-> r.offset, exact |-> r.exact, got |-> r.got]
  BY <1>4
<1>8. CatalogOK' /\ UNCHANGED catalog
  BY <1>1 DEF CatalogOK, catalog, PagesInv
<1>9. reader.kind \in Kinds /\ "browse" \in Kinds
  BY <1>1 DEF ReaderOK, Kinds
<1>10. Results(reader.kind)' = Results(reader.kind)
  <2>1. \A k \in Kinds : Results(k)' = Results(k)
    BY <1>8, ResultsStay
  <2> QED
    BY <1>2, <1>5, <1>9, <2>1
<1>11. Best(Results(reader.kind))' = Best(Results(reader.kind))
  BY <1>10 DEF Best
<1>12. Folder' = Folder
  BY <1>8, <1>9, ResultsStay DEF Folder
<1>13. ReaderOK'
  BY <1>1, <1>2, <1>5, <1>6, <1>7 DEF ReaderOK
<1>14. CursorIsLast'
  BY <1>2, <1>5, <1>6 DEF CursorIsLast, PagesInv
<1>15. GotIsResult'
  BY <1>1, <1>2, <1>5, <1>10, <1>11 DEF GotIsResult, PagesInv
<1>16. GotIsStart'
  BY <1>1, <1>2, <1>5, <1>12 DEF GotIsStart, PagesInv
<1>17. RestIsBehind'
  BY <1>2, <1>5 DEF RestIsBehind
<1>18. SteadyIsResult'
  <2>1. GotIds' = GotIds
    BY <1>2, <1>5 DEF GotIds
  <2> QED
    BY <1>1, <1>2, <1>5, <1>10, <2>1 DEF SteadyIsResult, PagesInv
<1> QED
  BY <1>8, <1>13, <1>14, <1>15, <1>16, <1>17, <1>18 DEF PagesInv

\* The catalog changes while a client reads.
LEMMA ChangeKeeps ==
  ASSUME PagesInv, CatalogOK', Observe, UNCHANGED <<reader, short>>
  PROVE  PagesInv'
<1> DEFINE R == Results(reader.kind)
<1>1. PICK Q : Q = Results(reader.kind)'
  OBVIOUS
<1>2. CatalogOK /\ ReaderOK /\ quiet' = FALSE
  BY DEF PagesInv, Observe
<1>3. reader.kind = "browse" /\ steady' # {} => Q = R
  BY <1>1 DEF Observe
<1>4. \A i \in steady' : i \in steady /\ {r \in R : r.id = i} = {r \in Q : r.id = i}
  <2>1. CASE reader.kind = "browse" /\ R # Q
    BY <1>1, <2>1 DEF Observe
  <2>2. CASE ~(reader.kind = "browse" /\ R # Q)
    <3>1. steady' = {i \in steady : {r \in R : r.id = i} = {r \in Q : r.id = i}}
      BY <1>1, <2>2 DEF Observe
    <3> QED
      BY <3>1
  <2> QED
    BY <2>1, <2>2
<1>5. \A i \in steady' : \A r : r.id = i => (r \in R <=> r \in Q) /\ (r \in Best(R) <=> r \in Best(Q))
  BY <1>4, BestById
<1>6. Best(Results(reader.kind))' = Best(Q)
  BY <1>1 DEF Best
<1> HIDE DEF R
<1>7. ReaderOK'
  BY <1>2 DEF ReaderOK
<1>8. CursorIsLast'
  BY DEF CursorIsLast, PagesInv
<1>9. GotIsResult'
  <2> SUFFICES ASSUME NEW j \in 1..Len(reader.got), reader.got[j].id \in steady'
               PROVE  /\ reader.got[j] \in Q
                      /\ reader.kind \notin {"plain", "legacy"} => reader.got[j] \in Best(Q)
    BY <1>1, <1>6 DEF GotIsResult
  <2>1. /\ reader.got[j] \in R
        /\ reader.kind \notin {"plain", "legacy"} => reader.got[j] \in Best(R)
    BY <1>4 DEF GotIsResult, PagesInv, R
  <2> QED
    BY <1>5, <2>1
<1>10. GotIsStart'
  <2> SUFFICES ASSUME reader.kind = "browse", steady' # {} PROVE GotIsStart'
    BY DEF GotIsStart
  <2>1. Q = R /\ steady # {}
    BY <1>3, <1>4
  <2>2. Folder' = Folder
    BY <1>1, <2>1 DEF Folder, R
  <2> QED
    BY <2>1, <2>2 DEF GotIsStart, PagesInv
<1>11. RestIsBehind'
  <2> SUFFICES ASSUME reader.exact, ~short, reader.kind # "browse"
               PROVE  /\ reader.pc = "paging" =>
                           \A i \in steady' : i \in GotIds \/ \A r \in Best(Q) : r.id = i => Behind(r)
                      /\ reader.pc = "done" => steady' \subseteq GotIds
    BY <1>6 DEF RestIsBehind, Behind, GotIds
  <2>1. /\ reader.pc = "paging" =>
             \A i \in steady : i \in GotIds \/ \A r \in Best(R) : r.id = i => Behind(r)
        /\ reader.pc = "done" => steady \subseteq GotIds
    BY DEF RestIsBehind, PagesInv, R
  <2> QED
    BY <1>4, <1>5, <2>1
<1>12. SteadyIsResult'
  <2>1. ASSUME NEW i \in steady' PROVE \E r \in Q : r.id = i
    <3>1. PICK r \in R : r.id = i
      BY <1>4 DEF SteadyIsResult, PagesInv, R
    <3> QED
      BY <1>5, <3>1
  <2>2. reader.pc = "away" => steady' = {}
    BY <1>4 DEF SteadyIsResult, PagesInv
  <2> QED
    BY <1>1, <1>2, <2>1, <2>2 DEF SteadyIsResult
<1> QED
  BY <1>7, <1>8, <1>9, <1>10, <1>11, <1>12 DEF PagesInv

\* The changes keep the catalog well formed.
LEMMA ChangesAreChanges ==
  ASSUME CatalogOK, NEW a \in Assets, Rescan(a) \/ Toggle(a) \/ Vanish(a) \/ Reindex(a) \/ Derive(a)
  PROVE  CatalogOK' /\ Observe /\ UNCHANGED <<reader, short>>
<1>1. CASE Rescan(a)
  <2>1. mtime' = [mtime EXCEPT ![a] = @ + 1]
    BY <1>1 DEF Rescan
  <2>2. mtime' \in [Assets -> Nat]
    BY <2>1 DEF CatalogOK
  <2> QED
    BY <1>1, <2>2 DEF Rescan, Change, CatalogOK
<1>2. CASE Toggle(a)
  BY <1>2 DEF Toggle, Change, CatalogOK
<1>3. CASE Vanish(a)
  BY <1>3 DEF Vanish, Change, CatalogOK
<1>4. CASE Reindex(a)
  <2>1. stored' \in [Assets -> Nat]
    BY <1>4 DEF Reindex, CatalogOK
  <2>2. rank' \in [Assets -> Ranks]
    BY <1>4 DEF Reindex, CatalogOK
  <2>3. text' \in [Assets -> SUBSET Texts]
    <3>1. PICK t \in {text[a], text[a] \cap {"name"}} : text' = [text EXCEPT ![a] = t]
      BY <1>4 DEF Reindex
    <3>2. t \in SUBSET Texts
      BY DEF CatalogOK
    <3> QED
      BY <3>1, <3>2 DEF CatalogOK
  <2>4. derived' \in SUBSET Assets
    BY <1>4 DEF Reindex, Underived, CatalogOK
  <2> QED
    BY <1>4, <2>1, <2>2, <2>3, <2>4 DEF Reindex, Change, CatalogOK
<1>5. CASE Derive(a)
  BY <1>5 DEF Derive, Change, CatalogOK
<1> QED
  BY <1>1, <1>2, <1>3, <1>4, <1>5

LEMMA PagesInitially ==
  ASSUME PInit
  PROVE  PagesInv
<1>1. CatalogOK
  BY PagesAssumption DEF PInit, CatalogOK, Ranks
<1>2. PICK r : r = reader
  OBVIOUS
<1>3. r = [pc |-> "away", kind |-> "plain", begun |-> FALSE, after |-> NoRow, offset |-> 0,
           exact |-> TRUE, got |-> <<>>]
  BY <1>2 DEF PInit, Away
<1>4. <<>> \in Seq(RowRec) /\ Len(<<>>) = 0
  OBVIOUS
<1>5. r.pc = "away" /\ r.kind = "plain" /\ r.after = NoRow /\ r.offset = 0 /\ r.got = <<>>
  BY <1>3
<1>6. r.begun = FALSE /\ r.exact = TRUE
  BY <1>3
<1>7. r = [pc |-> r.pc, kind |-> r.kind, begun |-> r.begun, after |-> r.after,
           offset |-> r.offset, exact |-> r.exact, got |-> r.got]
  BY <1>3
<1>8. quiet = TRUE /\ short = FALSE /\ steady = {}
  BY DEF PInit
<1>9. ReaderOK
  <2>1. /\ reader.pc = "away" /\ reader.kind = "plain" /\ reader.offset = 0 /\ reader.got = <<>>
        /\ reader.begun = FALSE /\ reader.exact = TRUE
    BY <1>2, <1>5, <1>6
  <2>2. reader = [pc |-> reader.pc, kind |-> reader.kind, begun |-> reader.begun, after |-> reader.after,
                  offset |-> reader.offset, exact |-> reader.exact, got |-> reader.got]
    BY <1>2, <1>7, Zenon
  <2>3. "plain" \in Kinds /\ <<>> \in Seq(RowRec)
    BY DEF Kinds, Searches
  <2>4. reader.pc \in {"away", "paging", "done", "refused"} /\ reader.kind \in Kinds /\ reader.offset \in Nat
    <3>1. reader.pc = "away" /\ reader.kind = "plain" /\ reader.offset = 0
      BY <2>1
    <3> QED
      BY <2>3, <3>1
  <2>5. reader.begun \in BOOLEAN /\ reader.exact \in BOOLEAN /\ quiet \in BOOLEAN /\ short \in BOOLEAN
    BY <1>8, <2>1, Zenon
  <2>6. reader.got \in Seq(RowRec)
    BY <2>1, <2>3, Zenon
  <2>7. ~reader.begun /\ reader.exact /\ reader.pc = "away"
    BY <2>1
  <2> QED
    BY <2>1, <2>2, <2>4, <2>5, <2>6, <2>7, Zenon DEF ReaderOK
<1>10. CursorIsLast /\ GotIsResult /\ GotIsStart /\ RestIsBehind
  BY <1>2, <1>4, <1>5, <1>6, <1>8 DEF CursorIsLast, GotIsResult, GotIsStart, RestIsBehind
<1>11. SteadyIsResult
  BY <1>2, <1>5, <1>8 DEF SteadyIsResult
<1> QED
  BY <1>1, <1>9, <1>10, <1>11 DEF PagesInv

LEMMA PagesStutter ==
  ASSUME PagesInv, UNCHANGED vars
  PROVE  PagesInv'
<1>1. UNCHANGED <<catalog, reader, steady, quiet, short>> /\ UNCHANGED catalog
  BY DEF vars, catalog
<1>2. \A k \in Kinds : Results(k)' = Results(k)
  BY <1>1, ResultsStay
<1>3. reader.kind \in Kinds /\ "browse" \in Kinds
  BY DEF PagesInv, ReaderOK, Kinds
<1>4. Results(reader.kind)' = Results(reader.kind) /\ Folder' = Folder
  BY <1>1, <1>2, <1>3 DEF Folder
<1>5. Best(Results(reader.kind))' = Best(Results(reader.kind))
  BY <1>4 DEF Best
<1>6. CatalogOK' /\ ReaderOK'
  BY <1>1 DEF PagesInv, CatalogOK, ReaderOK, catalog
<1>7. CursorIsLast' /\ GotIsStart'
  BY <1>1, <1>4 DEF PagesInv, CursorIsLast, GotIsStart
<1>8. GotIsResult'
  BY <1>1, <1>4, <1>5 DEF PagesInv, GotIsResult
<1>9. RestIsBehind' /\ SteadyIsResult'
  BY <1>1, <1>4, <1>5 DEF PagesInv, RestIsBehind, SteadyIsResult, Behind, GotIds
<1> QED
  BY <1>6, <1>7, <1>8, <1>9 DEF PagesInv

LEMMA PagesStep ==
  ASSUME PagesInv, [PNext]_vars
  PROVE  PagesInv'
<1>1. ASSUME NEW kind \in Kinds, Open(kind) \/ Misuse(kind) PROVE PagesInv'
  BY <1>1, OpenKeeps, MisuseKeeps
<1>2. CASE Fetch
  BY <1>2, FetchKeeps
<1>3. ASSUME NEW a \in Assets, Rescan(a) \/ Toggle(a) \/ Vanish(a) \/ Reindex(a) \/ Derive(a)
      PROVE  PagesInv'
  <2>1. CatalogOK
    BY DEF PagesInv
  <2> QED
    BY <1>3, <2>1, ChangesAreChanges, ChangeKeeps
<1>4. CASE UNCHANGED vars
  BY <1>4, PagesStutter
<1> QED
  BY <1>1, <1>2, <1>3, <1>4 DEF PNext

LEMMA PagesAlways == PSpec => []PagesInv
<1>1. PInit => PagesInv
  BY PagesInitially
<1>2. PagesInv /\ [PNext]_vars => PagesInv'
  BY PagesStep
<1> QED
  BY <1>1, <1>2, PTL DEF PSpec

-----------------------------------------------------------------------------
(* What a client has.                                                      *)

\* Whatever changes between two pages, the rows of search_ranked_media, the inspector
\* and the keyset listings come in the order of their cursors.
THEOREM PagesComeInOrder == PSpec => []ReceivedInOrder
<1>1. ASSUME PagesInv PROVE ReceivedInOrder
  <2>1. reader.got \in Seq(RowRec) /\ CursorIsLast
    BY <1>1 DEF PagesInv, ReaderOK
  <2>2. DOMAIN reader.got = 1..Len(reader.got)
    BY <2>1
  <2> QED
    BY <2>1, <2>2 DEF ReceivedInOrder, CursorIsLast
<1> QED
  BY <1>1, PagesAlways, PTL

\* Two copies of an asset that stand in this order differ in the column they match.
LEMMA CopiesOfOne ==
  ASSUME CatalogOK, NEW r \in Copies, NEW o \in Copies, r.id = o.id, Ahead(r, o)
  PROVE  r.tier > o.tier
<1>1. PICK s \in Texts : r.id \in Assets /\ r = Copy(r.id, s)
  BY CopyOfText
<1>2. PICK t \in Texts : o = Copy(o.id, t)
  BY CopyOfText
<1>3. PICK a \in Assets : r = Copy(a, s) /\ o = Copy(a, t)
  BY <1>1, <1>2
<1>4. /\ r.tier = TierOf[s] /\ r.rank = rank[a] /\ r.mt = mtime[a] /\ r.id = a
      /\ o.tier = TierOf[t] /\ o.rank = rank[a] /\ o.mt = mtime[a] /\ o.id = a
  BY <1>3 DEF Copy, Row
<1>5. rank[a] \in Nat /\ mtime[a] \in Nat /\ a \in Nat
  BY PagesAssumption DEF CatalogOK, Ranks
<1> QED
  BY <1>4, <1>5 DEF Ahead

\* Nothing that stayed as it was is handed out twice: dedupe_search_rows and the
\* keyset cursors, the offset of browse_store.py.  The free-text search that cuts its
\* candidates may repeat an asset, as a weaker match only.
THEOREM ResultsComeOnce == PSpec => []DeliveredOnce
<1>1. ASSUME PagesInv PROVE DeliveredOnce
  <2> SUFFICES ASSUME reader.exact, NEW i \in 1..Len(reader.got), NEW j \in 1..Len(reader.got), i < j,
                      reader.got[i].id = reader.got[j].id, reader.got[i].id \in steady
               PROVE  reader.kind \in {"plain", "legacy"} /\ reader.got[i].tier > reader.got[j].tier
    <3>1. DOMAIN reader.got = 1..Len(reader.got)
      BY <1>1 DEF PagesInv, ReaderOK
    <3> QED
      BY <3>1 DEF DeliveredOnce, ReceivedOnce
  <2>0. /\ CatalogOK /\ reader.kind \in Kinds /\ reader.got \in Seq(RowRec)
        /\ CursorIsLast /\ GotIsResult /\ GotIsStart
    BY <1>1 DEF PagesInv, ReaderOK
  <2>1. /\ reader.got[i] \in Results(reader.kind) /\ reader.got[j] \in Results(reader.kind)
        /\ reader.kind \notin {"plain", "legacy"} =>
             reader.got[i] \in Best(Results(reader.kind)) /\ reader.got[j] \in Best(Results(reader.kind))
    BY <2>0 DEF GotIsResult
  <2>2. Results(reader.kind) \in SUBSET RowRec /\ IsFiniteSet(Results(reader.kind))
    BY <2>0, ResultsAreRows
  <2>3. Ahead(reader.got[i], reader.got[j])
    <3>1. CASE reader.kind # "browse"
      BY <2>0, <3>1 DEF CursorIsLast
    <3>2. CASE reader.kind = "browse"
      <4>1. /\ Len(reader.got) <= Len(Folder) /\ Len(reader.got) \in Nat
            /\ reader.got[i] = Folder[i] /\ reader.got[j] = Folder[j]
        BY <2>0, <3>2 DEF GotIsStart
      <4>2. Len(Folder) \in Nat /\ \A k, l \in 1..Len(Folder) : k < l => Ahead(Folder[k], Folder[l])
        BY <2>2, <3>2, OrderedListing DEF Folder
      <4>3. i \in 1..Len(Folder) /\ j \in 1..Len(Folder)
        BY <4>1, <4>2
      <4> QED
        BY <4>1, <4>2, <4>3
    <3> QED
      BY <3>1, <3>2
  <2>4. CASE reader.kind \in {"plain", "legacy"}
    <3>1. Results(reader.kind) = Copies
      BY <2>4 DEF Results
    <3> QED
      BY <2>0, <2>1, <2>3, <2>4, <3>1, CopiesOfOne
  <2>5. CASE reader.kind \notin {"plain", "legacy"}
    <3>1. reader.got[i] = reader.got[j]
      BY <2>1, <2>2, <2>5, BestRows
    <3> QED
      BY <2>1, <2>2, <2>3, <3>1, RowsAreOrdered
  <2> QED
    BY <2>4, <2>5
<1> QED
  BY <1>1, PagesAlways, PTL

\* A listing read to its end brings every result that stayed as it was, unless a
\* preselection of ranked_search.py or inspector_store.py held too few usable rows.
THEOREM ResultsAllCome == PSpec => []NothingOmitted
<1>1. ASSUME PagesInv PROVE NothingOmitted
  <2> SUFFICES ASSUME reader.pc = "done", reader.exact, ~short, NEW i \in steady PROVE i \in GotIds
    BY DEF NothingOmitted
  <2>0. CatalogOK /\ ReaderOK /\ reader.kind \in Kinds
    BY <1>1 DEF PagesInv, ReaderOK
  <2>1. CASE reader.kind # "browse"
    BY <1>1, <2>1 DEF PagesInv, RestIsBehind
  <2>2. CASE reader.kind = "browse"
    <3>1. Len(reader.got) = Len(Folder) /\ \A k \in 1..Len(reader.got) : reader.got[k] = Folder[k]
      BY <1>1, <2>2 DEF PagesInv, GotIsStart
    <3>2. PICK r \in Results("browse") : r.id = i
      BY <1>1, <2>2 DEF PagesInv, SteadyIsResult
    <3>3. Results("browse") \in SUBSET RowRec /\ IsFiniteSet(Results("browse"))
      BY <2>0, <2>2, ResultsAreRows
    <3>4. PICK k \in 1..Len(Folder) : Folder[k] = r
      BY <3>2, <3>3, OrderedListing DEF Folder
    <3>5. reader.got[k].id = i /\ k \in 1..Len(reader.got)
      BY <3>1, <3>2, <3>4
    <3> QED
      BY <2>0, <3>5, GotIdsAre
  <2> QED
    BY <2>1, <2>2
<1> QED
  BY <1>1, PagesAlways, PTL

\* A count looks at the same candidates as the pages, if it looks at them all.
LEMMA CountIsOfAll ==
  ASSUME CatalogOK, ~reader.begun, reader.kind \in Searches,
         \A s \in Texts : Cardinality({a \in Assets : s \in text[a]}) <= CountLimit
  PROVE  Count = Cardinality({r.id : r \in Results(reader.kind)})
<1>0. CountLimit \in Nat /\ "prompt" \in Texts /\ "negative" \in Texts /\ reader.kind \in Kinds
  BY PagesAssumption DEF Texts, Kinds
<1>1. CASE reader.kind \in Copied
  <2>1. Copies \in SUBSET RowRec /\ IsFiniteSet(Copies) /\ Results(reader.kind) = Copies
    BY <1>1, CopiesByText DEF Results, Copied
  <2>2. Cardinality(Best(Copies)) = Cardinality({r.id : r \in Copies})
    BY <2>1, BestRows
  <2>3. Bounded(CountLimit) = Copies
    <3>1. ASSUME NEW s \in {"prompt", "negative"} PROVE Preselected(s, CountLimit) = {a \in Assets : s \in text[a]}
      <4>1. s \in Texts
        BY <1>0
      <4>2. Matching(s) = {a \in Assets : s \in text[a]}
        BY DEF Matching
      <4>3. Cardinality(Matching(s)) <= CountLimit
        BY <4>1, <4>2
      <4> QED
        BY <1>0, <4>1, <4>2, <4>3, SearchPreselection
    <3>2. ASSUME NEW r \in Copies PROVE r \in Bounded(CountLimit)
      <4>1. PICK s \in Texts : r.id \in Assets /\ s \in text[r.id] /\ Usable(r.id, s) /\ r = Copy(r.id, s)
        BY CopyOfText
      <4>2. CASE s = "name"
        BY <1>0, <4>1, <4>2, BoundedCopies
      <4>3. CASE s # "name"
        <5>1. s \in {"prompt", "negative"} /\ r.id \in Preselected(s, CountLimit)
          BY <3>1, <4>1, <4>3 DEF Texts
        <5> QED
          BY <1>0, <4>1, <5>1, BoundedCopies
      <4> QED
        BY <4>2, <4>3
    <3> QED
      BY <1>0, <3>2, BoundedCopies
  <2>4. Count = Cardinality(Best(Copies))
    BY <1>1, <2>3 DEF Count, RankedCount, Copied
  <2> QED
    BY <2>1, <2>2, <2>4
<1>2. CASE reader.kind = "fields"
  <2>1. {a \in Assets : "prompt" \in text[a]} \in SUBSET Assets
    OBVIOUS
  <2>2. FieldMatching = {a \in active : "prompt" \in text[a]}
    BY DEF FieldMatching, Behind
  <2>3. FieldMatching \in SUBSET {a \in Assets : "prompt" \in text[a]}
    BY <2>2 DEF CatalogOK
  <2>4. Cardinality(FieldMatching) <= Cardinality({a \in Assets : "prompt" \in text[a]})
    BY <2>1, <2>3, FiniteAssets, FS_Subset
  <2>5. Cardinality(FieldMatching) \in Nat /\ Cardinality({a \in Assets : "prompt" \in text[a]}) \in Nat
    BY <2>1, <2>3, FiniteAssets
  <2>6. Cardinality({a \in Assets : "prompt" \in text[a]}) <= CountLimit
    BY <1>0
  <2>7. Cardinality(FieldMatching) <= CountLimit
    BY <1>0, <2>4, <2>5, <2>6
  <2>8. FieldPreselected(CountLimit) = FieldMatching
    BY <1>0, <2>7, FieldPreselection
  <2>9. Count = Cardinality({a \in FieldMatching : Current(a)})
    BY <1>2, <2>8 DEF Count
  <2>10. {a \in FieldMatching : Current(a)} = {r.id : r \in Results("fields")}
    <3>1. \A a \in FieldMatching : Current(a) => Filtered(a) \in Results("fields") /\ Filtered(a).id = a
      BY <2>2, <2>3, RowsOfAssets, ResultsOfAssets
    <3>2. \A r \in Results("fields") : r.id \in FieldMatching /\ Current(r.id)
      BY <2>2, ResultsOfAssets
    <3> QED
      BY <3>1, <3>2
  <2> QED
    BY <1>2, <2>9, <2>10
<1> QED
  BY <1>1, <1>2 DEF Searches, Copied

\* search_ranked_media_count announces as many assets as search_ranked_media hands
\* out, as long as nothing changes and no preselection is cut short.
THEOREM CountsAgree == PSpec => []CountAgrees
<1>1. ASSUME PagesInv PROVE CountAgrees
  <2> SUFFICES ASSUME reader.kind \in Searches, reader.pc = "done", quiet, ~short,
                      \A s \in Texts : Cardinality({a \in Assets : s \in text[a]}) <= CountLimit
               PROVE  Count = Cardinality(GotIds)
    BY DEF CountAgrees
  <2>1. CatalogOK /\ ~reader.begun /\ reader.exact /\ reader.kind # "browse"
    BY <1>1 DEF PagesInv, ReaderOK, Searches
  <2>2. steady \subseteq GotIds
    BY <1>1, <2>1 DEF PagesInv, RestIsBehind
  <2>3. /\ GotIds \subseteq steady /\ \A r \in Results(reader.kind) : r.id \in steady
        /\ \A i \in steady : \E r \in Results(reader.kind) : r.id = i
    BY <1>1 DEF PagesInv, SteadyIsResult
  <2>4. GotIds = {r.id : r \in Results(reader.kind)}
    BY <2>2, <2>3
  <2> QED
    BY <2>1, <2>4, CountIsOfAll
<1> QED
  BY <1>1, PagesAlways, PTL
=============================================================================
