---------------------------- MODULE FormatProofs ----------------------------
(***************************************************************************)
(* Theorems about module Format, for any documents, namespaces, size of a  *)
(* migration batch and number of crashes: migration, export and restore    *)
(* lose nothing, and the statistics they leave behind are exact.           *)
(***************************************************************************)
EXTENDS Format, FiniteSetTheorems, SequenceTheorems, TLAPS

USE FormatOrder, FormatBounds

-----------------------------------------------------------------------------
\* The keys of a scan.

Elems(s) == {s[i] : i \in DOMAIN s}

LEMMA ElemsConcat ==
    ASSUME NEW S, NEW s \in Seq(S), NEW t \in Seq(S)
    PROVE  s \o t \in Seq(S) /\ Elems(s \o t) = Elems(s) \cup Elems(t)
<1> PICK m \in Nat : m = Len(s)
  OBVIOUS
<1> PICK n \in Nat : n = Len(t)
  OBVIOUS
<1> DEFINE u == s \o t
<1>1. /\ u \in Seq(S) /\ Len(u) = m + n
      /\ \A i \in 1 .. m + n : u[i] = IF i <= m THEN s[i] ELSE t[i - m]
  BY ConcatProperties
<1> HIDE DEF u
<1>2. DOMAIN u = 1 .. m + n /\ DOMAIN s = 1 .. m /\ DOMAIN t = 1 .. n
  BY <1>1
<1>3. ASSUME NEW i \in 1 .. m PROVE i \in 1 .. m + n /\ i <= m
  OBVIOUS
<1>4. ASSUME NEW i \in 1 .. n PROVE i + m \in 1 .. m + n /\ ~(i + m <= m) /\ i + m - m = i
  OBVIOUS
<1>5. ASSUME NEW i \in 1 .. m + n PROVE i \in 1 .. m \/ (~(i <= m) /\ i - m \in 1 .. n)
  OBVIOUS
<1>6. \A i \in DOMAIN s : s[i] \in Elems(u)
  BY <1>1, <1>2, <1>3 DEF Elems
<1>7. \A i \in DOMAIN t : t[i] \in Elems(u)
  <2> SUFFICES ASSUME NEW i \in 1 .. n PROVE t[i] \in Elems(u)
    BY <1>2
  <2>1. i + m \in 1 .. m + n /\ ~(i + m <= m) /\ i + m - m = i
    BY <1>4
  <2> PICK j \in 1 .. m + n : j = i + m
    BY <2>1
  <2>2. ~(j <= m) /\ j - m = i
    BY <2>1
  <2>3. u[j] = t[j - m]
    BY <1>1, <2>2
  <2> QED
    BY <1>2, <2>2, <2>3 DEF Elems
<1>8. \A i \in DOMAIN u : u[i] \in Elems(s) \cup Elems(t)
  <2> SUFFICES ASSUME NEW i \in 1 .. m + n PROVE u[i] \in Elems(s) \cup Elems(t)
    BY <1>2
  <2>1. CASE i \in 1 .. m
    BY <1>1, <1>2, <1>3, <2>1 DEF Elems
  <2>2. CASE ~(i <= m) /\ i - m \in 1 .. n
    BY <1>1, <1>2, <2>2 DEF Elems
  <2> QED
    BY <1>5, <2>1, <2>2
<1> QED
  <2>1. Elems(u) \subseteq Elems(s) \cup Elems(t)
    BY <1>8 DEF Elems
  <2>2. Elems(s) \subseteq Elems(u)
    BY <1>6 DEF Elems
  <2>3. Elems(t) \subseteq Elems(u)
    BY <1>7 DEF Elems
  <2>4. Elems(u) = Elems(s) \cup Elems(t)
    BY <2>1, <2>2, <2>3
  <2> QED
    BY <1>1, <2>4 DEF u

LEMMA FamilyElems ==
    ASSUME NEW f, NEW S, NEW names \in Seq(S)
    PROVE  /\ Family(f, names) \in Seq({f} \X S)
           /\ Elems(Family(f, names)) = {<<f, x>> : x \in Elems(names)}
BY DEF Family, Elems

DocFamilies   == {"c", "d", "v"} \X DocKeys
SpaceFamilies == {"n", "s"} \X SpaceKeys
AllKeys == DocFamilies \cup SpaceFamilies \cup {FormatKey}

LEMMA KeysAre == Keys = AllKeys /\ KeyOrder \in Seq(Keys)
<1>1. Elems(Order) = DocKeys /\ Elems(Spaces) = SpaceKeys
  BY DEF Elems, DocKeys, SpaceKeys
<1>2. \A f \in {"c", "d", "v"} : /\ Family(f, Order) \in Seq(AllKeys)
                                 /\ Elems(Family(f, Order)) = {<<f, x>> : x \in DocKeys}
  <2> TAKE f \in {"c", "d", "v"}
  <2>1. Family(f, Order) \in Seq({f} \X DocKeys) /\ {f} \X DocKeys \subseteq AllKeys
    BY FamilyElems DEF AllKeys, DocFamilies
  <2>2. Elems(Family(f, Order)) = {<<f, x>> : x \in DocKeys}
    BY <1>1, FamilyElems
  <2> QED
    BY <2>1, <2>2
<1>3. \A f \in {"n", "s"} : /\ Family(f, Spaces) \in Seq(AllKeys)
                            /\ Elems(Family(f, Spaces)) = {<<f, x>> : x \in SpaceKeys}
  <2> TAKE f \in {"n", "s"}
  <2>1. Family(f, Spaces) \in Seq({f} \X SpaceKeys) /\ {f} \X SpaceKeys \subseteq AllKeys
    BY FamilyElems DEF AllKeys, SpaceFamilies
  <2>2. Elems(Family(f, Spaces)) = {<<f, x>> : x \in SpaceKeys}
    BY <1>1, FamilyElems
  <2> QED
    BY <2>1, <2>2
<1>4. <<FormatKey>> \in Seq(AllKeys) /\ Elems(<<FormatKey>>) = {FormatKey}
  BY DEF AllKeys, Elems
<1>5. Keys = Elems(KeyOrder)
  BY DEF Keys, Elems
<1> DEFINE a == Family("c", Order)   b == Family("d", Order)   c == <<FormatKey>>
           d == Family("n", Spaces)  e == Family("s", Spaces)  f == Family("v", Order)
<1>6. /\ KeyOrder \in Seq(AllKeys)
      /\ Elems(KeyOrder) = Elems(a) \cup Elems(b) \cup Elems(c) \cup Elems(d) \cup Elems(e) \cup Elems(f)
  <2>1. KeyOrder = a \o b \o c \o d \o e \o f
    BY DEF KeyOrder
  <2>2. a \in Seq(AllKeys) /\ b \in Seq(AllKeys) /\ c \in Seq(AllKeys)
    BY <1>2, <1>4
  <2>3. d \in Seq(AllKeys) /\ e \in Seq(AllKeys) /\ f \in Seq(AllKeys)
    BY <1>2, <1>3
  <2> HIDE DEF a, b, c, d, e, f
  <2> DEFINE two == a \o b  three == two \o c  four == three \o d  five == four \o e
  <2>4. two \in Seq(AllKeys) /\ Elems(two) = Elems(a) \cup Elems(b)
    BY <2>2, ElemsConcat
  <2> HIDE DEF two
  <2>5. three \in Seq(AllKeys) /\ Elems(three) = Elems(two) \cup Elems(c)
    BY <2>2, <2>4, ElemsConcat
  <2> HIDE DEF three
  <2>6. four \in Seq(AllKeys) /\ Elems(four) = Elems(three) \cup Elems(d)
    BY <2>3, <2>5, ElemsConcat
  <2> HIDE DEF four
  <2>7. five \in Seq(AllKeys) /\ Elems(five) = Elems(four) \cup Elems(e)
    BY <2>3, <2>6, ElemsConcat
  <2> HIDE DEF five
  <2>8. five \o f \in Seq(AllKeys) /\ Elems(five \o f) = Elems(five) \cup Elems(f)
    BY <2>3, <2>7, ElemsConcat
  <2>9. KeyOrder = five \o f
    BY <2>1 DEF two, three, four, five
  <2> QED
    BY <2>4, <2>5, <2>6, <2>7, <2>8, <2>9
<1>7. Keys = {<<"c", x>> : x \in DocKeys} \cup {<<"d", x>> : x \in DocKeys} \cup {FormatKey}
              \cup {<<"n", x>> : x \in SpaceKeys} \cup {<<"s", x>> : x \in SpaceKeys}
              \cup {<<"v", x>> : x \in DocKeys}
  BY <1>2, <1>3, <1>4, <1>5, <1>6
<1>8. Keys = AllKeys
  BY <1>7 DEF AllKeys, DocFamilies, SpaceFamilies
<1> QED
  BY <1>6, <1>8

LEMMA OrderIsSeq ==
    KeyOrder \in Seq(Keys) /\ Len(KeyOrder) \in Nat /\ DOMAIN KeyOrder = 1 .. Len(KeyOrder)
<1>1. KeyOrder \in Seq(Keys)
  BY KeysAre
<1> QED
  BY <1>1

\* A key is of one family, and only the marker has a name of its own.
LEMMA KeyFacts ==
    /\ FormatKey \in Keys
    /\ \A k \in DocKeys : /\ {<<"c", k>>, <<"d", k>>, <<"v", k>>} \subseteq Keys \ {FormatKey}
                          /\ k[1] \in SpaceKeys
    /\ \A n \in SpaceKeys : {<<"n", n>>, <<"s", n>>} \subseteq Keys \ {FormatKey}
    /\ \A key \in Keys : \/ key = FormatKey
                         \/ \E k \in DocKeys : key \in {<<"c", k>>, <<"d", k>>, <<"v", k>>}
                         \/ \E n \in SpaceKeys : key \in {<<"n", n>>, <<"s", n>>}
BY KeysAre DEF AllKeys, DocFamilies, SpaceFamilies, FormatKey

-----------------------------------------------------------------------------
\* Rows: what they may be, and when they are a whole database.

Nothing == Values \cup {None}

\* The rows of a prefix, whatever its state.
Shape(rows) ==
    /\ rows = [key \in Keys |-> rows[key]]
    /\ rows[FormatKey] \in Markers \cup {None}
    /\ \A k \in DocKeys : /\ rows[<<"d", k>>] \in Docs \cup {None}
                          /\ rows[<<"v", k>>] \in Vectors \cup {None}
                          /\ rows[<<"c", k>>] \in Nat \cup {None}
    /\ \A n \in SpaceKeys : /\ rows[<<"n", n>>] \in {"schema", None}
                            /\ rows[<<"s", n>>] \in Stats \cup {None}

\* No document without its namespace, no vector or change without its document.
Attached(rows) ==
    \A k \in DocKeys :
        /\ rows[<<"d", k>>] # None => rows[<<"n", k[1]>>] # None
        /\ rows[<<"v", k>>] # None \/ rows[<<"c", k>>] # None => rows[<<"d", k>>] # None

DocsOf(rows, n)    == {k \in DocKeys : k[1] = n /\ rows[<<"d", k>>] # None}
VectorsOf(rows, n) == {k \in DocsOf(rows, n) : rows[<<"v", k>>] # None}
ChangesOf(rows, n) == {k \in DocKeys : k[1] = n /\ rows[<<"c", k>>] # None}

SpaceFit(rows, n) ==
    /\ StatsAt(rows, n) \in Stats
    /\ \A k \in DocsOf(rows, n) : rows[<<"d", k>>].vector = None
    /\ ChangesOf(rows, n) = DocsOf(rows, n)
    /\ \A k \in ChangesOf(rows, n) : rows[<<"c", k>>] <= StatsAt(rows, n).revision
    /\ StatsAt(rows, n).documents = Cardinality(DocsOf(rows, n))
    /\ StatsAt(rows, n).pending = Cardinality(ChangesOf(rows, n))
    /\ StatsAt(rows, n).bytes = Cardinality(DocsOf(rows, n)) + Cardinality(VectorsOf(rows, n))

AllFit(rows) == \A n \in SpaceKeys : rows[<<"n", n>>] # None => SpaceFit(rows, n)

\* A database that can be served.
Whole(rows) == Shape(rows) /\ Attached(rows) /\ rows[FormatKey] = "v2" /\ AllFit(rows)

\* Rows that agree where it looks are as attached and as fit.
LEMMA AttachedAlike ==
    ASSUME NEW q, NEW r, Attached(r),
           \A k \in DocKeys : /\ q[<<"d", k>>] = r[<<"d", k>>] /\ q[<<"v", k>>] = r[<<"v", k>>]
                              /\ q[<<"c", k>>] = r[<<"c", k>>] /\ q[<<"n", k[1]>>] = r[<<"n", k[1]>>]
    PROVE  Attached(q)
<1>1. ASSUME NEW k \in DocKeys
      PROVE  /\ r[<<"d", k>>] # None => r[<<"n", k[1]>>] # None
             /\ r[<<"v", k>>] # None \/ r[<<"c", k>>] # None => r[<<"d", k>>] # None
  BY DEF Attached
<1>2. ASSUME NEW k \in DocKeys
      PROVE  /\ q[<<"d", k>>] # None => q[<<"n", k[1]>>] # None
             /\ q[<<"v", k>>] # None \/ q[<<"c", k>>] # None => q[<<"d", k>>] # None
  BY <1>1
<1> QED
  BY <1>2 DEF Attached

SameIn(q, r, n) ==
    /\ q[<<"s", n>>] = r[<<"s", n>>]
    /\ \A k \in DocKeys : k[1] = n =>
          /\ q[<<"d", k>>] = r[<<"d", k>>] /\ q[<<"v", k>>] = r[<<"v", k>>]
          /\ q[<<"c", k>>] = r[<<"c", k>>]

LEMMA FitAlike ==
    ASSUME NEW q, NEW r, NEW n, SpaceFit(r, n), SameIn(q, r, n)
    PROVE  SpaceFit(q, n)
<1>0. StatsAt(q, n) = StatsAt(r, n)
  BY DEF SameIn, StatsAt
<1> USE DEF SameIn
<1>1. DocsOf(q, n) = DocsOf(r, n)
  BY DEF DocsOf
<1>2. ChangesOf(q, n) = ChangesOf(r, n)
  BY DEF ChangesOf
<1>3. \A k \in DocsOf(r, n) : q[<<"v", k>>] = r[<<"v", k>>] /\ q[<<"d", k>>] = r[<<"d", k>>]
  BY DEF DocsOf
<1>4. \A k \in ChangesOf(r, n) : q[<<"c", k>>] = r[<<"c", k>>]
  BY DEF ChangesOf
<1>5. VectorsOf(q, n) = VectorsOf(r, n)
  BY <1>1, <1>3 DEF VectorsOf
<1>6. /\ StatsAt(r, n) \in Stats /\ ChangesOf(r, n) = DocsOf(r, n)
      /\ \A k \in DocsOf(r, n) : r[<<"d", k>>].vector = None
      /\ \A k \in ChangesOf(r, n) : r[<<"c", k>>] <= StatsAt(r, n).revision
      /\ StatsAt(r, n).documents = Cardinality(DocsOf(r, n))
      /\ StatsAt(r, n).pending = Cardinality(ChangesOf(r, n))
      /\ StatsAt(r, n).bytes = Cardinality(DocsOf(r, n)) + Cardinality(VectorsOf(r, n))
  BY DEF SpaceFit
<1>7. /\ \A k \in DocsOf(q, n) : q[<<"d", k>>].vector = None
      /\ \A k \in ChangesOf(q, n) : q[<<"c", k>>] <= StatsAt(q, n).revision
  BY <1>0, <1>1, <1>2, <1>3, <1>4, <1>6
<1> QED
  BY <1>0, <1>1, <1>2, <1>5, <1>6, <1>7 DEF SpaceFit

LEMMA FitIs ==
    ASSUME NEW rows, NEW n, SpaceFit(rows, n) PROVE StatsFit(rows, n)
BY DEF SpaceFit, StatsFit, DocsOf, VectorsOf, ChangesOf

LEMMA NoneIsNothing ==
    /\ None \notin Docs /\ None \notin Vectors /\ None \notin Nat /\ None \notin Stats
    /\ None \notin Markers /\ None # "schema" /\ None \notin Files
BY FormatNone DEF Values

LEMMA ShapeValues ==
    ASSUME NEW rows, Shape(rows) PROVE rows \in [Keys -> Nothing]
<1>1. ASSUME NEW key \in Keys PROVE rows[key] \in Nothing
  <2>1. CASE key = FormatKey
    BY <2>1 DEF Shape, Nothing, Values
  <2>2. ASSUME NEW k \in DocKeys, key \in {<<"c", k>>, <<"d", k>>, <<"v", k>>} PROVE rows[key] \in Nothing
    BY <2>2 DEF Shape, Nothing, Values
  <2>3. ASSUME NEW n \in SpaceKeys, key \in {<<"n", n>>, <<"s", n>>} PROVE rows[key] \in Nothing
    BY <2>3 DEF Shape, Nothing, Values
  <2> QED
    BY <2>1, <2>2, <2>3, KeyFacts
<1> QED
  BY <1>1 DEF Shape

\* What clients read is in the rows of documents and vectors, and of namespaces.
Shown(space, doc, vector) ==
    IF space = None \/ doc = None THEN None
    ELSE [doc EXCEPT !.vector = IF doc.vector # None THEN doc.vector ELSE vector]

LEMMA ContentAt ==
    ASSUME NEW rows, NEW k \in DocKeys
    PROVE  Content(rows)[k] = Shown(rows[<<"n", k[1]>>], rows[<<"d", k>>], rows[<<"v", k>>])
BY DEF Content, Shown

LEMMA ContentEqual ==
    ASSUME NEW r, NEW q, \A k \in DocKeys : Content(q)[k] = Content(r)[k]
    PROVE  Content(q) = Content(r)
<1>1. Content(q) = [k \in DocKeys |-> Content(q)[k]] /\ Content(r) = [k \in DocKeys |-> Content(r)[k]]
  BY DEF Content
<1> QED
  BY <1>1

LEMMA DocWith ==
    ASSUME NEW doc \in Docs, NEW x \in Vectors \cup {None}
    PROVE  /\ [doc EXCEPT !.vector = x] \in Docs /\ [doc EXCEPT !.vector = x] # None
           /\ [doc EXCEPT !.vector = x].vector = x
           /\ doc.vector \in Vectors \cup {None} /\ doc # None
<1>1. [doc EXCEPT !.vector = x] \in Docs /\ [doc EXCEPT !.vector = x].vector = x
  BY DEF Docs
<1> QED
  BY <1>1, NoneIsNothing DEF Docs

LEMMA ContentType ==
    ASSUME NEW rows, Shape(rows) PROVE Content(rows) \in [DocKeys -> Docs \cup {None}]
<1>1. ASSUME NEW k \in DocKeys PROVE Content(rows)[k] \in Docs \cup {None}
  <2>1. CASE rows[<<"n", k[1]>>] = None \/ rows[<<"d", k>>] = None
    BY <2>1, ContentAt DEF Shown
  <2>2. CASE rows[<<"n", k[1]>>] # None /\ rows[<<"d", k>>] # None
    <3> PICK doc \in Docs : doc = rows[<<"d", k>>]
      BY <2>2 DEF Shape
    <3> PICK x \in Vectors \cup {None} : x = IF doc.vector # None THEN doc.vector ELSE rows[<<"v", k>>]
      BY DEF Shape, Docs
    <3>1. Content(rows)[k] = [doc EXCEPT !.vector = x]
      BY Zenon, <2>2, ContentAt DEF Shown
    <3>2. [doc EXCEPT !.vector = x] \in Docs
      BY DocWith
    <3> QED
      BY <3>1, <3>2
  <2> QED
    BY <2>1, <2>2
<1>2. Content(rows) = [k \in DocKeys |-> Content(rows)[k]]
  BY DEF Content
<1> QED
  BY <1>1, <1>2

\* The marker is nothing to the documents and their statistics.
LEMMA Remarked ==
    ASSUME NEW r, Shape(r), NEW q, q = [key \in Keys |-> q[key]],
           q[FormatKey] \in Markers, \A key \in Keys \ {FormatKey} : q[key] = r[key]
    PROVE  /\ Shape(q) /\ Content(q) = Content(r)
           /\ Attached(r) => Attached(q)
           /\ \A n \in SpaceKeys : SpaceFit(r, n) => SpaceFit(q, n)
           /\ AllFit(r) => AllFit(q)
<1>1. /\ \A k \in DocKeys : /\ q[<<"d", k>>] = r[<<"d", k>>] /\ q[<<"v", k>>] = r[<<"v", k>>]
                            /\ q[<<"c", k>>] = r[<<"c", k>>] /\ q[<<"n", k[1]>>] = r[<<"n", k[1]>>]
      /\ \A n \in SpaceKeys : q[<<"n", n>>] = r[<<"n", n>>] /\ q[<<"s", n>>] = r[<<"s", n>>]
  BY KeyFacts
<1>2. Shape(q)
  BY <1>1 DEF Shape
<1>3. Content(q) = Content(r)
  BY <1>1 DEF Content
<1>4. Attached(r) => Attached(q)
  BY <1>1 DEF Attached
<1>5. ASSUME NEW n \in SpaceKeys, SpaceFit(r, n) PROVE SpaceFit(q, n)
  <2>1. /\ DocsOf(q, n) = DocsOf(r, n) /\ ChangesOf(q, n) = ChangesOf(r, n)
        /\ VectorsOf(q, n) = VectorsOf(r, n)
    BY <1>1 DEF DocsOf, ChangesOf, VectorsOf
  <2>2. StatsAt(q, n) = StatsAt(r, n)
    BY <1>1 DEF StatsAt
  <2> QED
    BY <1>1, <1>5, <2>1, <2>2 DEF SpaceFit, DocsOf, ChangesOf
<1>6. AllFit(r) => AllFit(q)
  BY <1>1, <1>5 DEF AllFit
<1> QED
  BY <1>2, <1>3, <1>4, <1>5, <1>6

LEMMA WithMarker ==
    ASSUME NEW r, Shape(r), NEW m
    PROVE  /\ With(r, FormatKey, m) = [key \in Keys |-> With(r, FormatKey, m)[key]]
           /\ With(r, FormatKey, m)[FormatKey] = m
           /\ \A key \in Keys \ {FormatKey} : With(r, FormatKey, m)[key] = r[key]
BY KeyFacts DEF With, Shape

LEMMA EmptyRows ==
    /\ Shape(NoRows) /\ Attached(NoRows) /\ AllFit(NoRows) /\ NoRows[FormatKey] = None
    /\ \A key \in Keys : NoRows[key] = None
BY KeyFacts DEF NoRows, Shape, Attached, AllFit

LEMMA DocsFinite == IsFiniteSet(DocKeys) /\ \A S \in SUBSET DocKeys : IsFiniteSet(S)
<1>1. DOMAIN Order = 1 .. Len(Order) /\ Len(Order) \in Nat
  OBVIOUS
<1>2. IsFiniteSet(1 .. Len(Order))
  BY <1>1, FS_Interval
<1>3. IsFiniteSet(DocKeys)
  <2>1. Order \in Surjection(1 .. Len(Order), DocKeys)
    BY <1>1 DEF Surjection, DocKeys
  <2> QED
    BY <1>2, <2>1, FS_Surjection
<1> QED
  BY <1>3, FS_Subset

-----------------------------------------------------------------------------
\* Migration: documents waiting in the batch, and documents converted.

Blank(b, k) == b[<<"d", k>>] = None /\ b[<<"v", k>>] = None /\ b[<<"c", k>>] = None
Waiting(b, r, k) == /\ r[<<"d", k>>] # None
                    /\ b[<<"d", k>>] = [r[<<"d", k>>] EXCEPT !.vector = None]
                    /\ b[<<"v", k>>] = r[<<"d", k>>].vector
                    /\ b[<<"c", k>>] = 1
Settled(r, k) == r[<<"d", k>>].vector = None /\ r[<<"c", k>>] = 1

\* A batch on top of the rows r holds documents of S only; all of S are in it or
\* in r.
BatchOK(b, r, S) ==
    /\ b = [key \in Keys |-> b[key]] /\ b[FormatKey] = None /\ S \subseteq DocKeys
    /\ \A n \in SpaceKeys : b[<<"n", n>>] = None /\ b[<<"s", n>>] = None
    /\ \A k \in DocKeys : Blank(b, k) \/ (k \in S /\ Waiting(b, r, k))
    /\ \A k \in S : Waiting(b, r, k) \/ Settled(r, k)

\* The same documents before and after a batch of the migration.
SameSpaces(q, r) ==
    /\ q = [key \in Keys |-> q[key]] /\ q[FormatKey] = r[FormatKey]
    /\ \A n \in SpaceKeys : q[<<"n", n>>] = r[<<"n", n>>] /\ q[<<"s", n>>] = r[<<"s", n>>]

LEMMA OverAt ==
    ASSUME NEW b, NEW r
    PROVE  /\ Over(b, r) = [key \in Keys |-> Over(b, r)[key]]
           /\ \A key \in Keys : Over(b, r)[key] = IF b[key] = None THEN r[key] ELSE b[key]
BY DEF Over

\* One document under the batch.
LEMMA FlushedDoc ==
    ASSUME NEW r, Shape(r), Attached(r), NEW b, NEW S, BatchOK(b, r, S),
           NEW q, q = Over(b, r), NEW k \in DocKeys
    PROVE  /\ q[<<"d", k>>] \in Docs \cup {None} /\ q[<<"v", k>>] \in Vectors \cup {None}
           /\ q[<<"c", k>>] \in Nat \cup {None}
           /\ q[<<"d", k>>] = None <=> r[<<"d", k>>] = None
           /\ q[<<"d", k>>] = None => q[<<"v", k>>] = None /\ q[<<"c", k>>] = None
           /\ q[<<"n", k[1]>>] = r[<<"n", k[1]>>]
           /\ Content(q)[k] = Content(r)[k]
           /\ Blank(b, k) => /\ q[<<"d", k>>] = r[<<"d", k>>] /\ q[<<"v", k>>] = r[<<"v", k>>]
                             /\ q[<<"c", k>>] = r[<<"c", k>>]
           /\ k \in S => Settled(q, k)
<1>1. {<<"c", k>>, <<"d", k>>, <<"v", k>>, <<"n", k[1]>>} \subseteq Keys /\ k[1] \in SpaceKeys
  BY KeyFacts
<1>2. \A key \in Keys : q[key] = IF b[key] = None THEN r[key] ELSE b[key]
  BY OverAt
<1>3. q[<<"n", k[1]>>] = r[<<"n", k[1]>>]
  BY <1>1, <1>2 DEF BatchOK
<1>4. CASE Blank(b, k)
  <2>1. q[<<"d", k>>] = r[<<"d", k>>] /\ q[<<"v", k>>] = r[<<"v", k>>] /\ q[<<"c", k>>] = r[<<"c", k>>]
    BY <1>1, <1>2, <1>4 DEF Blank
  <2>2. Content(q)[k] = Content(r)[k]
    BY <1>3, <2>1, ContentAt
  <2>3. k \in S => Settled(q, k)
    <3>1. ~Waiting(b, r, k)
      BY <1>4, NoneIsNothing DEF Blank, Waiting
    <3> QED
      BY <2>1, <3>1 DEF BatchOK, Settled
  <2> QED
    BY <1>3, <2>1, <2>2, <2>3 DEF Shape, Attached
<1>5. CASE ~Blank(b, k)
  <2>1. Waiting(b, r, k)
    BY <1>5 DEF BatchOK
  <2> PICK doc \in Docs : doc = r[<<"d", k>>]
    BY <2>1 DEF Waiting, Shape
  <2> PICK x \in Vectors \cup {None} : x = IF doc.vector # None THEN doc.vector ELSE r[<<"v", k>>]
    BY DocWith DEF Shape
  <2> PICK bare : bare = [doc EXCEPT !.vector = None]
    OBVIOUS
  <2>2. bare \in Docs /\ bare.vector = None /\ bare # None /\ doc # None
    BY DocWith
  <2>3. q[<<"d", k>>] = bare /\ q[<<"v", k>>] = x /\ q[<<"c", k>>] = 1
    <3>1. b[<<"d", k>>] = bare /\ b[<<"v", k>>] = doc.vector /\ b[<<"c", k>>] = 1
      BY <2>1 DEF Waiting
    <3>2. 1 # None
      BY NoneIsNothing
    <3> QED
      BY <1>1, <1>2, <2>2, <3>1, <3>2
  <2>4. Content(q)[k] = Content(r)[k]
    <3>1. /\ Content(q)[k] = Shown(r[<<"n", k[1]>>], bare, x)
          /\ Content(r)[k] = Shown(r[<<"n", k[1]>>], doc, r[<<"v", k>>])
      <4>1. /\ Content(q)[k] = Shown(q[<<"n", k[1]>>], q[<<"d", k>>], q[<<"v", k>>])
            /\ Content(r)[k] = Shown(r[<<"n", k[1]>>], r[<<"d", k>>], r[<<"v", k>>])
        BY ContentAt
      <4> QED
        BY <1>3, <2>3, <4>1
    <3>2. [bare EXCEPT !.vector = x] = [doc EXCEPT !.vector = x]
      BY DEF Docs
    <3>3. Shown(r[<<"n", k[1]>>], bare, x) = Shown(r[<<"n", k[1]>>], doc, r[<<"v", k>>])
      BY <2>2, <3>2 DEF Shown
    <3> QED
      BY <3>1, <3>3
  <2>5. Settled(q, k)
    BY <2>2, <2>3 DEF Settled
  <2>6. /\ q[<<"d", k>>] # None /\ r[<<"d", k>>] # None
        /\ q[<<"d", k>>] \in Docs /\ q[<<"v", k>>] \in Vectors \cup {None} /\ q[<<"c", k>>] \in Nat
    <3>1. r[<<"d", k>>] # None /\ 1 \in Nat
      BY <2>2
    <3> QED
      BY <2>2, <2>3, <3>1
  <2> QED
    BY <1>3, <1>5, <2>4, <2>5, <2>6
<1> QED
  BY <1>4, <1>5

LEMMA Flushed ==
    ASSUME NEW r, Shape(r), Attached(r), NEW b, NEW S, BatchOK(b, r, S),
           NEW q, q = Over(b, r)
    PROVE  /\ Shape(q) /\ Attached(q) /\ Content(q) = Content(r) /\ SameSpaces(q, r)
           /\ \A n : DocsOf(q, n) = DocsOf(r, n)
           /\ \A k \in S : k \in DocKeys => Settled(q, k)
           /\ \A n \in SpaceKeys : (\A k \in S : k[1] # n) /\ SpaceFit(r, n) => SpaceFit(q, n)
<1>1. ASSUME NEW k \in DocKeys
      PROVE  /\ q[<<"d", k>>] \in Docs \cup {None} /\ q[<<"v", k>>] \in Vectors \cup {None}
             /\ q[<<"c", k>>] \in Nat \cup {None}
             /\ q[<<"d", k>>] = None <=> r[<<"d", k>>] = None
             /\ q[<<"d", k>>] = None => q[<<"v", k>>] = None /\ q[<<"c", k>>] = None
             /\ q[<<"n", k[1]>>] = r[<<"n", k[1]>>]
             /\ Content(q)[k] = Content(r)[k]
             /\ Blank(b, k) => /\ q[<<"d", k>>] = r[<<"d", k>>] /\ q[<<"v", k>>] = r[<<"v", k>>]
                               /\ q[<<"c", k>>] = r[<<"c", k>>]
             /\ k \in S => Settled(q, k)
  BY FlushedDoc
<1>2. SameSpaces(q, r)
  <2>1. q = [key \in Keys |-> q[key]] /\ \A key \in Keys : b[key] = None => q[key] = r[key]
    BY OverAt
  <2>2. q[FormatKey] = r[FormatKey]
    BY <2>1, KeyFacts DEF BatchOK
  <2>3. ASSUME NEW n \in SpaceKeys
        PROVE  q[<<"n", n>>] = r[<<"n", n>>] /\ q[<<"s", n>>] = r[<<"s", n>>]
    BY <2>1, <2>3, KeyFacts DEF BatchOK
  <2> QED
    BY <2>1, <2>2, <2>3 DEF SameSpaces
<1>3. Shape(q)
  BY <1>1, <1>2 DEF Shape, SameSpaces
<1>4. Attached(q)
  <2>1. ASSUME NEW k \in DocKeys
        PROVE  /\ q[<<"d", k>>] # None => q[<<"n", k[1]>>] # None
               /\ q[<<"v", k>>] # None \/ q[<<"c", k>>] # None => q[<<"d", k>>] # None
    <3>1. r[<<"d", k>>] # None => r[<<"n", k[1]>>] # None
      BY DEF Attached
    <3> QED
      BY <1>1, <3>1
  <2> QED
    BY <2>1 DEF Attached
<1>5. Content(q) = Content(r)
  BY <1>1, ContentEqual
<1>6. ASSUME NEW n PROVE DocsOf(q, n) = DocsOf(r, n)
  BY <1>1 DEF DocsOf
<1>7. ASSUME NEW n \in SpaceKeys, \A k \in S : k[1] # n, SpaceFit(r, n) PROVE SpaceFit(q, n)
  <2>1. ASSUME NEW k \in DocKeys, k[1] = n
        PROVE  /\ q[<<"d", k>>] = r[<<"d", k>>] /\ q[<<"v", k>>] = r[<<"v", k>>]
               /\ q[<<"c", k>>] = r[<<"c", k>>]
    <3>1. Blank(b, k)
      BY <1>7, <2>1 DEF BatchOK
    <3> QED
      BY <1>1, <3>1
  <2>2. q[<<"s", n>>] = r[<<"s", n>>]
    BY <1>2 DEF SameSpaces
  <2> QED
    <3>1. SpaceFit(r, n)
      BY <1>7
    <3>2. SameIn(q, r, n)
      BY <2>1, <2>2 DEF SameIn
    <3> QED
      BY <3>1, <3>2, FitAlike
<1>8. \A k \in S : k \in DocKeys => Settled(q, k)
  BY <1>1
<1> QED
  BY <1>2, <1>3, <1>4, <1>5, <1>6, <1>7, <1>8

\* One more document joins the batch.
LEMMA JoinsBatch ==
    ASSUME Shape(kv), NEW b, NEW S, BatchOK(b, kv, S),
           NEW k \in DocKeys, k \notin S, kv[<<"d", k>>] # None
    PROVE  BatchOK(Over(Converted(k), b), kv, S \cup {k})
<1> DEFINE c == Converted(k)
           q == Over(c, b)
<1>1. {<<"c", k>>, <<"d", k>>, <<"v", k>>} \subseteq Keys
  BY KeyFacts
<1>2. /\ c[<<"d", k>>] = [kv[<<"d", k>>] EXCEPT !.vector = None]
      /\ c[<<"v", k>>] = kv[<<"d", k>>].vector /\ c[<<"c", k>>] = 1
      /\ \A key \in Keys : key \notin {<<"c", k>>, <<"d", k>>, <<"v", k>>} => c[key] = None
  BY <1>1 DEF Converted, NoRows
<1> HIDE DEF c
<1>3. q = [key \in Keys |-> q[key]] /\ \A key \in Keys : q[key] = IF c[key] = None THEN b[key] ELSE c[key]
  BY OverAt
<1> HIDE DEF q
<1>4. Blank(b, k)
  BY DEF BatchOK
<1>5. Waiting(q, kv, k)
  <2> PICK doc \in Docs : doc = kv[<<"d", k>>]
    BY DEF Shape
  <2>1. [doc EXCEPT !.vector = None] # None /\ 1 # None
    <3>1. [doc EXCEPT !.vector = None] # None
      BY DocWith
    <3>2. 1 # None
      BY NoneIsNothing
    <3> QED
      BY <3>1, <3>2
  <2> QED
    BY <1>1, <1>2, <1>3, <1>4, <2>1 DEF Waiting, Blank
<1>6. ASSUME NEW l \in DocKeys, l # k
      PROVE  /\ q[<<"d", l>>] = b[<<"d", l>>] /\ q[<<"v", l>>] = b[<<"v", l>>]
             /\ q[<<"c", l>>] = b[<<"c", l>>]
  <2>1. {<<"c", l>>, <<"d", l>>, <<"v", l>>} \subseteq Keys
    BY KeyFacts
  <2> QED
    BY <1>2, <1>3, <1>6, <2>1
<1>7. \A l \in DocKeys : Blank(q, l) \/ (l \in S \cup {k} /\ Waiting(q, kv, l))
  <2> TAKE l \in DocKeys
  <2>1. CASE l = k
    BY <1>5, <2>1
  <2>2. CASE l # k
    <3>1. Blank(b, l) \/ (l \in S /\ Waiting(b, kv, l))
      BY DEF BatchOK
    <3>2. Blank(b, l) => Blank(q, l)
      BY <1>6, <2>2 DEF Blank
    <3>3. Waiting(b, kv, l) => Waiting(q, kv, l)
      BY <1>6, <2>2 DEF Waiting
    <3> QED
      BY <3>1, <3>2, <3>3
  <2> QED
    BY <2>1, <2>2
<1>8. ASSUME NEW l \in S PROVE Waiting(q, kv, l) \/ Settled(kv, l)
  <2>1. CASE Settled(kv, l)
    BY <2>1
  <2>2. CASE Waiting(b, kv, l) /\ l \in DocKeys
    <3>1. l # k
      BY <1>8
    <3> QED
      BY <1>6, <2>2, <3>1 DEF Waiting
  <2> QED
    BY <2>1, <2>2 DEF BatchOK
<1>9. q[FormatKey] = None /\ \A n \in SpaceKeys : q[<<"n", n>>] = None /\ q[<<"s", n>>] = None
  <2>1. c[FormatKey] = None /\ FormatKey \in Keys
    BY <1>2, KeyFacts
  <2>2. ASSUME NEW n \in SpaceKeys
        PROVE  /\ <<"n", n>> \in Keys /\ <<"s", n>> \in Keys
               /\ c[<<"n", n>>] = None /\ c[<<"s", n>>] = None
    BY <1>2, KeyFacts
  <2> QED
    BY <1>3, <2>1, <2>2 DEF BatchOK
<1> QED
  BY <1>3, <1>5, <1>7, <1>8, <1>9 DEF BatchOK, q, c

-----------------------------------------------------------------------------
\* The invariant: the command in progress agrees with the marker, and what it has
\* done so far with what it set out to do.

ControlOK ==
    /\ pc \in {"down", "mark", "namespaces", "documents", "serving", "check", "fill"}
    /\ goal \in {"serve", "restore", "exit"}
    /\ pc \in {"serving", "check"} => kv[FormatKey] = "v2"
    /\ pc = "mark" => kv[FormatKey] \in {"v1", "migrating"}
    /\ pc \in {"namespaces", "documents"} => kv[FormatKey] = "migrating"
    /\ pc = "fill" => kv[FormatKey] = "restoring"
    /\ fill # {} => pc = "fill"
    /\ Exporting => pc = "serving"

RowsOK ==
    /\ Shape(kv)
    /\ kv[FormatKey] # "restoring" => Attached(kv) /\ Content(kv) = promise
    /\ kv[FormatKey] = "v2" => AllFit(kv)
    /\ promise \in [DocKeys -> Docs \cup {None}]

\* The documents of the namespace being migrated that are done, and their count.
DoneDocs == DocsOf(kv, mig.space) \ mig.docs
HasVector(content, S) == {k \in S : content[k].vector # None}
CountsOK(content, S, stats) ==
    /\ stats \in Stats /\ stats.revision = 1
    /\ stats.documents = Cardinality(S) /\ stats.pending = Cardinality(S)
    /\ stats.bytes = Cardinality(S) + Cardinality(HasVector(content, S))

SpacesOK ==
    /\ mig.spaces \subseteq SpaceKeys
    /\ \A n \in SpaceKeys \ mig.spaces :
          kv[<<"n", n>>] # None => SpaceFit(kv, n) \/ (pc = "documents" /\ n = mig.space)
SpaceOK ==
    /\ mig.space \in SpaceKeys
    /\ mig.docs \subseteq DocsOf(kv, mig.space)
    /\ BatchOK(mig.batch, kv, DoneDocs)
    /\ CountsOK(Content(kv), DoneDocs, mig.stats)
MigOK ==
    /\ mig = [spaces |-> mig.spaces, docs |-> mig.docs, space |-> mig.space,
              batch |-> mig.batch, count |-> mig.count, stats |-> mig.stats]
    /\ pc \in {"namespaces", "documents"} => SpacesOK
    /\ pc = "documents" => SpaceOK

SentKeys(n) == {KeyOrder[i] : i \in 1 .. n}
StreamOK ==
    Exporting =>
        /\ stream = [rows |-> stream.rows, sent |-> stream.sent, of |-> stream.of, got |-> stream.got]
        /\ Whole(stream.rows) /\ stream.of = Content(stream.rows)
        /\ stream.sent \in 0 .. Len(KeyOrder)
        /\ stream.got = Only(SentKeys(stream.sent), stream.rows)

FileOK(f) ==
    /\ f = [rows |-> f.rows, sound |-> f.sound, of |-> f.of]
    /\ Whole(f.rows) /\ f.of = Content(f.rows)
OutputOK == output # None => FileOK(output)

\* The rows of a restore that has still to write the keys that are left.
Partial(rows, left) ==
    [key \in Keys |-> IF key = FormatKey THEN "restoring" ELSE IF key \in left THEN None ELSE rows[key]]

FillOK ==
    pc = "fill" => /\ output # None /\ fill \subseteq Keys \ {FormatKey}
                   /\ kv = Partial(output.rows, fill)

Inv == ControlOK /\ RowsOK /\ MigOK /\ StreamOK /\ OutputOK /\ FillOK

\* A row of statistics belongs to a namespace that exists: the rows of a new name
\* count nothing. And a change row carries a revision.
Legal(rows) ==
    /\ \A n \in SpaceKeys : rows[<<"s", n>>] # None => rows[<<"n", n>>] # None
    /\ \A k \in DocKeys : rows[<<"c", k>>] # 0

LegalInv ==
    /\ kv[FormatKey] # "restoring" => Legal(kv)
    /\ Exporting => Legal(stream.rows)
    /\ output # None => Legal(output.rows)
    /\ pc \in {"namespaces", "documents"} => \A n \in mig.spaces : kv[<<"n", n>>] # None
    /\ pc = "documents" => kv[<<"n", mig.space>>] # None

LEMMA NoDone ==
    ASSUME NEW content, NEW stats \in Stats, stats.revision = 1, stats.documents = 0,
           stats.pending = 0, stats.bytes = 0
    PROVE  CountsOK(content, {}, stats)
<1>1. HasVector(content, {}) = {}
  BY DEF HasVector
<1>2. Cardinality({}) = 0
  BY FS_EmptySet
<1>3. Cardinality(HasVector(content, {})) = 0
  BY <1>1, <1>2
<1>4. stats.bytes = Cardinality({}) + Cardinality(HasVector(content, {}))
  BY <1>2, <1>3
<1> QED
  BY <1>2, <1>4 DEF CountsOK

LEMMA IdleMig ==
    NoMigration = [spaces |-> NoMigration.spaces, docs |-> NoMigration.docs,
                   space |-> NoMigration.space, batch |-> NoMigration.batch,
                   count |-> NoMigration.count, stats |-> NoMigration.stats]
BY DEF NoMigration

LEMMA InitStart ==
    ASSUME NEW rows, Start(rows), Shape(rows), Attached(rows), rows[FormatKey] \notin {"v2", "restoring"}
    PROVE  Inv
<1>1. /\ kv = rows /\ promise = Content(rows) /\ pc = "down" /\ goal = "exit"
      /\ mig = NoMigration /\ fill = {} /\ stream = NoStream /\ output = None
  BY DEF Start, Idle
<1>2. ControlOK
  BY <1>1 DEF ControlOK, Exporting
<1>3. RowsOK
  BY <1>1, ContentType DEF RowsOK
<1>4. MigOK
  BY <1>1, IdleMig DEF MigOK
<1>5. StreamOK /\ OutputOK /\ FillOK
  BY <1>1 DEF StreamOK, OutputOK, FillOK, Exporting
<1> QED
  BY <1>2, <1>3, <1>4, <1>5 DEF Inv

LEMMA InitInv == Init => Inv
<1> SUFFICES ASSUME Init PROVE Inv
  OBVIOUS
<1>1. CASE Start(NoRows)
  BY <1>1, InitStart, EmptyRows, NoneIsNothing DEF Markers
<1>2. CASE Start(With(NoRows, <<"n", Spaces[1]>>, "schema"))
  <2> DEFINE n == Spaces[1]
             r == With(NoRows, <<"n", n>>, "schema")
  <2>1. n \in SpaceKeys
    BY DEF SpaceKeys
  <2>2. /\ r = [key \in Keys |-> r[key]] /\ r[<<"n", n>>] = "schema"
        /\ \A key \in Keys : key # <<"n", n>> => r[key] = None
    BY <2>1, KeyFacts, EmptyRows DEF With, NoRows
  <2>3. r[FormatKey] = None
    BY <2>1, <2>2, KeyFacts
  <2>4. \A k \in DocKeys : r[<<"d", k>>] = None /\ r[<<"v", k>>] = None /\ r[<<"c", k>>] = None
    BY <2>2, KeyFacts
  <2>5. \A m \in SpaceKeys : r[<<"n", m>>] \in {"schema", None} /\ r[<<"s", m>>] = None
    BY <2>2, KeyFacts
  <2> HIDE DEF r
  <2>6. Shape(r) /\ Attached(r)
    BY <2>2, <2>3, <2>4, <2>5 DEF Shape, Attached
  <2>7. r[FormatKey] \notin {"v2", "restoring"}
    BY <2>3, NoneIsNothing DEF Markers
  <2> QED
    BY <1>2, <2>6, <2>7, InitStart DEF r
<1>3. ASSUME NEW docs \in [DocKeys -> Docs \cup {None}], Start(LegacyRows(docs)) PROVE Inv
  <2> DEFINE r == LegacyRows(docs)
  <2>1. r = [key \in Keys |-> r[key]] /\ r[FormatKey] = "v1"
    BY KeyFacts DEF LegacyRows
  <2>2. \A k \in DocKeys : r[<<"d", k>>] = docs[k] /\ r[<<"v", k>>] = None /\ r[<<"c", k>>] = None
    BY KeyFacts DEF LegacyRows
  <2>3. \A n \in SpaceKeys : r[<<"n", n>>] = "schema" /\ r[<<"s", n>>] = None
    BY KeyFacts DEF LegacyRows
  <2> HIDE DEF r
  <2>4. Shape(r) /\ Attached(r)
    BY <2>1, <2>2, <2>3, KeyFacts, NoneIsNothing DEF Shape, Attached, Markers
  <2> QED
    BY <1>3, <2>1, <2>4, InitStart DEF r
<1> QED
  BY <1>1, <1>2, <1>3 DEF Init

-----------------------------------------------------------------------------
\* Steps that leave the rows alone.

LEMMA SameRows ==
    ASSUME Inv, UNCHANGED <<kv, promise>> PROVE RowsOK'
BY DEF Inv, RowsOK

LEMMA Quiet ==
    ASSUME Inv, pc' \in {"down", "mark", "serving", "check"}, UNCHANGED <<mig, stream, output>>
    PROVE  /\ MigOK' /\ OutputOK' /\ FillOK'
           /\ (pc = "down" => ~Exporting') /\ StreamOK'
BY DEF Inv, MigOK, OutputOK, FillOK, ControlOK, StreamOK, Exporting

LEMMA OpenStep ==
    ASSUME Inv, NEW g \in {"serve", "restore", "exit"}, NEW migrate \in BOOLEAN, Open(g, migrate)
    PROVE  Inv'
<1>1. pc = "down" /\ goal' = g /\ UNCHANGED <<mig, fill, stream, output, promise>> /\ fill = {}
  BY DEF Open, Inv, ControlOK
<1>2. CASE OpenReady(g) \/ OpenLegacy(g)
  <2>1. /\ UNCHANGED kv /\ pc' \in {"down", "mark", "serving", "check"}
        /\ pc' \in {"serving", "check"} => kv[FormatKey] = "v2"
        /\ pc' = "mark" => kv[FormatKey] \in {"v1", "migrating"}
    BY <1>2 DEF OpenReady, OpenLegacy, Opened, Migratable
  <2>2. ControlOK'
    BY <1>1, <2>1, Quiet DEF ControlOK
  <2> QED
    BY <1>1, <2>1, <2>2, SameRows, Quiet DEF Inv
<1>3. CASE OpenEmpty(g)
  <2>1. kv' = With(kv, FormatKey, "v2") /\ pc' \in {"down", "serving", "check"}
    BY <1>3 DEF OpenEmpty, Opened
  <2>2. \A key \in Keys : kv[key] = None
    BY <1>3 DEF OpenEmpty, Present
  <2>3. Shape(kv) /\ Attached(kv) /\ Content(kv) = promise
    BY <2>2, KeyFacts, NoneIsNothing DEF Inv, RowsOK, Markers
  <2>4. /\ kv' = [key \in Keys |-> kv'[key]] /\ kv'[FormatKey] = "v2"
        /\ \A key \in Keys \ {FormatKey} : kv'[key] = kv[key]
    BY <2>1, <2>3, WithMarker
  <2>5. AllFit(kv)
    BY <2>2, KeyFacts DEF AllFit
  <2>6. Shape(kv') /\ Attached(kv') /\ Content(kv') = Content(kv) /\ AllFit(kv')
    BY <2>3, <2>4, <2>5, Remarked DEF Markers
  <2>7. RowsOK'
    BY <1>1, <2>3, <2>6 DEF RowsOK, Inv
  <2>8. ControlOK'
    BY <1>1, <2>1, <2>4, Quiet DEF ControlOK
  <2> QED
    BY <1>1, <2>1, <2>7, <2>8, Quiet DEF Inv
<1> QED
  BY <1>2, <1>3 DEF Open

LEMMA StopStep ==
    ASSUME Inv, Stop \/ Crash PROVE Inv'
<1>1. /\ UNCHANGED <<kv, goal, output, promise>> /\ pc' = "down" /\ stream' = NoStream
      /\ fill' = {} /\ mig' \in {mig, NoMigration}
  BY DEF Stop, Crash, Inv, ControlOK
<1>2. ControlOK'
  BY <1>1 DEF Inv, ControlOK, Exporting
<1>3. MigOK'
  BY <1>1, IdleMig DEF Inv, MigOK
<1>4. StreamOK' /\ OutputOK' /\ FillOK'
  BY <1>1 DEF Inv, StreamOK, OutputOK, FillOK, Exporting
<1> QED
  BY <1>1, <1>2, <1>3, <1>4, SameRows DEF Inv

-----------------------------------------------------------------------------
\* Export and download.

\* What a stream and a file hold is a whole database of one moment.
LEMMA ServedIsWhole ==
    ASSUME Inv, pc = "serving" PROVE Whole(kv) /\ Content(kv) = promise
BY DEF Inv, ControlOK, RowsOK, Whole

LEMMA OnlyGrows ==
    ASSUME NEW r, r = [key \in Keys |-> r[key]], NEW S \in SUBSET Keys, NEW T \in SUBSET Keys
    PROVE  Over(Only(T, r), Only(S, r)) = Only(S \cup T, r)
BY DEF Over, Only

LEMMA SentAll == SentKeys(Len(KeyOrder)) = Keys /\ SentKeys(0) = {} /\ Len(KeyOrder) \in Nat
BY OrderIsSeq DEF SentKeys, Keys

LEMMA ExportStep ==
    ASSUME Inv, ExportBegin \/ (\E upto \in 1 .. Len(KeyOrder) : ExportRows(upto))
    PROVE  Inv'
<1>1. /\ pc = "serving" /\ UNCHANGED <<kv, pc, goal, mig, fill, output, promise>>
  BY DEF ExportBegin, ExportRows
<1>2. ControlOK' /\ RowsOK' /\ OutputOK' /\ FillOK'
  BY <1>1, SameRows DEF Inv, ControlOK, OutputOK, FillOK
<1>3. MigOK'
  BY <1>1 DEF Inv, MigOK
<1>4. CASE ExportBegin
  <2>1. stream' = [rows |-> kv, sent |-> 0, of |-> Content(kv), got |-> NoRows]
    BY <1>4 DEF ExportBegin
  <2>2. NoRows = Only(SentKeys(0), kv)
    BY SentAll DEF NoRows, Only
  <2>3. StreamOK'
    BY <1>1, <2>1, <2>2, ServedIsWhole, SentAll DEF StreamOK
  <2> QED
    BY <1>2, <1>3, <2>3 DEF Inv
<1>5. ASSUME NEW upto \in 1 .. Len(KeyOrder), ExportRows(upto) PROVE Inv'
  <2>1. /\ stream = [rows |-> stream.rows, sent |-> stream.sent, of |-> stream.of, got |-> stream.got]
        /\ Whole(stream.rows) /\ stream.of = Content(stream.rows)
        /\ stream.sent \in 0 .. Len(KeyOrder)
        /\ stream.got = Only(SentKeys(stream.sent), stream.rows)
        /\ upto \in stream.sent + 1 .. Len(KeyOrder)
    BY <1>5 DEF ExportRows, Inv, StreamOK
  <2> PICK n \in 0 .. Len(KeyOrder) : n = stream.sent
    BY Zenon, <2>1
  <2> DEFINE part == {KeyOrder[i] : i \in n + 1 .. upto}
  <2>2. stream' = [stream EXCEPT !.sent = upto, !.got = Over(Only(part, stream.rows), @)]
    BY <1>5 DEF ExportRows, Source
  <2>3. SentKeys(upto) = SentKeys(n) \cup part
    <3>1. 1 .. upto = (1 .. n) \cup (n + 1 .. upto)
      BY <2>1, SentAll
    <3> QED
      BY <3>1 DEF SentKeys
  <2>4. SentKeys(n) \in SUBSET Keys /\ part \in SUBSET Keys
    <3>1. \A i \in 1 .. Len(KeyOrder) : KeyOrder[i] \in Keys
      BY OrderIsSeq
    <3>2. 1 .. n \subseteq 1 .. Len(KeyOrder) /\ n + 1 .. upto \subseteq 1 .. Len(KeyOrder)
      BY SentAll
    <3> QED
      BY <3>1, <3>2 DEF SentKeys
  <2> HIDE DEF part
  <2>5. /\ stream' = [rows |-> stream'.rows, sent |-> stream'.sent, of |-> stream'.of, got |-> stream'.got]
        /\ stream'.rows = stream.rows /\ stream'.of = stream.of /\ stream'.sent = upto
        /\ stream'.got = Over(Only(part, stream.rows), stream.got)
    BY <2>1, <2>2
  <2>6. stream'.got = Only(SentKeys(upto), stream.rows)
    <3>1. stream.rows = [key \in Keys |-> stream.rows[key]]
      BY <2>1 DEF Whole, Shape
    <3> QED
      <4>1. Over(Only(part, stream.rows), Only(SentKeys(n), stream.rows))
              = Only(SentKeys(n) \cup part, stream.rows)
        BY <2>4, <3>1, OnlyGrows
      <4> QED
        BY <2>1, <2>3, <2>5, <4>1
  <2>7. StreamOK'
    BY <2>1, <2>5, <2>6 DEF StreamOK
  <2> QED
    BY Zenon, <1>2, <1>3, <2>7 DEF Inv
<1> QED
  BY <1>4, <1>5

LEMMA DownloadStep ==
    ASSUME Inv, Downloaded \/ DownloadFails PROVE Inv'
<1>1. /\ UNCHANGED <<kv, pc, goal, mig, fill, promise>> /\ stream' = NoStream
      /\ Exporting /\ pc = "serving"
  BY DEF Downloaded, DownloadFails, Inv, ControlOK
<1>2. ControlOK' /\ RowsOK' /\ MigOK' /\ StreamOK' /\ FillOK'
  BY <1>1, SameRows DEF Inv, ControlOK, MigOK, StreamOK, FillOK, Exporting
<1>3. OutputOK'
  <2>1. CASE output' = output
    BY <2>1 DEF Inv, OutputOK
  <2>2. CASE Downloaded /\ output = None
    <3>1. /\ stream.sent = Len(KeyOrder) /\ Whole(stream.rows) /\ stream.of = Content(stream.rows)
          /\ stream.got = Only(SentKeys(stream.sent), stream.rows)
      BY <1>1, <2>2 DEF Downloaded, Inv, StreamOK
    <3>2. stream.got = stream.rows
      BY <3>1, SentAll DEF Only, Whole, Shape
    <3>3. output' = [rows |-> stream.rows, sound |-> TRUE, of |-> stream.of]
      BY <2>2, <3>2 DEF Downloaded, Link
    <3> QED
      BY <3>1, <3>3 DEF OutputOK, FileOK
  <2> QED
    BY <2>1, <2>2 DEF Downloaded, DownloadFails, Link
<1> QED
  BY <1>2, <1>3 DEF Inv

LEMMA DamageStep ==
    ASSUME Inv, Damage PROVE Inv'
<1>1. /\ UNCHANGED <<kv, pc, goal, mig, fill, stream, promise>> /\ output # None /\ pc # "fill"
      /\ output' = [output EXCEPT !.sound = FALSE]
  BY DEF Damage
<1>2. UNCHANGED <<kv, pc, mig, promise>>
  BY <1>1
<1>3. RowsOK'
  BY <1>2, SameRows
<1>4. MigOK'
  BY <1>2 DEF Inv, MigOK, SpacesOK, SpaceOK, DoneDocs
<1>5. ControlOK'
  BY <1>1 DEF Inv, ControlOK, Exporting
<1>6. StreamOK' /\ FillOK'
  BY <1>1 DEF Inv, StreamOK, FillOK, Exporting
<1>7. FileOK(output)'
  BY <1>1 DEF Inv, OutputOK, FileOK
<1> QED
  BY <1>3, <1>7, <1>6, <1>5, <1>4 DEF Inv, OutputOK

-----------------------------------------------------------------------------
\* Migration.

LEMMA MarkStep ==
    ASSUME Inv, MarkMigrating PROVE Inv'
<1>1. /\ pc = "mark" /\ pc' = "namespaces" /\ UNCHANGED <<goal, fill, stream, output, promise>>
      /\ kv' = With(kv, FormatKey, "migrating")
      /\ mig' = [NoMigration EXCEPT !.spaces = {n \in SpaceKeys : kv[<<"n", n>>] # None}]
  BY DEF MarkMigrating
<1>2. Shape(kv) /\ Attached(kv) /\ Content(kv) = promise
  BY <1>1 DEF Inv, ControlOK, RowsOK
<1>3. /\ kv' = [key \in Keys |-> kv'[key]] /\ kv'[FormatKey] = "migrating"
      /\ \A key \in Keys \ {FormatKey} : kv'[key] = kv[key]
  BY <1>1, <1>2, WithMarker
<1>4. Shape(kv') /\ Attached(kv') /\ Content(kv') = Content(kv)
  BY <1>2, <1>3, Remarked DEF Markers
<1>5. RowsOK'
  BY <1>1, <1>2, <1>3, <1>4 DEF RowsOK, Inv
<1>6. ControlOK' /\ StreamOK' /\ OutputOK' /\ FillOK'
  BY <1>1, <1>3 DEF Inv, ControlOK, StreamOK, OutputOK, FillOK, Exporting
<1>7. MigOK'
  <2>1. /\ mig' = [spaces |-> mig'.spaces, docs |-> mig'.docs, space |-> mig'.space,
                   batch |-> mig'.batch, count |-> mig'.count, stats |-> mig'.stats]
        /\ mig'.spaces = {n \in SpaceKeys : kv[<<"n", n>>] # None}
    BY <1>1 DEF NoMigration
  <2>2. \A n \in SpaceKeys : kv'[<<"n", n>>] = kv[<<"n", n>>]
    BY <1>3, KeyFacts
  <2> QED
    BY <1>1, <2>1, <2>2 DEF MigOK, SpacesOK
<1> QED
  BY <1>5, <1>6, <1>7 DEF Inv

LEMMA EmptyBatch ==
    ASSUME NEW r, NEW S \in SUBSET DocKeys, \A k \in S : Settled(r, k)
    PROVE  BatchOK(NoRows, r, S)
BY EmptyRows, KeyFacts DEF BatchOK, Blank, NoRows

LEMMA NextNamespaceStep ==
    ASSUME Inv, NextNamespace PROVE Inv'
<1>1. /\ pc = "namespaces" /\ pc' = "documents"
      /\ UNCHANGED <<kv, goal, fill, stream, output, promise>>
  BY DEF NextNamespace
<1>2. PICK n \in mig.spaces :
          mig' = [NoMigration EXCEPT
                        !.spaces = mig.spaces \ {n}, !.space = n,
                        !.docs = {k \in DocKeys : k[1] = n /\ kv[<<"d", k>>] # None},
                        !.stats = [NoStats EXCEPT !.revision = 1]]
  BY DEF NextNamespace
<1>3. RowsOK' /\ ControlOK'
  BY <1>1, SameRows DEF Inv, ControlOK, Exporting
<1>4. StreamOK' /\ OutputOK' /\ FillOK'
  BY <1>1 DEF Inv, ControlOK, StreamOK, OutputOK, FillOK, Exporting
<1>5. SpacesOK
  BY <1>1 DEF Inv, MigOK
<1>6. /\ mig' = [spaces |-> mig'.spaces, docs |-> mig'.docs, space |-> mig'.space,
                 batch |-> mig'.batch, count |-> mig'.count, stats |-> mig'.stats]
      /\ mig'.spaces = mig.spaces \ {n} /\ mig'.space = n /\ mig'.docs = DocsOf(kv, n)
      /\ mig'.batch = NoRows /\ mig'.stats = [NoStats EXCEPT !.revision = 1]
  BY <1>2 DEF NoMigration, DocsOf
<1>7. SpacesOK'
  BY <1>1, <1>5, <1>6 DEF SpacesOK
<1>8. DoneDocs' = {}
  BY <1>1, <1>6 DEF DoneDocs
<1>9. CountsOK(Content(kv)', DoneDocs', mig'.stats)
  <2>1. /\ mig'.stats \in Stats /\ mig'.stats.revision = 1 /\ mig'.stats.documents = 0
        /\ mig'.stats.pending = 0 /\ mig'.stats.bytes = 0
    BY <1>6 DEF NoStats, Stats
  <2> QED
    BY <1>8, <2>1, NoDone
<1>10. BatchOK(mig'.batch, kv', DoneDocs')
  BY <1>6, <1>8, EmptyBatch
<1>11. SpaceOK'
  BY <1>1, <1>5, <1>6, <1>9, <1>10 DEF SpaceOK, SpacesOK
<1>12. MigOK'
  BY <1>6, <1>7, <1>11 DEF MigOK
<1> QED
  BY <1>3, <1>4, <1>12 DEF Inv

\* The document that is converted is counted with the vector clients read.
LEMMA CountsGrow ==
    ASSUME NEW S \in SUBSET DocKeys, NEW k \in DocKeys \ S, NEW content, NEW stats,
           CountsOK(content, S, stats), VectorOf(k) = content[k].vector
    PROVE  CountsOK(content, S \cup {k}, Counted(stats, k))
<1> PICK w \in {0, 1} : w = Weight(VectorOf(k))
  BY DEF Weight
<1> PICK total : total = Counted(stats, k)
  OBVIOUS
<1> PICK m \in Nat : m = Cardinality(S)
  BY DocsFinite, FS_CardinalityType
<1>1. IsFiniteSet(S) /\ IsFiniteSet(HasVector(content, S))
  BY DocsFinite DEF HasVector
<1> PICK v \in Nat : v = Cardinality(HasVector(content, S))
  BY <1>1, FS_CardinalityType
<1>2. Cardinality(S \cup {k}) = m + 1
  BY <1>1, FS_AddElement
<1>3. Cardinality(HasVector(content, S \cup {k})) = v + w
  <2>1. CASE content[k].vector = None
    <3>1. HasVector(content, S \cup {k}) = HasVector(content, S) /\ w = 0
      BY <2>1 DEF HasVector, Weight
    <3> QED
      BY <3>1
  <2>2. CASE content[k].vector # None
    <3>1. /\ HasVector(content, S \cup {k}) = HasVector(content, S) \cup {k} /\ w = 1
          /\ k \notin HasVector(content, S)
      BY <2>2 DEF HasVector, Weight
    <3> QED
      BY <1>1, <3>1, FS_AddElement
  <2> QED
    BY <2>1, <2>2
<1>4. /\ stats \in Stats /\ stats.revision = 1 /\ stats.documents = m /\ stats.pending = m
      /\ stats.bytes = m + v
  BY DEF CountsOK
<1>5. /\ total \in Stats /\ total.revision = 1 /\ total.documents = m + 1
      /\ total.pending = m + 1 /\ total.bytes = m + v + 1 + w
  <2>1. stats = [revision |-> stats.revision, documents |-> stats.documents,
                 bytes |-> stats.bytes, pending |-> stats.pending]
    BY <1>4 DEF Stats
  <2>2. total = [revision |-> stats.revision, documents |-> stats.documents + 1,
                 bytes |-> stats.bytes + 1 + w, pending |-> stats.pending + 1]
    BY <2>1 DEF Counted
  <2> PICK a \in Int : a = stats.documents + 1
    BY <1>4
  <2> PICK b \in Int : b = stats.bytes + 1 + w
    BY <1>4
  <2> PICK c \in Int : c = stats.pending + 1
    BY <1>4
  <2>3. total = [revision |-> 1, documents |-> a, bytes |-> b, pending |-> c]
    BY <1>4, <2>2
  <2>4. a = m + 1 /\ c = m + 1 /\ b = m + v + 1 + w
    BY <1>4
  <2>5. total \in Stats
    BY <2>3 DEF Stats
  <2> QED
    <3>1. total.revision = 1 /\ total.documents = a /\ total.bytes = b /\ total.pending = c
      BY <2>3
    <3> QED
      BY <2>4, <2>5, <3>1
<1>6. total.bytes = m + 1 + (v + w)
  BY <1>5
<1> QED
  BY <1>2, <1>3, <1>5, <1>6 DEF CountsOK

LEMMA VectorShown ==
    ASSUME Shape(kv), Attached(kv), NEW k \in DocKeys, kv[<<"d", k>>] # None
    PROVE  VectorOf(k) = Content(kv)[k].vector
<1> PICK doc \in Docs : doc = kv[<<"d", k>>]
  BY DEF Shape
<1> PICK x \in Vectors \cup {None} : x = VectorOf(k)
  BY DEF Shape, VectorOf, Docs
<1>1. Content(kv)[k] = [doc EXCEPT !.vector = x]
  <2>1. kv[<<"n", k[1]>>] # None
    BY DEF Attached
  <2>2. Content(kv)[k] = Shown(kv[<<"n", k[1]>>], kv[<<"d", k>>], kv[<<"v", k>>])
    BY ContentAt
  <2> QED
    BY <2>1, <2>2 DEF Shown, VectorOf
<1> QED
  BY <1>1, DocWith

LEMMA ConvertStep ==
    ASSUME Inv, ConvertDocument PROVE Inv'
<1>1. pc = "documents" /\ UNCHANGED <<pc, goal, fill, stream, output, promise>>
  BY DEF ConvertDocument
<1>2. /\ Shape(kv) /\ Attached(kv) /\ Content(kv) = promise /\ kv[FormatKey] = "migrating"
      /\ SpacesOK /\ SpaceOK
  BY <1>1 DEF Inv, ControlOK, RowsOK, MigOK
<1>3. PICK k \in mig.docs :
          LET batch == Over(Converted(k), mig.batch)
              full == mig.count + 1 = Batch
          IN  /\ mig' = [mig EXCEPT !.docs = @ \ {k}, !.stats = Counted(@, k),
                                    !.batch = IF full THEN NoRows ELSE batch,
                                    !.count = IF full THEN 0 ELSE @ + 1]
              /\ kv' = IF full THEN Over(batch, kv) ELSE kv
  BY DEF ConvertDocument
<1> DEFINE batch == Over(Converted(k), mig.batch)
           full == mig.count + 1 = Batch
           space == mig.space
<1> PICK S : S = DoneDocs
  OBVIOUS
<1>4. /\ k \in DocKeys /\ k \notin S /\ kv[<<"d", k>>] # None /\ k[1] = space
      /\ S \cup {k} \in SUBSET DocKeys /\ \A l \in S \cup {k} : l[1] = space
      /\ S \cup {k} = DocsOf(kv, space) \ (mig.docs \ {k})
  BY <1>2, <1>3 DEF SpaceOK, DocsOf, DoneDocs
<1>5. BatchOK(batch, kv, S \cup {k})
  BY <1>2, <1>4, JoinsBatch DEF SpaceOK
<1>6. CountsOK(Content(kv), S \cup {k}, Counted(mig.stats, k))
  <2>1. VectorOf(k) = Content(kv)[k].vector
    BY <1>2, <1>4, VectorShown
  <2> QED
    BY <1>2, <1>4, <2>1, CountsGrow DEF SpaceOK
<1>7. /\ mig' = [spaces |-> mig'.spaces, docs |-> mig'.docs, space |-> mig'.space,
                 batch |-> mig'.batch, count |-> mig'.count, stats |-> mig'.stats]
      /\ mig'.spaces = mig.spaces /\ mig'.space = space /\ mig'.docs = mig.docs \ {k}
      /\ mig'.stats = Counted(mig.stats, k) /\ mig'.batch = IF full THEN NoRows ELSE batch
      /\ kv' = IF full THEN Over(batch, kv) ELSE kv
  <2>1. mig = [spaces |-> mig.spaces, docs |-> mig.docs, space |-> mig.space,
               batch |-> mig.batch, count |-> mig.count, stats |-> mig.stats]
    BY DEF Inv, MigOK
  <2>2. mig' = [mig EXCEPT !.docs = @ \ {k}, !.stats = Counted(@, k),
                           !.batch = IF full THEN NoRows ELSE batch,
                           !.count = IF full THEN 0 ELSE @ + 1]
    BY <1>3
  <2>3. kv' = IF full THEN Over(batch, kv) ELSE kv
    BY <1>3
  <2> HIDE DEF full, batch
  <2> QED
    BY <2>1, <2>2, <2>3
<1> HIDE DEF full, batch, space
<1>8. /\ Shape(kv') /\ Attached(kv') /\ Content(kv') = Content(kv) /\ kv'[FormatKey] = "migrating"
      /\ \A n \in SpaceKeys : kv'[<<"n", n>>] = kv[<<"n", n>>]
      /\ DocsOf(kv', space) = DocsOf(kv, space)
      /\ \A n \in SpaceKeys : n # space /\ SpaceFit(kv, n) => SpaceFit(kv', n)
      /\ BatchOK(mig'.batch, kv', S \cup {k})
  <2>1. CASE full
    <3>1. kv' = Over(batch, kv) /\ mig'.batch = NoRows
      BY <1>7, <2>1
    <3>2. /\ Shape(kv') /\ Attached(kv') /\ Content(kv') = Content(kv) /\ SameSpaces(kv', kv)
          /\ DocsOf(kv', space) = DocsOf(kv, space)
          /\ \A l \in S \cup {k} : l \in DocKeys => Settled(kv', l)
          /\ \A n \in SpaceKeys : (\A l \in S \cup {k} : l[1] # n) /\ SpaceFit(kv, n) => SpaceFit(kv', n)
      BY <1>2, <1>5, <3>1, Flushed
    <3>3. BatchOK(mig'.batch, kv', S \cup {k})
      BY <1>4, <3>1, <3>2, EmptyBatch
    <3> QED
      BY <1>2, <1>4, <3>2, <3>3 DEF SameSpaces
  <2>2. CASE ~full
    <3>1. kv' = kv /\ mig'.batch = batch
      BY <1>7, <2>2
    <3> QED
      BY <1>2, <1>5, <3>1
  <2> QED
    BY <2>1, <2>2
<1>9. RowsOK'
  BY <1>1, <1>2, <1>8 DEF RowsOK, Inv
<1>10. ControlOK' /\ StreamOK' /\ OutputOK' /\ FillOK'
  BY <1>1, <1>8 DEF Inv, ControlOK, StreamOK, OutputOK, FillOK, Exporting
<1>11. DoneDocs' = S \cup {k}
  BY <1>4, <1>7, <1>8 DEF DoneDocs
<1>12. SpaceOK'
  <2>1. mig'.docs \subseteq DocsOf(kv', space) /\ space \in SpaceKeys
    BY <1>2, <1>7, <1>8 DEF SpaceOK, space
  <2>2. CountsOK(Content(kv'), DoneDocs', mig'.stats)
    BY <1>6, <1>7, <1>8, <1>11
  <2> QED
    BY <1>7, <1>8, <1>11, <2>1, <2>2 DEF SpaceOK
<1>13. SpacesOK'
  <2>1. \A n \in SpaceKeys \ mig.spaces : kv[<<"n", n>>] # None => SpaceFit(kv, n) \/ n = space
    BY <1>2 DEF SpacesOK, space
  <2>2. mig.spaces \subseteq SpaceKeys
    BY <1>2 DEF SpacesOK
  <2>3. \A n \in SpaceKeys \ mig'.spaces : kv'[<<"n", n>>] # None => SpaceFit(kv', n) \/ n = mig'.space
    BY <1>7, <1>8, <2>1
  <2> QED
    BY <1>1, <1>7, <2>2, <2>3 DEF SpacesOK
<1>14. MigOK'
  BY <1>7, <1>12, <1>13 DEF MigOK
<1> QED
  BY <1>9, <1>10, <1>14 DEF Inv

\* The statistics that were counted are those of the converted documents.
LEMMA CountedFit ==
    ASSUME NEW q, Shape(q), Attached(q), NEW n \in SpaceKeys, NEW S \in SUBSET DocKeys,
           DocsOf(q, n) = S, \A k \in S : Settled(q, k),
           CountsOK(Content(q), S, q[<<"s", n>>])
    PROVE  SpaceFit(q, n)
<1>1. ASSUME NEW k \in S
      PROVE  /\ k \in DocKeys /\ k[1] = n /\ q[<<"d", k>>] # None /\ q[<<"d", k>>].vector = None
             /\ q[<<"c", k>>] = 1 /\ q[<<"c", k>>] # None
  <2>1. k \in DocKeys /\ k[1] = n /\ q[<<"d", k>>] # None
    BY DEF DocsOf
  <2>2. q[<<"d", k>>].vector = None /\ q[<<"c", k>>] = 1
    BY DEF Settled
  <2>3. q[<<"c", k>>] # None
    <3>1. 1 # None
      BY NoneIsNothing
    <3> QED
      BY <2>2, <3>1
  <2> QED
    BY <2>1, <2>2, <2>3
<1>2. ChangesOf(q, n) = S
  <2>1. ASSUME NEW k \in ChangesOf(q, n) PROVE k \in S
    BY DEF Attached, ChangesOf, DocsOf
  <2> QED
    BY <1>1, <2>1 DEF ChangesOf
<1>3. ASSUME NEW k \in S PROVE Content(q)[k].vector = q[<<"v", k>>]
  <2> PICK doc \in Docs : doc = q[<<"d", k>>]
    BY <1>1 DEF Shape
  <2> PICK x \in Vectors \cup {None} : x = q[<<"v", k>>]
    BY <1>1 DEF Shape
  <2>1. q[<<"n", k[1]>>] # None
    BY <1>1 DEF Attached
  <2>2. Content(q)[k] = Shown(q[<<"n", k[1]>>], q[<<"d", k>>], q[<<"v", k>>])
    BY <1>1, ContentAt
  <2>3. doc.vector = None /\ doc # None
    BY <1>1
  <2>4. Content(q)[k] = [doc EXCEPT !.vector = x]
    BY <2>1, <2>2, <2>3 DEF Shown
  <2> QED
    BY <2>4, DocWith
<1>4. VectorsOf(q, n) = HasVector(Content(q), S)
  BY <1>3 DEF VectorsOf, HasVector
<1> PICK stats : stats = q[<<"s", n>>]
  OBVIOUS
<1>5. /\ stats \in Stats /\ stats.revision = 1
      /\ stats.documents = Cardinality(S) /\ stats.pending = Cardinality(S)
      /\ stats.bytes = Cardinality(S) + Cardinality(HasVector(Content(q), S))
  BY DEF CountsOK
<1>6. \A k \in S : q[<<"c", k>>] <= stats.revision
  <2>1. 1 <= stats.revision
    BY <1>5
  <2> QED
    BY <1>1, <2>1
<1>7. StatsAt(q, n) = stats
  BY <1>5, NoneIsNothing DEF StatsAt
<1> QED
  BY <1>1, <1>2, <1>4, <1>5, <1>6, <1>7 DEF SpaceFit

\* Writing them changes nothing else.
LEMMA Recounted ==
    ASSUME NEW r, Shape(r), Attached(r), NEW n \in SpaceKeys, NEW S \in SUBSET DocKeys,
           DocsOf(r, n) = S, \A k \in S : Settled(r, k),
           NEW q, q = [key \in Keys |-> q[key]], CountsOK(Content(r), S, q[<<"s", n>>]),
           \A key \in Keys : key # <<"s", n>> => q[key] = r[key]
    PROVE  /\ Shape(q) /\ Attached(q) /\ Content(q) = Content(r) /\ q[FormatKey] = r[FormatKey]
           /\ \A m \in SpaceKeys : q[<<"n", m>>] = r[<<"n", m>>]
           /\ \A m \in SpaceKeys \ {n} : SpaceFit(r, m) => SpaceFit(q, m)
           /\ SpaceFit(q, n)
<1>1. q[<<"s", n>>] \in Stats
  BY DEF CountsOK
<1>2. /\ \A k \in DocKeys : /\ q[<<"d", k>>] = r[<<"d", k>>] /\ q[<<"v", k>>] = r[<<"v", k>>]
                            /\ q[<<"c", k>>] = r[<<"c", k>>] /\ q[<<"n", k[1]>>] = r[<<"n", k[1]>>]
      /\ \A m \in SpaceKeys : q[<<"n", m>>] = r[<<"n", m>>]
      /\ \A m \in SpaceKeys \ {n} : q[<<"s", m>>] = r[<<"s", m>>]
      /\ q[FormatKey] = r[FormatKey]
  BY KeyFacts
<1>3. Shape(q)
  BY <1>1, <1>2 DEF Shape
<1>4. Content(q) = Content(r) /\ Attached(q)
  <2>1. Content(q) = Content(r)
    BY <1>2 DEF Content
  <2>2. Attached(q)
    BY <1>2, AttachedAlike
  <2> QED
    BY <2>1, <2>2
<1>5. ASSUME NEW m \in SpaceKeys \ {n}, SpaceFit(r, m) PROVE SpaceFit(q, m)
  <2>1. SameIn(q, r, m)
    BY <1>2 DEF SameIn
  <2> QED
    BY <1>5, <2>1, FitAlike
<1>6. DocsOf(q, n) = S /\ \A k \in S : Settled(q, k)
  <2>1. DocsOf(q, n) = DocsOf(r, n)
    BY <1>2 DEF DocsOf
  <2>2. ASSUME NEW k \in S PROVE Settled(q, k)
    <3>1. k \in DocKeys /\ Settled(r, k)
      BY DEF DocsOf
    <3> QED
      BY <1>2, <3>1 DEF Settled
  <2> QED
    BY <2>1, <2>2
<1>7. SpaceFit(q, n)
  <2>1. CountsOK(Content(q), S, q[<<"s", n>>])
    BY <1>4
  <2> QED
    BY <1>6, <1>3, <1>4, <2>1, CountedFit
<1> QED
  BY <1>2, <1>7, <1>3, <1>4, <1>5

LEMMA FinishNamespaceStep ==
    ASSUME Inv, FinishNamespace PROVE Inv'
<1> DEFINE n == mig.space
           r == Over(mig.batch, kv)
           S == DoneDocs
           q == kv'
<1>1. /\ pc = "documents" /\ pc' = "namespaces" /\ UNCHANGED <<goal, fill, stream, output, promise>>
      /\ mig.docs = {} /\ q = Over(With(mig.batch, <<"s", n>>, mig.stats), kv)
      /\ mig' = [NoMigration EXCEPT !.spaces = mig.spaces]
  BY DEF FinishNamespace
<1>2. /\ Shape(kv) /\ Attached(kv) /\ Content(kv) = promise /\ kv[FormatKey] = "migrating"
      /\ SpacesOK /\ n \in SpaceKeys
      /\ BatchOK(mig.batch, kv, S) /\ CountsOK(Content(kv), S, mig.stats)
  BY <1>1 DEF Inv, ControlOK, RowsOK, MigOK, SpaceOK
<1>3. S = DocsOf(kv, n)
  BY <1>1 DEF DoneDocs
<1>4. S \in SUBSET DocKeys /\ \A k \in S : k[1] = n
  BY <1>3 DEF DocsOf
<1> HIDE DEF n, S, q
<1>5. /\ Shape(r) /\ Attached(r) /\ Content(r) = Content(kv) /\ SameSpaces(r, kv)
      /\ DocsOf(r, n) = S /\ \A k \in S : Settled(r, k)
      /\ \A m \in SpaceKeys : (\A k \in S : k[1] # m) /\ SpaceFit(kv, m) => SpaceFit(r, m)
  BY <1>2, <1>3, <1>4, Flushed
<1>6. /\ q = [key \in Keys |-> q[key]] /\ q[<<"s", n>>] = mig.stats
      /\ \A key \in Keys : key # <<"s", n>> => q[key] = r[key]
  <2>1. mig.stats # None /\ <<"s", n>> \in Keys
    BY <1>2, NoneIsNothing, KeyFacts DEF CountsOK
  <2>2. mig.batch = [key \in Keys |-> mig.batch[key]]
    BY <1>2 DEF BatchOK
  <2> DEFINE b == With(mig.batch, <<"s", n>>, mig.stats)
  <2>3. b[<<"s", n>>] = mig.stats /\ \A key \in Keys : key # <<"s", n>> => b[key] = mig.batch[key]
    BY <2>1, <2>2 DEF With
  <2> HIDE DEF b
  <2>4. q = Over(b, kv)
    BY <1>1 DEF b
  <2> QED
    BY <2>1, <2>3, <2>4 DEF Over
<1> HIDE DEF r
<1>7. /\ Shape(q) /\ Attached(q) /\ Content(q) = Content(r) /\ q[FormatKey] = r[FormatKey]
      /\ \A m \in SpaceKeys : q[<<"n", m>>] = r[<<"n", m>>]
      /\ \A m \in SpaceKeys \ {n} : SpaceFit(r, m) => SpaceFit(q, m)
      /\ SpaceFit(q, n)
  <2>1. CountsOK(Content(r), S, q[<<"s", n>>])
    BY <1>2, <1>5, <1>6
  <2> QED
    BY <1>2, <1>4, <1>5, <1>6, <2>1, Recounted
<1>8. /\ Shape(q) /\ Attached(q) /\ Content(q) = Content(kv) /\ q[FormatKey] = "migrating"
      /\ \A m \in SpaceKeys : q[<<"n", m>>] = kv[<<"n", m>>]
  BY <1>2, <1>5, <1>7 DEF SameSpaces
<1>9. RowsOK'
  BY <1>1, <1>2, <1>8 DEF RowsOK, Inv, q
<1>10. ControlOK' /\ StreamOK' /\ OutputOK' /\ FillOK'
  BY <1>1, <1>8 DEF Inv, ControlOK, StreamOK, OutputOK, FillOK, Exporting, q
<1>11. MigOK'
  <2>1. /\ mig' = [spaces |-> mig'.spaces, docs |-> mig'.docs, space |-> mig'.space,
                   batch |-> mig'.batch, count |-> mig'.count, stats |-> mig'.stats]
        /\ mig'.spaces = mig.spaces
    BY <1>1 DEF NoMigration
  <2>2. ASSUME NEW m \in SpaceKeys \ mig.spaces, q[<<"n", m>>] # None PROVE SpaceFit(q, m)
    <3>1. CASE m = n
      BY <1>7, <3>1
    <3>2. CASE m # n
      <4>1. SpaceFit(kv, m)
        BY <1>2, <1>8, <2>2, <3>2 DEF SpacesOK, n
      <4>2. SpaceFit(r, m)
        BY <1>4, <1>5, <3>2, <4>1
      <4> QED
        BY <1>7, <3>2, <4>2
    <3> QED
      BY <3>1, <3>2
  <2>3. SpacesOK'
    BY <1>2, <2>1, <2>2 DEF SpacesOK, q
  <2> QED
    BY <1>1, <2>1, <2>3 DEF MigOK
<1> QED
  BY <1>9, <1>10, <1>11 DEF Inv

LEMMA FinishMigrationStep ==
    ASSUME Inv, FinishMigration PROVE Inv'
<1>1. /\ pc = "namespaces" /\ mig.spaces = {} /\ mig' = NoMigration /\ pc' = Opened(goal)
      /\ kv' = With(kv, FormatKey, "v2") /\ UNCHANGED <<goal, fill, stream, output, promise>>
  BY DEF FinishMigration
<1>2. Shape(kv) /\ Attached(kv) /\ Content(kv) = promise /\ SpacesOK
  BY <1>1 DEF Inv, ControlOK, RowsOK, MigOK
<1>3. AllFit(kv)
  BY <1>1, <1>2 DEF SpacesOK, AllFit
<1>4. /\ kv' = [key \in Keys |-> kv'[key]] /\ kv'[FormatKey] = "v2"
      /\ \A key \in Keys \ {FormatKey} : kv'[key] = kv[key]
  BY <1>1, <1>2, WithMarker
<1>5. Shape(kv') /\ Attached(kv') /\ Content(kv') = Content(kv) /\ AllFit(kv')
  BY <1>2, <1>3, <1>4, Remarked DEF Markers
<1>6. RowsOK'
  BY <1>1, <1>2, <1>5 DEF RowsOK, Inv
<1>7. pc' \in {"down", "serving", "check"}
  BY <1>1 DEF Opened
<1>8. ControlOK' /\ StreamOK' /\ OutputOK' /\ FillOK'
  BY <1>1, <1>4, <1>7 DEF Inv, ControlOK, StreamOK, OutputOK, FillOK, Exporting
<1>9. MigOK'
  BY <1>1, <1>7, IdleMig DEF MigOK
<1> QED
  BY <1>6, <1>8, <1>9 DEF Inv

-----------------------------------------------------------------------------
\* Clients of a served database.

LEMMA CreateStep ==
    ASSUME Inv, LegalInv, NEW n \in SpaceKeys, Create(n) PROVE Inv'
<1> DEFINE q == kv'
<1>1. /\ pc = "serving" /\ kv[<<"n", n>>] = None
      /\ q = With(kv, <<"n", n>>, "schema")
      /\ UNCHANGED <<pc, goal, mig, fill, stream, output, promise>>
  BY DEF Create, Client
<1>2. /\ Shape(kv) /\ Attached(kv) /\ AllFit(kv) /\ kv[FormatKey] = "v2"
      /\ Content(kv) = promise /\ promise \in [DocKeys -> Docs \cup {None}]
  BY <1>1 DEF Inv, ControlOK, RowsOK
<1> HIDE DEF q
<1>3. /\ q = [key \in Keys |-> q[key]]
      /\ q[<<"n", n>>] = "schema" /\ q[FormatKey] = kv[FormatKey]
      /\ \A k \in DocKeys : /\ q[<<"d", k>>] = kv[<<"d", k>>] /\ q[<<"v", k>>] = kv[<<"v", k>>]
                            /\ q[<<"c", k>>] = kv[<<"c", k>>]
      /\ \A m \in SpaceKeys : q[<<"s", m>>] = kv[<<"s", m>>] /\ (m # n => q[<<"n", m>>] = kv[<<"n", m>>])
  <2>1. kv = [key \in Keys |-> kv[key]] /\ <<"n", n>> \in Keys
    BY <1>2, KeyFacts DEF Shape
  <2>2. /\ q = [key \in Keys |-> q[key]] /\ q[<<"n", n>>] = "schema"
        /\ \A key \in Keys : key # <<"n", n>> => q[key] = kv[key]
    BY <1>1, <2>1 DEF With
  <2> QED
    BY <2>2, KeyFacts
<1>4. StatsAt(q, n) = NoStats /\ NoStats \in Stats
  <2>1. kv[<<"s", n>>] = None
    BY <1>1, <1>2, NoneIsNothing DEF LegalInv, Legal
  <2>2. StatsAt(q, n) = NoStats
    BY <1>3, <2>1 DEF StatsAt
  <2>3. NoStats \in Stats
    BY DEF NoStats, Stats
  <2> QED
    BY <2>2, <2>3
<1>5. Shape(q)
  BY <1>2, <1>3 DEF Shape, Markers
<1>6. ASSUME NEW k \in DocKeys, kv[<<"d", k>>] # None PROVE k[1] # n /\ q[<<"n", k[1]>>] = kv[<<"n", k[1]>>]
  BY <1>1, <1>2, <1>3, <1>6, KeyFacts DEF Attached
<1>7. Attached(q)
  <2> SUFFICES ASSUME NEW k \in DocKeys
               PROVE  /\ q[<<"d", k>>] # None => q[<<"n", k[1]>>] # None
                      /\ q[<<"v", k>>] # None \/ q[<<"c", k>>] # None => q[<<"d", k>>] # None
    BY DEF Attached
  <2>1. /\ kv[<<"d", k>>] # None => kv[<<"n", k[1]>>] # None
        /\ kv[<<"v", k>>] # None \/ kv[<<"c", k>>] # None => kv[<<"d", k>>] # None
    BY <1>2 DEF Attached
  <2>2. q[<<"d", k>>] = kv[<<"d", k>>] /\ q[<<"v", k>>] = kv[<<"v", k>>] /\ q[<<"c", k>>] = kv[<<"c", k>>]
    BY <1>3
  <2> QED
    BY <1>6, <2>1, <2>2
<1>8. Content(q) = Content(kv)
  <2>1. ASSUME NEW k \in DocKeys PROVE Content(q)[k] = Content(kv)[k]
    <3>1. /\ Content(q)[k] = Shown(q[<<"n", k[1]>>], q[<<"d", k>>], q[<<"v", k>>])
          /\ Content(kv)[k] = Shown(kv[<<"n", k[1]>>], kv[<<"d", k>>], kv[<<"v", k>>])
      BY ContentAt
    <3>2. q[<<"d", k>>] = kv[<<"d", k>>] /\ q[<<"v", k>>] = kv[<<"v", k>>]
      BY <1>3
    <3>3. CASE kv[<<"d", k>>] = None
      BY <3>1, <3>2, <3>3 DEF Shown
    <3>4. CASE kv[<<"d", k>>] # None
      <4>1. q[<<"n", k[1]>>] = kv[<<"n", k[1]>>]
        BY <1>6, <3>4
      <4> QED
        BY <3>1, <3>2, <4>1
    <3> QED
      BY <3>3, <3>4
  <2> QED
    BY <2>1, ContentEqual
<1>9. SpaceFit(q, n)
  <2>1. DocsOf(q, n) = {} /\ ChangesOf(q, n) = {} /\ VectorsOf(q, n) = {}
    <3>1. DocsOf(q, n) = {}
      BY <1>3, <1>6 DEF DocsOf
    <3>2. ChangesOf(q, n) = {}
      <4>1. ASSUME NEW k \in DocKeys, k[1] = n PROVE q[<<"c", k>>] = None
        <5>1. kv[<<"d", k>>] = None
          BY <1>6, <4>1
        <5>2. q[<<"d", k>>] = None
          BY <1>3, <5>1
        <5> QED
          BY <1>7, <5>2 DEF Attached
      <4> QED
        BY <4>1 DEF ChangesOf
    <3> QED
      BY <3>1, <3>2 DEF VectorsOf
  <2>2. Cardinality({}) = 0
    BY FS_EmptySet
  <2>3. /\ NoStats.documents = Cardinality({}) /\ NoStats.pending = Cardinality({})
        /\ NoStats.bytes = Cardinality({}) + Cardinality({})
    BY <2>2 DEF NoStats
  <2> QED
    BY <1>3, <1>4, <2>1, <2>3 DEF SpaceFit
<1>10. ASSUME NEW m \in SpaceKeys \ {n}, SpaceFit(kv, m) PROVE SpaceFit(q, m)
  <2>1. DocsOf(q, m) = DocsOf(kv, m) /\ ChangesOf(q, m) = ChangesOf(kv, m) /\ VectorsOf(q, m) = VectorsOf(kv, m)
    BY <1>3 DEF DocsOf, ChangesOf, VectorsOf
  <2>2. StatsAt(q, m) = StatsAt(kv, m)
    BY <1>3 DEF StatsAt
  <2> QED
    BY <1>3, <1>10, <2>1, <2>2 DEF SpaceFit, DocsOf, ChangesOf
<1>11. AllFit(q)
  BY <1>2, <1>3, <1>9, <1>10 DEF AllFit
<1>12. RowsOK'
  BY <1>1, <1>2, <1>5, <1>7, <1>8, <1>11 DEF RowsOK, q
<1>13. ControlOK' /\ StreamOK' /\ OutputOK' /\ FillOK'
  BY <1>1, <1>3 DEF Inv, ControlOK, StreamOK, OutputOK, FillOK, Exporting, q
<1>14. MigOK'
  BY <1>1 DEF Inv, MigOK
<1> QED
  BY <1>12, <1>13, <1>14 DEF Inv

\* The rows q are the rows r after an upsert of one document.
Upserted(q, r, k, bare, x, total) ==
    /\ q = [key \in Keys |-> q[key]] /\ q[FormatKey] = r[FormatKey]
    /\ q[<<"d", k>>] = bare /\ q[<<"v", k>>] = x /\ q[<<"c", k>>] = total.revision
    /\ q[<<"s", k[1]>>] = total
    /\ \A l \in DocKeys \ {k} : /\ q[<<"d", l>>] = r[<<"d", l>>] /\ q[<<"v", l>>] = r[<<"v", l>>]
                                /\ q[<<"c", l>>] = r[<<"c", l>>]
    /\ \A m \in SpaceKeys : q[<<"n", m>>] = r[<<"n", m>>]
    /\ \A m \in SpaceKeys \ {k[1]} : q[<<"s", m>>] = r[<<"s", m>>]

\* What one document does to the size of a set of documents.
LEMMA OneMore ==
    ASSUME NEW S \in SUBSET DocKeys, NEW k \in DocKeys, NEW w \in {0, 1}, w = 1 <=> k \in S
    PROVE  /\ Cardinality(S) \in Nat
           /\ Cardinality(S \cup {k}) = Cardinality(S) + 1 - w
           /\ Cardinality(S \ {k}) = Cardinality(S) - w
<1>1. IsFiniteSet(S)
  BY DocsFinite
<1> PICK m \in Nat : m = Cardinality(S)
  BY <1>1, FS_CardinalityType
<1>2. CASE k \in S
  <2>1. S \cup {k} = S /\ w = 1
    BY <1>2
  <2>2. Cardinality(S \cup {k}) = m
    BY <2>1
  <2>3. Cardinality(S \ {k}) = m - 1
    BY <1>1, <1>2, FS_RemoveElement
  <2> QED
    BY <2>1, <2>2, <2>3
<1>3. CASE k \notin S
  <2>1. S \ {k} = S /\ w = 0
    BY <1>3
  <2>2. Cardinality(S \ {k}) = m
    BY <2>1
  <2>3. Cardinality(S \cup {k}) = m + 1
    BY <1>1, <1>3, FS_AddElement
  <2> QED
    BY <2>1, <2>2, <2>3
<1> QED
  BY <1>2, <1>3

LEMMA WeightIs == \A row : Weight(row) \in {0, 1} /\ (Weight(row) = 1 <=> row # None)
BY DEF Weight

LEMMA UpsertFit ==
    ASSUME NEW r, Shape(r), Attached(r), NEW k \in DocKeys, SpaceFit(r, k[1]),
           NEW bare, bare # None, bare.vector = None, NEW x,
           NEW q, NEW total \in Stats, Upserted(q, r, k, bare, x, total),
           total.revision = StatsAt(r, k[1]).revision + 1,
           total.documents = StatsAt(r, k[1]).documents + 1 - Weight(r[<<"d", k>>]),
           total.bytes = StatsAt(r, k[1]).bytes + 1 + Weight(x) - Weight(r[<<"d", k>>])
                            - Weight(r[<<"v", k>>]),
           total.pending = StatsAt(r, k[1]).pending + 1 - Weight(r[<<"c", k>>])
    PROVE  SpaceFit(q, k[1])
<1> DEFINE n == k[1]
           D == DocsOf(r, n)     V == VectorsOf(r, n)     C == ChangesOf(r, n)
           wd == Weight(r[<<"d", k>>])  wv == Weight(r[<<"v", k>>])  wc == Weight(r[<<"c", k>>])
           wx == Weight(x)
           stats == StatsAt(r, n)
<1>1. D \in SUBSET DocKeys /\ V \in SUBSET DocKeys /\ C \in SUBSET DocKeys
  BY DEF DocsOf, VectorsOf, ChangesOf
<1>2. wd = 1 <=> k \in D
  BY WeightIs DEF DocsOf
<1>3. wv = 1 <=> k \in V
  BY WeightIs DEF VectorsOf, DocsOf, Attached
<1>4. wc = 1 <=> k \in C
  BY WeightIs DEF ChangesOf
<1>5. wd \in {0, 1} /\ wv \in {0, 1} /\ wc \in {0, 1} /\ wx \in {0, 1}
  BY WeightIs
<1>6. DocsOf(q, n) = D \cup {k}
  BY DEF DocsOf, Upserted
<1>7. VectorsOf(q, n) = IF x # None THEN V \cup {k} ELSE V \ {k}
  BY Zenon, <1>6 DEF VectorsOf, DocsOf, Upserted
<1>8. total.revision # None
  BY NoneIsNothing DEF Stats
<1>9. ChangesOf(q, n) = C \cup {k}
  BY <1>8 DEF ChangesOf, Upserted
<1>10. /\ stats \in Stats /\ stats.documents = Cardinality(D) /\ stats.pending = Cardinality(C)
       /\ stats.bytes = Cardinality(D) + Cardinality(V) /\ C = D
       /\ \A l \in C : r[<<"c", l>>] <= stats.revision
       /\ \A l \in D : r[<<"d", l>>].vector = None
  BY DEF SpaceFit
<1>11. /\ total.documents = stats.documents + 1 - wd /\ total.pending = stats.pending + 1 - wc
       /\ total.bytes = stats.bytes + 1 + wx - wd - wv /\ total.revision = stats.revision + 1
  OBVIOUS
<1>12. C \cup {k} = D \cup {k}
  BY <1>10
<1>13. \A l \in DocsOf(q, n) : q[<<"d", l>>].vector = None
  BY <1>6, <1>1, <1>10 DEF Upserted
<1>14. ASSUME NEW l \in ChangesOf(q, n) PROVE q[<<"c", l>>] <= total.revision
  <2>1. stats.revision \in Nat /\ total.revision \in Nat
    BY <1>10 DEF Stats
  <2> HIDE DEF stats
  <2>2. CASE l = k
    <3>1. q[<<"c", l>>] = total.revision
      BY <2>2 DEF Upserted
    <3> QED
      BY <2>1, <3>1
  <2>3. CASE l # k
    <3>1. l \in C /\ l \in DocKeys
      BY <1>1, <1>9, <2>3
    <3>2. r[<<"c", l>>] # None /\ r[<<"c", l>>] \in Nat
      BY <3>1 DEF ChangesOf, Shape
    <3>3. q[<<"c", l>>] = r[<<"c", l>>]
      BY <2>3, <3>1 DEF Upserted
    <3> QED
      BY <1>10, <1>11, <2>1, <3>1, <3>2, <3>3
  <2> QED
    BY <2>2, <2>3
<1> HIDE DEF n, D, V, C, wd, wv, wc, wx, stats
<1>15. /\ Cardinality(D) \in Nat /\ Cardinality(D \cup {k}) = Cardinality(D) + 1 - wd
  BY <1>1, <1>2, <1>5, OneMore
<1>16. Cardinality(C \cup {k}) = Cardinality(C) + 1 - wc
  BY <1>1, <1>4, <1>5, OneMore
<1>17. Cardinality(V) \in Nat /\ Cardinality(VectorsOf(q, n)) = Cardinality(V) + wx - wv
  <2>1. /\ Cardinality(V) \in Nat
        /\ Cardinality(V \cup {k}) = Cardinality(V) + 1 - wv
        /\ Cardinality(V \ {k}) = Cardinality(V) - wv
    BY <1>1, <1>3, <1>5, OneMore
  <2> PICK v \in Nat : v = Cardinality(V)
    BY <2>1
  <2>2. CASE x # None
    <3>1. wx = 1 /\ VectorsOf(q, n) = V \cup {k}
      BY <1>7, <2>2, WeightIs DEF wx
    <3> QED
      BY <1>5, <2>1, <3>1
  <2>3. CASE x = None
    <3>1. wx = 0 /\ VectorsOf(q, n) = V \ {k}
      BY <1>7, <2>3 DEF wx, Weight
    <3> QED
      BY <1>5, <2>1, <3>1
  <2> QED
    BY <2>2, <2>3
<1>18. /\ total.documents = Cardinality(DocsOf(q, n))
       /\ total.pending = Cardinality(ChangesOf(q, n))
  BY <1>6, <1>9, <1>10, <1>11, <1>15, <1>16
<1>19. total.bytes = Cardinality(DocsOf(q, n)) + Cardinality(VectorsOf(q, n))
  <2> PICK d \in Nat : d = Cardinality(D)
    BY <1>15
  <2> PICK v \in Nat : v = Cardinality(V)
    BY <1>17
  <2>1. total.bytes = d + v + 1 + wx - wd - wv
    BY <1>10, <1>11
  <2>2. Cardinality(DocsOf(q, n)) = d + 1 - wd /\ Cardinality(VectorsOf(q, n)) = v + wx - wv
    BY <1>6, <1>15, <1>17
  <2>3. (d + 1 - wd) + (v + wx - wv) = d + v + 1 + wx - wd - wv
    <3>1. wd \in Int /\ wv \in Int /\ wx \in Int
      BY <1>5
    <3> QED
      BY <3>1
  <2> QED
    BY <2>1, <2>2, <2>3
<1>20. StatsAt(q, n) = total
  BY NoneIsNothing DEF Upserted, StatsAt, n
<1>21. ChangesOf(q, n) = DocsOf(q, n)
  BY <1>6, <1>9, <1>12
<1> QED
  BY <1>13, <1>14, <1>18, <1>19, <1>20, <1>21 DEF SpaceFit, n

LEMMA UpsertContent ==
    ASSUME NEW r, Shape(r), NEW k \in DocKeys, r[<<"n", k[1]>>] # None, NEW doc \in Docs,
           NEW q, NEW total \in Stats, Attached(r),
           Upserted(q, r, k, [doc EXCEPT !.vector = None], doc.vector, total)
    PROVE  Shape(q) /\ Attached(q) /\ Content(q) = [Content(r) EXCEPT ![k] = doc]
<1> DEFINE bare == [doc EXCEPT !.vector = None]
           x == doc.vector
<1>1. [bare EXCEPT !.vector = x] = doc
  BY DEF Docs
<1>2. bare \in Docs /\ bare # None /\ bare.vector = None /\ x \in Vectors \cup {None} /\ doc # None
  BY DocWith
<1>3. Upserted(q, r, k, bare, x, total)
  OBVIOUS
<1> HIDE DEF bare, x
<1>4. total.revision \in Nat
  BY DEF Stats
<1>5. Shape(q)
  <2>1. /\ q = [key \in Keys |-> q[key]] /\ q[FormatKey] \in Markers \cup {None}
    BY <1>3 DEF Upserted, Shape
  <2>2. ASSUME NEW l \in DocKeys
        PROVE  /\ q[<<"d", l>>] \in Docs \cup {None} /\ q[<<"v", l>>] \in Vectors \cup {None}
               /\ q[<<"c", l>>] \in Nat \cup {None}
    <3>1. CASE l = k
      BY <1>3, <1>2, <1>4, <3>1 DEF Upserted
    <3>2. CASE l # k
      BY <1>3, <3>2 DEF Upserted, Shape
    <3> QED
      BY <3>1, <3>2
  <2>3. ASSUME NEW m \in SpaceKeys
        PROVE  q[<<"n", m>>] \in {"schema", None} /\ q[<<"s", m>>] \in Stats \cup {None}
    <3>1. CASE m = k[1]
      BY <1>3, <3>1 DEF Upserted, Shape
    <3>2. CASE m # k[1]
      BY <1>3, <3>2 DEF Upserted, Shape
    <3> QED
      BY <3>1, <3>2
  <2> QED
    BY <2>1, <2>2, <2>3 DEF Shape
<1>6. \A l \in DocKeys : q[<<"n", l[1]>>] = r[<<"n", l[1]>>]
  BY <1>3, KeyFacts DEF Upserted
<1>7. Attached(q)
  <2>1. ASSUME NEW l \in DocKeys
        PROVE  /\ q[<<"d", l>>] # None => q[<<"n", l[1]>>] # None
               /\ q[<<"v", l>>] # None \/ q[<<"c", l>>] # None => q[<<"d", l>>] # None
    <3>1. CASE l = k
      BY <1>3, <1>2, <1>6, <3>1 DEF Upserted
    <3>2. CASE l # k
      <4>1. q[<<"d", l>>] = r[<<"d", l>>] /\ q[<<"v", l>>] = r[<<"v", l>>] /\ q[<<"c", l>>] = r[<<"c", l>>]
        BY <1>3, <3>2 DEF Upserted
      <4> QED
        BY <1>6, <4>1 DEF Attached
    <3> QED
      BY <3>1, <3>2
  <2> QED
    BY <2>1 DEF Attached
<1>8. Content(q)[k] = doc
  <2>1. Content(q)[k] = Shown(q[<<"n", k[1]>>], q[<<"d", k>>], q[<<"v", k>>])
    BY ContentAt
  <2>2. q[<<"n", k[1]>>] # None /\ q[<<"d", k>>] = bare /\ q[<<"v", k>>] = x
    BY <1>3, <1>6 DEF Upserted
  <2>3. Content(q)[k] = [bare EXCEPT !.vector = x]
    BY <1>2, <2>1, <2>2 DEF Shown
  <2> QED
    BY <1>1, <2>3
<1>9. ASSUME NEW l \in DocKeys, l # k PROVE Content(q)[l] = Content(r)[l]
  <2>1. /\ Content(q)[l] = Shown(q[<<"n", l[1]>>], q[<<"d", l>>], q[<<"v", l>>])
        /\ Content(r)[l] = Shown(r[<<"n", l[1]>>], r[<<"d", l>>], r[<<"v", l>>])
    BY ContentAt
  <2>2. q[<<"d", l>>] = r[<<"d", l>>] /\ q[<<"v", l>>] = r[<<"v", l>>]
    BY <1>3, <1>9 DEF Upserted
  <2> QED
    BY <1>6, <2>1, <2>2
<1>10. Content(q) = [l \in DocKeys |-> Content(q)[l]] /\ Content(r) = [l \in DocKeys |-> Content(r)[l]]
  BY DEF Content
<1>11. Content(q) = [Content(r) EXCEPT ![k] = doc]
  BY <1>8, <1>9, <1>10
<1> QED
  BY <1>2, <1>5, <1>7, <1>11

\* The other namespaces keep their documents and their statistics.
LEMMA UpsertOthers ==
    ASSUME NEW r, NEW k \in DocKeys, NEW bare, NEW x, NEW q, NEW total,
           Upserted(q, r, k, bare, x, total), NEW m \in SpaceKeys, m # k[1], SpaceFit(r, m)
    PROVE  SpaceFit(q, m)
<1>1. ASSUME NEW l \in DocKeys, l[1] = m
      PROVE  /\ q[<<"d", l>>] = r[<<"d", l>>] /\ q[<<"v", l>>] = r[<<"v", l>>]
             /\ q[<<"c", l>>] = r[<<"c", l>>]
  BY <1>1 DEF Upserted
<1>2. DocsOf(q, m) = DocsOf(r, m) /\ ChangesOf(q, m) = ChangesOf(r, m) /\ VectorsOf(q, m) = VectorsOf(r, m)
  BY <1>1 DEF DocsOf, ChangesOf, VectorsOf
<1>3. StatsAt(q, m) = StatsAt(r, m)
  BY DEF Upserted, StatsAt
<1> QED
  BY <1>1, <1>2, <1>3 DEF SpaceFit, DocsOf, ChangesOf

LEMMA UpsertStep ==
    ASSUME Inv, NEW k \in DocKeys, NEW doc \in Docs, Upsert(k, doc) PROVE Inv'
<1> DEFINE n == k[1]
           stats == StatsAt(kv, n)
           total == [revision |-> stats.revision + 1,
                     documents |-> stats.documents + 1 - Weight(kv[<<"d", k>>]),
                     bytes |-> stats.bytes + 1 + Weight(doc.vector)
                                 - Weight(kv[<<"d", k>>]) - Weight(kv[<<"v", k>>]),
                     pending |-> stats.pending + 1 - Weight(kv[<<"c", k>>])]
           bare == [doc EXCEPT !.vector = None]
           x == doc.vector
           q == kv'
<1>1. /\ pc = "serving" /\ kv[<<"n", n>>] # None
      /\ q = [kv EXCEPT ![<<"d", k>>] = bare, ![<<"v", k>>] = x,
                        ![<<"c", k>>] = total.revision, ![<<"s", n>>] = total]
      /\ promise' = [promise EXCEPT ![k] = doc]
      /\ UNCHANGED <<pc, goal, mig, fill, stream, output>>
  BY DEF Upsert, Client
<1>2. /\ Shape(kv) /\ Attached(kv) /\ AllFit(kv) /\ kv[FormatKey] = "v2"
      /\ Content(kv) = promise /\ promise \in [DocKeys -> Docs \cup {None}]
  BY <1>1 DEF Inv, ControlOK, RowsOK
<1>3. SpaceFit(kv, n) /\ n \in SpaceKeys /\ stats \in Stats
  BY <1>1, <1>2, KeyFacts DEF AllFit, SpaceFit
<1>4. total \in Stats
  <2>1. stats.revision \in Nat /\ stats.documents \in Int /\ stats.bytes \in Int /\ stats.pending \in Int
    BY <1>3 DEF Stats
  <2>2. \A row : Weight(row) \in Int
    BY DEF Weight
  <2> DEFINE wd == Weight(kv[<<"d", k>>])  wv == Weight(kv[<<"v", k>>])
             wc == Weight(kv[<<"c", k>>])  wx == Weight(doc.vector)
  <2>3. wd \in Int /\ wv \in Int /\ wc \in Int /\ wx \in Int
    BY <2>2
  <2> HIDE DEF wd, wv, wc, wx, stats
  <2>4. /\ stats.revision + 1 \in Nat /\ stats.documents + 1 - wd \in Int
        /\ stats.pending + 1 - wc \in Int /\ stats.bytes + 1 + wx - wd - wv \in Int
    <3>1. stats.revision + 1 \in Nat
      BY <2>1
    <3>2. stats.documents + 1 - wd \in Int
      BY <2>1, <2>3
    <3>3. stats.pending + 1 - wc \in Int
      BY <2>1, <2>3
    <3>4. stats.bytes + 1 + wx - wd - wv \in Int
      BY <2>1, <2>3
    <3> QED
      BY <3>1, <3>2, <3>3, <3>4
  <2>5. total = [revision |-> stats.revision + 1, documents |-> stats.documents + 1 - wd,
                 bytes |-> stats.bytes + 1 + wx - wd - wv, pending |-> stats.pending + 1 - wc]
    BY DEF wd, wv, wc, wx, stats
  <2> HIDE DEF total
  <2> QED
    BY <2>4, <2>5 DEF Stats
<1>5. /\ total.revision = stats.revision + 1
      /\ total.documents = stats.documents + 1 - Weight(kv[<<"d", k>>])
      /\ total.bytes = stats.bytes + 1 + Weight(x) - Weight(kv[<<"d", k>>]) - Weight(kv[<<"v", k>>])
      /\ total.pending = stats.pending + 1 - Weight(kv[<<"c", k>>])
  OBVIOUS
<1> HIDE DEF total, bare, x, q
<1>6. Upserted(q, kv, k, bare, x, total)
  <2>1. /\ kv = [key \in Keys |-> kv[key]]
        /\ {<<"c", k>>, <<"d", k>>, <<"v", k>>, <<"s", n>>} \subseteq Keys
    BY Zenon, <1>2, <1>3, KeyFacts DEF Shape
  <2>2. /\ q = [key \in Keys |-> q[key]]
        /\ q[<<"d", k>>] = bare /\ q[<<"v", k>>] = x /\ q[<<"c", k>>] = total.revision
        /\ q[<<"s", n>>] = total
        /\ \A key \in Keys : key \notin {<<"c", k>>, <<"d", k>>, <<"v", k>>, <<"s", n>>} => q[key] = kv[key]
    BY <1>1, <2>1
  <2>3. \A l \in DocKeys \ {k} : /\ q[<<"d", l>>] = kv[<<"d", l>>] /\ q[<<"v", l>>] = kv[<<"v", l>>]
                                 /\ q[<<"c", l>>] = kv[<<"c", l>>]
    BY <2>2, KeyFacts
  <2>4. /\ \A m \in SpaceKeys : q[<<"n", m>>] = kv[<<"n", m>>]
        /\ \A m \in SpaceKeys \ {n} : q[<<"s", m>>] = kv[<<"s", m>>]
        /\ q[FormatKey] = kv[FormatKey]
    BY <2>2, KeyFacts
  <2> QED
    BY <2>2, <2>3, <2>4 DEF Upserted
<1>7. bare # None /\ bare.vector = None
  BY DocWith DEF bare
<1>8. Shape(q) /\ Attached(q) /\ Content(q) = [Content(kv) EXCEPT ![k] = doc]
  <2>1. kv[<<"n", k[1]>>] # None
    BY <1>1
  <2> QED
    BY <1>2, <1>4, <1>6, <2>1, UpsertContent DEF bare, x
<1>9. SpaceFit(q, n)
  BY <1>2, <1>3, <1>4, <1>5, <1>6, <1>7, UpsertFit
<1>10. AllFit(q)
  <2>1. ASSUME NEW m \in SpaceKeys, q[<<"n", m>>] # None PROVE SpaceFit(q, m)
    <3>1. CASE m = n
      BY <1>9, <3>1
    <3>2. CASE m # n
      <4>1. SpaceFit(kv, m)
        BY <1>2, <1>6, <2>1 DEF AllFit, Upserted
      <4> QED
        BY <1>6, <3>2, <4>1, UpsertOthers
    <3> QED
      BY <3>1, <3>2
  <2> QED
    BY <2>1 DEF AllFit
<1>11. q[FormatKey] = "v2"
  BY <1>2, <1>6 DEF Upserted
<1>12. RowsOK'
  <2>1. promise' \in [DocKeys -> Docs \cup {None}] /\ Content(q) = promise'
    BY <1>1, <1>2, <1>8
  <2> QED
    BY <1>8, <1>10, <2>1 DEF RowsOK, q
<1>13. ControlOK' /\ StreamOK' /\ OutputOK' /\ FillOK'
  BY <1>1, <1>11 DEF Inv, ControlOK, StreamOK, OutputOK, FillOK, Exporting, q
<1>14. MigOK'
  BY <1>1 DEF Inv, MigOK
<1> QED
  BY <1>12, <1>13, <1>14 DEF Inv

-----------------------------------------------------------------------------
\* Restoring.

LEMMA PartialShape ==
    ASSUME NEW rows, Shape(rows), NEW left PROVE Shape(Partial(rows, left))
<1> DEFINE q == Partial(rows, left)
<1>1. /\ q = [key \in Keys |-> q[key]]
      /\ \A key \in Keys : q[key] = IF key = FormatKey THEN "restoring"
                                    ELSE IF key \in left THEN None ELSE rows[key]
  BY DEF Partial
<1> HIDE DEF q
<1>2. q[FormatKey] = "restoring"
  BY <1>1, KeyFacts
<1>3. \A key \in Keys \ {FormatKey} : q[key] = None \/ q[key] = rows[key]
  BY <1>1
<1>4. ASSUME NEW k \in DocKeys
      PROVE  /\ q[<<"d", k>>] = None \/ q[<<"d", k>>] = rows[<<"d", k>>]
             /\ q[<<"v", k>>] = None \/ q[<<"v", k>>] = rows[<<"v", k>>]
             /\ q[<<"c", k>>] = None \/ q[<<"c", k>>] = rows[<<"c", k>>]
  BY <1>3, KeyFacts
<1>5. ASSUME NEW n \in SpaceKeys
      PROVE  /\ q[<<"n", n>>] = None \/ q[<<"n", n>>] = rows[<<"n", n>>]
             /\ q[<<"s", n>>] = None \/ q[<<"s", n>>] = rows[<<"s", n>>]
  BY <1>3, KeyFacts
<1>6. Shape(q)
  BY <1>1, <1>2, <1>4, <1>5 DEF Shape, Markers
<1> QED
  BY <1>6 DEF q

LEMMA RestoreBeginStep ==
    ASSUME Inv, RestoreBegin PROVE Inv'
<1>1. /\ pc = "check" /\ pc' = "fill" /\ kv' = With(kv, FormatKey, "restoring")
      /\ fill' = Present(output.rows) \ {FormatKey} /\ Present(kv) = {FormatKey}
      /\ UNCHANGED <<goal, mig, stream, output, promise>>
  BY DEF RestoreBegin, Empty
<1>2. output # None
  BY DEF RestoreBegin, Verified
<1>3. Shape(kv) /\ Whole(output.rows)
  BY <1>2 DEF Inv, RowsOK, OutputOK, FileOK
<1>4. /\ kv' = [key \in Keys |-> kv'[key]] /\ kv'[FormatKey] = "restoring"
      /\ \A key \in Keys \ {FormatKey} : kv'[key] = kv[key]
  BY <1>1, <1>3, WithMarker
<1>5. fill' \subseteq Keys \ {FormatKey}
  BY <1>1 DEF Present
<1>6. kv' = Partial(output.rows, fill')
  <2>1. ASSUME NEW key \in Keys \ {FormatKey}
        PROVE  kv'[key] = IF key \in fill' THEN None ELSE output.rows[key]
    <3>1. kv'[key] = None
      BY <1>1, <1>4 DEF Present
    <3>2. key \notin fill' => output.rows[key] = None
      BY <1>1 DEF Present
    <3> QED
      BY <3>1, <3>2
  <2> QED
    BY <1>4, <2>1 DEF Partial
<1>7. FillOK'
  BY <1>1, <1>2, <1>5, <1>6 DEF FillOK
<1>8. RowsOK'
  <2>1. Shape(kv')
    BY <1>3, <1>6, PartialShape DEF Whole
  <2> QED
    BY <1>1, <1>4, <2>1 DEF RowsOK, Inv
<1>9. ControlOK' /\ StreamOK' /\ OutputOK' /\ MigOK'
  BY <1>1, <1>4 DEF Inv, ControlOK, StreamOK, OutputOK, MigOK, Exporting
<1> QED
  BY <1>7, <1>8, <1>9 DEF Inv

LEMMA RestoreBatchStep ==
    ASSUME Inv, NEW upto, RestoreBatch(upto) PROVE Inv'
<1> DEFINE part == {key \in fill : \E i \in 1 .. upto : KeyOrder[i] = key}
<1>1. /\ pc = "fill" /\ kv' = Filled(part) /\ fill' = fill \ part
      /\ UNCHANGED <<pc, goal, mig, stream, output, promise>>
  BY DEF RestoreBatch
<1>2. part \subseteq fill
  OBVIOUS
<1> HIDE DEF part
<1>3. /\ output # None /\ fill \subseteq Keys \ {FormatKey} /\ kv = Partial(output.rows, fill)
      /\ Whole(output.rows)
  BY <1>1 DEF Inv, FillOK, OutputOK, FileOK
<1>4. kv' = Partial(output.rows, fill')
  BY <1>1, <1>2, <1>3 DEF Filled, Over, Only, Partial
<1>5. kv'[FormatKey] = "restoring"
  BY <1>4, KeyFacts DEF Partial
<1>6. FillOK'
  BY <1>1, <1>3, <1>4 DEF FillOK
<1>7. RowsOK'
  <2>1. Shape(kv')
    BY <1>3, <1>4, PartialShape DEF Whole
  <2> QED
    BY <1>1, <1>5, <2>1 DEF RowsOK, Inv
<1>8. ControlOK' /\ StreamOK' /\ OutputOK' /\ MigOK'
  BY <1>1, <1>5 DEF Inv, ControlOK, StreamOK, OutputOK, MigOK, Exporting
<1> QED
  BY <1>6, <1>7, <1>8 DEF Inv

\* The last batch makes the rows those of the file.
LEMMA RestoredWhole ==
    ASSUME Inv, pc = "fill" PROVE LastBatch = output.rows /\ FileOK(output)
<1>1. /\ output # None /\ fill \subseteq Keys \ {FormatKey} /\ kv = Partial(output.rows, fill)
      /\ FileOK(output)
  BY DEF Inv, FillOK, OutputOK
<1>2. output.rows = [key \in Keys |-> output.rows[key]] /\ output.rows[FormatKey] = "v2"
  BY <1>1 DEF FileOK, Whole, Shape
<1> DEFINE q == Filled(fill)
<1>3. q = [key \in Keys |-> q[key]] /\ \A key \in Keys \ {FormatKey} : q[key] = output.rows[key]
  BY <1>1 DEF Filled, Over, Only, Partial
<1> HIDE DEF q
<1>4. LastBatch = With(q, FormatKey, "v2")
  BY DEF LastBatch, q
<1>5. LastBatch = output.rows
  BY <1>2, <1>3, <1>4, KeyFacts DEF With
<1> QED
  BY <1>1, <1>5

LEMMA RestoreEndStep ==
    ASSUME Inv, RestoreEnd PROVE Inv'
<1>1. /\ pc = "fill" /\ pc' = "down" /\ kv' = LastBatch /\ fill' = {} /\ promise' = output.of
      /\ UNCHANGED <<goal, mig, stream, output>>
  BY DEF RestoreEnd
<1>2. kv' = output.rows /\ Whole(output.rows) /\ output.of = Content(output.rows)
  BY <1>1, RestoredWhole DEF FileOK
<1>3. RowsOK'
  <2>1. Content(output.rows) \in [DocKeys -> Docs \cup {None}]
    BY <1>2, ContentType DEF Whole
  <2> QED
    BY <1>1, <1>2, <2>1 DEF RowsOK, Whole
<1>4. ControlOK' /\ StreamOK' /\ OutputOK' /\ MigOK' /\ FillOK'
  BY <1>1 DEF Inv, ControlOK, StreamOK, OutputOK, MigOK, FillOK, Exporting
<1> QED
  BY <1>3, <1>4 DEF Inv

LEMMA NewPrefixStep ==
    ASSUME Inv, NewPrefix PROVE Inv'
<1>1. /\ pc = "down" /\ kv' = NoRows /\ promise' = Content(NoRows)
      /\ UNCHANGED <<pc, goal, mig, fill, stream, output>>
  BY DEF NewPrefix, NoContent
<1>2. RowsOK'
  <2>1. Content(NoRows) \in [DocKeys -> Docs \cup {None}]
    BY EmptyRows, ContentType
  <2> QED
    BY <1>1, <2>1, EmptyRows DEF RowsOK
<1>3. ControlOK' /\ StreamOK' /\ OutputOK' /\ MigOK' /\ FillOK'
  BY <1>1 DEF Inv, ControlOK, StreamOK, OutputOK, MigOK, FillOK, Exporting
<1> QED
  BY <1>2, <1>3 DEF Inv

-----------------------------------------------------------------------------
\* The invariant holds, whatever the documents, the namespaces, the size of a batch
\* and the number of crashes.

LEMMA SameInv ==
    ASSUME Inv, UNCHANGED vars PROVE Inv'
<1>1. UNCHANGED <<kv, pc, goal, mig, fill, stream, output, promise>>
  BY DEF vars
<1>2. ControlOK' /\ RowsOK' /\ StreamOK' /\ OutputOK' /\ FillOK'
  BY <1>1 DEF Inv, ControlOK, RowsOK, StreamOK, OutputOK, FillOK, Exporting
<1>3. MigOK'
  BY <1>1 DEF Inv, MigOK, SpacesOK, SpaceOK, DoneDocs
<1> QED
  BY <1>2, <1>3 DEF Inv

LEMMA InvNext == Inv /\ LegalInv /\ [Next]_vars => Inv'
<1> SUFFICES ASSUME Inv, LegalInv, [Next]_vars PROVE Inv'
  OBVIOUS
<1>1. ASSUME NEW g \in {"serve", "restore", "exit"}, NEW migrate \in BOOLEAN, Open(g, migrate)
      PROVE  Inv'
  BY <1>1, OpenStep
<1>2. CASE Migration
  BY <1>2, MarkStep, NextNamespaceStep, ConvertStep, FinishNamespaceStep, FinishMigrationStep
     DEF Migration
<1>3. ASSUME NEW n \in SpaceKeys, Create(n) PROVE Inv'
  BY <1>3, CreateStep
<1>4. ASSUME NEW k \in DocKeys, NEW doc \in Docs, Upsert(k, doc) PROVE Inv'
  BY <1>4, UpsertStep
<1>5. CASE ExportBegin \/ \E upto \in 1 .. Len(KeyOrder) : ExportRows(upto)
  BY <1>5, ExportStep
<1>6. CASE Downloaded \/ DownloadFails
  BY <1>6, DownloadStep
<1>7. CASE Damage
  BY <1>7, DamageStep
<1>8. CASE RestoreBegin
  BY <1>8, RestoreBeginStep
<1>9. ASSUME NEW upto \in 1 .. Len(KeyOrder), RestoreBatch(upto) PROVE Inv'
  BY <1>9, RestoreBatchStep
<1>10. CASE RestoreEnd
  BY <1>10, RestoreEndStep
<1>11. CASE Stop \/ Crash
  BY <1>11, StopStep
<1>12. CASE NewPrefix
  BY <1>12, NewPrefixStep
<1>13. CASE UNCHANGED vars
  BY <1>13, SameInv
<1> QED
  BY <1>1, <1>2, <1>3, <1>4, <1>5, <1>6, <1>7, <1>8, <1>9, <1>10, <1>11, <1>12, <1>13 DEF Next

-----------------------------------------------------------------------------
\* The rows no name has yet, and the revisions, as the engine reads them.

LEMMA LegalAlike ==
    ASSUME NEW r, NEW q, Legal(r), \A key \in Keys \ {FormatKey} : q[key] = r[key]
    PROVE  Legal(q)
<1>1. \A k \in DocKeys : q[<<"c", k>>] = r[<<"c", k>>]
  BY KeyFacts
<1>2. \A n \in SpaceKeys : q[<<"n", n>>] = r[<<"n", n>>] /\ q[<<"s", n>>] = r[<<"s", n>>]
  BY KeyFacts
<1> QED
  BY <1>1, <1>2 DEF Legal

LEMMA NoRowsLegal == Legal(NoRows)
<1>1. None # 0
  BY NoneIsNothing
<1> QED
  BY <1>1, EmptyRows, KeyFacts DEF Legal

LEMMA InitLegal == Init => LegalInv
<1> SUFFICES ASSUME Init PROVE LegalInv
  OBVIOUS
<1>1. ASSUME NEW rows, Start(rows), Legal(rows) PROVE LegalInv
  BY <1>1 DEF Start, LegalInv, Exporting
<1>2. CASE Start(NoRows)
  BY <1>1, <1>2, NoRowsLegal
<1>3. CASE Start(With(NoRows, <<"n", Spaces[1]>>, "schema"))
  <2> DEFINE r == With(NoRows, <<"n", Spaces[1]>>, "schema")
  <2>1. \A key \in Keys : key # <<"n", Spaces[1]>> => r[key] = None
    BY EmptyRows DEF With, NoRows
  <2>2. \A k \in DocKeys : r[<<"c", k>>] = None
    BY <2>1, KeyFacts
  <2>3. \A n \in SpaceKeys : r[<<"s", n>>] = None
    BY <2>1, KeyFacts
  <2> HIDE DEF r
  <2>4. Legal(r)
    BY <2>2, <2>3, NoneIsNothing DEF Legal
  <2> QED
    BY <1>1, <1>3, <2>4 DEF r
<1>4. ASSUME NEW docs \in [DocKeys -> Docs \cup {None}], Start(LegacyRows(docs)) PROVE LegalInv
  <2> DEFINE r == LegacyRows(docs)
  <2>1. \A k \in DocKeys : r[<<"c", k>>] = None
    BY KeyFacts DEF LegacyRows
  <2>2. \A n \in SpaceKeys : r[<<"s", n>>] = None
    BY KeyFacts DEF LegacyRows
  <2> HIDE DEF r
  <2>3. Legal(r)
    BY <2>1, <2>2, NoneIsNothing DEF Legal
  <2> QED
    BY <1>1, <1>4, <2>3 DEF r
<1> QED
  BY <1>2, <1>3, <1>4 DEF Init

\* Steps that change no row but the marker.
LEMMA LegalOpen ==
    ASSUME Inv, LegalInv, NEW g \in {"serve", "restore", "exit"}, NEW migrate \in BOOLEAN,
           Open(g, migrate)
    PROVE  LegalInv'
<1>1. /\ pc = "down" /\ UNCHANGED <<mig, stream, output>>
      /\ pc' \in {"down", "mark", "serving", "check"}
  BY DEF Open, OpenReady, OpenEmpty, OpenLegacy, Opened
<1>2. kv'[FormatKey] # "restoring" => Legal(kv')
  <2>1. CASE OpenReady(g) \/ OpenLegacy(g)
    BY <2>1 DEF OpenReady, OpenLegacy, LegalInv
  <2>2. CASE OpenEmpty(g)
    <3>1. kv' = With(kv, FormatKey, "v2") /\ Present(kv) = {}
      BY <2>2 DEF OpenEmpty
    <3>2. kv[FormatKey] # "restoring"
      BY <3>1, KeyFacts, NoneIsNothing DEF Present, Markers
    <3>3. \A key \in Keys \ {FormatKey} : kv'[key] = kv[key]
      BY <3>1, WithMarker DEF Inv, RowsOK
    <3> QED
      BY <3>2, <3>3, LegalAlike DEF LegalInv
  <2> QED
    BY <2>1, <2>2 DEF Open
<1> QED
  BY <1>1, <1>2 DEF LegalInv, Exporting

LEMMA LegalMark ==
    ASSUME Inv, LegalInv, MarkMigrating PROVE LegalInv'
<1>1. /\ pc = "mark" /\ pc' = "namespaces" /\ UNCHANGED <<stream, output>>
      /\ kv' = With(kv, FormatKey, "migrating")
      /\ mig' = [NoMigration EXCEPT !.spaces = {n \in SpaceKeys : kv[<<"n", n>>] # None}]
  BY DEF MarkMigrating
<1>2. kv[FormatKey] # "restoring" /\ Shape(kv)
  BY <1>1 DEF Inv, ControlOK, RowsOK
<1>3. \A key \in Keys \ {FormatKey} : kv'[key] = kv[key]
  BY <1>1, <1>2, WithMarker
<1>4. Legal(kv')
  BY <1>2, <1>3, LegalAlike DEF LegalInv
<1>5. mig'.spaces = {n \in SpaceKeys : kv[<<"n", n>>] # None}
  BY <1>1 DEF NoMigration
<1>6. \A n \in mig'.spaces : kv'[<<"n", n>>] # None
  BY <1>3, <1>5, KeyFacts
<1> QED
  BY <1>1, <1>4, <1>6 DEF LegalInv, Exporting

LEMMA LegalFinish ==
    ASSUME Inv, LegalInv, FinishMigration PROVE LegalInv'
<1>1. /\ pc = "namespaces" /\ kv' = With(kv, FormatKey, "v2") /\ UNCHANGED <<stream, output>>
      /\ pc' \in {"down", "serving", "check"}
  BY DEF FinishMigration, Opened
<1>2. kv[FormatKey] # "restoring" /\ Shape(kv)
  BY <1>1 DEF Inv, ControlOK, RowsOK
<1>3. Legal(kv')
  BY <1>1, <1>2, WithMarker, LegalAlike DEF LegalInv
<1> QED
  BY <1>1, <1>3 DEF LegalInv, Exporting

LEMMA LegalNext ==
    ASSUME Inv, LegalInv, NextNamespace PROVE LegalInv'
<1>1. /\ pc = "namespaces" /\ UNCHANGED <<kv, stream, output>>
      /\ mig'.spaces \subseteq mig.spaces /\ mig'.space \in mig.spaces
  BY DEF NextNamespace, NoMigration
<1> QED
  BY <1>1 DEF LegalInv, Exporting

\* A batch of the migration carries revision 1 and no row of a namespace.
LEMMA LegalBatch ==
    ASSUME NEW r, Legal(r), NEW b, NEW S, BatchOK(b, r, S), NEW q, q = Over(b, r)
    PROVE  Legal(q)
<1>1. \A key \in Keys : q[key] = IF b[key] = None THEN r[key] ELSE b[key]
  BY OverAt
<1>2. \A n \in SpaceKeys : q[<<"n", n>>] = r[<<"n", n>>] /\ q[<<"s", n>>] = r[<<"s", n>>]
  BY <1>1, KeyFacts DEF BatchOK
<1>3. \A k \in DocKeys : b[<<"c", k>>] \in {None, 1}
  BY DEF BatchOK, Blank, Waiting
<1>4. \A k \in DocKeys : q[<<"c", k>>] \in {r[<<"c", k>>], 1}
  BY <1>1, <1>3, KeyFacts
<1>5. \A k \in DocKeys : q[<<"c", k>>] # 0
  <2>1. \A k \in DocKeys : r[<<"c", k>>] # 0
    BY DEF Legal
  <2>2. 1 # 0
    OBVIOUS
  <2> QED
    BY <1>4, <2>1, <2>2
<1> QED
  BY <1>2, <1>5 DEF Legal

LEMMA LegalConvert ==
    ASSUME Inv, LegalInv, ConvertDocument PROVE LegalInv'
<1>1. /\ pc = "documents" /\ UNCHANGED <<pc, stream, output>>
      /\ kv[FormatKey] # "restoring" /\ Shape(kv) /\ SpaceOK
  BY DEF ConvertDocument, Inv, ControlOK, RowsOK, MigOK
<1>2. PICK k \in mig.docs :
          LET batch == Over(Converted(k), mig.batch)
              full == mig.count + 1 = Batch
          IN  /\ mig' = [mig EXCEPT !.docs = @ \ {k}, !.stats = Counted(@, k),
                                    !.batch = IF full THEN NoRows ELSE batch,
                                    !.count = IF full THEN 0 ELSE @ + 1]
              /\ kv' = IF full THEN Over(batch, kv) ELSE kv
  BY DEF ConvertDocument
<1> DEFINE batch == Over(Converted(k), mig.batch)
<1>3. kv' \in {kv, Over(batch, kv)}
  BY <1>2
<1>4. mig'.spaces = mig.spaces /\ mig'.space = mig.space
  <2>1. mig = [spaces |-> mig.spaces, docs |-> mig.docs, space |-> mig.space,
               batch |-> mig.batch, count |-> mig.count, stats |-> mig.stats]
    BY DEF Inv, MigOK
  <2> QED
    BY <1>2, <2>1
<1>5. BatchOK(batch, kv, DoneDocs \cup {k})
  <2>1. k \in DocKeys /\ k \notin DoneDocs /\ kv[<<"d", k>>] # None
    BY <1>1, <1>2 DEF SpaceOK, DocsOf, DoneDocs
  <2> QED
    BY <1>1, <2>1, JoinsBatch DEF SpaceOK
<1> HIDE DEF batch
<1>6. Legal(kv')
  BY <1>1, <1>3, <1>5, LegalBatch DEF LegalInv
<1>7. \A n \in SpaceKeys : kv'[<<"n", n>>] = kv[<<"n", n>>]
  <2> DEFINE q == Over(batch, kv)
  <2>1. \A key \in Keys : q[key] = IF batch[key] = None THEN kv[key] ELSE batch[key]
    BY OverAt
  <2> HIDE DEF q
  <2>2. \A n \in SpaceKeys : <<"n", n>> \in Keys /\ batch[<<"n", n>>] = None
    BY <1>5, KeyFacts DEF BatchOK
  <2>3. kv' = kv \/ kv' = q
    BY <1>3 DEF q
  <2> QED
    BY <2>1, <2>2, <2>3
<1>8. mig.spaces \subseteq SpaceKeys /\ mig.space \in SpaceKeys
  BY <1>1 DEF Inv, MigOK, SpacesOK, SpaceOK
<1> QED
  BY <1>1, <1>4, <1>6, <1>7, <1>8 DEF LegalInv, Exporting

LEMMA LegalFinishNamespace ==
    ASSUME Inv, LegalInv, FinishNamespace PROVE LegalInv'
<1> DEFINE b == With(mig.batch, <<"s", mig.space>>, mig.stats)
           q == kv'
           r == Over(mig.batch, kv)
<1>1. /\ pc = "documents" /\ pc' = "namespaces" /\ UNCHANGED <<stream, output>>
      /\ q = Over(b, kv) /\ mig'.spaces = mig.spaces
  BY DEF FinishNamespace, NoMigration
<1>2. /\ kv[FormatKey] # "restoring" /\ mig.space \in SpaceKeys /\ mig.spaces \subseteq SpaceKeys
      /\ BatchOK(mig.batch, kv, DoneDocs)
  BY <1>1 DEF Inv, ControlOK, MigOK, SpacesOK, SpaceOK
<1> HIDE DEF q
<1>3. \A key \in Keys : key # <<"s", mig.space>> => q[key] = r[key]
  <2>1. mig.batch = [key \in Keys |-> mig.batch[key]]
    BY <1>2 DEF BatchOK
  <2>2. \A key \in Keys : key # <<"s", mig.space>> => b[key] = mig.batch[key]
    BY <2>1 DEF With
  <2> HIDE DEF b
  <2> QED
    BY <1>1, <2>2, OverAt
<1> HIDE DEF r
<1>4. Legal(r)
  BY <1>2, LegalBatch DEF LegalInv, r
<1>5. \A n \in SpaceKeys : r[<<"n", n>>] = kv[<<"n", n>>]
  <2>1. \A key \in Keys : r[key] = IF mig.batch[key] = None THEN kv[key] ELSE mig.batch[key]
    BY OverAt DEF r
  <2>2. \A n \in SpaceKeys : <<"n", n>> \in Keys /\ mig.batch[<<"n", n>>] = None
    BY <1>2, KeyFacts DEF BatchOK
  <2> QED
    BY <2>1, <2>2
<1>6. /\ \A n \in SpaceKeys : q[<<"n", n>>] = kv[<<"n", n>>]
      /\ \A n \in SpaceKeys \ {mig.space} : q[<<"s", n>>] = r[<<"s", n>>]
      /\ \A k \in DocKeys : q[<<"c", k>>] = r[<<"c", k>>]
  BY <1>3, <1>5, KeyFacts
<1>7. kv[<<"n", mig.space>>] # None
  BY <1>1 DEF LegalInv
<1>8. Legal(q)
  BY <1>4, <1>5, <1>6, <1>7 DEF Legal
<1> QED
  BY <1>1, <1>2, <1>6, <1>8 DEF LegalInv, Exporting, q

LEMMA LegalCreate ==
    ASSUME Inv, LegalInv, NEW n \in SpaceKeys, Create(n) PROVE LegalInv'
<1> DEFINE q == kv'
<1>1. /\ pc = "serving" /\ q = With(kv, <<"n", n>>, "schema")
      /\ UNCHANGED <<pc, mig, stream, output>>
  BY DEF Create, Client
<1>2. kv[FormatKey] = "v2" /\ kv = [key \in Keys |-> kv[key]]
  BY <1>1 DEF Inv, ControlOK, RowsOK, Shape
<1> HIDE DEF q
<1>3. <<"n", n>> \in Keys
  BY KeyFacts
<1>4. q[<<"n", n>>] = "schema" /\ \A key \in Keys : key # <<"n", n>> => q[key] = kv[key]
  BY <1>1, <1>2, <1>3 DEF With
<1>5. \A k \in DocKeys : q[<<"c", k>>] = kv[<<"c", k>>]
  BY <1>4, KeyFacts
<1>6. \A m \in SpaceKeys : q[<<"s", m>>] = kv[<<"s", m>>] /\ (m # n => q[<<"n", m>>] = kv[<<"n", m>>])
  BY <1>4, KeyFacts
<1>7. Legal(kv)
  BY <1>2 DEF LegalInv
<1>8. Legal(q)
  BY <1>4, <1>5, <1>6, <1>7, NoneIsNothing DEF Legal
<1> QED
  BY <1>1, <1>8 DEF LegalInv, Exporting, q

LEMMA LegalUpsert ==
    ASSUME Inv, LegalInv, NEW k \in DocKeys, NEW doc \in Docs, Upsert(k, doc) PROVE LegalInv'
<1> DEFINE n == k[1]
           q == kv'
           stats == StatsAt(kv, n)
           total == [revision |-> stats.revision + 1,
                     documents |-> stats.documents + 1 - Weight(kv[<<"d", k>>]),
                     bytes |-> stats.bytes + 1 + Weight(doc.vector)
                                 - Weight(kv[<<"d", k>>]) - Weight(kv[<<"v", k>>]),
                     pending |-> stats.pending + 1 - Weight(kv[<<"c", k>>])]
<1>1. /\ pc = "serving" /\ kv[<<"n", n>>] # None /\ total.revision = stats.revision + 1
      /\ q = [kv EXCEPT ![<<"d", k>>] = [doc EXCEPT !.vector = None], ![<<"v", k>>] = doc.vector,
                        ![<<"c", k>>] = total.revision, ![<<"s", n>>] = total]
      /\ UNCHANGED <<pc, mig, stream, output>>
  BY DEF Upsert, Client
<1> HIDE DEF total
<1>2. /\ kv[FormatKey] = "v2" /\ kv = [key \in Keys |-> kv[key]] /\ AllFit(kv) /\ Legal(kv)
      /\ n \in SpaceKeys
  BY <1>1, KeyFacts DEF Inv, ControlOK, RowsOK, Shape, LegalInv
<1>3. total.revision # 0
  <2>1. stats \in Stats
    BY <1>1, <1>2 DEF AllFit, SpaceFit
  <2>2. stats.revision \in Nat
    BY <2>1 DEF Stats
  <2> QED
    BY <1>1, <2>2
<1> HIDE DEF q
<1> DEFINE touched == {<<"d", k>>, <<"v", k>>, <<"c", k>>, <<"s", n>>}
<1>4. /\ touched \subseteq Keys /\ q[<<"c", k>>] = total.revision
      /\ \A key \in Keys \ touched : q[key] = kv[key]
  BY <1>1, <1>2, KeyFacts
<1>5. \A l \in DocKeys : l # k => q[<<"c", l>>] = kv[<<"c", l>>]
  BY <1>4, KeyFacts
<1>6. \A m \in SpaceKeys : q[<<"n", m>>] = kv[<<"n", m>>] /\ (m # n => q[<<"s", m>>] = kv[<<"s", m>>])
  BY <1>4, KeyFacts
<1>7. Legal(q)
  <2>1. \A l \in DocKeys : q[<<"c", l>>] # 0
    <3>1. \A l \in DocKeys : kv[<<"c", l>>] # 0
      BY <1>2 DEF Legal
    <3> QED
      BY <1>3, <1>4, <1>5, <3>1
  <2>2. \A m \in SpaceKeys : q[<<"s", m>>] # None => q[<<"n", m>>] # None
    <3>1. \A m \in SpaceKeys : kv[<<"s", m>>] # None => kv[<<"n", m>>] # None
      BY <1>2 DEF Legal
    <3> QED
      BY <1>1, <1>6, <3>1
  <2> QED
    BY <2>1, <2>2 DEF Legal
<1> QED
  BY <1>1, <1>7 DEF LegalInv, Exporting, q

\* A snapshot is of a served database, and a file of a snapshot.
LEMMA LegalExport ==
    ASSUME Inv, LegalInv,
           \/ ExportBegin \/ (\E upto \in 1 .. Len(KeyOrder) : ExportRows(upto))
           \/ Downloaded \/ DownloadFails
    PROVE  LegalInv'
<1>1. UNCHANGED <<kv, pc, mig>>
  BY DEF ExportBegin, ExportRows, Downloaded, DownloadFails
<1>2. CASE ExportBegin
  <2>1. Legal(kv)
    BY <1>2 DEF ExportBegin, Inv, ControlOK, LegalInv
  <2> QED
    BY <1>1, <1>2, <2>1 DEF ExportBegin, LegalInv
<1>3. CASE \E upto \in 1 .. Len(KeyOrder) : ExportRows(upto)
  <2>1. /\ Exporting /\ UNCHANGED output
        /\ \E upto, got : stream' = [stream EXCEPT !.sent = upto, !.got = got]
    BY <1>3 DEF ExportRows
  <2>2. stream'.rows = stream.rows
    BY <2>1 DEF Inv, StreamOK
  <2> QED
    BY <1>1, <2>1, <2>2 DEF LegalInv
<1>4. CASE Downloaded \/ DownloadFails
  <2>1. Exporting /\ stream' = NoStream /\ (UNCHANGED output \/ Downloaded)
    BY <1>4 DEF Downloaded, DownloadFails
  <2>2. Downloaded => UNCHANGED output \/ output'.rows = stream.rows
    <3> SUFFICES ASSUME Downloaded, output' # output PROVE output'.rows = stream.rows
      OBVIOUS
    <3>1. output'.rows = stream.got /\ stream.sent = Len(KeyOrder)
      BY DEF Downloaded, Link
    <3>2. stream.got = Only(SentKeys(stream.sent), stream.rows) /\ Whole(stream.rows)
      BY <2>1 DEF Inv, StreamOK
    <3> QED
      BY <3>1, <3>2, SentAll DEF Only, Whole, Shape
  <2> QED
    BY <1>1, <2>1, <2>2 DEF LegalInv, Exporting
<1> QED
  BY <1>2, <1>3, <1>4

LEMMA LegalRestore ==
    ASSUME Inv, LegalInv,
           RestoreBegin \/ (\E upto \in 1 .. Len(KeyOrder) : RestoreBatch(upto)) \/ RestoreEnd
    PROVE  LegalInv'
<1>1. UNCHANGED <<mig, stream, output>> /\ pc' \in {"fill", "down"}
  BY DEF RestoreBegin, RestoreBatch, RestoreEnd
<1>2. CASE RestoreBegin
  <2>1. kv'[FormatKey] = "restoring"
    BY <1>2, WithMarker DEF RestoreBegin, Inv, RowsOK
  <2> QED
    BY <1>1, <2>1 DEF LegalInv, Exporting
<1>3. ASSUME NEW upto \in 1 .. Len(KeyOrder), RestoreBatch(upto) PROVE LegalInv'
  <2>1. pc' = "fill"
    BY <1>3 DEF RestoreBatch
  <2>2. kv'[FormatKey] = "restoring"
    BY <1>3, <2>1, RestoreBatchStep DEF Inv, ControlOK
  <2> QED
    BY <1>1, <2>2 DEF LegalInv, Exporting
<1>4. CASE RestoreEnd
  <2>1. kv' = output.rows /\ output # None
    BY <1>4, RestoredWhole DEF RestoreEnd, Inv, FillOK
  <2> QED
    BY <1>1, <2>1 DEF LegalInv, Exporting
<1> QED
  BY <1>2, <1>3, <1>4

LEMMA LegalRest ==
    ASSUME Inv, LegalInv, Stop \/ Crash \/ NewPrefix \/ Damage \/ UNCHANGED vars
    PROVE  LegalInv'
<1>1. CASE Stop \/ Crash
  BY <1>1 DEF Stop, Crash, LegalInv, Exporting
<1>2. CASE NewPrefix
  BY <1>2, NoRowsLegal DEF NewPrefix, LegalInv, Exporting
<1>3. CASE Damage
  <2>1. UNCHANGED <<kv, pc, mig, stream>> /\ output # None /\ output' = [output EXCEPT !.sound = FALSE]
    BY <1>3 DEF Damage
  <2>2. output'.rows = output.rows
    BY <2>1 DEF Inv, OutputOK, FileOK
  <2> QED
    BY <2>1, <2>2 DEF LegalInv, Exporting
<1>4. CASE UNCHANGED vars
  BY <1>4 DEF vars, LegalInv, Exporting
<1> QED
  BY <1>1, <1>2, <1>3, <1>4

LEMMA LegalStep == Inv /\ LegalInv /\ [Next]_vars => LegalInv'
<1> SUFFICES ASSUME Inv, LegalInv, [Next]_vars PROVE LegalInv'
  OBVIOUS
<1>1. ASSUME NEW g \in {"serve", "restore", "exit"}, NEW migrate \in BOOLEAN, Open(g, migrate)
      PROVE  LegalInv'
  BY <1>1, LegalOpen
<1>2. CASE Migration
  BY <1>2, LegalMark, LegalNext, LegalConvert, LegalFinishNamespace, LegalFinish DEF Migration
<1>3. ASSUME NEW n \in SpaceKeys, Create(n) PROVE LegalInv'
  BY <1>3, LegalCreate
<1>4. ASSUME NEW k \in DocKeys, NEW doc \in Docs, Upsert(k, doc) PROVE LegalInv'
  BY <1>4, LegalUpsert
<1>5. CASE ExportBegin \/ (\E upto \in 1 .. Len(KeyOrder) : ExportRows(upto)) \/ Downloaded \/ DownloadFails
  BY <1>5, LegalExport
<1>6. CASE RestoreBegin \/ (\E upto \in 1 .. Len(KeyOrder) : RestoreBatch(upto)) \/ RestoreEnd
  BY <1>6, LegalRestore
<1>7. CASE Stop \/ Crash \/ NewPrefix \/ Damage \/ UNCHANGED vars
  BY <1>7, LegalRest
<1> QED
  BY <1>1, <1>2, <1>3, <1>4, <1>5, <1>6, <1>7 DEF Next

\* What the invariants say of every reachable state (backup.rs, initialize_format).
THEOREM FormatInvariant == Spec => [](Inv /\ LegalInv)
<1>1. Init => Inv /\ LegalInv
  BY InitInv, InitLegal
<1>2. Inv /\ LegalInv /\ [Next]_vars => (Inv /\ LegalInv)'
  BY InvNext, LegalStep
<1> QED
  BY <1>1, <1>2, PTL DEF Spec

\* Rows are of their types, and the command in progress agrees with the marker.
THEOREM FormatType == Spec => []TypeOK
<1>1. Inv => TypeOK
  <2> SUFFICES ASSUME Inv PROVE TypeOK
    OBVIOUS
  <2>1. Shape(kv) /\ promise \in [DocKeys -> Docs \cup {None}]
    BY DEF Inv, RowsOK
  <2>2. ControlOK
    BY DEF Inv
  <2>3. /\ kv[FormatKey] \in Markers \cup {None}
        /\ \A k \in DocKeys : /\ kv[<<"d", k>>] \in Docs \cup {None}
                              /\ kv[<<"v", k>>] \in Vectors \cup {None}
                              /\ kv[<<"c", k>>] \in Nat \cup {None}
    BY <2>1 DEF Shape
  <2> QED
    BY <2>1, <2>2, <2>3 DEF TypeOK, ControlOK
<1> QED
  BY <1>1, FormatInvariant, PTL

\* Whatever is migrated, interrupted, exported or restored, what clients read is what
\* they may rely on, but in a prefix that a restore has not finished.
THEOREM NothingIsLost == Spec => []NothingLost
<1>1. Inv => NothingLost
  BY DEF Inv, RowsOK, NothingLost
<1> QED
  BY <1>1, FormatInvariant, PTL

\* The statistics of a database marked v2 are those of its rows, and no document of
\* it holds its vector or lacks its change row.
THEOREM StatsAreRebuilt == Spec => []StatsRebuilt
<1>1. Inv => StatsRebuilt
  BY FitIs DEF Inv, RowsOK, AllFit, StatsRebuilt
<1> QED
  BY <1>1, FormatInvariant, PTL

\* A backup holds one whole database of the moment its snapshot was taken.
THEOREM BackupsAreOneRevision == Spec => []BackupIsOneRevision
<1>1. Inv => BackupIsOneRevision
  BY DEF Inv, OutputOK, FileOK, Whole, BackupIsOneRevision
<1> QED
  BY <1>1, FormatInvariant, PTL

\* No step replaces or removes a backup that has its name.
THEOREM BackupsAreKept == Spec => BackupNotOverwritten
<1>1. Inv /\ [Next]_vars => [output # None => output' # None /\ output'.rows = output.rows]_output
  <2> SUFFICES ASSUME Inv, [Next]_vars, output # None, output' # output
               PROVE  output' # None /\ output'.rows = output.rows
    OBVIOUS
  <2>1. Damage
    BY DEF Next, vars, Open, Migration, MarkMigrating, NextNamespace, ConvertDocument,
           FinishNamespace, FinishMigration, Create, Upsert, ExportBegin, ExportRows, Downloaded,
           Link, DownloadFails, RestoreBegin, RestoreBatch, RestoreEnd, Stop, Crash, NewPrefix
  <2>2. FileOK(output)
    BY DEF Inv, OutputOK
  <2>3. /\ output' = [output EXCEPT !.sound = FALSE]
        /\ output = [rows |-> output.rows, sound |-> output.sound, of |-> output.of]
    BY <2>1, <2>2 DEF Damage, FileOK
  <2>4. output' = [rows |-> output.rows, sound |-> FALSE, of |-> output.of]
    BY <2>3
  <2>5. output.rows \in [Keys -> Values \cup {None}] /\ output.of \in [DocKeys -> Docs \cup {None}]
    BY <2>2, ShapeValues, ContentType DEF FileOK, Whole, Nothing
  <2>6. output' \in Files
    BY <2>4, <2>5 DEF Files
  <2> QED
    BY <2>4, <2>6, NoneIsNothing
<1> QED
  BY <1>1, FormatInvariant, PTL DEF Spec, BackupNotOverwritten

\* A prefix that is being restored becomes readable only as the whole of the backup,
\* in one step, or is given up.
THEOREM RestoresAreAtomic == Spec => RestoreIsAllOrNothing
<1>1. Inv /\ [Next]_vars
        => [kv[FormatKey] = "restoring" => kv'[FormatKey] = "restoring" \/ kv' = output.rows
                                           \/ kv' = NoRows]_kv
  <2> SUFFICES ASSUME Inv, [Next]_vars, kv[FormatKey] = "restoring", kv' # kv
               PROVE  kv'[FormatKey] = "restoring" \/ kv' = output.rows \/ kv' = NoRows
    OBVIOUS
  <2>1. pc \notin {"serving", "check", "mark", "namespaces", "documents"}
    BY DEF Inv, ControlOK
  <2>2. ~Migration
    BY <2>1 DEF Migration, MarkMigrating, NextNamespace, ConvertDocument, FinishNamespace,
                FinishMigration
  <2>3. ASSUME NEW g, NEW migrate, Open(g, migrate) PROVE FALSE
    <3>1. Present(kv) # {}
      BY KeyFacts, NoneIsNothing DEF Present, Markers
    <3> QED
      BY <2>3, <3>1 DEF Open, OpenReady, OpenEmpty, OpenLegacy, Migratable
  <2>4. ASSUME NEW upto, RestoreBatch(upto) PROVE kv'[FormatKey] = "restoring"
    <3>1. Inv'
      BY <2>4, RestoreBatchStep
    <3>2. pc' = "fill"
      BY <2>4 DEF RestoreBatch
    <3> QED
      BY <3>1, <3>2 DEF Inv, ControlOK
  <2>5. RestoreEnd => kv' = output.rows
    BY RestoredWhole DEF RestoreEnd
  <2>6. NewPrefix => kv' = NoRows
    BY DEF NewPrefix
  <2>7. \/ \E upto : RestoreBatch(upto)
        \/ RestoreEnd \/ NewPrefix
    BY <2>1, <2>2, <2>3 DEF Next, vars, Create, Upsert, Client, ExportBegin, ExportRows, Downloaded,
           DownloadFails, Damage, RestoreBegin, Stop, Crash
  <2> QED
    BY <2>4, <2>5, <2>6, <2>7
<1> QED
  BY <1>1, FormatInvariant, PTL DEF Spec, RestoreIsAllOrNothing

\* A restore begins only in a prefix that holds nothing but its marker.
THEOREM RestoresNeedEmpty == Spec => RestoreNeedsEmpty
<1>1. Inv /\ LegalInv /\ [Next]_vars
        => [kv[FormatKey] # "restoring" /\ kv'[FormatKey] = "restoring"
              => \A key \in Keys : kv[key] # None => key = FormatKey]_kv
  <2> SUFFICES ASSUME Inv, LegalInv, [Next]_vars, kv[FormatKey] # "restoring", kv'[FormatKey] = "restoring"
               PROVE  \A key \in Keys : kv[key] # None => key = FormatKey
    OBVIOUS
  <2>1. Inv'
    BY InvNext
  <2>2. kv' # kv /\ kv'[FormatKey] \notin {"v2", "migrating"} \cup {None}
    BY NoneIsNothing DEF Markers
  <2>3. pc' \notin {"serving", "check", "mark", "namespaces", "documents"}
    BY <2>1, <2>2 DEF Inv, ControlOK
  <2>4. pc # "fill"
    BY DEF Inv, ControlOK
  <2>5. Shape(kv)
    BY DEF Inv, RowsOK
  <2>6. ~Migration
    <3>1. ~FinishMigration
      BY <2>2, <2>5, WithMarker DEF FinishMigration
    <3> QED
      BY <2>3, <3>1 DEF Migration, MarkMigrating, NextNamespace, ConvertDocument, FinishNamespace
  <2>7. ASSUME NEW g, NEW migrate, Open(g, migrate) PROVE FALSE
    BY <2>2, <2>5, <2>7, WithMarker DEF Open, OpenReady, OpenEmpty, OpenLegacy
  <2>8. ~NewPrefix
    BY <2>2, EmptyRows DEF NewPrefix
  <2>9. RestoreBegin
    <3>1. /\ \A n : ~Create(n)
          /\ \A k, doc : ~Upsert(k, doc)
      BY <2>3 DEF Create, Upsert, Client
    <3> QED
      BY <2>2, <2>4, <2>6, <2>7, <2>8, <3>1 DEF Next, vars, ExportBegin, ExportRows, Downloaded,
           DownloadFails, Damage, RestoreBatch, RestoreEnd, Stop, Crash
  <2> QED
    BY <2>9 DEF RestoreBegin, Empty, Present
<1> QED
  BY <1>1, FormatInvariant, PTL DEF Spec, RestoreNeedsEmpty

-----------------------------------------------------------------------------
\* What module Engine may open.

\* The rows of one name, as the engine reads them, and what they count.
LEMMA ServedRows ==
    ASSUME Inv, LegalInv, kv[FormatKey] = "v2", NEW n \in SpaceKeys, NEW gens
    PROVE  /\ RowsIn(n, gens) = [family \in Served(n, gens)!Families |-> RowsIn(n, gens)[family]]
           /\ Served(n, gens)!RowsOK(RowsIn(n, gens))
<1> DEFINE R == RowsIn(n, gens)
           Ids == DocsIn(n)
<1>1. Shape(kv) /\ \A k \in Ids : k \in DocKeys
  BY DEF Inv, RowsOK, DocsIn
<1>2. DOMAIN R = Served(n, gens)!Families /\ R = [family \in DOMAIN R |-> R[family]]
  BY DEF RowsIn, Served!Families
<1>3. R.n \in {"schema"} \cup {None} /\ R.s \in Served(n, gens)!Stats
  <2>1. kv[<<"n", n>>] \in {"schema", None} /\ kv[<<"s", n>>] \in Stats \cup {None}
    BY <1>1 DEF Shape
  <2>2. NoStats \in Stats /\ Served(n, gens)!Stats = Stats
    BY DEF NoStats, Stats, Served!Stats
  <2>3. R.n = kv[<<"n", n>>] /\ R.s = IF kv[<<"s", n>>] = None THEN NoStats ELSE kv[<<"s", n>>]
    BY DEF RowsIn, StatsAt
  <2> HIDE DEF R
  <2>4. R.n \in {"schema"} \cup {None}
    BY <2>1, <2>3
  <2>5. R.s \in Stats
    BY <2>1, <2>2, <2>3
  <2> QED
    BY <2>2, <2>4, <2>5
<1>4. R.d \in [Ids -> Attrs \cup {None}]
  <2>1. ASSUME NEW k \in Ids PROVE kv[<<"d", k>>] # None => kv[<<"d", k>>].attr \in Attrs
    BY <1>1 DEF Shape, Docs
  <2> QED
    BY <2>1 DEF RowsIn
<1>5. R.v \in [Ids -> Vectors \cup {None}]
  BY <1>1 DEF RowsIn, Shape
<1>6. R.c \in [Ids -> Nat]
  BY <1>1 DEF RowsIn, Shape
<1>7. R.i \in Served(n, gens)!Status \cup {None} /\ R.j \in BOOLEAN /\ R.z \in BOOLEAN
  BY DEF RowsIn
<1>8. R.g \in [gens -> [Ids -> Served(n, gens)!Docs \cup {None}]]
  BY DEF RowsIn
<1> HIDE DEF R, Ids
<1>9. Served(n, gens)!RowsOK(R)
  BY <1>2, <1>3, <1>4, <1>5, <1>6, <1>7, <1>8 DEF Served!RowsOK, Served!RowType, Served!Families, Ids
<1> QED
  BY <1>2, <1>9 DEF R

\* The instance counts as FiniteSets does.
LEMMA ServedCardinality ==
    ASSUME NEW n, NEW gens, NEW S PROVE Served(n, gens)!Cardinality(S) = Cardinality(S)
BY DEF Served!Cardinality, Cardinality

LEMMA ServedCounts ==
    ASSUME Inv, LegalInv, kv[FormatKey] = "v2", NEW n \in SpaceKeys, NEW gens
    PROVE  LET R == RowsIn(n, gens)
               documents == Served(n, gens)!Rows(R.d)
               vectors == Served(n, gens)!Rows(R.v)
               changed == Served(n, gens)!Changed(R)
           IN  /\ {Cardinality(documents), Cardinality(vectors), Cardinality(changed)} \subseteq Nat
               /\ vectors \subseteq documents
               /\ R.s.documents = Cardinality(documents)
               /\ R.s.bytes = Cardinality(documents) + Cardinality(vectors)
               /\ R.s.pending = Cardinality(changed)
               /\ \A k \in DocsIn(n) : R.c[k] <= R.s.revision
               /\ R.n = None => (\A k \in DocsIn(n) : R.d[k] = None) /\ R.s.revision = 0
<1> DEFINE R == RowsIn(n, gens)
           documents == Served(n, gens)!Rows(R.d)
           vectors == Served(n, gens)!Rows(R.v)
           changed == Served(n, gens)!Changed(R)
<1>1. Shape(kv) /\ Attached(kv) /\ AllFit(kv) /\ Legal(kv) /\ kv[FormatKey] # "restoring"
  BY DEF Inv, RowsOK, LegalInv
<1>2. \A k \in DocsIn(n) : k \in DocKeys /\ k[1] = n
  BY DEF DocsIn
<1>3. ASSUME NEW k \in DocsIn(n)
      PROVE  /\ R.d[k] # None <=> kv[<<"d", k>>] # None
             /\ R.v[k] = kv[<<"v", k>>]
             /\ R.c[k] = IF kv[<<"c", k>>] = None THEN 0 ELSE kv[<<"c", k>>]
             /\ R.c[k] # 0 <=> kv[<<"c", k>>] # None
  <2>1. kv[<<"d", k>>] # None => kv[<<"d", k>>].attr # None
    <3>1. kv[<<"d", k>>] \in Docs \cup {None}
      BY <1>1, <1>2 DEF Shape
    <3>2. kv[<<"d", k>>] # None => kv[<<"d", k>>].attr \in Attrs
      BY <3>1 DEF Docs
    <3> QED
      BY <3>2, FormatNone
  <2>2. kv[<<"c", k>>] # 0
    BY <1>1, <1>2 DEF Legal
  <2> QED
    BY <2>1, <2>2 DEF RowsIn
<1>4. R.n = kv[<<"n", n>>] /\ R.s = StatsAt(kv, n)
  BY DEF RowsIn
<1> HIDE DEF R
<1>5. documents = DocsOf(kv, n)
  BY <1>3 DEF Served!Rows, DocsOf, DocsIn
<1>6. vectors = VectorsOf(kv, n)
  <2>1. \A k \in DocsIn(n) : kv[<<"v", k>>] # None => kv[<<"d", k>>] # None
    BY <1>1, <1>2 DEF Attached
  <2> QED
    BY <1>3, <2>1 DEF Served!Rows, VectorsOf, DocsOf, DocsIn
<1>7. changed = ChangesOf(kv, n)
  BY <1>3 DEF Served!Changed, ChangesOf, DocsIn
<1> HIDE DEF documents, vectors, changed
<1>8. /\ vectors \subseteq documents
      /\ {Cardinality(documents), Cardinality(vectors), Cardinality(changed)} \subseteq Nat
  <2>1. /\ vectors \subseteq documents
        /\ documents \in SUBSET DocKeys /\ vectors \in SUBSET DocKeys /\ changed \in SUBSET DocKeys
    BY <1>5, <1>6, <1>7 DEF DocsOf, VectorsOf, ChangesOf
  <2>2. IsFiniteSet(documents) /\ IsFiniteSet(vectors) /\ IsFiniteSet(changed)
    BY <2>1, DocsFinite
  <2> QED
    BY <2>1, <2>2, FS_CardinalityType
<1>9. CASE kv[<<"n", n>>] # None
  <2>1. SpaceFit(kv, n)
    BY <1>1, <1>9 DEF AllFit
  <2>2. R.s = StatsAt(kv, n) /\ R.s \in Stats
    BY <1>4, <2>1 DEF SpaceFit
  <2>3. /\ R.s.documents = Cardinality(documents) /\ R.s.pending = Cardinality(changed)
        /\ R.s.bytes = Cardinality(documents) + Cardinality(vectors)
    BY <1>5, <1>6, <1>7, <2>1, <2>2 DEF SpaceFit
  <2>4. \A k \in DocsIn(n) : R.c[k] <= R.s.revision
    <3> TAKE k \in DocsIn(n)
    <3>1. R.s.revision \in Nat
      BY <2>2 DEF Stats
    <3>2. CASE kv[<<"c", k>>] # None
      <4>1. k \in ChangesOf(kv, n)
        BY <1>2, <3>2 DEF ChangesOf
      <4>2. kv[<<"c", k>>] <= R.s.revision
        BY <2>1, <2>2, <4>1 DEF SpaceFit
      <4> QED
        BY <1>3, <3>2, <4>2
    <3>3. CASE kv[<<"c", k>>] = None
      <4>1. R.c[k] = 0
        BY <1>3, <3>3
      <4> QED
        BY <3>1, <4>1
    <3> QED
      BY <3>2, <3>3
  <2> QED
    BY <1>4, <1>8, <1>9, <2>3, <2>4 DEF R, documents, vectors, changed
<1>10. CASE kv[<<"n", n>>] = None
  <2>1. R.s = NoStats
    BY <1>1, <1>4, <1>10 DEF Legal, StatsAt
  <2>2. \A k \in DocsIn(n) : kv[<<"d", k>>] = None /\ kv[<<"c", k>>] = None
    BY <1>1, <1>2, <1>10 DEF Attached
  <2>3. documents = {} /\ vectors = {} /\ changed = {}
    BY <1>2, <1>5, <1>6, <1>7, <2>2 DEF DocsOf, VectorsOf, ChangesOf, DocsIn
  <2>4. \A k \in DocsIn(n) : R.d[k] = None /\ R.c[k] <= R.s.revision
    <3> TAKE k \in DocsIn(n)
    <3>1. R.d[k] = None /\ R.c[k] = 0
      BY <1>3, <2>2
    <3>2. R.s.revision = 0
      BY <2>1 DEF NoStats
    <3> QED
      BY <3>1, <3>2
  <2>5. /\ R.s.documents = 0 /\ R.s.bytes = 0 + 0 /\ R.s.pending = 0 /\ R.s.revision = 0
        /\ Cardinality({}) = 0
    BY <2>1, FS_EmptySet DEF NoStats
  <2> QED
    BY <1>8, <2>3, <2>4, <2>5 DEF R, documents, vectors, changed
<1> QED
  BY <1>9, <1>10

\* Fit rows, and nothing in flight.
LEMMA ServedIsOpened ==
    ASSUME Inv, LegalInv, kv[FormatKey] = "v2", NEW n \in SpaceKeys, NEW gens
    PROVE  Served(n, gens)!Opened
<1> DEFINE R == RowsIn(n, gens)
           documents == Served(n, gens)!Rows(R.d)
           vectors == Served(n, gens)!Rows(R.v)
           changed == Served(n, gens)!Changed(R)
<1>1. /\ R = [family \in Served(n, gens)!Families |-> R[family]]
      /\ Served(n, gens)!RowsOK(R)
  BY ServedRows
<1>2. /\ R.i = None /\ R.j = FALSE /\ R.z = FALSE
      /\ \A gen \in gens : \A k \in DocsIn(n) : R.g[gen][k] = None
      /\ R.d = [k \in DocsIn(n) |-> R.d[k]]
  BY DEF RowsIn
<1>3. /\ {Cardinality(documents), Cardinality(vectors), Cardinality(changed)} \subseteq Nat
      /\ vectors \subseteq documents
      /\ R.s.documents = Cardinality(documents)
      /\ R.s.bytes = Cardinality(documents) + Cardinality(vectors)
      /\ R.s.pending = Cardinality(changed)
      /\ \A k \in DocsIn(n) : R.c[k] <= R.s.revision
      /\ R.n = None => (\A k \in DocsIn(n) : R.d[k] = None) /\ R.s.revision = 0
  BY ServedCounts
<1> HIDE DEF R
<1>4. Served(n, gens)!IndexExact(R)
  BY <1>2, <1>3 DEF Served!IndexExact
<1>5. Served(n, gens)!StatsExact
  <2>1. \A S : Served(n, gens)!Cardinality(S) = Cardinality(S)
    BY ServedCardinality
  <2> QED
    BY <1>3, <2>1 DEF Served!StatsExact, R
<1>6. Served(n, gens)!CountersNeverWrap
  <2>1. \A S : Served(n, gens)!Cardinality(S) = Cardinality(S)
    BY ServedCardinality
  <2>2. vectors \cap documents = vectors
    BY <1>3
  <2> DEFINE nd == Cardinality(documents)
             nv == Cardinality(vectors)
             nc == Cardinality(changed)
  <2>3. /\ nd \in Nat /\ nv \in Nat /\ nc \in Nat
        /\ R.s.documents = nd /\ R.s.bytes = nd + nv /\ R.s.pending = nc
    BY <1>3
  <2> HIDE DEF nd, nv, nc
  <2>4. R.s.documents >= nd /\ R.s.bytes >= nd + nv /\ R.s.pending >= nc
    BY <2>3
  <2> QED
    BY <2>1, <2>2, <2>4 DEF Served!CountersNeverWrap, R, nd, nv, nc
<1>7. Served(n, gens)!GarbageIsMarked
  <2>1. Served(n, gens)!Generated(R) = {}
    BY <1>2 DEF Served!Generated
  <2> QED
    BY <1>2, <2>1 DEF Served!GarbageIsMarked, R
<1>8. R.n = None => R.d = [k \in DocsIn(n) |-> None] /\ R.s.revision = 0
  BY <1>2, <1>3
<1>9. Served(n, gens)!RowsFit
  BY <1>1, <1>4, <1>5, <1>6, <1>7, <1>8 DEF Served!RowsFit, Served!NoContent, R
<1> QED
  BY <1>9 DEF Served!Opened, Served!Nothing, Served!Idle, Served!NoContent

\* Whichever of creation, migration and restore marked a database v2, and whatever
\* was interrupted on the way, each of its names has rows on which OpenedStaysSafe
\* (EngineStoreProofs) begins: what the engine relies on holds of them for good.
THEOREM EnginesMayOpen == Spec => []EngineMayOpen
<1>1. Inv => StatsRebuilt
  BY FitIs DEF Inv, RowsOK, AllFit, StatsRebuilt
<1>2. Inv /\ LegalInv => EngineMayOpen
  BY <1>1, ServedIsOpened DEF EngineMayOpen
<1> QED
  BY <1>2, FormatInvariant, PTL
=============================================================================
