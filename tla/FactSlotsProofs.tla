-------------------------- MODULE FactSlotsProofs --------------------------
(***************************************************************************)
(* The slots of FactSlots, for every genesis, every set of claims and      *)
(* batches of any size: every published HEAD can be folded, the facts of a *)
(* slot are one line, nothing ends twice, readers are told of what can be  *)
(* paid off, and nothing ends unseen.                                      *)
(*                                                                         *)
(* A chapter's effects are bound to the facts of the chapters before it,   *)
(* and whatever changes those drops the chapter; what a human leaves out   *)
(* of a batch leaves no effect without the one it continues.  So every     *)
(* chapter stays as its prepare planned it.                                *)
(***************************************************************************)
EXTENDS FactSlots, FiniteSetTheorems, WellFoundedInduction, TLAPS

-----------------------------------------------------------------------------
(* The invariant                                                             *)

\* The effects of a chapter are those of claims of its own, each in its place.
Fits(chapter, X) ==
    /\ IsFiniteSet({e.place : e \in X})
    /\ \A e, f \in X : e.place = f.place => e = f
    /\ \A e \in X :
          /\ e.kind \in Creating => e.key = <<Family[e.kind], <<e.kind, e.id>>>>
          /\ \E c \in FactClaims :
                /\ c.chapter = chapter /\ e.id = c.id /\ e.place = c.place
                /\ e.kind = c.kind /\ e.key = fact_key(c)

\* The chapter may break a rule that it reveals.
BreaksItsOwn(chapter) ==
    \E c, d \in FactClaims :
        c.chapter = chapter /\ d.chapter = chapter /\ c.kind = "broken"
        /\ fact_key(d) = ContinuedKey(c)

\* An effect may end what the record made.
MayEnd(e, made) ==
    /\ e.kind \in Ending => made.kind \in Creating
    /\ e.kind = "paid" => made.kind = "promise" /\ made.subject \in {NoSubject, e.subject}

\* The effect continues that prior, which is this fact.
Continues(e, prior, fact) == e.prior = prior /\ MayEnd(e, fact)

\* Each effect continues the last one of its slot: of the batch, else of the past.
Planned(chapter, X, past, genesis) ==
    \A e \in X :
        LET earlier == {f \in X : f.place < e.place /\ f.key = e.key}
            active == ActiveIn(e.key, genesis, past) IN
        IF e.kind = "broken"
        THEN /\ e.prior.type = "fact" => \E r \in past \cup genesis : r.digest = e.prior.ref
             /\ e.prior.type = "effect" => BreaksItsOwn(chapter)
        ELSE IF earlier # {}
        THEN \E f \in earlier :
                /\ \A h \in earlier : h.place <= f.place
                /\ Continues(e, [type |-> "effect", ref |-> f.id], f)
        ELSE IF active = NoFact THEN e.prior = NoPrior /\ e.kind \notin Ending
        ELSE Continues(e, [type |-> "fact", ref |-> active.digest], active)

\* What continues a fact is shown to the author.
Asked(X) == \A e \in X : e.prior # NoPrior /\ e.kind # "presence" => e.case # "none"

Past(chapter) == {r \in EffectRecords : r.chapter < chapter}

FactsInv ==
    /\ book \in Seq({book[c] : c \in DOMAIN book})
    /\ \A c \in DOMAIN book :
          /\ Fits(c, book[c].effects)
          /\ Planned(c, book[c].effects, Past(c), GenesisRecords(gone))
    /\ Reviewing =>
          /\ DOMAIN review = {"chapter", "said", "effects"}
          /\ review.chapter \in 1 .. Len(book) + 1
          /\ Fits(review.chapter, review.effects)
          /\ Planned(review.chapter, review.effects, Past(review.chapter), GenesisRecords(gone))
          /\ Asked(review.effects)

\* No chapter breaks a rule that it reveals itself.
RulesBreakLater == \A c \in FactClaims : ~BreaksItsOwn(c.chapter)

-----------------------------------------------------------------------------
(* Sets of numbers, sequences                                                *)

\* A finite set of integers has a greatest one: take one with the fewest above it.
LEMMA GreatestExists ==
    ASSUME NEW S, S \subseteq Int, IsFiniteSet(S), S # {}
    PROVE  \E m \in S : \A n \in S : n <= m
<1> DEFINE Above(m) == {n \in S : n > m}
           T == {Above(m) : m \in S}
<1>1. IsWellFoundedOn(StrictSubsetOrdering(S), SUBSET S)
  BY FS_StrictSubsetOrderingWellFounded, FS_FiniteSubsetsOfFinite
<1>2. T \subseteq SUBSET S /\ T # {}
  OBVIOUS
<1>3. PICK x \in T : \A y \in T : ~ (<<y, x>> \in StrictSubsetOrdering(S))
  <2> HIDE DEF T
  <2>1. QED
    BY <1>1, <1>2, WFMin
<1>4. PICK m \in S : x = Above(m)
  BY <1>3
<1>5. ASSUME NEW n \in S, n > m
      PROVE  FALSE
  <2>1. Above(n) \subseteq Above(m) /\ n \in Above(m) /\ n \notin Above(n)
    <3>1. \A i \in S : i \in Int
      OBVIOUS
    <3>2. n \in Int /\ m \in Int
      BY <3>1
    <3>3. \A i \in S : i > n => i > m
      BY <1>5, <3>1, <3>2
    <3>4. ~(n > n)
      BY <3>2
    <3>5. QED
      BY <1>5, <3>3, <3>4
  <2>2. Above(n) \in T /\ Above(n) \in SUBSET S /\ Above(m) \in SUBSET S
    OBVIOUS
  <2>3. <<Above(n), Above(m)>> \in StrictSubsetOrdering(S)
    <3> HIDE DEF Above
    <3>1. QED
      BY <2>1, <2>2 DEF StrictSubsetOrdering
  <2>4. QED
    BY <1>3, <1>4, <2>2, <2>3
<1>6. QED
  BY <1>5

LEMMA GreatestBelow ==
    ASSUME NEW S, S \subseteq Nat, S # {}, NEW k \in Nat, \A n \in S : n <= k
    PROVE  \E m \in S : \A n \in S : n <= m
<1>1. IsFiniteSet(S)
  BY FS_BoundedSetOfNaturals
<1>2. S \subseteq Int
  OBVIOUS
<1>3. QED
  BY <1>1, <1>2, GreatestExists

LEMMA LeastExists ==
    ASSUME NEW S, S \subseteq Int, IsFiniteSet(S), S # {}
    PROVE  \E m \in S : \A n \in S : m <= n
<1> DEFINE f == [n \in S |-> 0 - n]
           T == {f[n] : n \in S}
<1>1. f \in Surjection(S, T)
  BY DEF Surjection
<1>2. IsFiniteSet(T) /\ T \subseteq Int /\ T # {}
  <2>1. IsFiniteSet(T)
    <3> HIDE DEF f, T
    <3>1. QED
      BY <1>1, FS_Surjection
  <2>2. \A n \in S : f[n] \in Int
    OBVIOUS
  <2>3. QED
    BY <2>1, <2>2
<1>3. PICK m \in T : \A n \in T : n <= m
  <2> HIDE DEF T
  <2>1. QED
    BY <1>2, GreatestExists
<1>4. PICK k \in S : m = 0 - k
  BY <1>3
<1>5. ASSUME NEW n \in S
      PROVE  k <= n
  <2>1. 0 - n \in T /\ n \in Int /\ k \in Int
    BY <1>5
  <2>2. QED
    BY <1>3, <1>4, <2>1
<1>6. QED
  BY <1>5

\* The values of a function on a finite set.
LEMMA FiniteValues ==
    ASSUME NEW S, IsFiniteSet(S), NEW f, DOMAIN f = S
    PROVE  IsFiniteSet({f[x] : x \in S})
<1> DEFINE T == {f[x] : x \in S}
           g == [x \in S |-> f[x]]
<1>1. g \in Surjection(S, T)
  BY DEF Surjection
<1>2. IsFiniteSet(T)
  <2> HIDE DEF g, T
  <2>1. QED
    BY <1>1, FS_Surjection
<1>3. QED
  BY <1>2

LEMMA CutAndAppend ==
    ASSUME NEW S, NEW s \in Seq(S), NEW k \in 1 .. Len(s) + 1, NEW x, NEW t,
           t = Append(SubSeq(s, 1, k - 1), x)
    PROVE  /\ t \in Seq(S \cup {x}) /\ Len(t) = k /\ DOMAIN t = 1 .. k
           /\ t[k] = x /\ \A i \in 1 .. k - 1 : t[i] = s[i]
           /\ DOMAIN s = 1 .. Len(s)
<1>1. SubSeq(s, 1, k - 1) \in Seq(S) /\ Len(SubSeq(s, 1, k - 1)) = k - 1
  OBVIOUS
<1>2. \A i \in 1 .. k - 1 : SubSeq(s, 1, k - 1)[i] = s[i]
  OBVIOUS
<1>3. SubSeq(s, 1, k - 1) \in Seq(S \cup {x})
  BY <1>1
<1>4. QED
  BY <1>1, <1>2, <1>3

-----------------------------------------------------------------------------
(* The fact that holds a slot                                                *)

\* No two of the records stand in one place.
Ordered(E) ==
    /\ \A r \in E : r.chapter \in Nat /\ r.index \in Nat
    /\ \A r, s \in E : r.chapter = s.chapter /\ r.index = s.index => r = s

Bounded(E) ==
    /\ \E n \in Nat : \A r \in E : r.chapter <= n
    /\ \A c \in Nat : \E n \in Nat : \A r \in E : r.chapter = c => r.index <= n

LEMMA OnlyLatest ==
    ASSUME NEW E, Ordered(E), NEW r \in E, \A s \in E \ {r} : Before(s, r)
    PROVE  Latest(E) = r
<1>1. ASSUME NEW t \in E, \A s \in E \ {t} : Before(s, t), t # r
      PROVE  FALSE
  <2>1. Before(t, r) /\ Before(r, t)
    BY <1>1
  <2>2. /\ r.chapter \in Nat /\ r.index \in Nat
        /\ t.chapter \in Nat /\ t.index \in Nat
    BY DEF Ordered
  <2>3. QED
    BY <2>1, <2>2 DEF Before
<1>2. QED
  BY <1>1 DEF Latest

LEMMA LatestIs ==
    ASSUME NEW E, Ordered(E), Bounded(E), E # {}
    PROVE  Latest(E) \in E /\ \A s \in E \ {Latest(E)} : Before(s, Latest(E))
<1> DEFINE S == {r.chapter : r \in E}
<1>1. S \subseteq Nat /\ S # {}
  BY DEF Ordered
<1>2. PICK k \in Nat : \A r \in E : r.chapter <= k
  BY DEF Bounded
<1>3. PICK m \in S : \A n \in S : n <= m
  <2>1. \A n \in S : n <= k
    BY <1>2
  <2> HIDE DEF S
  <2>2. QED
    BY <1>1, <2>1, GreatestBelow
<1> DEFINE T == {r.index : r \in {s \in E : s.chapter = m}}
<1>4. T \subseteq Nat /\ T # {} /\ m \in Nat
  BY <1>1 DEF Ordered
<1>5. PICK l \in Nat : \A r \in E : r.chapter = m => r.index <= l
  BY <1>4 DEF Bounded
<1>6. PICK i \in T : \A n \in T : n <= i
  <2>1. \A n \in T : n <= l
    BY <1>5
  <2> HIDE DEF T
  <2>2. QED
    BY <1>4, <2>1, GreatestBelow
<1>7. PICK r \in E : r.chapter = m /\ r.index = i
  OBVIOUS
<1>8. ASSUME NEW s \in E \ {r}
      PROVE  Before(s, r)
  <2>1. /\ s.chapter \in Nat /\ s.index \in Nat /\ m \in Nat /\ i \in Nat
        /\ s.chapter <= m
    BY <1>3, <1>4 DEF Ordered
  <2>2. s.chapter = m => s.index <= i /\ s.index # i
    BY <1>6, <1>7, <1>8 DEF Ordered
  <2>3. QED
    BY <1>7, <2>1, <2>2 DEF Before
<1>9. QED
  BY <1>7, <1>8 DEF Latest

\* A record of the genesis is that of one row.
LEMMA RowOf ==
    ASSUME NEW S, NEW r \in GenesisRecords(S)
    PROVE  \E k \in DOMAIN GenesisRows :
              /\ r = [digest |-> <<0, k, Position(k, S)>>, chapter |-> 0, index |-> 0,
                      key |-> GenesisRows[k].key, kind |-> GenesisRows[k].kind,
                      subject |-> GenesisRows[k].subject, row |-> GenesisRows[k]]
              /\ r.row = GenesisRows[k] /\ r.digest[2] = k /\ r.chapter = 0
              /\ r.key = GenesisRows[k].key /\ r.kind = GenesisRows[k].kind
              /\ r # NoFact
<1>1. PICK k \in DOMAIN GenesisRows :
              r = [digest |-> <<0, k, Position(k, S)>>, chapter |-> 0, index |-> 0,
                   key |-> GenesisRows[k].key, kind |-> GenesisRows[k].kind,
                   subject |-> GenesisRows[k].subject, row |-> GenesisRows[k]]
  BY DEF GenesisRecords
<1>2. "row" \in DOMAIN r /\ "row" \notin DOMAIN NoFact
  BY <1>1 DEF NoFact
<1>3. QED
  BY <1>1, <1>2

\* Of the rows of a slot one is preferred to all others.
LEMMA PreferredExists ==
    ASSUME NEW S, NEW G, G \subseteq GenesisRecords(S), G # {}
    PROVE  \E r \in G : \A s \in G \ {r} : Preferred(r, s)
<1> DEFINE K == DOMAIN GenesisRows
<1>1. IsFiniteSet(K) /\ K \subseteq Int
  <2>1. K = 1 .. Len(GenesisRows) /\ Len(GenesisRows) \in Nat
    BY RowsAssumption
  <2>2. QED
    BY <2>1, FS_Interval
<1>2. \A r \in G : /\ r.digest[2] \in K /\ r.row = GenesisRows[r.digest[2]]
                   /\ r.row.rank \in Int /\ r.row.source \in Int
  BY RowOf, RowsAssumption
<1>3. \A r, s \in G : r.digest[2] = s.digest[2] => r = s
  BY RowOf
<1> DEFINE rank == [k \in K |-> GenesisRows[k].rank]
           source == [k \in K |-> GenesisRows[k].source]
           R == {r.row.rank : r \in G}
<1>4. PICK m \in R : \A n \in R : m <= n
  <2>1. R \subseteq {rank[k] : k \in K} /\ R \subseteq Int /\ R # {}
    BY <1>2
  <2>2. IsFiniteSet({rank[k] : k \in K})
    <3> HIDE DEF K
    <3>1. DOMAIN rank = K
      OBVIOUS
    <3> HIDE DEF rank
    <3>2. QED
      BY <1>1, <3>1, FiniteValues
  <2>3. IsFiniteSet(R)
    <3> HIDE DEF R, rank
    <3>1. QED
      BY <2>1, <2>2, FS_Subset
  <2> HIDE DEF R
  <2>4. QED
    BY <2>1, <2>3, LeastExists
<1> DEFINE G1 == {r \in G : r.row.rank = m}
           Q == {r.row.source : r \in G1}
<1>5. PICK n \in Q : \A i \in Q : i <= n
  <2>1. Q \subseteq {source[k] : k \in K} /\ Q \subseteq Int /\ Q # {}
    BY <1>2
  <2>2. IsFiniteSet({source[k] : k \in K})
    <3> HIDE DEF K
    <3>1. DOMAIN source = K
      OBVIOUS
    <3> HIDE DEF source
    <3>2. QED
      BY <1>1, <3>1, FiniteValues
  <2>3. IsFiniteSet(Q)
    <3> HIDE DEF Q, source
    <3>1. QED
      BY <2>1, <2>2, FS_Subset
  <2> HIDE DEF Q
  <2>4. QED
    BY <2>1, <2>3, GreatestExists
<1> DEFINE P == {r.digest[2] : r \in {s \in G1 : s.row.source = n}}
<1>6. PICK k \in P : \A i \in P : k <= i
  <2>1. P \subseteq K /\ P # {}
    BY <1>2
  <2>2. IsFiniteSet(P) /\ P \subseteq Int
    <3> HIDE DEF P, K
    <3>1. QED
      BY <1>1, <2>1, FS_Subset
  <2> HIDE DEF P
  <2>3. QED
    BY <2>1, <2>2, LeastExists
<1>7. PICK r \in G : r.row.rank = m /\ r.row.source = n /\ r.digest[2] = k
  OBVIOUS
<1>8. ASSUME NEW s \in G \ {r}
      PROVE  Preferred(r, s)
  <2>1. /\ s.row.rank \in Int /\ s.row.source \in Int /\ s.digest[2] \in Int
        /\ m \in Int /\ n \in Int /\ k \in Int
    BY <1>1, <1>2, <1>7
  <2>2. m <= s.row.rank
    BY <1>4
  <2>3. s.row.rank = m => s.row.source <= n
    BY <1>5
  <2>4. s.row.rank = m /\ s.row.source = n => k <= s.digest[2] /\ k # s.digest[2]
    BY <1>3, <1>6, <1>7
  <2>5. QED
    BY <1>7, <2>1, <2>2, <2>3, <2>4 DEF Preferred
<1>9. QED
  BY <1>7, <1>8

\* What ActiveIn finds.
LEMMA ActiveIs ==
    ASSUME NEW S, NEW P, Ordered(P), Bounded(P), NEW key
    PROVE  LET a == ActiveIn(key, GenesisRecords(S), P)
               E == {r \in P : r.key = key}
               G == {r \in GenesisRecords(S) : r.key = key /\ Holds(r)} IN
           \/ E # {} /\ a = Latest(E) /\ a \in E /\ \A s \in E \ {a} : Before(s, a)
           \/ E = {} /\ G # {} /\ a \in G
           \/ E = {} /\ G = {} /\ a = NoFact
<1> DEFINE E == {r \in P : r.key = key}
           G == {r \in GenesisRecords(S) : r.key = key /\ Holds(r)}
<1>1. CASE E # {}
  <2>1. Ordered(E) /\ Bounded(E)
    BY DEF Ordered, Bounded
  <2>2. Latest(E) \in E /\ \A s \in E \ {Latest(E)} : Before(s, Latest(E))
    <3> HIDE DEF E
    <3>1. QED
      BY <1>1, <2>1, LatestIs
  <2>3. QED
    BY <1>1, <2>2 DEF ActiveIn, ActiveInGenesis
<1>2. CASE E = {} /\ G # {}
  <2>1. \E r \in G : \A s \in G \ {r} : Preferred(r, s)
    <3>1. G \subseteq GenesisRecords(S)
      OBVIOUS
    <3> HIDE DEF G
    <3>2. QED
      BY <1>2, <3>1, PreferredExists
  <2>2. (CHOOSE r \in G : \A s \in G \ {r} : Preferred(r, s)) \in G
    <3> HIDE DEF G
    <3>1. QED
      BY <2>1
  <2>3. QED
    BY <1>2, <2>2 DEF ActiveIn, ActiveInGenesis
<1>3. CASE E = {} /\ G = {}
  BY <1>3 DEF ActiveIn, ActiveInGenesis
<1>4. QED
  BY <1>1, <1>2, <1>3

\* Only the records of the slot matter.
LEMMA SameSlot ==
    ASSUME NEW key, NEW genesis, NEW A, NEW B,
           {r \in A : r.key = key} = {r \in B : r.key = key}
    PROVE  ActiveIn(key, genesis, A) = ActiveIn(key, genesis, B)
  BY DEF ActiveIn

-----------------------------------------------------------------------------
(* The records of the book                                                   *)

LEMMA ClaimOf ==
    ASSUME NEW chapter, NEW X, Fits(chapter, X), NEW e \in X
    PROVE  /\ e.place \in Nat /\ e.kind \in DOMAIN Family /\ e.key[1] = Family[e.kind]
           /\ \E c \in FactClaims :
                 /\ c.chapter = chapter /\ e.id = c.id /\ e.place = c.place
                 /\ e.kind = c.kind /\ e.key = fact_key(c)
<1>1. PICK c \in FactClaims : /\ c.chapter = chapter /\ e.id = c.id /\ e.place = c.place
                               /\ e.kind = c.kind /\ e.key = fact_key(c)
  BY DEF Fits
<1>2. c.place \in Nat /\ c.kind \in DOMAIN Family
  BY FactAssumption, RowsAssumption
<1>3. fact_key(c)[1] = Family[c.kind]
  BY DEF fact_key
<1>4. QED
  BY <1>1, <1>2, <1>3

Record(c, e) ==
    [digest |-> <<c, book[c].gen, e.place>>, chapter |-> c, index |-> e.place,
     key |-> e.key, kind |-> e.kind, subject |-> e.subject]

LEMMA RecordsAre ==
    ASSUME NEW r
    PROVE  /\ r \in EffectRecords <=> \E c \in DOMAIN book : \E e \in book[c].effects : r = Record(c, e)
           /\ \A c : r \in Past(c) <=> \E d \in DOMAIN book :
                                          d < c /\ \E e \in book[d].effects : r = Record(d, e)
<1>1. r \in EffectRecords <=> \E c \in DOMAIN book : \E e \in book[c].effects : r = Record(c, e)
  BY DEF EffectRecords, RecordsOf, Record
<1>2. \A c, e : Record(c, e).chapter = c
  BY DEF Record
<1>3. QED
  BY <1>1, <1>2 DEF Past

LEMMA RecordIsFact == \A c, e : Record(c, e) # NoFact
<1>1. \A c, e : "index" \in DOMAIN Record(c, e)
  BY DEF Record
<1>2. "index" \notin DOMAIN NoFact
  BY DEF NoFact
<1>3. QED
  BY <1>1, <1>2

LEMMA PartOrdered ==
    ASSUME NEW E, Ordered(E), Bounded(E), NEW F, F \subseteq E
    PROVE  Ordered(F) /\ Bounded(F)
  BY DEF Ordered, Bounded

LEMMA BookOrdered ==
    ASSUME FactsInv
    PROVE  Ordered(EffectRecords) /\ Bounded(EffectRecords)
<1>1. DOMAIN book = 1 .. Len(book) /\ Len(book) \in Nat
  BY DEF FactsInv
<1>2. \A c \in DOMAIN book : Fits(c, book[c].effects)
  BY DEF FactsInv
<1>3. ASSUME NEW c \in DOMAIN book, NEW e \in book[c].effects
      PROVE  e.place \in Nat
  BY <1>2, ClaimOf
<1>4. Ordered(EffectRecords)
  <2>1. \A r \in EffectRecords : r.chapter \in Nat /\ r.index \in Nat
    BY <1>1, <1>3, RecordsAre DEF Record
  <2>2. ASSUME NEW r \in EffectRecords, NEW s \in EffectRecords,
               r.chapter = s.chapter, r.index = s.index
        PROVE  r = s
    <3>1. PICK c \in DOMAIN book : \E e \in book[c].effects : r = Record(c, e)
      BY RecordsAre
    <3>2. PICK e \in book[c].effects : r = Record(c, e)
      BY <3>1
    <3>3. PICK d \in DOMAIN book : \E f \in book[d].effects : s = Record(d, f)
      BY RecordsAre
    <3>4. PICK f \in book[d].effects : s = Record(d, f)
      BY <3>3
    <3>5. c = d /\ e.place = f.place
      BY <2>2, <3>2, <3>4 DEF Record
    <3>6. e = f
      BY <1>2, <3>5 DEF Fits
    <3>7. QED
      BY <3>2, <3>4, <3>5, <3>6
  <2>3. QED
    BY <2>1, <2>2 DEF Ordered
<1>5. Bounded(EffectRecords)
  <2>1. \A r \in EffectRecords : r.chapter <= Len(book)
    BY <1>1, RecordsAre DEF Record
  <2>2. ASSUME NEW c \in Nat
        PROVE  \E n \in Nat : \A r \in EffectRecords : r.chapter = c => r.index <= n
    <3> DEFINE T == {e.place : e \in book[c].effects}
    <3>1. CASE c \in DOMAIN book /\ T # {}
      <4>1. IsFiniteSet(T) /\ T \subseteq Int /\ T \subseteq Nat
        BY <1>2, <1>3, <3>1 DEF Fits
      <4>2. PICK n \in T : \A i \in T : i <= n
        <5> HIDE DEF T
        <5>1. QED
          BY <3>1, <4>1, GreatestExists
      <4>3. ASSUME NEW r \in EffectRecords, r.chapter = c
            PROVE  r.index \in T
        BY <4>3, RecordsAre DEF Record
      <4>4. QED
        BY <4>1, <4>2, <4>3
    <3>2. CASE ~(c \in DOMAIN book /\ T # {})
      <4>1. \A r \in EffectRecords : r.chapter # c
        BY <3>2, RecordsAre DEF Record
      <4>2. QED
        BY <4>1
    <3>3. QED
      BY <3>1, <3>2
  <2>3. QED
    BY <1>1, <2>1, <2>2 DEF Bounded
<1>6. QED
  BY <1>4, <1>5

LEMMA PastOrdered ==
    ASSUME FactsInv, NEW c
    PROVE  Ordered(Past(c)) /\ Bounded(Past(c))
  BY BookOrdered, PartOrdered DEF Past

-----------------------------------------------------------------------------
(* Preparing                                                                 *)

\* The claims of the batch that a claim may continue.
Earlier(b, c) == {d \in b.claims : d.place < c.place /\ fact_key(d) = ContinuedKey(c)}

\* What a claim continues, and what its effect keeps.
ContinuedAs(b, c, e, p, a) ==
    \/ \E d \in Earlier(b, c) :
          /\ \A f \in Earlier(b, c) : f.place <= d.place
          /\ p # NoPrior /\ p.kind = d.kind /\ p.subject = d.subject
          /\ e.prior = [type |-> "effect", ref |-> d.id]
    \/ Earlier(b, c) = {} /\ a = NoFact /\ p = NoPrior /\ e.prior = NoPrior
    \/ /\ Earlier(b, c) = {} /\ a # NoFact /\ p # NoPrior
       /\ p.kind = a.kind /\ p.subject = a.subject
       /\ e.prior = [type |-> "fact", ref |-> a.digest]

LEMMA ContinuedIs ==
    ASSUME NEW b, b.claims \subseteq FactClaims, NEW c \in b.claims
    PROVE  ContinuedAs(b, c, EffectOf(b, c), Continued(b, c),
                       ActiveFact(ContinuedKey(c), b.chapter))
<1> DEFINE earlier == Earlier(b, c)
           a == ActiveFact(ContinuedKey(c), b.chapter)
           p == Continued(b, c)
           e == EffectOf(b, c)
<1>1. e.prior = IF p = NoPrior THEN NoPrior ELSE [type |-> p.type, ref |-> p.ref]
  BY DEF EffectOf
<1>2. NoPrior.type = "none"
  BY DEF NoPrior
<1>3. CASE earlier # {}
  <2> DEFINE T == {d.place : d \in earlier}
             last == CHOOSE d \in earlier : \A f \in earlier : f.place <= d.place
  <2>1. c.place \in Nat /\ \A d \in earlier : d.place \in Nat /\ d.place < c.place
    BY FactAssumption DEF Earlier
  <2>2. T \subseteq Nat /\ T # {} /\ \A n \in T : n <= c.place
    BY <1>3, <2>1
  <2>3. PICK m \in T : \A n \in T : n <= m
    <3> HIDE DEF T
    <3>1. QED
      BY <2>1, <2>2, GreatestBelow
  <2>4. last \in earlier /\ \A f \in earlier : f.place <= last.place
    BY <2>3
  <2>5. p = [type |-> "effect", ref |-> last.id, kind |-> last.kind, subject |-> last.subject]
    BY <1>3 DEF Continued, Earlier
  <2> HIDE DEF last
  <2>6. p # NoPrior /\ p.type = "effect" /\ p.ref = last.id
        /\ p.kind = last.kind /\ p.subject = last.subject
    BY <1>2, <2>5
  <2>7. e.prior = [type |-> "effect", ref |-> last.id]
    BY <1>1, <2>6
  <2>8. QED
    BY <2>4, <2>6, <2>7 DEF ContinuedAs
<1>4. CASE earlier = {}
  <2>1. p = IF a = NoFact THEN NoPrior
            ELSE [type |-> "fact", ref |-> a.digest, kind |-> a.kind, subject |-> a.subject]
    BY <1>4 DEF Continued, Earlier
  <2>3. CASE a = NoFact
    BY <1>1, <1>4, <2>1, <2>3 DEF ContinuedAs
  <2>4. CASE a # NoFact
    <3>1. p # NoPrior /\ p.type = "fact" /\ p.ref = a.digest
          /\ p.kind = a.kind /\ p.subject = a.subject
      BY <1>2, <2>1, <2>4
    <3>2. QED
      BY <1>1, <1>4, <2>4, <3>1 DEF ContinuedAs
  <2>5. QED
    BY <2>3, <2>4
<1>5. QED
  BY <1>3, <1>4

LEMMA EffectKeeps ==
    ASSUME NEW b, NEW c, NEW e, e = EffectOf(b, c)
    PROVE  /\ e.id = c.id /\ e.place = c.place /\ e.kind = c.kind
           /\ e.key = fact_key(c) /\ e.subject = c.subject /\ e.case = CaseOf(b, c)
  BY DEF EffectOf

LEMMA PreparedFits ==
    ASSUME NEW k, NEW C, C \subseteq FactClaims, \A c \in C : c.chapter = k, IsFiniteSet(C),
           NEW b, b.claims = C, \A c \in C : Accepted(b, c),
           NEW X, X = {EffectOf(b, c) : c \in C}
    PROVE  Fits(k, X)
<1>1. IsFiniteSet({e.place : e \in X})
  <2> DEFINE f == [c \in C |-> c.place]
  <2>1. \A c \in C : EffectOf(b, c).place = c.place
    BY EffectKeeps
  <2>2. {e.place : e \in X} = {f[c] : c \in C}
    BY <2>1
  <2>3. DOMAIN f = C
    OBVIOUS
  <2> HIDE DEF f
  <2>4. IsFiniteSet({f[c] : c \in C})
    BY <2>3, FiniteValues
  <2>5. QED
    BY <2>2, <2>4
<1>2. ASSUME NEW e \in X, NEW f \in X, e.place = f.place
      PROVE  e = f
  BY <1>2, EffectKeeps, FactAssumption
<1>3. ASSUME NEW e \in X
      PROVE  /\ e.kind \in Creating => e.key = <<Family[e.kind], <<e.kind, e.id>>>>
             /\ \E c \in FactClaims :
                   /\ c.chapter = k /\ e.id = c.id /\ e.place = c.place
                   /\ e.kind = c.kind /\ e.key = fact_key(c)
  <2>1. PICK c \in C : e = EffectOf(b, c)
    OBVIOUS
  <2>2. e.id = c.id /\ e.place = c.place /\ e.kind = c.kind /\ e.key = fact_key(c)
    BY <2>1, EffectKeeps
  <2>3. ASSUME c.kind \in Creating
        PROVE  fact_key(c) = <<Family[c.kind], <<c.kind, c.id>>>>
    <3>1. DefaultSlot(c) = <<c.kind, c.id>>
      BY <2>3 DEF DefaultSlot, Creating, Ending
    <3>2. c.slot \in {NoSlot, DefaultSlot(c)}
      BY <2>3 DEF Accepted
    <3>3. QED
      BY <3>1, <3>2 DEF fact_key, SlotId
  <2>4. QED
    BY <2>2, <2>3
<1>4. QED
  BY <1>1, <1>2, <1>3 DEF Fits

LEMMA PreparedPlanned ==
    ASSUME NEW k, NEW C, C \subseteq FactClaims, \A c \in C : c.chapter = k,
           NEW b, b.claims = C, b.chapter = k, \A c \in C : Accepted(b, c),
           Ordered(Past(k)), Bounded(Past(k)),
           NEW X, X = {EffectOf(b, c) : c \in C}
    PROVE  Planned(k, X, Past(k), GenesisRecords(gone))
<1> SUFFICES ASSUME NEW e \in X,
                    NEW earlier, earlier = {f \in X : f.place < e.place /\ f.key = e.key},
                    NEW active, active = ActiveIn(e.key, GenesisRecords(gone), Past(k))
             PROVE  IF e.kind = "broken"
                    THEN /\ e.prior.type = "fact" =>
                               \E r \in Past(k) \cup GenesisRecords(gone) : r.digest = e.prior.ref
                         /\ e.prior.type = "effect" => BreaksItsOwn(k)
                    ELSE IF earlier # {}
                    THEN \E f \in earlier :
                            /\ \A h \in earlier : h.place <= f.place
                            /\ Continues(e, [type |-> "effect", ref |-> f.id], f)
                    ELSE IF active = NoFact THEN e.prior = NoPrior /\ e.kind \notin Ending
                    ELSE Continues(e, [type |-> "fact", ref |-> active.digest], active)
  BY DEF Planned
<1>1. PICK c \in C : e = EffectOf(b, c)
  OBVIOUS
<1>2. /\ e.id = c.id /\ e.place = c.place /\ e.kind = c.kind /\ e.key = fact_key(c)
      /\ e.subject = c.subject
  BY <1>1, EffectKeeps
<1>3. PICK p : p = Continued(b, c)
  OBVIOUS
<1>4. PICK before : before = {d \in C : d.place < c.place /\ fact_key(d) = ContinuedKey(c)}
  OBVIOUS
<1>5. PICK a : a = ActiveIn(ContinuedKey(c), GenesisRecords(gone), Past(k))
  OBVIOUS
<1>6. \/ \E d \in before :
            /\ \A f \in before : f.place <= d.place
            /\ p # NoPrior /\ p.kind = d.kind /\ p.subject = d.subject
            /\ e.prior = [type |-> "effect", ref |-> d.id]
      \/ before = {} /\ a = NoFact /\ p = NoPrior /\ e.prior = NoPrior
      \/ /\ before = {} /\ a # NoFact /\ p # NoPrior
       /\ p.kind = a.kind /\ p.subject = a.subject
         /\ e.prior = [type |-> "fact", ref |-> a.digest]
  <2>1. before = Earlier(b, c)
    BY <1>4 DEF Earlier
  <2>2. a = ActiveFact(ContinuedKey(c), b.chapter)
    BY <1>5 DEF ActiveFact, Past
  <2>3. ContinuedAs(b, c, e, p, a)
    BY <1>1, <1>3, <2>2, ContinuedIs
  <2>4. QED
    BY <2>1, <2>3 DEF ContinuedAs
<1>7. CASE e.kind = "broken"
  <2>1. ASSUME e.prior.type = "fact"
        PROVE  \E r \in Past(k) \cup GenesisRecords(gone) : r.digest = e.prior.ref
    <3>1. a # NoFact /\ e.prior.ref = a.digest
      <4>1. \A d \in before : e.prior # [type |-> "effect", ref |-> d.id]
        BY <2>1
      <4>2. e.prior # NoPrior
        BY <2>1 DEF NoPrior
      <4>3. e.prior = [type |-> "fact", ref |-> a.digest] /\ a # NoFact
        BY <1>6, <4>1, <4>2
      <4>4. QED
        BY <4>3
    <3>2. a \in Past(k) \cup GenesisRecords(gone)
      BY <1>5, <3>1, ActiveIs
    <3>3. QED
      BY <3>1, <3>2
  <2>2. ASSUME e.prior.type = "effect"
        PROVE  BreaksItsOwn(k)
    <3>1. before # {}
      <4>1. e.prior # [type |-> "fact", ref |-> a.digest]
        BY <2>2
      <4>2. e.prior # NoPrior
        BY <2>2 DEF NoPrior
      <4>3. QED
        BY <1>6, <4>1, <4>2
    <3>2. QED
      BY <1>2, <1>4, <1>7, <3>1 DEF BreaksItsOwn
  <2>3. QED
    BY <1>7, <2>1, <2>2
<1>8. CASE e.kind # "broken"
  <2>1. ContinuedKey(c) = e.key /\ a = active
    BY <1>2, <1>5, <1>8 DEF ContinuedKey
  <2>2. /\ c.kind \in Ending => p # NoPrior
        /\ MayEnd(c, p)
    BY <1>3 DEF Accepted, Ending, Creating, MayEnd
  <2>3. CASE before # {}
    <3>1. PICK d \in before : /\ \A f \in before : f.place <= d.place
                              /\ p.kind = d.kind /\ p.subject = d.subject
                              /\ e.prior = [type |-> "effect", ref |-> d.id]
      BY <1>6, <2>3
    <3>2. PICK f : f = EffectOf(b, d)
      OBVIOUS
    <3>3. /\ f \in X /\ f.id = d.id /\ f.place = d.place /\ f.kind = d.kind /\ f.key = fact_key(d)
          /\ f.subject = d.subject
      BY <1>4, <3>2, EffectKeeps
    <3>4. f \in earlier
      BY <1>2, <1>4, <2>1, <3>3
    <3>5. ASSUME NEW h \in earlier
          PROVE  h.place <= f.place
      <4>1. PICK g \in C : h = EffectOf(b, g)
        BY <3>5
      <4>2. h.place = g.place /\ h.key = fact_key(g)
        BY <4>1, EffectKeeps
      <4>3. g \in before
        BY <1>2, <1>4, <2>1, <3>5, <4>2
      <4>4. QED
        BY <3>1, <3>3, <4>2, <4>3
    <3>6. Continues(e, [type |-> "effect", ref |-> f.id], f)
      BY <1>2, <2>2, <3>1, <3>3 DEF Continues, MayEnd
    <3>7. QED
      BY <1>8, <3>4, <3>5, <3>6
  <2>4. CASE before = {}
    <3>1. earlier = {}
      <4>1. ASSUME NEW h \in earlier
            PROVE  FALSE
        <5>1. PICK g \in C : h = EffectOf(b, g)
          BY <4>1
        <5>2. h.place = g.place /\ h.key = fact_key(g)
          BY <5>1, EffectKeeps
        <5>3. QED
          BY <1>2, <1>4, <2>1, <2>4, <4>1, <5>2
      <4>2. QED
        BY <4>1
    <3>2. CASE active = NoFact
      BY <1>2, <1>6, <1>8, <2>1, <2>2, <2>4, <3>1, <3>2
    <3>3. CASE active # NoFact
      <4>1. Continues(e, [type |-> "fact", ref |-> active.digest], active)
        BY <1>2, <1>6, <2>1, <2>2, <2>4, <3>3 DEF Continues, MayEnd
      <4>2. QED
        BY <1>8, <3>1, <3>3, <4>1
    <3>4. QED
      BY <3>2, <3>3
  <2>5. QED
    BY <2>3, <2>4
<1>9. QED
  BY <1>7, <1>8

\* Of every kind but an observed presence, what continues a fact becomes a case.
LEMMA PreparedAsked ==
    ASSUME NEW C, C \subseteq FactClaims, NEW b, b.claims = C,
           NEW X, X = {EffectOf(b, c) : c \in C}
    PROVE  Asked(X)
<1> SUFFICES ASSUME NEW e \in X, e.prior # NoPrior, e.kind # "presence"
             PROVE  e.case # "none"
  BY DEF Asked
<1>1. PICK c \in C : e = EffectOf(b, c)
  OBVIOUS
<1>2. e.kind = c.kind /\ e.case = CaseOf(b, c)
  BY <1>1, EffectKeeps
<1>3. Continued(b, c) # NoPrior
  BY <1>1 DEF EffectOf
<1>4. c.kind \in CheckpointKinds \cup Lifecycle
  <2>1. c.kind \in DOMAIN Family
    BY RowsAssumption
  <2>2. QED
    BY <1>2, <2>1 DEF Family, CheckpointKinds, Lifecycle, Creating, Ending
<1>5. SlotCheckpoint(b, c)
  BY <1>3, <1>4 DEF SlotCheckpoint
<1>6. QED
  BY <1>2, <1>5 DEF CaseOf

-----------------------------------------------------------------------------
(* Publishing                                                                *)

\* An effect is known by its id.
LEMMA IdsDiffer ==
    ASSUME NEW k, NEW X, Fits(k, X), NEW e \in X, NEW f \in X, e.id = f.id
    PROVE  e = f
<1>1. PICK c \in FactClaims : e.id = c.id /\ e.place = c.place
  BY ClaimOf
<1>2. PICK d \in FactClaims : f.id = d.id /\ f.place = d.place
  BY ClaimOf
<1>3. e.place = f.place
  BY <1>1, <1>2, FactAssumption
<1>4. QED
  BY <1>3 DEF Fits

\* What is left of a batch stays planned, if no effect loses the one it continues.
LEMMA KeptPlanned ==
    ASSUME NEW k, NEW X, Fits(k, X), NEW past, NEW genesis, Planned(k, X, past, genesis),
           NEW Y, Y \subseteq X,
           \A e \in Y : e.prior.type = "effect" => \E f \in Y : f.id = e.prior.ref
    PROVE  Fits(k, Y) /\ Planned(k, Y, past, genesis)
<1>1. Fits(k, Y)
  <2>1. {e.place : e \in Y} \subseteq {e.place : e \in X} /\ IsFiniteSet({e.place : e \in X})
    BY DEF Fits
  <2>2. IsFiniteSet({e.place : e \in Y})
    BY <2>1, FS_Subset
  <2>3. QED
    BY <2>2 DEF Fits
<1>2. ASSUME NEW e \in X, NEW f \in X, e.id = f.id
      PROVE  e = f
  BY <1>2, IdsDiffer
<1>3. ASSUME NEW e \in Y,
             NEW all, all = {f \in X : f.place < e.place /\ f.key = e.key},
             NEW kept, kept = {f \in Y : f.place < e.place /\ f.key = e.key},
             NEW active, active = ActiveIn(e.key, genesis, past)
      PROVE  IF e.kind = "broken"
             THEN /\ e.prior.type = "fact" => \E r \in past \cup genesis : r.digest = e.prior.ref
                  /\ e.prior.type = "effect" => BreaksItsOwn(k)
             ELSE IF kept # {}
             THEN \E f \in kept :
                     /\ \A h \in kept : h.place <= f.place
                     /\ Continues(e, [type |-> "effect", ref |-> f.id], f)
             ELSE IF active = NoFact THEN e.prior = NoPrior /\ e.kind \notin Ending
             ELSE Continues(e, [type |-> "fact", ref |-> active.digest], active)
  <2>1. e \in X /\ kept \subseteq all
    BY <1>3
  <2>2. IF e.kind = "broken"
        THEN /\ e.prior.type = "fact" => \E r \in past \cup genesis : r.digest = e.prior.ref
             /\ e.prior.type = "effect" => BreaksItsOwn(k)
        ELSE IF all # {}
        THEN \E f \in all :
                /\ \A h \in all : h.place <= f.place
                /\ Continues(e, [type |-> "effect", ref |-> f.id], f)
        ELSE IF active = NoFact THEN e.prior = NoPrior /\ e.kind \notin Ending
        ELSE Continues(e, [type |-> "fact", ref |-> active.digest], active)
    BY <1>3, <2>1 DEF Planned
  <2>3. CASE e.kind # "broken" /\ all # {}
    <3>1. PICK f \in all : /\ \A h \in all : h.place <= f.place
                           /\ Continues(e, [type |-> "effect", ref |-> f.id], f)
      BY <2>2, <2>3
    <3>2. e.prior.type = "effect" /\ e.prior.ref = f.id
      BY <3>1 DEF Continues
    <3>3. f \in Y
      BY <1>2, <1>3, <3>2
    <3>4. f \in kept
      BY <1>3, <3>3
    <3>5. QED
      BY <2>1, <2>3, <3>1, <3>4
  <2>4. CASE e.kind = "broken" \/ all = {}
    BY <2>1, <2>2, <2>4
  <2>5. QED
    BY <2>3, <2>4
<1>4. QED
  BY <1>1, <1>3 DEF Planned

\* A batch that may be published leaves no effect without the one it continues.
LEMMA IncludedKept ==
    ASSUME NEW k, Fits(k, review.effects), Reducible(review),
           NEW Y, Y = {e \in review.effects : e.id \in Included(review)}
    PROVE  \A e \in Y : e.prior.type = "effect" => \E f \in Y : f.id = e.prior.ref
<1> SUFFICES ASSUME NEW e \in Y, e.prior.type = "effect"
             PROVE  \E f \in Y : f.id = e.prior.ref
  OBVIOUS
<1>1. e.prior.ref \in Included(review)
  BY DEF Reducible
<1>2. \A id \in Included(review) : \E f \in review.effects : f.id = id
  BY DEF Included
<1>3. QED
  BY <1>1, <1>2

-----------------------------------------------------------------------------
(* The invariant holds                                                       *)

LEMMA SeqOfItsValues ==
    ASSUME NEW S, NEW t \in Seq(S)
    PROVE  t \in Seq({t[c] : c \in DOMAIN t})
  OBVIOUS

LEMMA InitHolds == FactsInit => FactsInv
<1> SUFFICES ASSUME FactsInit
             PROVE  FactsInv
  OBVIOUS
<1>1. book = << >> /\ DOMAIN book = {} /\ ~Reviewing
  BY DEF FactsInit, Reviewing
<1>2. book \in Seq({book[c] : c \in DOMAIN book})
  BY <1>1
<1>3. QED
  BY <1>1, <1>2 DEF FactsInv

\* The facts of the past are a matter of the book.
LEMMA SameBook ==
    ASSUME UNCHANGED <<book, gone>>, FactsInv
    PROVE  /\ (book \in Seq({book[c] : c \in DOMAIN book}))'
           /\ \A c : Past(c)' = Past(c)
           /\ \A c \in DOMAIN book' :
                 /\ Fits(c, book'[c].effects)
                 /\ Planned(c, book'[c].effects, Past(c)', GenesisRecords(gone)')
<1>1. \A c : Past(c)' = Past(c)
  BY DEF Past, EffectRecords, RecordsOf
<1>2. QED
  BY <1>1 DEF FactsInv

LEMMA PrepareHolds ==
    ASSUME FactsInv, PrepareFacts
    PROVE  FactsInv'
<1>1. UNCHANGED <<book, gone>>
  BY DEF PrepareFacts
<1>k. PICK k \in 1 .. Len(book) + 1 : \E b \in Batches(k) :
          /\ \A c \in b.claims : Accepted(b, c)
          /\ review' = [chapter |-> k, said |-> << >>,
                        effects |-> {EffectOf(b, c) : c \in b.claims}]
  BY DEF PrepareFacts
<1>b. PICK b \in Batches(k) :
          /\ \A c \in b.claims : Accepted(b, c)
          /\ review' = [chapter |-> k, said |-> << >>,
                        effects |-> {EffectOf(b, c) : c \in b.claims}]
  BY <1>k
<1>2. /\ (book \in Seq({book[c] : c \in DOMAIN book}))'
      /\ \A c : Past(c)' = Past(c)
      /\ \A c \in DOMAIN book' :
            /\ Fits(c, book'[c].effects)
            /\ Planned(c, book'[c].effects, Past(c)', GenesisRecords(gone)')
  BY <1>1, SameBook
<1>3. PICK C : /\ b = [chapter |-> k, claims |-> C] /\ C \subseteq FactClaims
               /\ IsFiniteSet(C) /\ \A c \in C : c.chapter = k
  BY DEF Batches
<1>4. b.chapter = k /\ b.claims = C /\ \A c \in C : Accepted(b, c)
  BY <1>3, <1>b
<1>5. PICK X : X = {EffectOf(b, c) : c \in C}
  OBVIOUS
<1>6. review' = [chapter |-> k, said |-> << >>, effects |-> X]
  BY <1>4, <1>5, <1>b
<1>7. Fits(k, X)
  BY <1>3, <1>4, <1>5, PreparedFits
<1>8. Planned(k, X, Past(k), GenesisRecords(gone))
  <2>1. Ordered(Past(k)) /\ Bounded(Past(k))
    BY PastOrdered
  <2>2. QED
    BY <1>3, <1>4, <1>5, <2>1, PreparedPlanned
<1>9. Asked(X)
  BY <1>3, <1>4, <1>5, PreparedAsked
<1>10. /\ review'.chapter = k /\ review'.effects = X
       /\ DOMAIN review' = {"chapter", "said", "effects"}
  BY <1>6
<1>11. Planned(k, X, Past(k)', GenesisRecords(gone)')
  BY <1>1, <1>2, <1>8
<1>12. QED
  BY <1>1, <1>2, <1>7, <1>9, <1>10, <1>11 DEF FactsInv

\* A step that leaves the book and the effects under review as they are.
LEMMA FrameHolds ==
    ASSUME FactsInv, UNCHANGED <<book, gone>>,
           Reviewing' => /\ Reviewing /\ review'.chapter = review.chapter
                         /\ review'.effects = review.effects
                         /\ DOMAIN review' = DOMAIN review
    PROVE  FactsInv'
<1>1. /\ (book \in Seq({book[c] : c \in DOMAIN book}))'
      /\ \A c : Past(c)' = Past(c)
      /\ \A c \in DOMAIN book' :
            /\ Fits(c, book'[c].effects)
            /\ Planned(c, book'[c].effects, Past(c)', GenesisRecords(gone)')
  BY SameBook
<1>2. ASSUME Reviewing', NEW k, k = review.chapter
      PROVE  /\ DOMAIN review' = {"chapter", "said", "effects"}
             /\ k \in 1 .. Len(book) + 1
             /\ Fits(k, review'.effects)
             /\ Planned(k, review'.effects, Past(k)', GenesisRecords(gone)')
             /\ Asked(review'.effects)
  BY <1>1, <1>2 DEF FactsInv
<1>3. QED
  BY <1>1, <1>2 DEF FactsInv

LEMMA DecideHolds ==
    ASSUME FactsInv, DecideFacts
    PROVE  FactsInv'
<1>1. Reviewing /\ UNCHANGED <<book, gone>>
  BY DEF DecideFacts
<1>2. DOMAIN review = {"chapter", "said", "effects"}
  BY <1>1 DEF FactsInv
<1>3. /\ review'.chapter = review.chapter /\ review'.effects = review.effects
      /\ DOMAIN review' = DOMAIN review
  BY <1>2 DEF DecideFacts
<1>4. QED
  BY <1>1, <1>3, FrameHolds

LEMMA PublishHolds ==
    ASSUME FactsInv, PublishFacts, NEW k, k = review.chapter,
           NEW Y, Y = {e \in review.effects : e.id \in Included(review)}
    PROVE  FactsInv'
<1> DEFINE x == [gen |-> generation + 1, effects |-> Y]
<1>1. Reviewing /\ gone' = gone /\ ~Reviewing' /\ Reducible(review)
  BY DEF PublishFacts, ReviewStatus, Reviewing
<1>2. book' = Append(SubSeq(book, 1, k - 1), x)
  BY DEF PublishFacts
<1>3. /\ k \in 1 .. Len(book) + 1 /\ Fits(k, review.effects)
      /\ Planned(k, review.effects, Past(k), GenesisRecords(gone))
  BY <1>1 DEF FactsInv
<1>4. /\ book' \in Seq({book[c] : c \in DOMAIN book} \cup {x})
      /\ DOMAIN book' = 1 .. k /\ book'[k] = x /\ \A c \in 1 .. k - 1 : book'[c] = book[c]
      /\ DOMAIN book = 1 .. Len(book)
  <2>1. book \in Seq({book[c] : c \in DOMAIN book})
    BY DEF FactsInv
  <2> HIDE DEF x
  <2>2. QED
    BY <1>2, <1>3, <2>1, CutAndAppend
<1>5. (book \in Seq({book[c] : c \in DOMAIN book}))'
  <2>1. PICK t, S : t = book' /\ S = {book[c] : c \in DOMAIN book} \cup {x}
    OBVIOUS
  <2>2. t \in Seq(S)
    BY <1>4, <2>1
  <2>3. t \in Seq({t[c] : c \in DOMAIN t})
    BY <2>2, SeqOfItsValues
  <2>4. QED
    BY <2>1, <2>3
<1>6. ASSUME NEW c \in 1 .. k
      PROVE  Past(c)' = Past(c)
  <2>1. \A d, r : r \in RecordsOf(d) => r.chapter = d
    BY DEF RecordsOf
  <2>2. \A d, r : r \in RecordsOf(d)' => r.chapter = d
    BY DEF RecordsOf
  <2>3. \A d \in 1 .. k - 1 : RecordsOf(d)' = RecordsOf(d)
    BY <1>4 DEF RecordsOf
  <2>4. \A d : d \in DOMAIN book /\ d < c <=> d \in DOMAIN book' /\ d < c
    BY <1>3, <1>4
  <2>5. \A d \in DOMAIN book : d < c => d \in 1 .. k - 1
    BY <1>3, <1>4
  <2>6. \A r : r \in Past(c) <=> \E d \in DOMAIN book : d < c /\ r \in RecordsOf(d)
    BY <2>1 DEF Past, EffectRecords
  <2>7. \A r : r \in Past(c)' <=> \E d \in DOMAIN book' : d < c /\ r \in RecordsOf(d)'
    BY <2>2 DEF Past, EffectRecords
  <2>8. \A r : r \in Past(c)' <=> r \in Past(c)
    BY <2>3, <2>4, <2>5, <2>6, <2>7
  <2>9. Past(c)' = {r \in Past(c)' : TRUE} /\ Past(c) = {r \in Past(c) : TRUE}
    BY DEF Past
  <2>10. QED
    BY <2>8, <2>9
<1>7. ASSUME NEW c \in DOMAIN book'
      PROVE  /\ Fits(c, book'[c].effects)
             /\ Planned(c, book'[c].effects, Past(c)', GenesisRecords(gone)')
  <2>1. c \in 1 .. k /\ Past(c)' = Past(c)
    BY <1>4, <1>6, <1>7
  <2>2. CASE c = k
    <3>1. book'[c].effects = Y
      BY <1>4, <2>2
    <3>2. \A e \in Y : e.prior.type = "effect" => \E f \in Y : f.id = e.prior.ref
      BY <1>1, <1>3, IncludedKept
    <3>3. Fits(k, Y) /\ Planned(k, Y, Past(k), GenesisRecords(gone))
      <4>1. Y \subseteq review.effects
        OBVIOUS
      <4>2. QED
        BY <1>3, <3>2, <4>1, KeptPlanned
    <3>4. QED
      BY <1>1, <2>1, <2>2, <3>1, <3>3
  <2>3. CASE c # k
    <3>1. c \in DOMAIN book /\ book'[c] = book[c]
      BY <1>3, <1>4, <2>1, <2>3
    <3>2. QED
      BY <1>1, <2>1, <3>1 DEF FactsInv
  <2>4. QED
    BY <2>2, <2>3
<1>8. QED
  BY <1>1, <1>5, <1>7 DEF FactsInv

LEMMA SupersedeHolds ==
    ASSUME FactsInv, NEW k, Supersede(k)
    PROVE  FactsInv'
<1>1. ~Reviewing' /\ book' = << >> /\ DOMAIN book' = {}
  BY DEF Supersede, Reviewing
<1>2. (book \in Seq({book[c] : c \in DOMAIN book}))'
  BY <1>1
<1>3. QED
  BY <1>1, <1>2 DEF FactsInv

LEMMA StepHolds == FactsInv /\ [FactsNext]_factVars => FactsInv'
<1> SUFFICES ASSUME FactsInv, [FactsNext]_factVars
             PROVE  FactsInv'
  OBVIOUS
<1>1. CASE PrepareFacts
  BY <1>1, PrepareHolds
<1>2. CASE DecideFacts
  BY <1>2, DecideHolds
<1>3. CASE ArchiveFacts
  BY <1>3, FrameHolds DEF ArchiveFacts, Reviewing
<1>4. CASE PublishFacts
  BY <1>4, PublishHolds
<1>5. CASE \E k \in DOMAIN GenesisRows : Supersede(k)
  BY <1>5, SupersedeHolds
<1>6. CASE UNCHANGED factVars
  BY <1>6, FrameHolds DEF factVars, Reviewing
<1>7. QED
  BY <1>1, <1>2, <1>3, <1>4, <1>5, <1>6 DEF FactsNext

\* Every chapter, published or under review, stays as its prepare planned it.
THEOREM FactsInvariant == FactsSpec => []FactsInv
<1>1. QED
  BY InitHolds, StepHolds, PTL DEF FactsSpec

-----------------------------------------------------------------------------
(* The theorems                                                              *)

\* A bound effect finds the exact fact it continues.
LEMMA PriorsAreThere ==
    ASSUME FactsInv, RulesBreakLater, NEW c \in DOMAIN book, NEW e \in book[c].effects
    PROVE  PriorIsThere(FactRecords, c, e)
<1>1. /\ Fits(c, book[c].effects)
      /\ Planned(c, book[c].effects, Past(c), GenesisRecords(gone))
  BY DEF FactsInv
<1>2. Ordered(Past(c)) /\ Bounded(Past(c))
  BY PastOrdered
<1>3. c \in Nat /\ c > 0
  BY DEF FactsInv
<1>4. \A r \in Past(c) \cup GenesisRecords(gone) : r \in FactRecords /\ r.chapter < c
  BY <1>3, RowOf DEF Past, FactRecords
<1>5. ~BreaksItsOwn(c)
  BY <1>1, ClaimOf DEF RulesBreakLater
<1> DEFINE earlier == {f \in book[c].effects : f.place < e.place /\ f.key = e.key}
           active == ActiveIn(e.key, GenesisRecords(gone), Past(c))
<1>6. IF e.kind = "broken"
      THEN /\ e.prior.type = "fact" =>
                 \E r \in Past(c) \cup GenesisRecords(gone) : r.digest = e.prior.ref
           /\ e.prior.type = "effect" => BreaksItsOwn(c)
      ELSE IF earlier # {}
      THEN \E f \in earlier : e.prior = [type |-> "effect", ref |-> f.id]
      ELSE IF active = NoFact THEN e.prior = NoPrior
      ELSE e.prior = [type |-> "fact", ref |-> active.digest]
  BY <1>1 DEF Planned, Continues
<1>7. ASSUME e.prior.type = "fact"
      PROVE  \E r \in Past(c) \cup GenesisRecords(gone) : r.digest = e.prior.ref
  <2>1. CASE e.kind = "broken"
    BY <1>6, <1>7, <2>1
  <2>2. CASE e.kind # "broken"
    <3>1. \A f \in earlier : e.prior # [type |-> "effect", ref |-> f.id]
      BY <1>7
    <3>2. e.prior # NoPrior
      BY <1>7 DEF NoPrior
    <3>3. active # NoFact /\ e.prior = [type |-> "fact", ref |-> active.digest]
      BY <1>6, <2>2, <3>1, <3>2
    <3>4. active \in Past(c) \cup GenesisRecords(gone)
      BY <1>2, <3>3, ActiveIs
    <3>5. e.prior.ref = active.digest
      BY <3>3
    <3>6. QED
      BY <3>4, <3>5
  <2>3. QED
    BY <2>1, <2>2
<1>8. ASSUME e.prior.type = "effect"
      PROVE  \E f \in earlier : f.id = e.prior.ref
  <2>1. e.prior # [type |-> "fact", ref |-> active.digest]
    BY <1>8
  <2>2. e.prior # NoPrior
    BY <1>8 DEF NoPrior
  <2>3. PICK f \in earlier : e.prior = [type |-> "effect", ref |-> f.id]
    BY <1>5, <1>6, <1>8, <2>1, <2>2
  <2>4. QED
    BY <2>3
<1>9. QED
  BY <1>4, <1>7, <1>8 DEF PriorIsThere

\* If no chapter breaks a rule that it reveals, the projection of every published HEAD
\* can be folded: whatever was left out of a batch, revised or superseded, each effect
\* finds the exact fact it continues (projection.py raises otherwise).
THEOREM HeadsFold == RulesBreakLater => (FactsSpec => []EveryHeadFolds)
<1> SUFFICES ASSUME RulesBreakLater
             PROVE  FactsSpec => []EveryHeadFolds
  OBVIOUS
<1>1. FactsInv => EveryHeadFolds
  BY PriorsAreThere DEF EveryHeadFolds, HeadFolds
<1>2. QED
  BY <1>1, FactsInvariant, PTL

\* What stands before an effect in its slot.
BeforeIt(c, e) == {r \in EffectRecords : r.chapter < c \/ (r.chapter = c /\ r.index < e.place)}

Last(c, e) == ActiveIn(e.key, GenesisRecords(gone), BeforeIt(c, e))

\* The fold has before an effect the very fact that its prepare bound it to.
LEMMA LastIs ==
    ASSUME FactsInv, NEW c \in DOMAIN book, NEW e \in book[c].effects, e.kind # "broken"
    PROVE  \/ \E f \in book[c].effects :
                 /\ Last(c, e) # NoFact /\ Last(c, e).chapter = c /\ f.place = Last(c, e).index
                 /\ Continues(e, [type |-> "effect", ref |-> f.id], Last(c, e))
           \/ Last(c, e) = NoFact /\ e.prior = NoPrior /\ e.kind \notin Ending
           \/ /\ Last(c, e) # NoFact /\ Last(c, e).chapter # c
              /\ Continues(e, [type |-> "fact", ref |-> Last(c, e).digest], Last(c, e))
<1>1. /\ Fits(c, book[c].effects)
      /\ Planned(c, book[c].effects, Past(c), GenesisRecords(gone))
  BY DEF FactsInv
<1> DEFINE earlier == {f \in book[c].effects : f.place < e.place /\ f.key = e.key}
           active == ActiveIn(e.key, GenesisRecords(gone), Past(c))
           last == Last(c, e)
           E == {r \in BeforeIt(c, e) : r.key = e.key}
<1>2. IF earlier # {}
      THEN \E f \in earlier :
              /\ \A h \in earlier : h.place <= f.place
              /\ Continues(e, [type |-> "effect", ref |-> f.id], f)
      ELSE IF active = NoFact THEN e.prior = NoPrior /\ e.kind \notin Ending
      ELSE Continues(e, [type |-> "fact", ref |-> active.digest], active)
  BY <1>1 DEF Planned
<1>3. CASE earlier # {}
  <2>1. PICK f \in earlier : /\ \A h \in earlier : h.place <= f.place
                             /\ Continues(e, [type |-> "effect", ref |-> f.id], f)
    BY <1>2, <1>3
  <2>2. PICK r : r = Record(c, f)
    OBVIOUS
  <2>3. r.chapter = c /\ r.index = f.place /\ r.key = f.key /\ r.kind = f.kind
        /\ r.subject = f.subject
    BY <2>2 DEF Record
  <2>4. r \in E
    BY <2>2, <2>3, RecordsAre DEF BeforeIt
  <2>5. ASSUME NEW s \in E \ {r}
        PROVE  Before(s, r)
    <3>1. s \in EffectRecords /\ s.key = e.key
      BY DEF BeforeIt
    <3>2. CASE s.chapter < c
      BY <2>3, <3>2 DEF Before
    <3>3. CASE ~(s.chapter < c)
      <4>1. s.chapter = c /\ s.index < e.place
        BY <3>3 DEF BeforeIt
      <4>2. PICK h \in book[c].effects : s = Record(c, h)
        BY <3>1, <4>1, RecordsAre DEF Record
      <4>3. s.index = h.place /\ s.key = h.key
        BY <4>2 DEF Record
      <4>4. h.place <= f.place
        BY <2>1, <3>1, <4>1, <4>3
      <4>5. h # f
        BY <2>2, <4>2
      <4>6. h.place # f.place
        BY <1>1, <4>5 DEF Fits
      <4>7. h.place \in Nat /\ f.place \in Nat
        BY <1>1, ClaimOf
      <4>8. QED
        BY <2>3, <4>1, <4>3, <4>4, <4>6, <4>7 DEF Before
    <3>4. QED
      BY <3>2, <3>3
  <2>6. Ordered(E)
    BY BookOrdered DEF BeforeIt, Ordered
  <2>7. Latest(E) = r
    <3> HIDE DEF E
    <3>1. QED
      BY <2>4, <2>5, <2>6, OnlyLatest
  <2>8. last = r
    BY <2>4, <2>7 DEF ActiveIn, Last
  <2>9. last # NoFact
    BY <2>2, <2>8, RecordIsFact
  <2>10. QED
    BY <2>1, <2>3, <2>8, <2>9 DEF Continues, MayEnd
<1>4. CASE earlier = {}
  <2>1. E = {r \in Past(c) : r.key = e.key}
    <3>1. ASSUME NEW r \in EffectRecords, r.chapter = c, r.index < e.place
          PROVE  r.key # e.key
      <4>1. PICK h \in book[c].effects : r = Record(c, h)
        BY <3>1, RecordsAre DEF Record
      <4>2. r.index = h.place /\ r.key = h.key
        BY <4>1 DEF Record
      <4>3. QED
        BY <1>4, <3>1, <4>2
    <3>2. QED
      BY <3>1 DEF BeforeIt, Past
  <2>2. last = active
    BY <2>1, SameSlot DEF Last
  <2>3. ASSUME last # NoFact
        PROVE  last.chapter # c
    <3>1. Ordered(Past(c)) /\ Bounded(Past(c))
      BY PastOrdered
    <3>2. active \in Past(c) \/ active \in GenesisRecords(gone)
      BY <2>2, <2>3, <3>1, ActiveIs
    <3>3. c \in Nat /\ c > 0
      BY DEF FactsInv
    <3>4. \A r \in Past(c) : r.chapter \in Nat /\ r.chapter < c
      BY <3>1 DEF Past, Ordered
    <3>5. QED
      BY <2>2, <3>2, <3>3, <3>4, RowOf
  <2>4. QED
    BY <1>2, <1>4, <2>2, <2>3
<1>5. QED
  BY <1>3, <1>4

\* The facts of one slot are one line: an effect continues the very fact that the fold
\* of HEAD has before it, and only the first one of a slot continues none.
THEOREM SlotsStayLines == FactsSpec => []SlotsAreLines
<1>1. ASSUME FactsInv, NEW c \in DOMAIN book, NEW e \in book[c].effects, e.kind # "broken"
      PROVE  IF Last(c, e) = NoFact THEN e.prior = NoPrior
             ELSE IF Last(c, e).chapter = c
                  THEN \E f \in book[c].effects :
                          /\ f.place = Last(c, e).index
                          /\ e.prior = [type |-> "effect", ref |-> f.id]
             ELSE e.prior = [type |-> "fact", ref |-> Last(c, e).digest]
  BY <1>1, LastIs DEF Continues
<1>2. FactsInv => SlotsAreLines
  BY <1>1 DEF SlotsAreLines, BeforeIt, Last
<1>3. QED
  BY <1>2, FactsInvariant, PTL

\* A record of the book is that of an effect of its chapter.
LEMMA EffectOfRecord ==
    ASSUME FactsInv, NEW r \in EffectRecords
    PROVE  /\ r # NoFact /\ r.kind \in DOMAIN Family /\ r.key[1] = Family[r.kind]
           /\ \E c \in DOMAIN book : \E e \in book[c].effects :
                 /\ r = Record(c, e) /\ r.chapter = c /\ r.index = e.place
                 /\ r.key = e.key /\ r.kind = e.kind /\ r.subject = e.subject
                 /\ r.kind \in Creating => r.key = <<Family[e.kind], <<e.kind, e.id>>>>
                 /\ \E d \in FactClaims : d.chapter = c /\ d.id = e.id /\ d.place = e.place
                                        /\ d.kind = e.kind
<1>1. PICK c \in DOMAIN book : \E e \in book[c].effects : r = Record(c, e)
  BY RecordsAre
<1>2. PICK e \in book[c].effects : r = Record(c, e)
  BY <1>1
<1>3. /\ r.chapter = c /\ r.index = e.place
      /\ r.key = e.key /\ r.kind = e.kind /\ r.subject = e.subject
  BY <1>2 DEF Record
<1>4. Fits(c, book[c].effects)
  BY DEF FactsInv
<1>5. /\ e.kind \in DOMAIN Family /\ e.key[1] = Family[e.kind]
      /\ \E d \in FactClaims : d.chapter = c /\ d.id = e.id /\ d.place = e.place
                             /\ d.kind = e.kind
  <2>1. e.kind \in DOMAIN Family /\ e.key[1] = Family[e.kind]
    BY <1>4, ClaimOf
  <2>2. PICK d \in FactClaims : /\ d.chapter = c /\ e.id = d.id /\ e.place = d.place
                                /\ e.kind = d.kind /\ e.key = fact_key(d)
    BY <1>4 DEF Fits
  <2>3. QED
    BY <2>1, <2>2
<1>6. e.kind \in Creating => e.key = <<Family[e.kind], <<e.kind, e.id>>>>
  BY <1>4 DEF Fits
<1>7. r # NoFact
  BY <1>2, RecordIsFact
<1>8. QED
  BY <1>2, <1>3, <1>5, <1>6, <1>7

\* No two effects create one slot, and no fact of the genesis holds it.
LEMMA CreatedOnce ==
    ASSUME FactsInv, NEW r \in EffectRecords, r.kind \in Creating
    PROVE  /\ \A s \in EffectRecords : s.kind \in Creating /\ s.key = r.key => s = r
           /\ \A g \in GenesisRecords(gone) : g.key # r.key
<1>1. PICK c, e, d :
         /\ c \in DOMAIN book /\ e \in book[c].effects /\ d \in FactClaims
         /\ r.chapter = c /\ r.index = e.place /\ r.kind = e.kind
         /\ r.key = <<Family[e.kind], <<e.kind, e.id>>>>
         /\ d.chapter = c /\ d.id = e.id /\ d.place = e.place /\ d.kind = e.kind
  BY EffectOfRecord
<1>2. ASSUME NEW s \in EffectRecords, s.kind \in Creating, s.key = r.key
      PROVE  s = r
  <2>1. PICK k, f, h :
           /\ k \in DOMAIN book /\ f \in book[k].effects /\ h \in FactClaims
           /\ s.chapter = k /\ s.index = f.place /\ s.kind = f.kind
           /\ s.key = <<Family[f.kind], <<f.kind, f.id>>>>
           /\ h.chapter = k /\ h.id = f.id /\ h.place = f.place /\ h.kind = f.kind
    BY <1>2, EffectOfRecord
  <2>2. e.id = f.id
    BY <1>1, <1>2, <2>1
  <2>3. d = h
    BY <1>1, <2>1, <2>2, FactAssumption
  <2>4. s.chapter = r.chapter /\ s.index = r.index
    BY <1>1, <2>1, <2>3
  <2>5. QED
    BY <2>4, BookOrdered DEF Ordered
<1>3. ASSUME NEW g \in GenesisRecords(gone)
      PROVE  g.key # r.key
  <2>1. PICK k \in DOMAIN GenesisRows : g.key = GenesisRows[k].key
    BY RowOf
  <2>2. r.key = <<Family[d.kind], <<d.kind, d.id>>>> /\ d.kind \in Creating /\ d \in FactClaims
    BY <1>1
  <2>3. GenesisRows[k].key # <<Family[d.kind], <<d.kind, d.id>>>>
    BY <2>2, RowsAssumption
  <2>4. QED
    BY <2>1, <2>2, <2>3
<1>4. QED
  BY <1>2, <1>3

\* What ends has before it what was created.
LEMMA EndingAfterCreation ==
    ASSUME FactsInv, NEW r \in EffectRecords, r.kind \in Ending
    PROVE  LET B == {s \in EffectRecords : Before(s, r) /\ s.key = r.key} IN
           \/ /\ B # {} /\ Latest(B) \in B /\ MayEnd(r, Latest(B))
              /\ \A s \in B \ {Latest(B)} : Before(s, Latest(B))
           \/ B = {} /\ \E g \in GenesisRecords(gone) : g.key = r.key /\ MayEnd(r, g)
<1> DEFINE B == {s \in EffectRecords : Before(s, r) /\ s.key = r.key}
<1>1. PICK c, e :
         /\ c \in DOMAIN book /\ e \in book[c].effects
         /\ r.chapter = c /\ r.index = e.place
         /\ r.key = e.key /\ r.kind = e.kind /\ r.subject = e.subject
  BY EffectOfRecord
<1>2. BeforeIt(c, e) = {s \in EffectRecords : Before(s, r)}
  BY <1>1 DEF BeforeIt, Before
<1>3. B = {s \in BeforeIt(c, e) : s.key = e.key}
  BY <1>1, <1>2
<1>4. Ordered(BeforeIt(c, e)) /\ Bounded(BeforeIt(c, e))
  BY BookOrdered, PartOrdered DEF BeforeIt
<1>5. e.kind # "broken" /\ e.kind \in Ending
  BY <1>1 DEF Ending
<1>6. Last(c, e) # NoFact /\ MayEnd(r, Last(c, e))
  <2>1. Last(c, e) # NoFact /\ MayEnd(e, Last(c, e))
    BY <1>1, <1>5, LastIs DEF Continues
  <2>2. QED
    BY <1>1, <2>1 DEF MayEnd
<1>7. \/ /\ B # {} /\ Last(c, e) = Latest(B) /\ Last(c, e) \in B
         /\ \A s \in B \ {Last(c, e)} : Before(s, Last(c, e))
      \/ /\ B = {}
         /\ Last(c, e) \in {g \in GenesisRecords(gone) : g.key = e.key /\ Holds(g)}
  <2> DEFINE G == {g \in GenesisRecords(gone) : g.key = e.key /\ Holds(g)}
             E == {s \in BeforeIt(c, e) : s.key = e.key}
             a == Last(c, e)
  <2>1. \/ E # {} /\ a = Latest(E) /\ a \in E /\ \A s \in E \ {a} : Before(s, a)
        \/ E = {} /\ G # {} /\ a \in G
        \/ E = {} /\ G = {} /\ a = NoFact
    BY <1>4, ActiveIs DEF Last
  <2>2. B = E
    BY <1>3
  <2> HIDE DEF B, E
  <2>3. QED
    BY <1>6, <2>1, <2>2
<1>8. CASE B = {}
  BY <1>1, <1>6, <1>7, <1>8
<1>9. CASE B # {}
  <2> HIDE DEF B
  <2>1. B # {} /\ Latest(B) \in B /\ MayEnd(r, Latest(B))
    BY <1>6, <1>7, <1>9
  <2>2. \A s \in B \ {Latest(B)} : Before(s, Latest(B))
    BY <1>7, <1>9
  <2>3. QED
    BY <2>1, <2>2 DEF B
<1>10. QED
  BY <1>8, <1>9

\* A promise is paid off and an open loop closed at most once at every HEAD, after it was
\* made, and a promise by whom it binds.
THEOREM NothingEndsTwiceHolds == FactsSpec => []NothingEndsTwice
<1>1. ASSUME FactsInv, NEW r \in EffectRecords, NEW s \in EffectRecords,
             r.kind \in Ending, s.kind \in Ending, r.key = s.key, Before(r, s)
      PROVE  FALSE
  <2> DEFINE B(x) == {y \in EffectRecords : Before(y, x) /\ y.key = x.key}
  <2>1. r \in B(s)
    BY <1>1
  <2>2. PICK m \in B(s) : m.kind \in Creating /\ \A y \in B(s) \ {m} : Before(y, m)
    <3>1. \/ /\ B(s) # {} /\ Latest(B(s)) \in B(s) /\ Latest(B(s)).kind \in Creating
             /\ \A y \in B(s) \ {Latest(B(s))} : Before(y, Latest(B(s)))
          \/ B(s) = {} /\ \E g \in GenesisRecords(gone) : g.key = s.key
      BY <1>1, EndingAfterCreation DEF MayEnd
    <3> HIDE DEF B
    <3>2. QED
      BY <2>1, <3>1
  <2>3. m \in EffectRecords /\ m.key = r.key /\ Before(r, m)
    <3>1. r # m
      BY <1>1, <2>2 DEF Creating, Ending
    <3>2. QED
      BY <1>1, <2>1, <2>2, <3>1
  <2>4. \E n \in EffectRecords : n.kind \in Creating /\ n.key = r.key /\ Before(n, r)
    <3>1. \/ /\ B(r) # {} /\ Latest(B(r)) \in B(r) /\ Latest(B(r)).kind \in Creating
             /\ \A y \in B(r) \ {Latest(B(r))} : Before(y, Latest(B(r)))
          \/ B(r) = {} /\ \E g \in GenesisRecords(gone) : g.key = r.key
      BY <1>1, EndingAfterCreation DEF MayEnd
    <3>2. \A g \in GenesisRecords(gone) : g.key # r.key
      BY <1>1, <2>2, <2>3, CreatedOnce
    <3>3. PICK n : n \in B(r) /\ n.kind \in Creating
      BY <3>1, <3>2
    <3>4. QED
      BY <3>3
  <2>5. PICK n \in EffectRecords : n.kind \in Creating /\ n.key = r.key /\ Before(n, r)
    BY <2>4
  <2>6. n = m
    BY <1>1, <2>2, <2>3, <2>5, CreatedOnce
  <2>7. /\ r.chapter \in Nat /\ r.index \in Nat
        /\ m.chapter \in Nat /\ m.index \in Nat
    BY <1>1, <2>3, BookOrdered DEF Ordered
  <2>8. QED
    BY <2>3, <2>5, <2>6, <2>7 DEF Before
<1>2. ASSUME FactsInv, NEW r \in EffectRecords, NEW s \in EffectRecords, r # s
      PROVE  Before(r, s) \/ Before(s, r)
  <2>1. /\ r.chapter \in Nat /\ r.index \in Nat
        /\ s.chapter \in Nat /\ s.index \in Nat
        /\ ~(r.chapter = s.chapter /\ r.index = s.index)
    BY <1>2, BookOrdered DEF Ordered
  <2>2. QED
    BY <2>1 DEF Before
<1>3. ASSUME FactsInv, NEW r \in EffectRecords, r.kind \in Ending
      PROVE  \E s \in EffectRecords \cup GenesisRecords(gone) :
                s.key = r.key /\ Before(s, r) /\ MayEnd(r, s)
  <2> DEFINE B == {y \in EffectRecords : Before(y, r) /\ y.key = r.key}
  <2>1. \/ Latest(B) \in B /\ MayEnd(r, Latest(B))
        \/ \E g \in GenesisRecords(gone) : g.key = r.key /\ MayEnd(r, g)
    BY <1>3, EndingAfterCreation
  <2>2. \A g \in GenesisRecords(gone) : Before(g, r)
    <3>1. r.chapter \in Nat /\ r.chapter > 0
      BY <1>3, BookOrdered, EffectOfRecord DEF Ordered, FactsInv
    <3>2. QED
      BY <3>1, RowOf DEF Before
  <2>3. CASE Latest(B) \in B /\ MayEnd(r, Latest(B))
    BY <2>3
  <2>4. QED
    BY <2>1, <2>2, <2>3
<1>4. FactsInv => NothingEndsTwice
  BY <1>1, <1>2, <1>3 DEF NothingEndsTwice, MayEnd
<1>5. QED
  BY <1>4, FactsInvariant, PTL

\* The families of what is created and ended are no other's.
LEMMA FamiliesApart ==
    \A k, l \in DOMAIN Family :
        Family[k] = Family[l] /\ k \in Lifecycle => l \in Lifecycle
  BY DEF Family, Lifecycle, Creating, Ending

\* What a reader is told is still owed after a chapter is what the next chapter may pay
\* off or close: the two are computed by different code from different records.
THEOREM OwedIsPayableHolds == FactsSpec => []OwedIsPayable
<1>1. ASSUME FactsInv, NEW asof,
             NEW past, past = {r \in EffectRecords : r.chapter <= asof}
      PROVE  OpenForReaders(asof) =
                {key \in {r.key : r \in FactRecords} :
                    /\ ActiveIn(key, GenesisRecords(gone), past) # NoFact
                    /\ ActiveIn(key, GenesisRecords(gone), past).kind \in Creating}
  <2> DEFINE a(key) == ActiveIn(key, GenesisRecords(gone), past)
             E(key) == {r \in past : r.key = key}
             G(key) == {g \in GenesisRecords(gone) : g.key = key /\ Holds(g)}
  <2>1. Ordered(past) /\ Bounded(past)
    BY <1>1, BookOrdered, PartOrdered
  <2>2. \A key : \/ E(key) # {} /\ a(key) = Latest(E(key)) /\ a(key) \in E(key)
                    /\ \A s \in E(key) \ {a(key)} : Before(s, a(key))
                 \/ E(key) = {} /\ G(key) # {} /\ a(key) \in G(key)
                 \/ E(key) = {} /\ G(key) = {} /\ a(key) = NoFact
    BY <2>1, ActiveIs
  <2>3. ASSUME NEW r \in LifecycleLatest(asof), r.kind \in Creating
        PROVE  r \in FactRecords /\ a(r.key) # NoFact /\ a(r.key).kind \in Creating
    <3>1. r \in past /\ r \in EffectRecords
      BY <1>1 DEF LifecycleLatest
    <3>2. ASSUME NEW s \in E(r.key)
          PROVE  ~Before(r, s)
      <4>1. s \in EffectRecords /\ s.key = r.key /\ s.chapter <= asof
        BY <1>1
      <4>2. s.kind \in Lifecycle
        BY <1>1, <2>3, <3>1, <4>1, EffectOfRecord, FamiliesApart DEF Lifecycle
      <4>3. QED
        BY <4>1, <4>2 DEF LifecycleLatest
    <3>3. a(r.key) = r
      <4>1. r \in E(r.key)
        BY <3>1
      <4>2. a(r.key) \in E(r.key) /\ \A s \in E(r.key) \ {a(r.key)} : Before(s, a(r.key))
        BY <2>2, <4>1
      <4>3. QED
        BY <3>2, <4>1, <4>2
    <3>4. QED
      BY <1>1, <2>3, <3>1, <3>3, EffectOfRecord DEF FactRecords
  <2>4. ASSUME NEW g \in GenesisObligations,
               \A s \in EffectRecords : s.chapter <= asof => s.key # g.key
        PROVE  g \in FactRecords /\ a(g.key) # NoFact /\ a(g.key).kind \in Creating
    <3>1. g \in GenesisRecords(gone) /\ g.kind \in Creating
          /\ g.row.list \in {"obligations", "hard_constraints"}
      BY DEF GenesisObligations
    <3>2. PICK k \in DOMAIN GenesisRows : /\ g.row = GenesisRows[k] /\ g.key = GenesisRows[k].key
                                          /\ g.kind = GenesisRows[k].kind
      BY <3>1, RowOf
    <3>3. g \in G(g.key)
      BY <3>1, <3>2, RowsAssumption DEF Holds, Lifecycle
    <3>4. a(g.key) \in G(g.key)
      BY <1>1, <2>2, <2>4, <3>3
    <3>5. PICK h : h = a(g.key)
      OBVIOUS
    <3>6. PICK l \in DOMAIN GenesisRows : /\ h.row = GenesisRows[l] /\ h.key = GenesisRows[l].key
                                          /\ h.kind = GenesisRows[l].kind /\ h # NoFact
      BY <3>4, <3>5, RowOf
    <3>7. h.key = g.key /\ Holds(h)
      BY <3>4, <3>5
    <3>8. h.kind \in Lifecycle
      BY <3>1, <3>2, <3>6, <3>7, RowsAssumption, FamiliesApart DEF Lifecycle
    <3>9. h.kind \in Creating
      BY <3>6, <3>7, <3>8, RowsAssumption DEF Holds
    <3>10. QED
      BY <3>1, <3>5, <3>6, <3>9 DEF FactRecords
  <2>5. ASSUME NEW key, a(key) # NoFact, a(key).kind \in Creating
        PROVE  \/ \E r \in LifecycleLatest(asof) : r.kind \in Creating /\ r.key = key
               \/ \E g \in GenesisObligations :
                     /\ g.key = key
                     /\ \A s \in EffectRecords : s.chapter <= asof => s.key # g.key
    <3>1. PICK h : h = a(key)
      OBVIOUS
    <3>2. CASE E(key) # {}
      <4>1. h \in E(key) /\ \A s \in E(key) \ {h} : Before(s, h)
        BY <2>2, <3>1, <3>2
      <4>2. h \in EffectRecords /\ h.chapter <= asof /\ h.key = key
        BY <1>1, <4>1
      <4>3. ASSUME NEW s \in EffectRecords, s.chapter <= asof, s.key = key
            PROVE  ~Before(h, s)
        <5>1. s \in E(key)
          BY <1>1, <4>3
        <5>2. s = h \/ Before(s, h)
          BY <4>1, <5>1
        <5>3. /\ s.chapter \in Nat /\ s.index \in Nat
              /\ h.chapter \in Nat /\ h.index \in Nat
          BY <1>1, <4>2, <4>3, BookOrdered DEF Ordered
        <5>4. QED
          BY <5>2, <5>3 DEF Before
      <4>4. h \in LifecycleLatest(asof)
        BY <2>5, <3>1, <4>2, <4>3 DEF LifecycleLatest, Lifecycle
      <4>5. QED
        BY <2>5, <3>1, <4>2, <4>4
    <3>3. CASE E(key) = {}
      <4>1. h \in GenesisRecords(gone) /\ h.key = key /\ Holds(h)
        BY <2>2, <2>5, <3>1, <3>3
      <4>2. h \in GenesisObligations
        BY <2>5, <3>1, <4>1 DEF Holds, Lifecycle, GenesisObligations
      <4>3. \A s \in EffectRecords : s.chapter <= asof => s.key # key
        BY <1>1, <3>3
      <4>4. QED
        BY <4>1, <4>2, <4>3
    <3>4. QED
      BY <3>2, <3>3
  <2>6. \A r \in LifecycleLatest(asof) \cup GenesisObligations : r \in FactRecords
    BY DEF LifecycleLatest, GenesisObligations, FactRecords
  <2> HIDE DEF a
  <2>7. \A key : key \in OpenForReaders(asof) <=>
                  \/ \E r \in LifecycleLatest(asof) : r.kind \in Creating /\ r.key = key
                  \/ \E g \in GenesisObligations :
                        /\ g.key = key
                        /\ \A s \in EffectRecords : s.chapter <= asof => s.key # g.key
    BY DEF OpenForReaders
  <2>8. \A key : key \in OpenForReaders(asof) <=>
                  /\ key \in {r.key : r \in FactRecords}
                  /\ a(key) # NoFact /\ a(key).kind \in Creating
    BY <2>3, <2>4, <2>5, <2>6, <2>7
  <2>9. OpenForReaders(asof) = {key \in {r.key : r \in FactRecords} :
                                   a(key) # NoFact /\ a(key).kind \in Creating}
    <3>1. OpenForReaders(asof) = {key \in OpenForReaders(asof) : TRUE}
      BY DEF OpenForReaders
    <3>2. QED
      BY <2>8, <3>1
  <2>10. QED
    BY <2>9 DEF a
<1>2. FactsInv => OwedIsPayable
  BY <1>1 DEF OwedIsPayable
<1>3. QED
  BY <1>2, FactsInvariant, PTL

\* No effect ends or replaces a fact of an earlier chapter unless the author has seen and
\* approved it; only where somebody is changes without being asked for.
THEOREM NothingEndsUnseenHolds == FactsSpec => NothingEndsUnseen
<1>1. ASSUME FactsInv, [FactsNext]_factVars, Reviewing, generation' # generation,
             NEW k, k = review.chapter, NEW e \in book'[k].effects,
             e.prior # NoPrior, e.kind # "presence"
      PROVE  e.id \in DOMAIN review.said /\ review.said[e.id] = "approve"
  <2>1. PublishFacts
    BY <1>1 DEF FactsNext, factVars, PrepareFacts, DecideFacts, ArchiveFacts, Supersede
  <2>2. PICK Y : Y = {f \in review.effects : f.id \in Included(review)}
    OBVIOUS
  <2>3. book'[k].effects = Y
    <3> DEFINE x == [gen |-> generation + 1, effects |-> Y]
    <3>1. book' = Append(SubSeq(book, 1, k - 1), x)
      BY <1>1, <2>1, <2>2 DEF PublishFacts
    <3>2. /\ k \in 1 .. Len(book) + 1
          /\ book \in Seq({book[c] : c \in DOMAIN book})
      BY <1>1 DEF FactsInv
    <3>3. book'[k] = x
      <4> HIDE DEF x
      <4>1. QED
        BY <3>1, <3>2, CutAndAppend
    <3>4. QED
      BY <3>3
  <2>4. e \in review.effects /\ e.id \in Included(review)
    BY <1>1, <2>2, <2>3
  <2>5. PICK f \in review.effects :
           /\ f.id = e.id
           /\ f.case # "none" => f.id \in DOMAIN review.said /\ review.said[f.id] = "approve"
    BY <2>4 DEF Included
  <2>6. f = e
    BY <1>1, <2>4, <2>5, IdsDiffer DEF FactsInv
  <2>7. e.case # "none"
    BY <1>1, <2>4 DEF FactsInv, Asked
  <2>8. QED
    BY <2>5, <2>6, <2>7
<1>2. FactsInv /\ [FactsNext]_factVars =>
         [ Reviewing /\ generation' # generation =>
              \A e \in book'[review.chapter].effects :
                 e.prior # NoPrior /\ e.kind # "presence" =>
                    e.id \in DOMAIN review.said /\ review.said[e.id] = "approve" ]_factVars
  BY <1>1
<1>3. QED
  BY <1>2, FactsInvariant, PTL DEF FactsSpec, NothingEndsUnseen
=============================================================================
