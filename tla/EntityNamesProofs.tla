------------------------- MODULE EntityNamesProofs -------------------------
(***************************************************************************)
(* The names of EntityNames, for every genesis, every set of claims, every *)
(* spelling and batches of any size: a name that nobody chose for has one  *)
(* bearer, an identity stays findable under the name it was used by, and   *)
(* of two namesakes one was chosen.                                        *)
(*                                                                         *)
(* A chapter was planned against the registry of the chapters before it    *)
(* and none of those changes without dropping it, so that the invariant    *)
(* can say of every chapter which plan its effects come from.              *)
(***************************************************************************)
EXTENDS EntityNames, TLAPS

-----------------------------------------------------------------------------
(* The invariant                                                             *)

Batch(chapter) == SUBSET {c \in NameClaims : c.chapter = chapter}

\* E is what an approval left of the plan of the batch B.
Approved(R, B, E) ==
    /\ Nameable(R, B)
    /\ \A c \in B : NameCase(R, B, c) # "rewrite"
    /\ \A e \in E : \E c \in B : e = NamedEffect(R, B, c)
    /\ \A c \in Registrations(B) : NamedEffect(R, B, c) \in E

\* Every identity of the registry is bound under its own name too.
SelfBound(R) ==
    \A b \in R :
        [ns |-> b.ns, key |-> normalize_alias_key(b.canonical), canonical |-> b.canonical] \in R

\* Each pair of namesakes before the chapter has its reason before the chapter.
ChosenBefore(chapter, b) ==
    \E c \in 1 .. chapter - 1 :
        \E e \in named[c] : (e.new \/ e.link # NoLink) /\ b \in Bindings(e)

Explained(chapter) ==
    \A b, d \in Registry(chapter) :
        b.ns = d.ns /\ b.key = d.key =>
          \/ b.canonical = d.canonical
          \/ ChosenBefore(chapter, b) \/ ChosenBefore(chapter, d)
          \/ {b, d} \subseteq GenesisNames
          \/ \E c \in 1 .. chapter - 1 : SpelledInTwoWays(c, b, d)

NamesInv ==
    /\ named \in Seq({named[i] : i \in DOMAIN named})
    /\ \A c \in DOMAIN named : \E B \in Batch(c) : Approved(Registry(c), B, named[c])
    /\ naming # NoNaming =>
          /\ naming.chapter \in 1 .. Len(named) + 1
          /\ \E B \in Batch(naming.chapter) :
                LET R == Registry(naming.chapter) IN
                /\ Nameable(R, B)
                /\ naming.effects = {NamedEffect(R, B, c) : c \in B}
    /\ \A k \in 1 .. Len(named) + 1 : SelfBound(Registry(k)) /\ Explained(k)

-----------------------------------------------------------------------------
(* Sets, sequences, effects                                                  *)

LEMMA OnlyIsIt ==
    ASSUME NEW S, S # {}
    PROVE  /\ Only(S) \in S
           /\ ~Several(S) => One(S)
           /\ One(S) => S = {Only(S)}
  BY DEF Only, One, Several

LEMMA CutAndAppend ==
    ASSUME NEW S, NEW s \in Seq(S), NEW k \in 1 .. Len(s) + 1, NEW x, NEW t,
           t = Append(SubSeq(s, 1, k - 1), x)
    PROVE  /\ t \in Seq(S \cup {x}) /\ Len(t) = k /\ DOMAIN t = 1 .. k
           /\ t[k] = x /\ \A i \in 1 .. k - 1 : t[i] = s[i]
           /\ DOMAIN s = 1 .. Len(s)
<1>1. SubSeq(s, 1, k - 1) \in Seq(S) /\ Len(SubSeq(s, 1, k - 1)) = k - 1
  OBVIOUS
<1>2. \A i \in 1 .. k - 1 : SubSeq(s, 1, k - 1)[i] = s[i]
  OBVIOUS
<1>3. SubSeq(s, 1, k - 1) \in Seq(S \cup {x})
  BY <1>1
<1>4. QED
  BY <1>1, <1>2, <1>3

\* What an effect keeps of its claim.
LEMMA EffectKeeps ==
    ASSUME NEW R, NEW B, NEW c, NEW e, e = NamedEffect(R, B, c)
    PROVE  /\ e.kind = c.kind /\ e.ns = c.ns /\ e.name = c.name /\ e.aliases = c.aliases
           /\ e.link = c.link /\ e.new = c.new /\ e.case = NameCase(R, B, c)
           /\ c.kind = "entity" => e.canonical = TargetOf(R, c)
           /\ c.kind # "entity" => /\ e.canonical = Resolved(R, B, c).canonical
                                   /\ e.status = Resolved(R, B, c).status
  BY DEF NamedEffect

\* The ways to resolve a use.
LEMMA WaysToResolve ==
    ASSUME NEW R, NEW B, NEW c, c \in B, c.kind # "entity", Nameable(R, B)
    PROVE  LET r == Resolved(R, B, c)
               bearers == Bearers(R, c.ns, c.name)
               proposed == Proposed(R, B, c.ns, c.name) IN
           \/ /\ c.link # NoLink /\ r.status = "pending_registration"
              /\ \E d \in Registrations(B) : d.ns = c.ns /\ r.canonical = TargetOf(R, d)
           \/ /\ c.link # NoLink /\ r.status = "registration"
              /\ r.canonical \in Bearers(R, c.ns, c.link[2])
           \/ /\ c.link # NoLink /\ r.status = "resolved" /\ r.canonical \in bearers
           \/ /\ c.link = NoLink /\ r.status = "pending_registration"
              /\ proposed = {r.canonical} /\ bearers \subseteq {r.canonical}
           \/ /\ c.link = NoLink /\ r.status = "resolved"
              /\ proposed = {} /\ bearers = {r.canonical}
           \/ /\ c.link = NoLink /\ r.status = "conflict"
           \/ /\ c.link = NoLink /\ r.status = "unregistered"
              /\ proposed = {} /\ bearers = {} /\ r.canonical = c.name
<1> DEFINE r == Resolved(R, B, c)
           bearers == Bearers(R, c.ns, c.name)
           proposed == Proposed(R, B, c.ns, c.name)
           pending == PointedAt(R, B, c.link)
<1>1. MayUse(R, B, c)
  BY DEF Nameable, Registrations
<1>2. CASE c.link # NoLink /\ pending # {}
  <2>1. Only(pending) \in pending /\ \A d \in pending : d.ns = c.ns
    BY <1>1, <1>2, OnlyIsIt DEF MayUse
  <2>2. Only(pending) \in Registrations(B)
    BY <2>1 DEF PointedAt
  <2>3. r = [canonical |-> TargetOf(R, Only(pending)), status |-> "pending_registration"]
    BY <1>2 DEF Resolved
  <2>4. QED
    BY <1>2, <2>1, <2>2, <2>3
<1>3. CASE c.link # NoLink /\ pending = {}
  <2>1. One(Bearers(R, c.ns, c.link[2]))
    BY <1>1, <1>3 DEF MayUse
  <2>2. Only(Bearers(R, c.ns, c.link[2])) \in Bearers(R, c.ns, c.link[2])
    BY <2>1, OnlyIsIt DEF One
  <2>3. r = [canonical |-> Only(Bearers(R, c.ns, c.link[2])),
             status |-> IF Only(Bearers(R, c.ns, c.link[2])) \in bearers
                        THEN "resolved" ELSE "registration"]
    BY <1>3 DEF Resolved
  <2>4. QED
    BY <1>3, <2>2, <2>3
<1>4. CASE c.link = NoLink /\ proposed # {}
  <2>1. One(proposed \cup bearers)
    BY <1>1, <1>4 DEF MayUse
  <2>2. proposed = {Only(proposed)} /\ bearers \subseteq {Only(proposed)}
    BY <1>4, <2>1, OnlyIsIt DEF One
  <2>3. r = [canonical |-> Only(proposed), status |-> "pending_registration"]
    BY <1>4 DEF Resolved
  <2>4. QED
    BY <1>4, <2>2, <2>3
<1>5. CASE c.link = NoLink /\ proposed = {}
  <2>1. r = IF One(bearers) THEN [canonical |-> Only(bearers), status |-> "resolved"]
            ELSE IF bearers # {} THEN [canonical |-> c.name, status |-> "conflict"]
            ELSE [canonical |-> c.name, status |-> "unregistered"]
    BY <1>5 DEF Resolved
  <2>2. One(bearers) => bearers = {Only(bearers)}
    BY OnlyIsIt DEF One
  <2>3. QED
    BY <1>5, <2>1, <2>2
<1>6. QED
  BY <1>2, <1>3, <1>4, <1>5

-----------------------------------------------------------------------------
(* The registry                                                              *)

LEMMA BearersAre ==
    ASSUME NEW R, NEW ns, NEW name, NEW x
    PROVE  x \in Bearers(R, ns, name) <=>
              \E b \in R : b.ns = ns /\ b.key = normalize_alias_key(name) /\ b.canonical = x
  BY DEF Bearers

\* Whoever is approved later adds to the registry.
LEMMA RegistryHas ==
    ASSUME NEW k, NEW b
    PROVE  b \in Registry(k) <=>
              \/ b \in GenesisNames
              \/ \E d \in DOMAIN named : d < k /\ \E e \in named[d] : b \in Bindings(e)
  BY DEF Registry

LEMMA RegistryGrows ==
    ASSUME NEW j \in Int, NEW k \in Int, j <= k, DOMAIN named \subseteq Int
    PROVE  Registry(j) \subseteq Registry(k)
<1>1. ASSUME NEW b \in Registry(j)
      PROVE  b \in Registry(k)
  <2>1. CASE b \in GenesisNames
    BY <2>1, RegistryHas
  <2>2. CASE b \notin GenesisNames
    <3>1. PICK d \in DOMAIN named : d < j /\ \E e \in named[d] : b \in Bindings(e)
      BY <1>1, <2>2, RegistryHas
    <3>2. d < k
      BY <3>1
    <3>3. QED
      BY <3>1, <3>2, RegistryHas
  <2>3. QED
    BY <2>1, <2>2
<1>2. QED
  BY <1>1

LEMMA RegistryOfNext ==
    ASSUME NEW k \in DOMAIN named, DOMAIN named \subseteq Int
    PROVE  Registry(k + 1) = Registry(k) \cup UNION {Bindings(e) : e \in named[k]}
<1>1. \A d \in DOMAIN named : d < k + 1 <=> d < k \/ d = k
  OBVIOUS
<1>2. ASSUME NEW b
      PROVE  b \in Registry(k + 1) <=>
                b \in Registry(k) \/ \E e \in named[k] : b \in Bindings(e)
  BY <1>1, RegistryHas
<1>3. QED
  BY <1>2

\* The registry of a chapter is that of the chapters before it.
LEMMA RegistryStays ==
    ASSUME NEW k \in Int, DOMAIN named \subseteq Int, DOMAIN named' \subseteq Int,
           \A c \in Int : c < k => /\ c \in DOMAIN named <=> c \in DOMAIN named'
                                   /\ c \in DOMAIN named => named'[c] = named[c]
    PROVE  Registry(k)' = Registry(k)
<1>1. {d \in DOMAIN named' : d < k} = {d \in DOMAIN named : d < k}
  OBVIOUS
<1>2. {named'[c] : c \in {d \in DOMAIN named' : d < k}}
        = {named[c] : c \in {d \in DOMAIN named : d < k}}
  BY <1>1
<1>3. QED
  BY <1>2 DEF Registry

-----------------------------------------------------------------------------
(* One batch                                                                 *)

\* The identity of a registration that nobody chose: the one it has, or its own name.
LEMMA TargetByDefault ==
    ASSUME NEW R, NEW c, c.link = NoLink, ~c.new, ~Torn(R, c)
    PROVE  \/ Existing(R, c) = {TargetOf(R, c)}
           \/ Existing(R, c) = {} /\ TargetOf(R, c) = c.name
<1>1. ~Several(Existing(R, c))
  BY DEF Torn
<1>2. CASE Existing(R, c) = {}
  BY <1>2 DEF TargetOf, One
<1>3. CASE Existing(R, c) # {}
  <2>1. Existing(R, c) = {Only(Existing(R, c))} /\ One(Existing(R, c))
    BY <1>1, <1>3, OnlyIsIt
  <2>2. QED
    BY <2>1 DEF TargetOf
<1>4. QED
  BY <1>2, <1>3

\* What an approved batch adds.
LEMMA Added ==
    ASSUME NEW R, NEW B, NEW E, Approved(R, B, E), NEW e \in E, NEW b \in Bindings(e)
    PROVE  \E c \in B :
              /\ e = NamedEffect(R, B, c) /\ b.ns = c.ns /\ b.canonical = e.canonical
              /\ \/ /\ c \in Registrations(B) /\ b.canonical = TargetOf(R, c)
                    /\ \E t \in {TargetOf(R, c)} \cup Tokens(c) : b.key = normalize_alias_key(t)
                 \/ /\ c.kind # "entity" /\ b.canonical = Resolved(R, B, c).canonical
                    /\ b.key = normalize_alias_key(c.name)
                    /\ Resolved(R, B, c).status \in Registering
<1>1. PICK c \in B : e = NamedEffect(R, B, c)
  BY DEF Approved
<1>2. CASE c.kind = "entity"
  <2>1. e.kind = "entity" /\ e.canonical = TargetOf(R, c) /\ e.ns = c.ns /\ Tokens(e) = Tokens(c)
    BY <1>1, <1>2, EffectKeeps DEF Tokens
  <2>2. PICK t \in {e.canonical} \cup Tokens(e) :
           b = [ns |-> e.ns, key |-> normalize_alias_key(t), canonical |-> e.canonical]
    BY <2>1 DEF Bindings
  <2>3. QED
    BY <1>1, <1>2, <2>1, <2>2 DEF Registrations
<1>3. CASE c.kind # "entity"
  <2>1. /\ e.kind # "entity" /\ e.ns = c.ns /\ e.name = c.name
        /\ e.canonical = Resolved(R, B, c).canonical /\ e.status = Resolved(R, B, c).status
    BY <1>1, <1>3, EffectKeeps
  <2>2. /\ e.status \in Registering
        /\ b = [ns |-> e.ns, key |-> normalize_alias_key(e.name), canonical |-> e.canonical]
    BY <2>1 DEF Bindings
  <2>3. QED
    BY <1>1, <1>3, <2>1, <2>2
<1>4. QED
  BY <1>2, <1>3

\* A registration is found under the name of its identity.
LEMMA RegisteredUnderOwnName ==
    ASSUME NEW R, NEW B, NEW E, Approved(R, B, E), NEW d \in Registrations(B)
    PROVE  \E e \in E : [ns |-> d.ns, key |-> normalize_alias_key(TargetOf(R, d)),
                         canonical |-> TargetOf(R, d)] \in Bindings(e)
<1> DEFINE e == NamedEffect(R, B, d)
<1>1. e \in E /\ d.kind = "entity"
  BY DEF Approved, Registrations
<1>2. e.kind = "entity" /\ e.canonical = TargetOf(R, d) /\ e.ns = d.ns
  BY <1>1, EffectKeeps
<1>3. [ns |-> e.ns, key |-> normalize_alias_key(e.canonical), canonical |-> e.canonical]
        \in Bindings(e)
  BY <1>2 DEF Bindings
<1>4. QED
  BY <1>1, <1>2, <1>3

LEMMA BatchSelfBound ==
    ASSUME NEW R, NEW B, NEW E, SelfBound(R), Approved(R, B, E)
    PROVE  SelfBound(R \cup UNION {Bindings(e) : e \in E})
<1> DEFINE More == R \cup UNION {Bindings(e) : e \in E}
           Own(b) == [ns |-> b.ns, key |-> normalize_alias_key(b.canonical),
                      canonical |-> b.canonical]
<1>1. ASSUME NEW b \in R
      PROVE  Own(b) \in More
  BY DEF SelfBound
<1>2. ASSUME NEW e \in E, NEW b \in Bindings(e)
      PROVE  Own(b) \in More
  <2>1. PICK c \in B :
              /\ e = NamedEffect(R, B, c) /\ b.ns = c.ns /\ b.canonical = e.canonical
              /\ \/ /\ c \in Registrations(B) /\ b.canonical = TargetOf(R, c)
                    /\ \E t \in {TargetOf(R, c)} \cup Tokens(c) : b.key = normalize_alias_key(t)
                 \/ /\ c.kind # "entity" /\ b.canonical = Resolved(R, B, c).canonical
                    /\ b.key = normalize_alias_key(c.name)
                    /\ Resolved(R, B, c).status \in Registering
    BY <1>2, Added
  <2>2. ASSUME NEW d \in Registrations(B), d.ns = b.ns, b.canonical = TargetOf(R, d)
        PROVE  Own(b) \in More
    BY <2>2, RegisteredUnderOwnName
  <2>3. ASSUME NEW name, b.canonical \in Bearers(R, b.ns, name)
        PROVE  Own(b) \in More
    BY <1>1, <2>3, BearersAre
  <2>4. CASE c \in Registrations(B)
    BY <2>1, <2>2, <2>4 DEF Registrations
  <2>5. CASE c.kind # "entity" /\ Resolved(R, B, c).status \in Registering
    <3> DEFINE r == Resolved(R, B, c)
    <3>1. b.canonical = r.canonical /\ b.key = normalize_alias_key(c.name) /\ Nameable(R, B)
      BY <2>1, <2>5 DEF Approved, Registrations
    <3>2. CASE \E d \in Registrations(B) : d.ns = c.ns /\ r.canonical = TargetOf(R, d)
      BY <2>1, <2>2, <3>1, <3>2
    <3>3. CASE r.canonical \in Bearers(R, c.ns, c.link[2])
      BY <2>1, <2>3, <3>1, <3>3
    <3>4. CASE Proposed(R, B, c.ns, c.name) = {r.canonical}
      BY <2>1, <2>2, <3>1, <3>4 DEF Proposed, Proposals
    <3>5. CASE r.canonical = c.name
      <4>1. PICK x : b = [ns |-> x.ns, key |-> x.key, canonical |-> x.canonical]
        BY <1>2 DEF Bindings
      <4>2. Own(b) = b
        BY <3>1, <3>5, <4>1
      <4>3. QED
        BY <1>2, <4>2
    <3>6. r.status \notin {"resolved", "conflict"}
      BY <2>5 DEF Registering
    <3>7. QED
      BY <2>5, <3>1, <3>2, <3>3, <3>4, <3>5, <3>6, WaysToResolve
  <2>6. QED
    BY <2>1, <2>4, <2>5
<1>3. QED
  BY <1>1, <1>2 DEF SelfBound

\* What the batch proposes for a key.
ProposedFor(R, B, ns, key) ==
    {TargetOf(R, x) : x \in {x \in Registrations(B) : x.ns = ns /\ key \in Keys(x)}}

\* A name that a batch adds without a choice is what all who bore it were, and what all
\* who propose it say; or nobody bears or proposes it and a use is taken as spelled.
LEMMA AddedByDefault ==
    ASSUME NEW R, NEW B, NEW E, SelfBound(R), Approved(R, B, E),
           NEW e \in E, e.kind \in {"entity", "use"}, ~e.new, e.link = NoLink,
           NEW y \in Bindings(e), y \notin R
    PROVE  LET P == ProposedFor(R, B, y.ns, y.key) IN
           /\ \A a \in R : a.ns = y.ns /\ a.key = y.key => a.canonical = y.canonical
           /\ \/ P = {y.canonical}
              \/ P = {} /\ e.kind = "use" /\ e.status = "unregistered"
<1> DEFINE P == ProposedFor(R, B, y.ns, y.key)
<1>1. ASSUME NEW name, normalize_alias_key(name) = y.key
      PROVE  Proposed(R, B, y.ns, name) = P
  BY <1>1 DEF Proposals, Proposed, ProposedFor
<1>2. ASSUME NEW name, normalize_alias_key(name) = y.key,
             NEW a \in R, a.ns = y.ns, a.key = y.key
      PROVE  a.canonical \in Bearers(R, y.ns, name)
  BY <1>2, BearersAre
<1>3. PICK c \in B :
          /\ e = NamedEffect(R, B, c) /\ y.ns = c.ns /\ y.canonical = e.canonical
          /\ \/ /\ c \in Registrations(B) /\ y.canonical = TargetOf(R, c)
                /\ \E t \in {TargetOf(R, c)} \cup Tokens(c) : y.key = normalize_alias_key(t)
             \/ /\ c.kind # "entity" /\ y.canonical = Resolved(R, B, c).canonical
                /\ y.key = normalize_alias_key(c.name)
                /\ Resolved(R, B, c).status \in Registering
  BY Added
<1>4. /\ e.kind = c.kind /\ ~c.new /\ c.link = NoLink
      /\ c.kind # "entity" => e.status = Resolved(R, B, c).status
  BY <1>3, EffectKeeps
<1>5. CASE c \in Registrations(B)
  <2>1. c.kind = "entity" /\ y.canonical = TargetOf(R, c)
    BY <1>3, <1>5 DEF Registrations
  <2>2. ~Torn(R, c)
    BY <2>1 DEF Approved, NameCase
  <2>3. \/ Existing(R, c) = {TargetOf(R, c)}
        \/ Existing(R, c) = {} /\ TargetOf(R, c) = c.name
    BY <1>4, <2>2, TargetByDefault
  <2>4. PICK t \in Tokens(c) : y.key = normalize_alias_key(t)
    <3>1. PICK t \in {TargetOf(R, c)} \cup Tokens(c) : y.key = normalize_alias_key(t)
      BY <1>3, <2>1
    <3>2. CASE t \in Tokens(c)
      BY <3>1, <3>2
    <3>3. CASE t = TargetOf(R, c) /\ Existing(R, c) = {TargetOf(R, c)}
      <4>1. PICK s \in Tokens(c) : TargetOf(R, c) \in Bearers(R, c.ns, s)
        BY <3>3 DEF Existing
      <4>2. PICK r \in R : r.ns = c.ns /\ r.canonical = TargetOf(R, c)
        BY <4>1, BearersAre
      <4>3. [ns |-> r.ns, key |-> normalize_alias_key(r.canonical), canonical |-> r.canonical]
              \in R
        BY DEF SelfBound
      <4>4. PICK x : y = [ns |-> x.ns, key |-> x.key, canonical |-> x.canonical]
        BY DEF Bindings
      <4>5. y = [ns |-> y.ns, key |-> y.key, canonical |-> y.canonical]
        BY <4>4
      <4>6. y.ns = r.ns /\ y.key = normalize_alias_key(r.canonical) /\ y.canonical = r.canonical
        BY <1>3, <2>1, <3>1, <3>3, <4>2
      <4>7. QED
        BY <4>3, <4>5, <4>6
    <3>4. CASE t = TargetOf(R, c) /\ TargetOf(R, c) = c.name
      BY <3>1, <3>4 DEF Tokens
    <3>5. QED
      BY <2>3, <3>1, <3>2, <3>3, <3>4
  <2>5. y.canonical \in P
    BY <1>3, <1>5, <2>1, <2>4 DEF ProposedFor, Keys
  <2>6. ~Several(P)
    <3>1. MayRegister(R, B, c)
      BY <1>5 DEF Approved, Nameable
    <3>2. Proposed(R, B, c.ns, t) = P /\ c \in Proposals(B, c.ns, t)
      BY <1>1, <1>3, <1>5, <2>4 DEF Proposals, Keys
    <3>3. QED
      BY <1>4, <2>4, <3>1, <3>2 DEF MayRegister
  <2>7. P = {y.canonical}
    BY <2>5, <2>6 DEF Several
  <2>8. ASSUME NEW a \in R, a.ns = y.ns, a.key = y.key
        PROVE  a.canonical = y.canonical
    <3>1. a.canonical \in Existing(R, c)
      BY <1>2, <1>3, <2>4, <2>8 DEF Existing
    <3>2. QED
      BY <2>1, <2>3, <3>1
  <2>9. QED
    BY <2>7, <2>8
<1>6. CASE c.kind # "entity"
  <2> DEFINE r == Resolved(R, B, c)
  <2>1. /\ y.canonical = r.canonical /\ y.key = normalize_alias_key(c.name)
        /\ r.status \in Registering /\ e.kind = "use" /\ e.status = r.status
    BY <1>3, <1>4, <1>6 DEF Registrations
  <2>2. Proposed(R, B, c.ns, c.name) = P
    BY <1>1, <1>3, <2>1
  <2>3. r.status \notin {"resolved", "conflict"} /\ Nameable(R, B)
    BY <2>1 DEF Registering, Approved
  <2>4. \/ P = {r.canonical} /\ Bearers(R, c.ns, c.name) \subseteq {r.canonical}
        \/ r.status = "unregistered" /\ P = {} /\ Bearers(R, c.ns, c.name) = {}
    BY <1>4, <1>6, <2>2, <2>3, WaysToResolve
  <2>5. ASSUME NEW a \in R, a.ns = y.ns, a.key = y.key
        PROVE  a.canonical \in Bearers(R, c.ns, c.name)
    BY <1>2, <1>3, <2>1, <2>5
  <2>6. QED
    BY <2>1, <2>4, <2>5
<1>7. QED
  BY <1>3, <1>5, <1>6

\* Two namesakes of which the batch added one: one of them was chosen in the batch, or
\* the batch spells in two ways a name that nobody bore.
LEMMA BatchAgrees ==
    ASSUME NEW R, NEW B, NEW E, SelfBound(R), Approved(R, B, E),
           \A e \in E : e.kind \in {"entity", "use"},
           NEW b \in R \cup UNION {Bindings(e) : e \in E},
           NEW d \in R \cup UNION {Bindings(e) : e \in E},
           b.ns = d.ns, b.key = d.key, {b, d} \subseteq R => FALSE,
           \A e \in E : e.new \/ e.link # NoLink => b \notin Bindings(e) /\ d \notin Bindings(e)
    PROVE  \/ b.canonical = d.canonical
           \/ \E e, f \in E :
                 /\ e.kind = "use" /\ e.link = NoLink /\ e.status = "unregistered"
                 /\ f.kind = "use" /\ f.link = NoLink /\ f.status = "unregistered"
                 /\ b \in Bindings(e) /\ d \in Bindings(f)
<1> DEFINE P == ProposedFor(R, B, b.ns, b.key)
<1>1. ASSUME NEW y \in {b, d}, y \notin R
      PROVE  /\ \A a \in R : a.ns = b.ns /\ a.key = b.key => a.canonical = y.canonical
             /\ \/ P = {y.canonical}
                \/ P = {} /\ \E e \in E : /\ e.kind = "use" /\ e.link = NoLink
                                          /\ e.status = "unregistered" /\ y \in Bindings(e)
  <2>1. PICK e \in E : y \in Bindings(e)
    BY <1>1
  <2>2. ~e.new /\ e.link = NoLink /\ e.kind \in {"entity", "use"}
    BY <1>1, <2>1
  <2>3. y.ns = b.ns /\ y.key = b.key
    BY <1>1
  <2>4. /\ \A a \in R : a.ns = y.ns /\ a.key = y.key => a.canonical = y.canonical
        /\ \/ ProposedFor(R, B, y.ns, y.key) = {y.canonical}
           \/ /\ ProposedFor(R, B, y.ns, y.key) = {}
              /\ e.kind = "use" /\ e.status = "unregistered"
    BY <1>1, <2>1, <2>2, AddedByDefault
  <2>5. QED
    BY <2>1, <2>2, <2>3, <2>4
<1>2. CASE b \in R \/ d \in R
  BY <1>1, <1>2
<1>3. CASE b \notin R /\ d \notin R
  BY <1>1, <1>3
<1>4. QED
  BY <1>2, <1>3

-----------------------------------------------------------------------------
(* The steps                                                                 *)

LEMMA NamesInitHolds == NamesInit => NamesInv
<1> SUFFICES ASSUME NamesInit
             PROVE  NamesInv
  OBVIOUS
<1>1. named = << >> /\ naming = NoNaming /\ DOMAIN named = {} /\ Len(named) = 0
  BY DEF NamesInit
<1>2. Registry(1) = GenesisNames
  BY <1>1, RegistryHas
<1>3. SelfBound(Registry(1))
  BY <1>2, GenesisAssumption DEF SelfBound
<1>4. Explained(1)
  BY <1>2 DEF Explained
<1>5. named \in Seq({named[i] : i \in DOMAIN named})
  BY <1>1
<1>6. 1 .. Len(named) + 1 = {1}
  BY <1>1
<1>7. QED
  BY <1>1, <1>3, <1>4, <1>5, <1>6 DEF NamesInv

\* What holds of the chapters before k stays while they do.
LEMMA BeforeStays ==
    ASSUME NEW k \in Int, DOMAIN named \subseteq Int, DOMAIN named' \subseteq Int,
           1 .. k - 1 \subseteq DOMAIN named,
           \A c \in Int : c < k => /\ c \in DOMAIN named <=> c \in DOMAIN named'
                                   /\ c \in DOMAIN named => named'[c] = named[c]
    PROVE  /\ Registry(k)' = Registry(k)
           /\ SelfBound(Registry(k)) => SelfBound(Registry(k))'
           /\ Explained(k) => Explained(k)'
<1>1. Registry(k)' = Registry(k)
  BY RegistryStays
<1>2. SelfBound(Registry(k)) => SelfBound(Registry(k))'
  BY <1>1 DEF SelfBound
<1>3. \A c \in 1 .. k - 1 : named'[c] = named[c]
  OBVIOUS
<1>4. \A c \in 1 .. k - 1 : Unlinked(c)' = Unlinked(c)
  BY <1>3 DEF Unlinked
<1>5. ASSUME NEW b, NEW d
      PROVE  /\ ChosenBefore(k, b) => ChosenBefore(k, b)'
             /\ \A c \in 1 .. k - 1 : SpelledInTwoWays(c, b, d) => SpelledInTwoWays(c, b, d)'
  BY <1>3, <1>4 DEF SpelledInTwoWays, ChosenBefore
<1>6. Explained(k) => Explained(k)'
  BY <1>1, <1>5 DEF Explained
<1>7. QED
  BY <1>1, <1>2, <1>6

LEMMA ChaptersStay == NamesInv /\ UNCHANGED named =>
    /\ (named \in Seq({named[i] : i \in DOMAIN named}))'
    /\ (\A c \in DOMAIN named : \E B \in Batch(c) : Approved(Registry(c), B, named[c]))'
    /\ (\A k \in 1 .. Len(named) + 1 : SelfBound(Registry(k)) /\ Explained(k))'
<1> SUFFICES ASSUME NamesInv, UNCHANGED named
             PROVE  /\ (named \in Seq({named[i] : i \in DOMAIN named}))'
                    /\ (\A c \in DOMAIN named :
                           \E B \in Batch(c) : Approved(Registry(c), B, named[c]))'
                    /\ (\A k \in 1 .. Len(named) + 1 : SelfBound(Registry(k)) /\ Explained(k))'
  OBVIOUS
<1>1. DOMAIN named = 1 .. Len(named) /\ Len(named) \in Nat
  BY DEF NamesInv
<1>2. ASSUME NEW k \in 1 .. Len(named) + 1
      PROVE  /\ Registry(k)' = Registry(k)
             /\ SelfBound(Registry(k)) => SelfBound(Registry(k))'
             /\ Explained(k) => Explained(k)'
  BY <1>1, BeforeStays
<1>3. QED
  BY <1>1, <1>2 DEF NamesInv

LEMMA PrepareNamesHolds ==
    ASSUME NamesInv, NEW chapter \in 1 .. Len(named) + 1, NEW B \in Batch(chapter),
           PrepareNames(chapter, B)
    PROVE  NamesInv'
<1>1. named' = named
  BY DEF PrepareNames
<1>2. Registry(chapter)' = Registry(chapter)
  BY <1>1 DEF Registry
<1>3. /\ naming'.chapter = chapter /\ Nameable(Registry(chapter), B)
      /\ naming'.effects = {NamedEffect(Registry(chapter), B, c) : c \in B}
  BY DEF PrepareNames
<1>4. QED
  BY <1>1, <1>2, <1>3, ChaptersStay DEF NamesInv

LEMMA PublishNamesHolds ==
    ASSUME NamesInv, NEW omitted \in SUBSET naming.effects, PublishNames(omitted),
           NEW k, k = naming.chapter, NEW E, E = naming.effects \ omitted
    PROVE  NamesInv'
<1> DEFINE R == Registry(k)
           S == {named[i] : i \in DOMAIN named}
<1>1. /\ k \in 1 .. Len(named) + 1 /\ named \in Seq(S)
      /\ DOMAIN named = 1 .. Len(named) /\ Len(named) \in Nat
  BY DEF NamesInv, PublishNames
<1>2. named' = Append(SubSeq(named, 1, k - 1), E) /\ naming' = NoNaming
  BY DEF PublishNames
<1>3. /\ named' \in Seq(S \cup {E}) /\ Len(named') = k /\ DOMAIN named' = 1 .. k
      /\ named'[k] = E /\ \A i \in 1 .. k - 1 : named'[i] = named[i]
  <2> HIDE DEF S
  <2>1. QED
    BY <1>1, <1>2, CutAndAppend
<1>4. named' \in Seq({named'[i] : i \in DOMAIN named'})
  BY <1>3
<1>5. PICK B \in Batch(k) : Nameable(R, B) /\ naming.effects = {NamedEffect(R, B, c) : c \in B}
  <2>1. naming # NoNaming
    BY DEF PublishNames
  <2>2. \E B \in Batch(naming.chapter) :
           LET Q == Registry(naming.chapter) IN
           Nameable(Q, B) /\ naming.effects = {NamedEffect(Q, B, c) : c \in B}
    BY <2>1 DEF NamesInv
  <2>3. QED
    BY <2>2
<1>6. Approved(R, B, E)
  <2>1. \A c \in B : NameCase(R, B, c) # "rewrite"
    BY <1>5, EffectKeeps DEF PublishNames
  <2>2. ASSUME NEW c \in Registrations(B)
        PROVE  NamedEffect(R, B, c) \in E
    <3>1. c \in B /\ c.kind = "entity"
      BY DEF Registrations
    <3>2. NamedEffect(R, B, c).case \in {"rewrite", "checkpoint"}
      BY <3>1, EffectKeeps DEF NameCase
    <3>3. QED
      BY <1>5, <3>1, <3>2 DEF PublishNames
  <2>3. QED
    BY <1>5, <2>1, <2>2 DEF Approved
<1>7. ASSUME NEW j \in 1 .. k
      PROVE  /\ Registry(j)' = Registry(j)
             /\ SelfBound(Registry(j)) => SelfBound(Registry(j))'
             /\ Explained(j) => Explained(j)'
  <2>1. j \in Int /\ 1 .. j - 1 \subseteq DOMAIN named
    BY <1>1
  <2>2. ASSUME NEW c \in Int, c < j
        PROVE  /\ c \in DOMAIN named <=> c \in DOMAIN named'
               /\ c \in DOMAIN named => named'[c] = named[c]
    <3>1. c \in 1 .. k - 1 <=> c >= 1
      BY <1>1, <2>2
    <3>2. c \in DOMAIN named <=> c >= 1
      BY <1>1, <2>2
    <3>3. c \in DOMAIN named' <=> c >= 1
      BY <1>1, <1>3, <2>2
    <3>4. QED
      BY <1>3, <3>1, <3>2, <3>3
  <2>3. DOMAIN named \subseteq Int /\ DOMAIN named' \subseteq Int
    BY <1>1, <1>3
  <2>4. \A c \in Int : c < j => /\ c \in DOMAIN named <=> c \in DOMAIN named'
                                /\ c \in DOMAIN named => named'[c] = named[c]
    BY <2>2
  <2>5. QED
    BY <2>1, <2>3, <2>4, BeforeStays
<1>8. \A c \in DOMAIN named' : \E D \in Batch(c) : Approved(Registry(c)', D, named'[c])
  <2>1. ASSUME NEW c \in 1 .. k - 1
        PROVE  \E D \in Batch(c) : Approved(Registry(c)', D, named'[c])
    <3>1. c \in DOMAIN named /\ c \in 1 .. k
      BY <1>1
    <3>2. Registry(c)' = Registry(c) /\ named'[c] = named[c]
      BY <1>3, <1>7, <3>1
    <3>3. QED
      BY <3>1, <3>2 DEF NamesInv
  <2>2. Registry(k)' = R
    BY <1>1, <1>7
  <2>3. \A c \in DOMAIN named' : c \in 1 .. k - 1 \/ c = k
    BY <1>1, <1>3
  <2>4. QED
    BY <1>3, <1>5, <1>6, <2>1, <2>2, <2>3
<1>9. Registry(k + 1)' = R \cup UNION {Bindings(e) : e \in E}
  <2>1. \A d \in DOMAIN named' : d < k + 1 <=> d < k \/ d = k
    BY <1>1, <1>3
  <2>2. UNION {named'[c] : c \in {d \in DOMAIN named' : d < k + 1}}
          = (UNION {named'[c] : c \in {d \in DOMAIN named' : d < k}}) \cup E
    BY <1>1, <1>3, <2>1
  <2>3. Registry(k)' = R
    BY <1>1, <1>7
  <2>4. QED
    BY <2>2, <2>3 DEF Registry
<1>10. SelfBound(Registry(k + 1))'
  BY <1>1, <1>6, <1>9, BatchSelfBound DEF NamesInv
<1>11. Explained(k + 1)'
  <2> SUFFICES ASSUME NEW b \in R \cup UNION {Bindings(e) : e \in E},
                      NEW d \in R \cup UNION {Bindings(e) : e \in E},
                      b.ns = d.ns, b.key = d.key
               PROVE  \/ b.canonical = d.canonical
                      \/ ChosenBefore(k + 1, b)' \/ ChosenBefore(k + 1, d)'
                      \/ {b, d} \subseteq GenesisNames
                      \/ \E c \in 1 .. (k + 1) - 1 : SpelledInTwoWays(c, b, d)'
    BY <1>9 DEF Explained
  <2>1. 1 .. (k + 1) - 1 = 1 .. k /\ k \in 1 .. k /\ 1 .. k - 1 \subseteq 1 .. k
    BY <1>1
  <2>2. CASE b \in R /\ d \in R
    <3>1. Explained(k)
      BY <1>1 DEF NamesInv
    <3>2. \A x : ChosenBefore(k, x) => ChosenBefore(k + 1, x)'
      BY <1>3, <2>1 DEF ChosenBefore
    <3>3. \A c \in 1 .. k - 1 : SpelledInTwoWays(c, b, d) => SpelledInTwoWays(c, b, d)'
      BY <1>3 DEF SpelledInTwoWays, Unlinked
    <3>4. QED
      BY <2>1, <2>2, <3>1, <3>2, <3>3 DEF Explained
  <2>3. CASE \E e \in E : (e.new \/ e.link # NoLink) /\ (b \in Bindings(e) \/ d \in Bindings(e))
    BY <1>3, <2>1, <2>3 DEF ChosenBefore
  <2>4. CASE /\ ~(b \in R /\ d \in R)
             /\ \A e \in E : e.new \/ e.link # NoLink
                                => b \notin Bindings(e) /\ d \notin Bindings(e)
    <3>1. ASSUME NEW e \in E
          PROVE  e.kind \in {"entity", "use"}
      <4>1. PICK c \in B : e = NamedEffect(R, B, c)
        BY <1>6 DEF Approved
      <4>2. c \in NameClaims
        BY DEF Batch
      <4>3. QED
        BY <4>1, <4>2, EffectKeeps, NamesAssumption
    <3>2. SelfBound(R)
      BY <1>1 DEF NamesInv
    <3>3. \/ b.canonical = d.canonical
          \/ \E e, f \in E :
                /\ e.kind = "use" /\ e.link = NoLink /\ e.status = "unregistered"
                /\ f.kind = "use" /\ f.link = NoLink /\ f.status = "unregistered"
                /\ b \in Bindings(e) /\ d \in Bindings(f)
      <4> HIDE DEF R
      <4>1. {b, d} \subseteq R => FALSE
        BY <2>4
      <4>2. QED
        BY <1>6, <2>4, <3>1, <3>2, <4>1, BatchAgrees
    <3>4. CASE b.canonical # d.canonical
      BY <1>3, <2>1, <3>3, <3>4 DEF SpelledInTwoWays, Unlinked
    <3>5. QED
      BY <3>4
  <2>5. QED
    BY <2>2, <2>3, <2>4
<1>12. \A j \in 1 .. Len(named') + 1 : SelfBound(Registry(j))' /\ Explained(j)'
  <2>1. \A j \in 1 .. Len(named') + 1 : j \in 1 .. k \/ j = k + 1
    BY <1>1, <1>3
  <2>2. \A j \in 1 .. k : SelfBound(Registry(j))' /\ Explained(j)'
    BY <1>1, <1>7 DEF NamesInv
  <2>3. QED
    BY <1>10, <1>11, <2>1, <2>2
<1>13. QED
  BY <1>2, <1>4, <1>8, <1>12 DEF NamesInv

LEMMA NamesStepHolds == NamesInv /\ [NamesNext]_nameVars => NamesInv'
<1> SUFFICES ASSUME NamesInv, [NamesNext]_nameVars
             PROVE  NamesInv'
  OBVIOUS
<1>1. ASSUME NEW chapter \in 1 .. Len(named) + 1,
             NEW B \in SUBSET {c \in NameClaims : c.chapter = chapter}, PrepareNames(chapter, B)
      PROVE  NamesInv'
  BY <1>1, PrepareNamesHolds DEF Batch
<1>2. ASSUME NEW omitted \in SUBSET naming.effects, PublishNames(omitted)
      PROVE  NamesInv'
  BY <1>2, PublishNamesHolds
<1>3. CASE ArchiveNames
  BY <1>3, ChaptersStay DEF ArchiveNames, NamesInv
<1>4. CASE UNCHANGED nameVars
  <2>1. \A k : Registry(k)' = Registry(k)
    BY <1>4 DEF Registry, nameVars
  <2>2. QED
    BY <1>4, <2>1, ChaptersStay DEF nameVars, NamesInv
<1>5. QED
  BY <1>1, <1>2, <1>3, <1>4 DEF NamesNext

-----------------------------------------------------------------------------
(* What follows                                                              *)

\* A use that an approval left was found by its name, or binds it.
LEMMA UsesAreKnown == NamesInv => UsesStayKnown
<1> SUFFICES ASSUME NamesInv, NEW c \in DOMAIN named, NEW e \in named[c], e.kind = "use"
             PROVE  e.canonical \in Bearers(Registry(c + 1), e.ns, e.name)
  BY DEF UsesStayKnown
<1>1. DOMAIN named \subseteq Int
  BY DEF NamesInv
<1>2. PICK B \in Batch(c) : Approved(Registry(c), B, named[c])
  BY DEF NamesInv
<1> DEFINE R == Registry(c)
<1>3. PICK x \in B : e = NamedEffect(R, B, x)
  BY <1>2 DEF Approved
<1>4. /\ x.kind = "use" /\ e.ns = x.ns /\ e.name = x.name
      /\ e.canonical = Resolved(R, B, x).canonical /\ e.status = Resolved(R, B, x).status
  BY <1>3, EffectKeeps
<1>5. Registry(c + 1) = R \cup UNION {Bindings(f) : f \in named[c]}
  BY <1>1, RegistryOfNext
<1>6. CASE e.status \in Registering
  <2>1. [ns |-> e.ns, key |-> normalize_alias_key(e.name), canonical |-> e.canonical]
          \in Bindings(e)
    BY <1>3, <1>4, <1>6 DEF Bindings
  <2>2. QED
    BY <1>5, <2>1, BearersAre
<1>7. CASE e.status = "resolved"
  <2>1. Nameable(R, B) /\ x.kind # "entity" /\ Resolved(R, B, x).status = "resolved"
    BY <1>2, <1>4, <1>7 DEF Approved
  <2>2. Resolved(R, B, x).canonical \in Bearers(R, x.ns, x.name)
    BY <2>1, WaysToResolve
  <2>3. QED
    BY <1>4, <1>5, <2>2, BearersAre
<1>8. e.status # "conflict"
  BY <1>2, <1>4 DEF Approved, NameCase
<1>9. QED
  BY <1>2, <1>4, <1>6, <1>7, <1>8, WaysToResolve DEF Approved, Registering

\* A name that the chapters before bind to one identity is used for that one.
LEMMA LaterFollowsEarlier ==
    ASSUME NamesInv, NEW c \in DOMAIN named, NEW d \in DOMAIN named, c < d,
           NEW e \in Unlinked(c), NEW f \in Unlinked(d), SameName(e, f)
    PROVE  e.canonical = f.canonical
<1>1. DOMAIN named \subseteq Int /\ c + 1 <= d
  BY DEF NamesInv
<1>2. PICK B \in Batch(d) : Approved(Registry(d), B, named[d])
  BY DEF NamesInv
<1> DEFINE R == Registry(d)
<1>3. PICK x \in B : f = NamedEffect(R, B, x)
  BY <1>2 DEF Approved, Unlinked
<1>4. /\ x.kind = "use" /\ x.link = NoLink /\ f.ns = x.ns /\ f.name = x.name
      /\ f.canonical = Resolved(R, B, x).canonical
  BY <1>3, EffectKeeps DEF Unlinked
<1>5. e.canonical \in Bearers(R, x.ns, x.name)
  <2>1. e.canonical \in Bearers(Registry(c + 1), e.ns, e.name)
    BY UsesAreKnown DEF UsesStayKnown, Unlinked
  <2>2. Registry(c + 1) \subseteq R
    BY <1>1, RegistryGrows
  <2>3. QED
    BY <1>4, <2>1, <2>2, BearersAre DEF SameName
<1>6. Resolved(R, B, x).status # "conflict"
  BY <1>2, <1>4 DEF Approved, NameCase
<1>7. QED
  BY <1>2, <1>4, <1>5, <1>6, WaysToResolve DEF Approved

LEMMA OneBearerEach == NamesInv => OneBearer
<1> SUFFICES ASSUME NamesInv, NEW c \in DOMAIN named, NEW d \in DOMAIN named,
                    NEW e \in Unlinked(c), NEW f \in Unlinked(d),
                    SameName(e, f), c # d \/ e.name = f.name
             PROVE  e.canonical = f.canonical
  BY DEF OneBearer
<1>1. c \in Int /\ d \in Int
  BY DEF NamesInv
<1>2. CASE c < d
  BY <1>2, LaterFollowsEarlier
<1>3. CASE d < c
  BY <1>3, LaterFollowsEarlier DEF SameName
<1>4. CASE c = d /\ e.name = f.name
  <2>1. PICK B \in Batch(c) : Approved(Registry(c), B, named[c])
    BY DEF NamesInv
  <2> DEFINE R == Registry(c)
  <2>2. PICK x \in B : e = NamedEffect(R, B, x)
    BY <2>1 DEF Approved, Unlinked
  <2>3. PICK y \in B : f = NamedEffect(R, B, y)
    BY <1>4, <2>1 DEF Approved, Unlinked
  <2>4. /\ x.kind = "use" /\ x.link = NoLink /\ e.ns = x.ns /\ e.name = x.name
        /\ e.canonical = Resolved(R, B, x).canonical
    BY <2>2, EffectKeeps DEF Unlinked
  <2>5. /\ y.kind = "use" /\ y.link = NoLink /\ f.ns = y.ns /\ f.name = y.name
        /\ f.canonical = Resolved(R, B, y).canonical
    BY <2>3, EffectKeeps DEF Unlinked
  <2>6. Resolved(R, B, x) = Resolved(R, B, y)
    BY <1>4, <2>4, <2>5 DEF Resolved, SameName
  <2>7. QED
    BY <2>4, <2>5, <2>6
<1>5. QED
  BY <1>1, <1>2, <1>3, <1>4

LEMMA NamesakesAreExplained == NamesInv => OnlyChoicesMakeNamesakes
<1> SUFFICES ASSUME NamesInv
             PROVE  OnlyChoicesMakeNamesakes
  OBVIOUS
<1>1. DOMAIN named = 1 .. Len(named) /\ Len(named) \in Nat
  BY DEF NamesInv
<1>2. Explained(Len(named) + 1) /\ 1 .. (Len(named) + 1) - 1 = DOMAIN named
  BY <1>1 DEF NamesInv
<1>3. QED
  BY <1>2 DEF Explained, OnlyChoicesMakeNamesakes, ByChoice, ChosenBefore

-----------------------------------------------------------------------------
(* The theorems                                                              *)

\* Every published chapter is what an approval left of a plan against the chapters
\* before it, every identity is bound under its own name, and every two namesakes
\* have a reason.
THEOREM NamesInvariant == NamesSpec => []NamesInv
  BY NamesInitHolds, NamesStepHolds, PTL DEF NamesSpec

\* An identity that a published fact is about is found again under the name its chapter
\* used, from the next chapter on.
THEOREM IdentitiesAreFoundAgain == NamesSpec => []UsesStayKnown
  BY NamesInvariant, UsesAreKnown, PTL

\* Where nobody chose, two chapters never mean two identities by one name, whatever was
\* registered, linked and revised away between them.
THEOREM NamesHaveOneBearer == NamesSpec => []OneBearer
  BY NamesInvariant, OneBearerEach, PTL

\* Of two identities that a name stands for one was given to it by an approved new
\* instance or link; or the genesis has both, or one chapter spells in two ways a name
\* nobody bore.
THEOREM NamesakesAreChosen == NamesSpec => []OnlyChoicesMakeNamesakes
  BY NamesInvariant, NamesakesAreExplained, PTL
=============================================================================
