---------------------------- MODULE EntityNames ----------------------------
(***************************************************************************)
(* Who or what a name in a chapter stands for: the registry of approved    *)
(* names that prepare folds from the chapters before the one it prepares   *)
(* (build_approved_entity_registry of canon_v3/entity_registry.py), the    *)
(* plan that gives each name of a batch its identity or refuses the batch  *)
(* (plan_entity_resolutions), and what an approval adds to the registry.   *)
(*                                                                         *)
(* The slots of FactSlots are named by these identities.  A claim here has *)
(* one identity field: a claim with several resolves each by itself.  As   *)
(* in FactSlots, a prepare and a publication are one step each.            *)
(***************************************************************************)
EXTENDS Integers, Sequences, FiniteSets

CONSTANTS
    GenesisNames,   \* the names of the genesis: [ns, key, canonical]
    NameClaims,     \* what the text of each chapter may be found to say
    Spelling,       \* the names that Unicode normalisation and spaces change, and into what
    MaxNames        \* bound: claims in one batch

ASSUME NamesAssumption ==
    /\ MaxNames \in Nat
    /\ \A c \in NameClaims : c.kind \in {"entity", "use"}
    /\ \A c, d \in NameClaims :
          c.id = d.id \/ (c.chapter = d.chapter /\ c.place = d.place) => c = d

VARIABLES
    named,      \* the active chapters at HEAD: of each the effects that were published
    naming      \* the transaction under review

nameVars == <<named, naming>>

NoNaming == [chapter |-> 0, effects |-> {}]
NoLink == << >>

normalize_alias_key(name) == IF name \in DOMAIN Spelling THEN Spelling[name] ELSE name

\* Among the names of an entity of the genesis is the one it is known by.
ASSUME GenesisAssumption ==
    \A g \in GenesisNames :
        [ns |-> g.ns, key |-> normalize_alias_key(g.canonical), canonical |-> g.canonical]
            \in GenesisNames

\* An entity_observed claim registers its name and aliases.
Registrations(claims) == {c \in claims : c.kind = "entity"}
Tokens(c) == {c.name} \cup c.aliases
Keys(c) == {normalize_alias_key(t) : t \in Tokens(c)}

-----------------------------------------------------------------------------
(* The registry                                                              *)

\* The statuses of a use that its approval turns into a registration.
Registering == {"unregistered", "registration", "pending_registration"}

\* Mutant: a name that was linked to a registration of its own batch is not kept.
BindingsWithoutPending(e) ==
    {[ns |-> e.ns, key |-> normalize_alias_key(t), canonical |-> e.canonical] :
        t \in IF e.kind = "entity" THEN {e.canonical} \cup Tokens(e)
              ELSE IF e.status \in {"unregistered", "registration"} THEN {e.name} ELSE {}}

\* What a published effect adds to the registry.  An effect whose status registers
\* always has a case, so that being published means it was approved.
Bindings(e) ==
    {[ns |-> e.ns, key |-> normalize_alias_key(t), canonical |-> e.canonical] :
        t \in IF e.kind = "entity" THEN {e.canonical} \cup Tokens(e)
              ELSE IF e.status \in Registering THEN {e.name} ELSE {}}

\* Mutant: chapters that a revision is going to drop name people of its past.
RegistryOfHead(chapter) ==
    GenesisNames \cup UNION {Bindings(e) : e \in UNION {named[c] : c \in DOMAIN named}}

\* build_approved_entity_registry
Registry(chapter) ==
    GenesisNames \cup
    UNION {Bindings(e) : e \in UNION {named[c] : c \in {d \in DOMAIN named : d < chapter}}}

\* resolve_all
Bearers(R, ns, name) ==
    {b.canonical : b \in {r \in R : r.ns = ns /\ r.key = normalize_alias_key(name)}}

-----------------------------------------------------------------------------
(* plan_entity_resolutions: R is the registry, B the claims of the batch.    *)

One(S) == \E x \in S : S = {x}
Several(S) == \E x, y \in S : x # y
Only(S) == CHOOSE x \in S : TRUE

Existing(R, c) == UNION {Bearers(R, c.ns, t) : t \in Tokens(c)}

\* Two approved identities under one proposal, and nobody said which.
Torn(R, c) == ~c.new /\ c.link = NoLink /\ Several(Existing(R, c))

\* Mutant: an alias that is somebody's already is not looked up.
TargetOfItself(R, c) ==
    IF c.new THEN c.id
    ELSE IF c.link # NoLink THEN Only(Bearers(R, c.ns, c.link[2]))
    ELSE c.name

\* The identity a registration is for; a new instance is named by its candidate.
TargetOf(R, c) ==
    IF c.new THEN c.id
    ELSE IF c.link # NoLink THEN Only(Bearers(R, c.ns, c.link[2]))
    ELSE IF One(Existing(R, c)) THEN Only(Existing(R, c))
    ELSE c.name

\* The registrations of the batch that propose the name.
Proposals(B, ns, name) ==
    {d \in Registrations(B) : d.ns = ns /\ normalize_alias_key(name) \in Keys(d)}
Proposed(R, B, ns, name) == {TargetOf(R, d) : d \in Proposals(B, ns, name)}

\* The registration of the batch that an identity link points to, by its candidate or
\* by the identity it is for; of several the last.
PointedAt(R, B, link) ==
    {d \in Registrations(B) :
        IF link[1] = "candidate" THEN d.id = link[2]
        ELSE /\ TargetOf(R, d) = link[2]
             /\ \A e \in Registrations(B) : TargetOf(R, e) = link[2] => e.place <= d.place}

\* The refusals of one registration.
MayRegister(R, B, c) ==
    /\ c.link # NoLink => ~c.new /\ One(Bearers(R, c.ns, c.link[2]))
    /\ \A t \in Tokens(c) :
          Several(Proposed(R, B, c.ns, t)) => \A d \in Proposals(B, c.ns, t) : d.new

\* The refusals of one use.
MayUse(R, B, c) ==
    IF c.link = NoLink
    THEN LET proposed == Proposed(R, B, c.ns, c.name) IN
         proposed # {} => One(proposed \cup Bearers(R, c.ns, c.name))
    ELSE LET pending == PointedAt(R, B, c.link) IN
         IF pending # {} THEN \A d \in pending : d.ns = c.ns
         ELSE c.link[1] = "parent" /\ One(Bearers(R, c.ns, c.link[2]))

Nameable(R, B) ==
    /\ \A c \in Registrations(B) : MayRegister(R, B, c)
    /\ \A c \in B \ Registrations(B) : MayUse(R, B, c)

\* Mutant: an ambiguous name stands for the first that bears it.
ResolvedFirst(R, B, c) ==
    LET bearers == Bearers(R, c.ns, c.name)
        proposed == Proposed(R, B, c.ns, c.name)
        pending == IF c.link = NoLink THEN {} ELSE PointedAt(R, B, c.link)
        as(canonical, status) == [canonical |-> canonical, status |-> status] IN
    IF pending # {} THEN as(TargetOf(R, Only(pending)), "pending_registration")
    ELSE IF c.link # NoLink
    THEN LET chosen == Only(Bearers(R, c.ns, c.link[2])) IN
         as(chosen, IF chosen \in bearers THEN "resolved" ELSE "registration")
    ELSE IF proposed # {} THEN as(Only(proposed), "pending_registration")
    ELSE IF bearers # {} THEN as(Only(bearers), "resolved")
    ELSE as(c.name, "unregistered")

\* The identity of a use, and how it was found.
Resolved(R, B, c) ==
    LET bearers == Bearers(R, c.ns, c.name)
        proposed == Proposed(R, B, c.ns, c.name)
        pending == IF c.link = NoLink THEN {} ELSE PointedAt(R, B, c.link)
        as(canonical, status) == [canonical |-> canonical, status |-> status] IN
    IF pending # {} THEN as(TargetOf(R, Only(pending)), "pending_registration")
    ELSE IF c.link # NoLink
    THEN LET chosen == Only(Bearers(R, c.ns, c.link[2])) IN
         as(chosen, IF chosen \in bearers THEN "resolved" ELSE "registration")
    ELSE IF proposed # {} THEN as(Only(proposed), "pending_registration")
    ELSE IF One(bearers) THEN as(Only(bearers), "resolved")
    ELSE IF bearers # {} THEN as(c.name, "conflict")
    ELSE as(c.name, "unregistered")

\* The case of a candidate (_build_requirement): of a registration always one, and the
\* author cannot leave it out.
NameCase(R, B, c) ==
    IF c.kind = "entity" THEN IF Torn(R, c) THEN "rewrite" ELSE "checkpoint"
    ELSE LET status == Resolved(R, B, c).status IN
         IF status = "conflict" THEN "rewrite"
         ELSE IF c.class = "boundary" THEN "ambiguity"
         ELSE IF c.class = "checkpoint" \/ c.link # NoLink THEN "checkpoint"
         ELSE IF status \in Registering THEN "ambiguity"
         ELSE "none"

\* bind_entity_registry_to_transaction: the effect of a claim, with its resolution.
NamedEffect(R, B, c) ==
    LET to == IF c.kind = "entity" THEN [canonical |-> TargetOf(R, c), status |-> "registration"]
              ELSE Resolved(R, B, c) IN
    [id |-> c.id, kind |-> c.kind, ns |-> c.ns, name |-> c.name, aliases |-> c.aliases,
     link |-> c.link, new |-> c.new, canonical |-> to.canonical, status |-> to.status,
     case |-> NameCase(R, B, c)]

-----------------------------------------------------------------------------
NamesInit == named = << >> /\ naming = NoNaming

PrepareNames(chapter, B) ==
    /\ naming = NoNaming
    /\ chapter <= Len(named) + 1
    /\ LET R == Registry(chapter) IN
       /\ Nameable(R, B)
       /\ naming' = [chapter |-> chapter, effects |-> {NamedEffect(R, B, c) : c \in B}]
    /\ UNCHANGED named

\* The author approves the cases, except the ambiguities she leaves out; what asks for
\* a rewrite is never published.  Later chapters leave the manifest.
PublishNames(omitted) ==
    /\ naming # NoNaming
    /\ \A e \in naming.effects : e.case # "rewrite"
    /\ \A e \in omitted : e.case = "ambiguity"
    /\ named' = Append(SubSeq(named, 1, naming.chapter - 1), naming.effects \ omitted)
    /\ naming' = NoNaming

ArchiveNames ==
    /\ naming # NoNaming
    /\ naming' = NoNaming
    /\ UNCHANGED named

NamesNext ==
    \/ \E chapter \in 1 .. Len(named) + 1 :
          \E B \in SUBSET {c \in NameClaims : c.chapter = chapter} :
             Cardinality(B) \in 1 .. MaxNames /\ PrepareNames(chapter, B)
    \/ \E omitted \in SUBSET naming.effects : PublishNames(omitted)
    \/ ArchiveNames

NamesSpec == NamesInit /\ [][NamesNext]_nameVars

-----------------------------------------------------------------------------
(* Properties *)

SameName(e, f) == e.ns = f.ns /\ normalize_alias_key(e.name) = normalize_alias_key(f.name)
Unlinked(c) == {e \in named[c] : e.kind = "use" /\ e.link = NoLink}

\* Wherever nobody chose, a name stands for one and the same identity at every HEAD,
\* in whatever order aliases, namesakes and links were approved, left out and revised
\* away: two chapters never tell one person's story under two identities by default.
\* (Inside one chapter a name that nobody bears stands for itself as it is spelled.)
OneBearer ==
    \A c, d \in DOMAIN named :
        \A e \in Unlinked(c), f \in Unlinked(d) :
            SameName(e, f) /\ (c # d \/ e.name = f.name) => e.canonical = f.canonical

\* An identity that a published fact is about can be found again under the name that
\* its chapter used: the registry of the next chapter has it, also when the name came
\* from a registration of the same batch.
UsesStayKnown ==
    \A c \in DOMAIN named : \A e \in named[c] :
        e.kind = "use" => e.canonical \in Bearers(Registry(c + 1), e.ns, e.name)

\* Of two identities that a name stands for one was given to it by a human, who approved
\* a new instance, a link of a name or a link of a field; or the genesis has both, or one
\* chapter spells in two ways a name that nobody bore.  A choice excuses the names that
\* it gives and no other.
ByChoice(b) ==
    \E c \in DOMAIN named : \E e \in named[c] : (e.new \/ e.link # NoLink) /\ b \in Bindings(e)
SpelledInTwoWays(c, b, d) ==
    \E e, f \in Unlinked(c) :
        /\ e.status = "unregistered" /\ b \in Bindings(e)
        /\ f.status = "unregistered" /\ d \in Bindings(f)
OnlyChoicesMakeNamesakes ==
    \A b, d \in Registry(Len(named) + 1) :
        b.ns = d.ns /\ b.key = d.key =>
          \/ b.canonical = d.canonical
          \/ ByChoice(b) \/ ByChoice(d)
          \/ {b, d} \subseteq GenesisNames
          \/ \E c \in DOMAIN named : SpelledInTwoWays(c, b, d)
=============================================================================
