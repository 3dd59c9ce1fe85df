--------------------------- MODULE MCEntityNames ---------------------------
(* A small instance of EntityNames: two names and their namesakes. *)
EXTENDS EntityNames, TLC

Entity(chapter, place, id, name, aliases, link, new) ==
    [id |-> id, chapter |-> chapter, place |-> place, kind |-> "entity", ns |-> "actor",
     name |-> name, aliases |-> aliases, link |-> link, new |-> new, class |-> "checkpoint"]

Use(chapter, place, id, ns, name, link, class) ==
    [id |-> id, chapter |-> chapter, place |-> place, kind |-> "use", ns |-> ns,
     name |-> name, aliases |-> {}, link |-> link, new |-> FALSE, class |-> class]

Protagonist == {[ns |-> "actor", key |-> "lin", canonical |-> "lin"]}
FullWidth == [LIN |-> "lin"]

\* An alias of the protagonist and a stranger of that name; a namesake; a link.
Cast ==
    { Use(1, 1, "a1", "actor", "young", NoLink, "plain"),
      Use(1, 2, "a2", "actor", "LIN", NoLink, "boundary"),
      Entity(1, 3, "a3", "young", {"lin"}, NoLink, FALSE),
      Entity(1, 4, "a4", "young", {}, NoLink, TRUE),
      Use(1, 5, "a5", "actor", "master", <<"candidate", "a4">>, "plain"),
      Use(1, 6, "a6", "location", "young", NoLink, "plain"),
      Use(2, 1, "b1", "actor", "young", NoLink, "checkpoint"),
      Entity(2, 2, "b2", "master", {"young"}, NoLink, FALSE),
      Entity(2, 3, "b3", "young", {}, <<"parent", "lin">>, FALSE),
      Use(2, 4, "b4", "actor", "young", <<"parent", "lin">>, "plain"),
      Use(2, 5, "b5", "actor", "master", NoLink, "plain"),
      Use(3, 1, "c1", "actor", "young", NoLink, "plain"),
      Use(3, 2, "c2", "actor", "master", NoLink, "boundary") }
=============================================================================
