---------------------------- MODULE MCFactSlots ----------------------------
(* Small instances of FactSlots: a genesis of six rows and two chapters.  *)
EXTENDS FactSlots, TLC

Row(id, kind, subject, list, rank, source, slot, axiom) ==
    [id |-> id, kind |-> kind, list |-> list, rank |-> rank, source |-> source,
     key |-> <<Family[kind], slot>>, subject |-> subject, resolved |-> FALSE, axiom |-> axiom]

Life == <<"state", "lin", "life">>
Theft == <<"loop", "g3">>
Oath == <<"promise", "g6">>
Gate == <<"rule", "gate">>

\* A rule before the others in its list, two rows for one state, an open loop, a second
\* loop that is only history, and a promise that does not say whose it is.
Genesis ==
    << Row("g1", "rule", "lin", "canonical_facts", 1, 0, Gate, TRUE),
       Row("g2", "state", "lin", "canonical_facts", 1, 0, Life, FALSE),
       Row("g3", "loop", "lin", "obligations", 0, 0, Theft, FALSE),
       Row("g4", "state", "lin", "state_changes", 3, 0, Life, FALSE),
       Row("g5", "loop", "lin", "lifecycle_history", 4, 0, <<"loop", "g5">>, FALSE),
       Row("g6", "promise", NoSubject, "obligations", 0, 0, Oath, FALSE) >>

ClaimOfOne(chapter, place, id, kind, subject, field, slot, doubt) ==
    [id |-> id, chapter |-> chapter, place |-> place, kind |-> kind, subject |-> subject,
     field |-> field, slot |-> slot, doubt |-> doubt]

Claim(chapter, place, id, kind, field, slot, doubt) ==
    ClaimOfOne(chapter, place, id, kind, "lin", field, slot, doubt)

\* What two chapters say of one person's life and whereabouts, of two open loops, of two
\* promises that somebody else may be said to keep, and of a rule that the first chapter
\* may reveal and the second break.
Story ==
    { Claim(1, 1, "a1", "state", "life", Life, "none"),
      Claim(1, 2, "a2", "loop", "", NoSlot, "observed"),
      Claim(1, 3, "a3", "closed", "", <<"loop", "a2">>, "none"),
      Claim(1, 4, "a4", "rule", "door", NoSlot, "boundary"),
      Claim(1, 5, "a5", "promise", "", NoSlot, "none"),
      Claim(2, 1, "b1", "closed", "", Theft, "none"),
      Claim(2, 2, "b2", "state", "health", Life, "boundary"),
      Claim(2, 3, "b3", "state", "mood", NoSlot, "none"),
      Claim(2, 4, "b4", "broken", "", <<"rule", "door">>, "none"),
      Claim(2, 5, "b5", "closed", "", <<"loop", "a2">>, "none"),
      Claim(2, 7, "b7", "paid", "", <<"promise", "a5">>, "none"),
      ClaimOfOne(2, 8, "b8", "paid", "mei", "", <<"promise", "a5">>, "none"),
      ClaimOfOne(2, 9, "b9", "paid", "mei", "", Oath, "none") }

\* A chapter that reveals a rule and breaks it.
RevealAndBreak ==
    { Claim(1, 1, "r1", "rule", "door", NoSlot, "none"),
      Claim(1, 2, "r2", "broken", "", <<"rule", "door">>, "none"),
      Claim(2, 1, "r3", "presence", "", NoSlot, "none"),
      Claim(2, 2, "r4", "state", "mood", NoSlot, "none"),
      Claim(2, 3, "r5", "loop", "", NoSlot, "observed") }
=============================================================================
