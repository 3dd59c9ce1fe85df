------------------------------ MODULE MCBeside ------------------------------
(***************************************************************************)
(* Small instances of what is modelled beside CanonStore and the workflow: *)
(* the readers, the slots of facts, the names, the axioms, the making of a *)
(* project and what a power failure leaves.  Each is a system of its own:  *)
(* a behaviour is one of them, and the others stay as they were at the     *)
(* start, so that their states add up.                                     *)
(***************************************************************************)
EXTENDS StableReads, MCFactSlots, MCEntityNames, AxiomRecords, ProjectInit, DurablePublish

VARIABLE part

Parts == {"reads", "facts", "names", "axioms", "init", "disk"}

\* A part that is not the one at work starts in one state only.
BesideInit ==
    /\ part \in Parts
    /\ ReadersInit /\ (part # "reads" => tool = {"refresh"} /\ projection = 0)
    /\ FactsInit
    /\ NamesInit
    /\ AxiomsInit
    /\ InitInit /\ (part # "init" => /\ platform = "posix" /\ outer = Absent
                                     /\ target = [p \in Inits |-> "outer"])
    /\ StoreInit

BesideNext ==
    /\ UNCHANGED part
    /\ \/ /\ part = "reads" /\ ReadersNext
          /\ UNCHANGED <<factVars, nameVars, axiomVars, initVars, storeVars>>
       \/ /\ part = "facts" /\ FactsNext
          /\ UNCHANGED <<allVars, nameVars, axiomVars, initVars, storeVars>>
       \/ /\ part = "names" /\ NamesNext
          /\ UNCHANGED <<allVars, factVars, axiomVars, initVars, storeVars>>
       \/ /\ part = "axioms" /\ AxiomsNext
          /\ UNCHANGED <<allVars, factVars, nameVars, initVars, storeVars>>
       \/ /\ part = "init" /\ InitNext
          /\ UNCHANGED <<allVars, factVars, nameVars, axiomVars, storeVars>>
       \/ /\ part = "disk" /\ StoreNext
          /\ UNCHANGED <<allVars, factVars, nameVars, axiomVars, initVars>>

besideVars == <<part, allVars, factVars, nameVars, axiomVars, initVars, storeVars>>

BesideSpec == BesideInit /\ [][BesideNext]_besideVars
=============================================================================
