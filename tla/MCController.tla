----------------------------- MODULE MCController -----------------------------
(***************************************************************************)
(* Instances of the controller for TLC.  The sets of names, objects and    *)
(* workers are given in the configurations; here are the values of         *)
(* spec.stages that users write in them.                                   *)
(***************************************************************************)
EXTENDS ControllerProps, FiniteSets, TLC

CONSTANTS p1, dev, test, prod, o1, o2, w1, w2

Conditional(name) == [name |-> name, filter |-> Objects, cond |-> TRUE]
Final(name) == [name |-> name, filter |-> Objects, cond |-> FALSE]

Owners == [key \in BPKeys |-> key[1]]

\* A stage called dev.stage.x, say: its Binding's name does not split in two.
MalformedDev == [key \in BPKeys |-> IF key[2] = dev THEN None ELSE key[1]]

OneStage == {<<Final(dev)>>}

TwoStages == {<<Conditional(dev), Final(prod)>>}

\* The middle stage's filter admits one object.
FilteredStages ==
    {<<Conditional(dev), [Conditional(test) EXCEPT !.filter = {o}], Final(prod)>> : o \in Objects}

\* The last stage has a condition too.
ConditionalLast == {<<Conditional(dev), Conditional(prod)>>}

AllLists == TwoStages \cup FilteredStages \cup ConditionalLast

\* Bound: two objects for two stages, one for more stages or conditions.
OneObjectOrTwoStages ==
    \A n \in SBPs :
        sbp[n] # None /\ sbp[n].stages \notin TwoStages => Cardinality(objs) <= 1

\* Bound: once a policy is deleted, no fourth UID is handed out.
LittleAfterDeletion ==
    \A n \in SBPs : sbp[n] = None => nextUid <= 4

\* A user adds or drops the first stage.
EditedStages == TwoStages \cup {<<Final(prod)>>}

Symmetry == Permutations(Workers) \cup Permutations(Objects)
=============================================================================
