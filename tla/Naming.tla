------------------------------- MODULE Naming -------------------------------
(***************************************************************************)
(* The name <policy>.stage.<stage> of a BindingPolicy, and the way back    *)
(* from the name of a Binding, or a label, to the policy.  A name is the   *)
(* sequence of its dot-separated labels.                                   *)
(***************************************************************************)
EXTENDS Naturals, Sequences, FiniteSets

Separator == "stage"

Malformed == <<>>

BindingPolicyName(policy, stage) == policy \o <<Separator>> \o stage

\* strings.Split by ".stage." looks from left to right for a label with a dot on
\* either side; a label that follows a match has lost the dot on its left.
Cuts(name) ==
    LET cut[i \in 0..Len(name)] ==
            /\ i > 1 /\ i < Len(name)
            /\ name[i] = Separator
            /\ ~cut[i - 1]
    IN  {i \in 1..Len(name) : cut[i]}

\* Mutant: the first part counts, however many there are.
FirstPart(name) ==
    IF Cuts(name) = {} THEN Malformed
    ELSE SubSeq(name, 1, (CHOOSE c \in Cuts(name) : \A d \in Cuts(name) : c <= d) - 1)

\* The first part, if there are exactly two.
Owner(name) ==
    IF Cardinality(Cuts(name)) # 1 THEN Malformed
    ELSE SubSeq(name, 1, (CHOOSE c \in Cuts(name) : TRUE) - 1)
=============================================================================
