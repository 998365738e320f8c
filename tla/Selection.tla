------------------------------ MODULE Selection ------------------------------
(***************************************************************************)
(* The decisions of the resolver that depend on data alone: at which stage *)
(* a status resumes, what the CEL evaluator makes of an expression         *)
(* (cel-evaluator.go) and which objects of a workload a filter admits      *)
(* (the end of resolver.go).                                               *)
(*                                                                         *)
(* A CEL expression is reduced to what these functions tell apart: whether *)
(* it parses, the variable at its root, the key it looks up, the value it  *)
(* compares that with, and whether it compares at all or just returns the  *)
(* value found, which is no bool.  A nil pointer to one is the empty set.  *)
(***************************************************************************)
EXTENDS Naturals, Sequences

-----------------------------------------------------------------------------
\* Mutants of ActiveStage: the status is ignored; the last stage of the name;
\* other stages to fall back to.
IgnoresStatus(obj) == 0

LastNamed(obj) ==
    LET named == {i \in 0..(Len(obj.stages) - 1) : obj.stages[i + 1].name = obj.active}
    IN  IF named = {} THEN 0 ELSE CHOOSE i \in named : \A j \in named : i >= j

FallsBackTo(obj, default) ==
    IF \E i \in 1..Len(obj.stages) : obj.stages[i].name = obj.active
    THEN (CHOOSE i \in 1..Len(obj.stages) : obj.stages[i].name = obj.active) - 1
    ELSE default

FallsBackToMinusOne(obj) == FallsBackTo(obj, 0 - 1)

FallsBackToLast(obj) == FallsBackTo(obj, Len(obj.stages) - 1)

FallsBackPastLast(obj) == FallsBackTo(obj, Len(obj.stages))

\* The first stage with the name in the status, else stage 0.
ActiveStage(obj) ==
    LET named == {i \in 0..(Len(obj.stages) - 1) : obj.stages[i + 1].name = obj.active}
    IN  IF named = {} THEN 0 ELSE CHOOSE i \in named : \A j \in named : i <= j

-----------------------------------------------------------------------------
Declared == {"combinedStatus", "downsyncClause"}

\* Parse and Check, which Evaluate does itself: the text is CEL and its root
\* variable is declared.
CheckExpression(e) == e.parses /\ e.root \in Declared

Failed == [err |-> TRUE]

\* `activation' maps root variables to maps; Eval fails on a missing one of
\* either kind.
Evaluate(e, activation) ==
    IF /\ CheckExpression(e)
       /\ e.root \in DOMAIN activation
       /\ e.key \in DOMAIN activation[e.root]
    THEN LET found == activation[e.root][e.key]
         IN  [err |-> FALSE, type |-> IF e.compares THEN "bool" ELSE "string",
              value |-> IF e.compares THEN found = e.value ELSE found]
    ELSE Failed

\* Mutant: an expression that cannot be evaluated filters nothing out.
FailsOpen(e, activation) ==
    LET verdict == Evaluate(e, activation)
    IN  verdict.err \/ (verdict.type = "bool" /\ verdict.value)

\* An error and a value that is no bool both count as false.
testExpression(e, activation) ==
    LET verdict == Evaluate(e, activation)
    IN  ~verdict.err /\ verdict.type = "bool" /\ verdict.value

-----------------------------------------------------------------------------
clusterScopeDownsyncObjectToMap(c) ==
    [group |-> c.group, version |-> c.version, resource |-> c.resource,
     name |-> c.name, resourceVersion |-> c.resourceVersion]

\* Mutant: the name in place of the namespace.
NamespaceIsName(c) ==
    [group |-> c.version, version |-> c.version, resource |-> c.resource,
     name |-> c.name, namespace |-> c.name, resourceVersion |-> c.resourceVersion]

\* The version stands under both keys.
namespaceScopeDownsyncObjectToMap(c) ==
    [group |-> c.version, version |-> c.version, resource |-> c.resource,
     name |-> c.name, namespace |-> c.namespace, resourceVersion |-> c.resourceVersion]

Clause(map) == [r \in {"downsyncClause"} |-> map]

NoNamespace == ""

\* util.ObjectIdentifier: neither version nor resource version.
ObjectIdentifier(c, namespace) ==
    [group |-> c.group, resource |-> c.resource, name |-> c.name, namespace |-> namespace]

\* `expression' holds at most one expression.
filterWorkloadForSBP(workload, expression) ==
    {ObjectIdentifier(c, NoNamespace) :
        c \in {d \in workload.ClusterScope : \A e \in expression :
                  testExpression(e, Clause(clusterScopeDownsyncObjectToMap(d)))}}
    \cup
    {ObjectIdentifier(c, c.namespace) :
        c \in {d \in workload.NamespaceScope : \A e \in expression :
                  testExpression(e, Clause(namespaceScopeDownsyncObjectToMap(d)))}}
=============================================================================
