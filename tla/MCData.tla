------------------------------- MODULE MCData -------------------------------
(***************************************************************************)
(* The functions of Naming and Selection over small inputs: every state    *)
(* but the first is one input, and the properties compare what the code    *)
(* computes of it with what a reader would expect.                         *)
(***************************************************************************)
EXTENDS Naming, Selection

CONSTANTS
    Labels,      \* DNS labels, the separator's own among them
    MaxLabels,   \* bound on the labels of a policy's or a stage's name
    Words        \* values of the fields of an object

VARIABLE input

\* Sequences of 1 to n members of S.
UpTo(S, n) == UNION {[1..m -> S] : m \in 1..n}

NameInputs == [kind : {"name"}, policy : UpTo(Labels, MaxLabels), stage : UpTo(Labels, MaxLabels)]

ResumeInputs ==
    UNION {[kind : {"resume"}, stages : [1..m -> [name : Labels]], at : 1..m] : m \in 1..3}

ClusterClauses ==
    [group : Words, version : Words, resource : {"r"}, name : {"x"}, resourceVersion : {"1"}]

NamespaceClauses ==
    [group : Words, version : Words, resource : {"r"}, name : Words, namespace : Words,
     resourceVersion : {"1"}]

Workloads ==
    {[ClusterScope |-> C, NamespaceScope |-> {c, d}] :
        C \in {{}} \cup {{k} : k \in ClusterClauses}, c \in NamespaceClauses, d \in NamespaceClauses}

\* Filters that mean what they say, and those that cannot be evaluated, have
\* the wrong root, look up what is not there or yield no bool.
Filter(key, value) ==
    [parses |-> TRUE, root |-> "downsyncClause", key |-> key, value |-> value, compares |-> TRUE]

GoodFilters ==
    {Filter(key, value) : key \in {"group", "version", "name", "namespace", "resource"},
                          value \in Words \cup {"r"}}

BadFilters ==
    LET good == CHOOSE e \in GoodFilters : e.key = "name"
    IN  {[good EXCEPT !.parses = FALSE], [good EXCEPT !.compares = FALSE], [good EXCEPT !.key = "kind"]}
        \cup {[good EXCEPT !.root = root] : root \in {"obj", "combinedStatus"}}

FilterInputs == [kind : {"filter"}, workload : Workloads, filter : GoodFilters \cup BadFilters]

Init == input = [kind |-> "none"]

Next ==
    /\ input.kind = "none"
    /\ input' \in NameInputs \cup ResumeInputs \cup FilterInputs

Spec == Init /\ [][Next]_input

-----------------------------------------------------------------------------
(* NoteBinding, NoteCombinedStatus: the events of a policy's Binding lead  *)
(* back to that policy exactly if the label "stage" occurs neither behind  *)
(* the first label of the policy's name nor inside the stage's.            *)
OwnerRecovered ==
    input.kind = "name" =>
        LET policy == input.policy
            stage == input.stage
        IN  Owner(BindingPolicyName(policy, stage)) = policy
            <=> /\ \A i \in 2..Len(policy) : policy[i] # Separator
                /\ \A i \in 2..(Len(stage) - 1) : stage[i] # Separator

(* Events are taken for those of another policy only when the name of      *)
(* theirs is the other's followed by ".stage"; in every other case of an   *)
(* unrecovered owner they are dropped as malformed.                        *)
WrongOwnerIsPrefix ==
    input.kind = "name" =>
        LET owner == Owner(BindingPolicyName(input.policy, input.stage))
        IN  owner \in {Malformed, input.policy} \/ input.policy = Append(owner, Separator)

(* NoteStagedBindingPolicy: the stage taken up again from a status has the *)
(* name the status was given, and is never behind the stage that gave it;  *)
(* it is that stage when the names are distinct.                           *)
ResumesAtOrBefore ==
    input.kind = "resume" =>
        LET stages == input.stages
            resumed == ActiveStage([stages |-> stages, active |-> stages[input.at].name]) + 1
        IN  /\ resumed <= input.at
            /\ stages[resumed].name = stages[input.at].name
            /\ (\A i, j \in DOMAIN stages : stages[i].name = stages[j].name => i = j)
                   => resumed = input.at

Filtered(filters) == filterWorkloadForSBP(input.workload, filters)

(* Resolver!FilterWorkload: a filter on what identifies an object admits a *)
(* fixed set of objects, whatever else the workload holds.                 *)
FilterActsOnObjects ==
    input.kind = "filter" /\ input.filter.key \in {"name", "namespace", "resource"}
                          /\ input.filter \in GoodFilters =>
        Filtered({input.filter}) =
            {id \in Filtered({}) : id[input.filter.key] = input.filter.value}

(* testExpression: a filter that cannot be evaluated on downsync clauses   *)
(* admits nothing, not everything; a stage with a condition then waits for *)
(* ever.                                                                   *)
FailsClosed ==
    input.kind = "filter" /\ input.filter \in BadFilters => Filtered({input.filter}) = {}

(* README: a filter looks at the downsync clause as it is in the Binding,  *)
(* so one on the group admits the objects of that API group.               *)
GroupMeansGroup ==
    input.kind = "filter" /\ input.filter.key = "group" /\ input.filter \in GoodFilters =>
        Filtered({input.filter}) = {id \in Filtered({}) : id.group = input.filter.value}
=============================================================================
