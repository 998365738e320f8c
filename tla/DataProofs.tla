------------------------------ MODULE DataProofs ------------------------------
(***************************************************************************)
(* Proofs about the decisions of the resolver that depend on data alone:   *)
(* which stage a status resumes, which objects a filter admits, and whose  *)
(* a BindingPolicy is by its name.  The lemmas hold of every list of       *)
(* stages, every workload and every name; the theorems are their instances *)
(* for the inputs of MCData.                                               *)
(***************************************************************************)
EXTENDS MCData, NaturalsInduction, SequenceTheorems, FiniteSetTheorems, WellFoundedInduction, TLAPS

-----------------------------------------------------------------------------
(* The stage a status resumes.                                             *)

LEMMA LeastIndex ==
  ASSUME NEW T, T \subseteq Nat, T # {}
  PROVE  \E i \in T : \A j \in T : i <= j
  <1> DEFINE R == {ss \in Nat \X Nat : ss[1] < ss[2]}
  <1>1. IsWellFoundedOn(R, Nat)
    BY NatLessThanWellFounded DEF OpToRel
  <1>2. PICK i \in T : \A j \in T : ~ (<<j, i>> \in R)
    <2> HIDE DEF R
    <2> QED
      BY <1>1, WFMin
  <1>3. ASSUME NEW j \in T PROVE i <= j
    <2>1. i \in Nat /\ j \in Nat
      OBVIOUS
    <2>2. ~ (j < i)
      BY <1>2, <2>1
    <2> QED
      BY <2>1, <2>2
  <1> QED
    BY <1>3

LEMMA LenIs ==
  ASSUME NEW S, NEW m \in Nat, NEW s \in [1..m -> S]
  PROVE  Len(s) = m
  <1>1. s \in UNION {[1..n -> S] : n \in Nat}
    OBVIOUS
  <1>2. s \in Seq(S) /\ DOMAIN s = 1..m
    BY <1>1, SeqDef
  <1> QED
    BY <1>2

(* ActiveStage is the first of the stages with the name in the status.     *)
LEMMA ActiveStageFirst ==
  ASSUME NEW obj, Len(obj.stages) \in Nat,
         NEW i \in 1..Len(obj.stages), obj.stages[i].name = obj.active
  PROVE  LET first == ActiveStage(obj) + 1
         IN  /\ first \in 1..Len(obj.stages)
             /\ first <= i
             /\ obj.stages[first].name = obj.active
  <1> DEFINE named == {j \in 0..(Len(obj.stages) - 1) : obj.stages[j + 1].name = obj.active}
  <1>1. named \subseteq Nat
    OBVIOUS
  <1>2. i - 1 \in named
    <2>1. i - 1 \in 0..(Len(obj.stages) - 1) /\ (i - 1) + 1 = i
      OBVIOUS
    <2> QED
      BY <2>1
  <1>3. \E j \in named : \A k \in named : j <= k
    BY <1>1, <1>2, LeastIndex
  <1>4. ActiveStage(obj) \in named /\ \A k \in named : ActiveStage(obj) <= k
    <2>1. named # {}
      BY <1>2
    <2>2. ActiveStage(obj) = CHOOSE j \in named : \A k \in named : j <= k
      BY <2>1 DEF ActiveStage
    <2> HIDE DEF named
    <2> QED
      BY <1>3, <2>2
  <1>5. ActiveStage(obj) \in 0..(Len(obj.stages) - 1) /\ obj.stages[ActiveStage(obj) + 1].name = obj.active
    BY <1>4
  <1>6. ActiveStage(obj) <= i - 1
    BY <1>2, <1>4
  <1> QED
    BY <1>5, <1>6

-----------------------------------------------------------------------------
(* What a filter admits.                                                   *)

(* An expression that cannot be evaluated on a downsync clause, or yields  *)
(* no bool, is false.                                                      *)
LEMMA UnevaluableIsFalse ==
  ASSUME NEW e, NEW map,
         \/ ~e.parses
         \/ e.root # "downsyncClause"
         \/ e.key \notin DOMAIN map
         \/ ~e.compares
  PROVE  ~testExpression(e, Clause(map))
  <1>1. DOMAIN Clause(map) = {"downsyncClause"} /\ Clause(map)["downsyncClause"] = map
    BY DEF Clause
  <1>2. CASE e.parses /\ e.root = "downsyncClause" /\ e.key \in DOMAIN map /\ ~e.compares
    <2>1. Evaluate(e, Clause(map)) = [err |-> FALSE, type |-> "string", value |-> map[e.key]]
      BY <1>1, <1>2 DEF Evaluate, CheckExpression, Declared
    <2> QED
      BY <2>1 DEF testExpression
  <1>3. CASE ~e.parses \/ e.root # "downsyncClause" \/ e.key \notin DOMAIN map
    <2>1. Evaluate(e, Clause(map)) = Failed
      BY <1>1, <1>3 DEF Evaluate, CheckExpression, Declared
    <2> QED
      BY <2>1 DEF testExpression, Failed
  <1> QED
    BY <1>2, <1>3

(* One that can be is the comparison it makes.                             *)
LEMMA FilterCompares ==
  ASSUME NEW key, NEW value, NEW map
  PROVE  testExpression(Filter(key, value), Clause(map)) <=> key \in DOMAIN map /\ map[key] = value
  <1> DEFINE e == Filter(key, value)
  <1>1. e.parses /\ e.compares /\ e.root = "downsyncClause" /\ e.key = key /\ e.value = value
    BY DEF Filter
  <1>2. DOMAIN Clause(map) = {"downsyncClause"} /\ Clause(map)["downsyncClause"] = map
    BY DEF Clause
  <1> HIDE DEF e
  <1>3. CASE key \in DOMAIN map
    <2>1. Evaluate(e, Clause(map)) = [err |-> FALSE, type |-> "bool", value |-> map[key] = value]
      BY <1>1, <1>2, <1>3 DEF Evaluate, CheckExpression, Declared
    <2> QED
      <3> DEFINE verdict == Evaluate(e, Clause(map))
      <3>1. verdict.err = FALSE /\ verdict.type = "bool" /\ verdict.value = (map[key] = value)
        BY <2>1
      <3>2. testExpression(e, Clause(map)) <=> ~verdict.err /\ verdict.type = "bool" /\ verdict.value
        BY DEF testExpression
      <3> HIDE DEF verdict
      <3> QED
        BY <1>3, <3>1, <3>2, Zenon DEF e
  <1>4. CASE key \notin DOMAIN map
    BY <1>1, <1>4, UnevaluableIsFalse DEF e
  <1> QED
    BY <1>3, <1>4

Passes(f, c) == testExpression(f, Clause(clusterScopeDownsyncObjectToMap(c)))

PassesIn(f, c) == testExpression(f, Clause(namespaceScopeDownsyncObjectToMap(c)))

LEMMA OneFilter ==
  ASSUME NEW workload, NEW f
  PROVE  filterWorkloadForSBP(workload, {f}) =
            {ObjectIdentifier(c, NoNamespace) : c \in {d \in workload.ClusterScope : Passes(f, d)}}
            \cup {ObjectIdentifier(c, c.namespace) : c \in {d \in workload.NamespaceScope : PassesIn(f, d)}}
  BY DEF filterWorkloadForSBP, Passes, PassesIn

LEMMA NoFilter ==
  ASSUME NEW workload
  PROVE  filterWorkloadForSBP(workload, {}) =
            {ObjectIdentifier(c, NoNamespace) : c \in workload.ClusterScope}
            \cup {ObjectIdentifier(c, c.namespace) : c \in workload.NamespaceScope}
  BY DEF filterWorkloadForSBP

(* A filter on what identifies an object, if it compares with the same     *)
(* field of every clause.                                                  *)
LEMMA IdentityFilter ==
  ASSUME NEW workload, NEW key \in {"name", "namespace", "resource"}, NEW value, value # NoNamespace
  PROVE  filterWorkloadForSBP(workload, {Filter(key, value)}) =
            {id \in filterWorkloadForSBP(workload, {}) : id[key] = value}
  <1> DEFINE f == Filter(key, value)
  <1>1. ASSUME NEW c PROVE Passes(f, c) <=> ObjectIdentifier(c, NoNamespace)[key] = value
    <2> DEFINE map == clusterScopeDownsyncObjectToMap(c)
    <2>1. /\ DOMAIN map = {"group", "version", "resource", "name", "resourceVersion"}
          /\ map["name"] = c.name /\ map["resource"] = c.resource
      BY DEF clusterScopeDownsyncObjectToMap
    <2>2. LET id == ObjectIdentifier(c, NoNamespace)
          IN  id["name"] = c.name /\ id["resource"] = c.resource /\ id["namespace"] = NoNamespace
      BY DEF ObjectIdentifier
    <2>3. Passes(f, c) <=> key \in DOMAIN map /\ map[key] = value
      BY FilterCompares DEF Passes
    <2> HIDE DEF map, f
    <2> QED
      BY <2>1, <2>2, <2>3
  <1>2. ASSUME NEW c PROVE PassesIn(f, c) <=> ObjectIdentifier(c, c.namespace)[key] = value
    <2> DEFINE map == namespaceScopeDownsyncObjectToMap(c)
    <2>1. /\ DOMAIN map = {"group", "version", "resource", "name", "namespace", "resourceVersion"}
          /\ map["name"] = c.name /\ map["resource"] = c.resource /\ map["namespace"] = c.namespace
      BY DEF namespaceScopeDownsyncObjectToMap
    <2>2. LET id == ObjectIdentifier(c, c.namespace)
          IN  id["name"] = c.name /\ id["resource"] = c.resource /\ id["namespace"] = c.namespace
      BY DEF ObjectIdentifier
    <2>3. PassesIn(f, c) <=> key \in DOMAIN map /\ map[key] = value
      BY FilterCompares DEF PassesIn
    <2> HIDE DEF map, f
    <2> QED
      BY <2>1, <2>2, <2>3
  <1> HIDE DEF f
  <1>3. filterWorkloadForSBP(workload, {f}) = {id \in filterWorkloadForSBP(workload, {}) : id[key] = value}
    BY <1>1, <1>2, OneFilter, NoFilter
  <1> QED
    BY <1>3 DEF f

-----------------------------------------------------------------------------
(* Where strings.Split cuts a name.                                        *)

IsCut(cut, name, n, m) ==
    cut = [i \in 0..m |-> i > 1 /\ i < n /\ name[i] = Separator /\ ~cut[i - 1]]

(* The recursion of Cuts has a solution on every prefix: a least prefix    *)
(* without one is not empty, and the solution before it extends to it.     *)
LEMMA CutExists ==
  ASSUME NEW name, NEW n \in Nat, NEW m \in Nat
  PROVE  \E cut : IsCut(cut, name, n, m)
  <1> DEFINE Bad == {k \in Nat : ~ \E cut : IsCut(cut, name, n, k)}
  <1>1. SUFFICES ASSUME Bad # {} PROVE FALSE
    OBVIOUS
  <1>2. PICK k \in Bad : \A j \in Bad : k <= j
    <2>1. Bad \subseteq Nat
      OBVIOUS
    <2> HIDE DEF Bad
    <2> QED
      BY <1>1, <2>1, LeastIndex
  <1>3. k \in Nat /\ ~ \E cut : IsCut(cut, name, n, k)
    OBVIOUS
  <1>4. CASE k = 0
    <2> DEFINE none == [i \in 0..0 |-> FALSE]
    <2>1. none = [i \in 0..0 |-> i > 1 /\ i < n /\ name[i] = Separator /\ ~none[i - 1]]
      <3>1. \A i \in 0..0 : ~(i > 1)
        OBVIOUS
      <3> QED
        BY <3>1
    <2>2. IsCut(none, name, n, 0)
      BY <2>1 DEF IsCut
    <2> QED
      BY <1>3, <1>4, <2>2
  <1>5. CASE k # 0
    <2>1. k - 1 \in Nat /\ ~(k <= k - 1) /\ 0..k = (0..(k - 1)) \cup {k} /\ k \notin 0..(k - 1)
      BY <1>3, <1>5
    <2>2. k - 1 \notin Bad
      <3> HIDE DEF Bad
      <3> QED
        BY <1>2, <2>1
    <2>3. PICK g : IsCut(g, name, n, k - 1)
      BY <2>1, <2>2
    <2> DEFINE last == k > 1 /\ k < n /\ name[k] = Separator /\ ~g[k - 1]
               f == [i \in 0..k |-> IF i = k THEN last ELSE g[i]]
    <2>4. ASSUME NEW i \in 0..k
          PROVE  f[i] = (i > 1 /\ i < n /\ name[i] = Separator /\ ~f[i - 1])
      <3>1. CASE i = k
        <4>1. f[i] = last
          BY <3>1
        <4>2. f[k - 1] = g[k - 1]
          <5>1. k - 1 \in 0..k /\ k - 1 # k
            BY <1>3, <1>5
          <5> QED
            BY <5>1
        <4> QED
          BY <3>1, <4>1, <4>2
      <3>2. CASE i # k
        <4>1. i \in 0..(k - 1)
          BY <2>1, <3>2
        <4>2. f[i] = g[i]
          BY <3>2
        <4>3. g[i] = (i > 1 /\ i < n /\ name[i] = Separator /\ ~g[i - 1])
          BY <2>3, <4>1 DEF IsCut
        <4>4. i > 1 => f[i - 1] = g[i - 1]
          <5>1. i > 1 => i - 1 \in 0..k /\ i - 1 # k
            BY <1>3, <4>1
          <5> QED
            BY <5>1
        <4> HIDE DEF f
        <4> QED
          BY <4>2, <4>3, <4>4
      <3> QED
        BY <3>1, <3>2
    <2>5. f = [i \in 0..k |-> i > 1 /\ i < n /\ name[i] = Separator /\ ~f[i - 1]]
      <3> DEFINE h == [i \in 0..k |-> i > 1 /\ i < n /\ name[i] = Separator /\ ~f[i - 1]]
      <3>1. \A i \in 0..k : f[i] = h[i]
        <4> HIDE DEF f
        <4> QED
          BY <2>4
      <3>2. f = [i \in 0..k |-> f[i]] /\ h = [i \in 0..k |-> h[i]]
        OBVIOUS
      <3> HIDE DEF f, h
      <3> QED
        BY <3>1, <3>2 DEF h
    <2>6. IsCut(f, name, n, k)
      <3> HIDE DEF f
      <3> QED
        BY <2>5 DEF IsCut
    <2> HIDE DEF f
    <2> QED
      BY <1>3, <2>6
  <1> QED
    BY <1>4, <1>5

(* A label is cut at if it is the separator, inside the name, and the      *)
(* label before it is not cut at.                                          *)
LEMMA CutsStep ==
  ASSUME NEW name, Len(name) \in Nat
  PROVE  /\ Cuts(name) \subseteq 1..Len(name)
         /\ \A i \in 1..Len(name) :
               i \in Cuts(name) <=> i > 1 /\ i < Len(name) /\ name[i] = Separator /\ i - 1 \notin Cuts(name)
  <1> DEFINE n == Len(name)
             Solves(c) == c = [i \in 0..Len(name) |->
                                 /\ i > 1 /\ i < Len(name)
                                 /\ name[i] = Separator
                                 /\ ~c[i - 1]]
             cut == CHOOSE c : Solves(c)
  <1>1. IsCut(cut, name, n, n)
    <2>1. \A c : Solves(c) <=> IsCut(c, name, n, n)
      BY DEF IsCut
    <2>2. \E c : Solves(c)
      <3> HIDE DEF Solves
      <3> QED
        BY <2>1, CutExists
    <2> HIDE DEF Solves
    <2> QED
      BY <2>1, <2>2
  <1>2. Cuts(name) = {i \in 1..n : cut[i]}
    BY DEF Cuts
  <1> HIDE DEF cut
  <1>3. \A i \in 1..n : cut[i] = (i > 1 /\ i < n /\ name[i] = Separator /\ ~cut[i - 1])
    <2>1. \A i \in 1..n : i \in 0..n
      OBVIOUS
    <2> QED
      BY <1>1, <2>1 DEF IsCut
  <1> HIDE DEF n
  <1>4. n \in Nat
    BY DEF n
  <1>5. ASSUME NEW i \in 1..n
        PROVE  i \in Cuts(name) <=> i > 1 /\ i < n /\ name[i] = Separator /\ i - 1 \notin Cuts(name)
    <2>1. i > 1 => i - 1 \in 1..n
      BY <1>4
    <2> QED
      BY <1>2, <1>3, <2>1
  <1> QED
    BY <1>2, <1>5 DEF n

(* The owner is the part before the only cut.                              *)
LEMMA OwnerOfOneCut ==
  ASSUME NEW name, Len(name) \in Nat
  PROVE  \/ /\ Owner(name) = Malformed
            /\ \A c : Cuts(name) # {c}
         \/ \E c \in 1..Len(name) : Cuts(name) = {c} /\ Owner(name) = SubSeq(name, 1, c - 1)
  <1>1. Cuts(name) \subseteq 1..Len(name)
    BY CutsStep
  <1>2. IsFiniteSet(Cuts(name))
    <2>1. IsFiniteSet(1..Len(name))
      BY FS_Interval
    <2> QED
      BY <1>1, <2>1, FS_Subset
  <1>3. Cardinality(Cuts(name)) = 1 <=> \E c : Cuts(name) = {c}
    BY <1>2, FS_Singleton
  <1>4. ASSUME NEW c, Cuts(name) = {c}
        PROVE  c \in 1..Len(name) /\ Owner(name) = SubSeq(name, 1, c - 1)
    <2>1. (CHOOSE d \in Cuts(name) : TRUE) = c
      BY <1>4
    <2> QED
      BY <1>1, <1>3, <1>4, <2>1 DEF Owner
  <1> QED
    BY <1>3, <1>4 DEF Owner

(* The labels of a BindingPolicy's name.                                   *)
IsNameOf(name, policy, stage) ==
    /\ Len(name) = Len(policy) + 1 + Len(stage)
    /\ \A i \in 1..Len(policy) : name[i] = policy[i]
    /\ name[Len(policy) + 1] = Separator
    /\ \A i \in 1..Len(stage) : name[Len(policy) + 1 + i] = stage[i]

LEMMA NameParts ==
  ASSUME NEW S, Separator \in S, NEW policy \in Seq(S), NEW stage \in Seq(S)
  PROVE  /\ BindingPolicyName(policy, stage) \in Seq(S)
         /\ IsNameOf(BindingPolicyName(policy, stage), policy, stage)
  <1> DEFINE p == Len(policy)
             s == Len(stage)
             front == policy \o <<Separator>>
             name == front \o stage
  <1>1. p \in Nat /\ s \in Nat
    BY LenProperties
  <1>2. <<Separator>> \in Seq(S) /\ Len(<<Separator>>) = 1 /\ <<Separator>>[1] = Separator
    OBVIOUS
  <1>3. /\ front \in Seq(S)
        /\ Len(front) = p + 1
        /\ \A i \in 1..(p + 1) : front[i] = IF i <= p THEN policy[i] ELSE <<Separator>>[i - p]
    <2> HIDE DEF p
    <2> QED
      BY <1>2, ConcatProperties DEF p
  <1>4. (\A i \in 1..p : front[i] = policy[i]) /\ front[p + 1] = Separator
    <2> HIDE DEF p, front
    <2>1. \A i \in 1..p : i \in 1..(p + 1) /\ i <= p
      BY <1>1
    <2>2. p + 1 \in 1..(p + 1) /\ ~(p + 1 <= p) /\ (p + 1) - p = 1
      BY <1>1
    <2> QED
      BY <1>2, <1>3, <2>1, <2>2
  <1> HIDE DEF front, p, s
  <1>5. /\ name \in Seq(S)
        /\ Len(name) = p + 1 + s
        /\ \A i \in 1..(p + 1 + s) : name[i] = IF i <= p + 1 THEN front[i] ELSE stage[i - (p + 1)]
    <2>1. /\ name \in Seq(S)
          /\ Len(name) = Len(front) + Len(stage)
          /\ \A i \in 1..(Len(front) + Len(stage)) :
                name[i] = IF i <= Len(front) THEN front[i] ELSE stage[i - Len(front)]
      BY <1>3, ConcatProperties
    <2>2. Len(front) = p + 1 /\ Len(stage) = s
      BY <1>3 DEF s
    <2> HIDE DEF name
    <2> QED
      BY <2>1, <2>2
  <1> HIDE DEF name
  <1>6. \A i \in 1..(p + 1) : name[i] = front[i]
    <2>1. \A i \in 1..(p + 1) : i \in 1..(p + 1 + s) /\ i <= p + 1
      BY <1>1
    <2> QED
      BY <1>5, <2>1
  <1>7. \A i \in 1..s : name[p + 1 + i] = stage[i]
    <2>1. \A i \in 1..s : p + 1 + i \in 1..(p + 1 + s) /\ ~(p + 1 + i <= p + 1) /\ (p + 1 + i) - (p + 1) = i
      BY <1>1
    <2> QED
      BY <1>5, <2>1
  <1>8. (\A i \in 1..p : name[i] = policy[i]) /\ name[p + 1] = Separator
    <2>1. (\A i \in 1..p : i \in 1..(p + 1)) /\ p + 1 \in 1..(p + 1)
      BY <1>1
    <2> QED
      BY <1>4, <1>6, <2>1
  <1> QED
    BY <1>5, <1>7, <1>8 DEF name, front, p, s, BindingPolicyName, IsNameOf

(* If the only cut is at c, the owner has c - 1 labels, those of the name. *)
LEMMA OwnerLabels ==
  ASSUME NEW S, NEW name \in Seq(S), NEW c \in 1..Len(name), Owner(name) = SubSeq(name, 1, c - 1)
  PROVE  /\ Owner(name) \in Seq(S)
         /\ Len(Owner(name)) = c - 1
         /\ \A i \in 1..(c - 1) : Owner(name)[i] = name[i]
  <1>1. Len(name) \in Nat /\ c \in Nat /\ 1 <= c /\ c <= Len(name)
    BY LenProperties
  <1>2. \A i \in 1..(c - 1) : name[i] \in S
    <2>1. \A i \in 1..(c - 1) : i \in 1..Len(name)
      BY <1>1
    <2> QED
      BY <2>1, ElementOfSeq
  <1> DEFINE part == SubSeq(name, 1, c - 1)
  <1>3. /\ part \in Seq(S)
        /\ Len(part) = IF 1 <= c - 1 THEN (c - 1) - 1 + 1 ELSE 0
        /\ \A i \in 1..((c - 1) - 1 + 1) : part[i] = name[1 + i - 1]
    BY <1>1, <1>2, SubSeqProperties
  <1> HIDE DEF part
  <1>4. Len(part) = c - 1 /\ \A i \in 1..(c - 1) : part[i] = name[i]
    <2>1. (c - 1) - 1 + 1 = c - 1 /\ (~(1 <= c - 1) => c - 1 = 0) /\ \A i \in 1..(c - 1) : 1 + i - 1 = i
      BY <1>1
    <2> QED
      BY <1>3, <2>1
  <1> QED
    BY <1>3, <1>4 DEF part

(* Without a further separator the cut behind the policy is the only one.  *)
LEMMA OnlyCutIsBehindPolicy ==
  ASSUME NEW name, NEW policy, NEW stage, IsNameOf(name, policy, stage),
         Len(policy) \in Nat \ {0}, Len(stage) \in Nat \ {0},
         \A i \in 2..Len(policy) : policy[i] # Separator,
         \A i \in 2..(Len(stage) - 1) : stage[i] # Separator
  PROVE  Cuts(name) = {Len(policy) + 1}
  <1> DEFINE p == Len(policy)
             s == Len(stage)
             n == Len(name)
  <1>1. p \in Nat /\ s \in Nat /\ 1 <= p /\ 1 <= s /\ n = p + 1 + s
    BY DEF IsNameOf
  <1>2. /\ Cuts(name) \subseteq 1..n
        /\ \A i \in 1..n : i \in Cuts(name) <=> i > 1 /\ i < n /\ name[i] = Separator /\ i - 1 \notin Cuts(name)
    BY <1>1, CutsStep
  <1>3. /\ \A i \in 1..p : name[i] = policy[i]
        /\ name[p + 1] = Separator
        /\ \A i \in 1..s : name[p + 1 + i] = stage[i]
    BY DEF IsNameOf
  <1>4. (\A i \in 2..p : policy[i] # Separator) /\ \A i \in 2..(s - 1) : stage[i] # Separator
    OBVIOUS
  <1> HIDE DEF p, s, n
  <1>5. ASSUME NEW i \in 1..p PROVE i \notin Cuts(name)
    <2>1. i \in 1..n /\ (i > 1 => i \in 2..p)
      BY <1>1
    <2> QED
      BY <1>2, <1>3, <1>4, <2>1
  <1>6. p + 1 \in Cuts(name)
    <2>1. p + 1 \in 1..n /\ p + 1 > 1 /\ p + 1 < n /\ (p + 1) - 1 = p /\ p \in 1..p
      BY <1>1
    <2> QED
      BY <1>2, <1>3, <1>5, <2>1
  <1>7. ASSUME NEW i \in 1..s PROVE p + 1 + i \notin Cuts(name)
    <2>1. p + 1 + i \in 1..n /\ (p + 1 + i < n => i \in 1..(s - 1)) /\ (p + 1 + i) - 1 = p + i
      BY <1>1
    <2>2. CASE i = 1
      BY <1>2, <1>6, <2>1, <2>2
    <2>3. CASE i # 1
      <3>1. p + 1 + i < n => i \in 2..(s - 1)
        BY <1>1, <2>1, <2>3
      <3> QED
        BY <1>2, <1>3, <1>4, <2>1, <3>1
    <2> QED
      BY <2>2, <2>3
  <1>8. ASSUME NEW i \in Cuts(name) PROVE i = p + 1
    <2>1. i \in 1..n
      BY <1>2
    <2>2. i \notin 1..p
      BY <1>5
    <2>3. i - (p + 1) \in 1..s => p + 1 + (i - (p + 1)) \notin Cuts(name)
      BY <1>7
    <2>4. i - (p + 1) \notin 1..s
      <3>1. p + 1 + (i - (p + 1)) = i
        BY <1>1, <2>1
      <3> QED
        BY <2>3, <3>1
    <2> QED
      BY <1>1, <2>1, <2>2, <2>4
  <1> QED
    BY <1>6, <1>8 DEF p

(* Every separator inside the name but that of the only cut follows it.    *)
LEMMA SeparatorFollowsCut ==
  ASSUME NEW name, Len(name) \in Nat, NEW c, Cuts(name) = {c},
         NEW i \in 2..(Len(name) - 1), name[i] = Separator
  PROVE  i = c \/ i - 1 = c
  <1>1. i \in 1..Len(name) /\ i > 1 /\ i < Len(name)
    OBVIOUS
  <1>2. i \in Cuts(name) \/ i - 1 \in Cuts(name)
    BY <1>1, CutsStep
  <1> QED
    BY <1>2

-----------------------------------------------------------------------------
(* The inputs.                                                             *)

InputOK ==
    input.kind # "none" => input \in NameInputs \cup ResumeInputs \cup FilterInputs

LEMMA InputsAreInputs == Spec => []InputOK
  <1>1. Init => InputOK
    BY DEF Init, InputOK
  <1>2. InputOK /\ [Next]_input => InputOK'
    BY DEF Next, InputOK
  <1> QED
    BY <1>1, <1>2, PTL DEF Spec

LEMMA InputKinds ==
  ASSUME InputOK
  PROVE  /\ input.kind = "name" => input \in NameInputs
         /\ input.kind = "filter" => input \in FilterInputs
         /\ input.kind = "resume" => input \in ResumeInputs
  <1>1. \A x \in NameInputs : x.kind = "name"
    BY DEF NameInputs
  <1>2. \A x \in ResumeInputs : x.kind = "resume"
    BY DEF ResumeInputs
  <1>3. \A x \in FilterInputs : x.kind = "filter"
    BY DEF FilterInputs
  <1> QED
    BY <1>1, <1>2, <1>3 DEF InputOK

LEMMA FilterInputParts ==
  ASSUME InputOK, input.kind = "filter"
  PROVE  /\ input.filter \in GoodFilters \cup BadFilters
         /\ \E c \in NamespaceClauses, d \in NamespaceClauses : input.workload.NamespaceScope = {c, d}
  <1>1. input \in FilterInputs
    BY InputKinds
  <1>2. input.workload \in Workloads /\ input.filter \in GoodFilters \cup BadFilters
    BY <1>1 DEF FilterInputs
  <1> QED
    BY <1>2 DEF Workloads

-----------------------------------------------------------------------------
(* NoteStagedBindingPolicy: whichever stage gave the status its name, the  *)
(* one taken up again has the same name and is not behind it.              *)
THEOREM StatusIsResumed == Spec => []ResumesAtOrBefore
  <1>1. ASSUME InputOK, input.kind = "resume"
        PROVE  LET stages == input.stages
                   resumed == ActiveStage([stages |-> stages, active |-> stages[input.at].name]) + 1
               IN  /\ resumed <= input.at
                   /\ stages[resumed].name = stages[input.at].name
                   /\ (\A i, j \in DOMAIN stages : stages[i].name = stages[j].name => i = j)
                         => resumed = input.at
    <2>1. input \in ResumeInputs
      BY <1>1, InputKinds
    <2>2. PICK m \in 1..3 : input.stages \in [1..m -> [name : Labels]] /\ input.at \in 1..m
      BY <2>1 DEF ResumeInputs
    <2>3. /\ DOMAIN input.stages = 1..m
          /\ Len(input.stages) = m
          /\ m \in Nat
      <3>1. m \in Nat /\ DOMAIN input.stages = 1..m
        BY <2>2
      <3> QED
        BY <2>2, <3>1, LenIs
    <2> DEFINE obj == [stages |-> input.stages, active |-> input.stages[input.at].name]
               resumed == ActiveStage(obj) + 1
    <2>4. obj.stages = input.stages /\ obj.active = input.stages[input.at].name
      OBVIOUS
    <2> HIDE DEF obj
    <2>5. resumed \in 1..m /\ resumed <= input.at /\ input.stages[resumed].name = input.stages[input.at].name
      BY <2>2, <2>3, <2>4, ActiveStageFirst
    <2> HIDE DEF resumed
    <2> QED
      BY <2>2, <2>3, <2>5 DEF resumed, obj
  <1>2. InputOK => ResumesAtOrBefore
    BY <1>1 DEF ResumesAtOrBefore
  <1> QED
    BY <1>2, InputsAreInputs, PTL

(* testExpression: a filter that cannot be evaluated admits nothing.       *)
THEOREM BadFiltersFailClosed == Spec => []FailsClosed
  <1>1. ASSUME InputOK, input.kind = "filter", input.filter \in BadFilters
        PROVE  filterWorkloadForSBP(input.workload, {input.filter}) = {}
    <2> DEFINE f == input.filter
               good == CHOOSE e \in GoodFilters : e.key = "name"
    <2>1. good \in GoodFilters /\ good.key = "name"
      <3>1. PICK word \in Words : TRUE
        <4>1. PICK c \in NamespaceClauses : TRUE
          BY <1>1, FilterInputParts
        <4> QED
          BY <4>1 DEF NamespaceClauses
      <3>2. Filter("name", word) \in GoodFilters /\ Filter("name", word).key = "name"
        <4>1. Filter("name", word) \in GoodFilters
          BY <3>1 DEF GoodFilters
        <4> QED
          BY <4>1 DEF Filter
      <3> QED
        BY <3>2
    <2>2. PICK key, value : good = Filter(key, value)
      BY <2>1 DEF GoodFilters
    <2> HIDE DEF good
    <2>3. \/ ~f.parses
          \/ ~f.compares
          \/ f.key = "kind"
          \/ f.root # "downsyncClause"
      <3>1. \/ f \in {[good EXCEPT !.parses = FALSE], [good EXCEPT !.compares = FALSE],
                      [good EXCEPT !.key = "kind"]}
            \/ f \in {[good EXCEPT !.root = root] : root \in {"obj", "combinedStatus"}}
        BY <1>1 DEF BadFilters, good
      <3> QED
        BY <2>2, <3>1 DEF Filter
    <2> HIDE DEF f
    <2>4. ASSUME NEW c PROVE ~Passes(f, c) /\ ~PassesIn(f, c)
      <3>1. "kind" \notin DOMAIN clusterScopeDownsyncObjectToMap(c)
        BY DEF clusterScopeDownsyncObjectToMap
      <3>2. "kind" \notin DOMAIN namespaceScopeDownsyncObjectToMap(c)
        BY DEF namespaceScopeDownsyncObjectToMap
      <3> QED
        BY <2>3, <3>1, <3>2, UnevaluableIsFalse DEF Passes, PassesIn
    <2>5. filterWorkloadForSBP(input.workload, {f}) = {}
      BY <2>4, OneFilter
    <2> QED
      BY <2>5 DEF f
  <1>2. InputOK => FailsClosed
    BY <1>1 DEF FailsClosed, Filtered
  <1> QED
    BY <1>2, InputsAreInputs, PTL

(* Resolver!FilterWorkload: a filter on name, namespace or resource admits *)
(* an object for what it is.  The words stand for names and are not empty. *)
THEOREM FiltersActOnObjects ==
  ASSUME NoNamespace \notin Words
  PROVE  Spec => []FilterActsOnObjects
  <1>1. ASSUME InputOK, input.kind = "filter", input.filter \in GoodFilters,
               input.filter.key \in {"name", "namespace", "resource"}
        PROVE  Filtered({input.filter}) = {id \in Filtered({}) : id[input.filter.key] = input.filter.value}
    <2>1. PICK key \in {"group", "version", "name", "namespace", "resource"}, value \in Words \cup {"r"} :
             input.filter = Filter(key, value)
      BY <1>1 DEF GoodFilters
    <2>2. input.filter.key = key /\ input.filter.value = value
      BY <2>1 DEF Filter
    <2>3. key \in {"name", "namespace", "resource"} /\ value # NoNamespace
      BY <1>1, <2>1, <2>2 DEF NoNamespace
    <2>4. filterWorkloadForSBP(input.workload, {Filter(key, value)}) =
             {id \in filterWorkloadForSBP(input.workload, {}) : id[key] = value}
      BY <2>3, IdentityFilter
    <2> QED
      BY <2>1, <2>2, <2>4 DEF Filtered
  <1>2. InputOK => FilterActsOnObjects
    BY <1>1 DEF FilterActsOnObjects
  <1> QED
    BY <1>2, InputsAreInputs, PTL

LEMMA NameInputParts ==
  ASSUME InputOK, input.kind = "name"
  PROVE  /\ input.policy \in Seq(Labels \cup {Separator}) /\ Len(input.policy) \in Nat \ {0}
         /\ input.stage \in Seq(Labels \cup {Separator}) /\ Len(input.stage) \in Nat \ {0}
  <1> DEFINE S == Labels \cup {Separator}
  <1>1. ASSUME NEW x \in UpTo(Labels, MaxLabels)
        PROVE  x \in Seq(S) /\ Len(x) \in Nat \ {0}
    <2>1. PICK m \in 1..MaxLabels : x \in [1..m -> Labels]
      BY DEF UpTo
    <2>2. m \in Nat \ {0}
      BY <2>1
    <2>3. x \in [1..m -> S]
      BY <2>1
    <2> HIDE DEF S
    <2>4. x \in Seq(S)
      BY <2>2, <2>3, SeqDef
    <2> QED
      BY <2>2, <2>3, <2>4, LenIs
  <1>2. input \in NameInputs
    BY InputKinds
  <1>3. input.policy \in UpTo(Labels, MaxLabels) /\ input.stage \in UpTo(Labels, MaxLabels)
    BY <1>2 DEF NameInputs
  <1> QED
    BY <1>1, <1>3

(* NoteBinding, NoteCombinedStatus: a policy gets the events of its stage  *)
(* exactly if no further separator stands inside the name.                 *)
THEOREM OwnersAreRecovered == Spec => []OwnerRecovered
  <1>1. ASSUME InputOK, input.kind = "name"
        PROVE  Owner(BindingPolicyName(input.policy, input.stage)) = input.policy
               <=> /\ \A i \in 2..Len(input.policy) : input.policy[i] # Separator
                   /\ \A i \in 2..(Len(input.stage) - 1) : input.stage[i] # Separator
    <2> DEFINE S == Labels \cup {Separator}
               policy == input.policy
               stage == input.stage
               name == BindingPolicyName(policy, stage)
               p == Len(policy)
               s == Len(stage)
    <2>1. policy \in Seq(S) /\ stage \in Seq(S) /\ p \in Nat \ {0} /\ s \in Nat \ {0} /\ Separator \in S
      BY <1>1, NameInputParts
    <2> HIDE DEF S, policy, stage, name
    <2>2. name \in Seq(S) /\ IsNameOf(name, policy, stage)
      BY <2>1, NameParts DEF name
    <2>3. /\ Len(name) = p + 1 + s
          /\ Len(name) \in Nat
          /\ \A i \in 1..p : name[i] = policy[i]
          /\ \A i \in 1..s : name[p + 1 + i] = stage[i]
      <3>1. Len(name) \in Nat
        BY <2>2, LenProperties
      <3>2. /\ Len(name) = p + 1 + s
            /\ \A i \in 1..p : name[i] = policy[i]
            /\ \A i \in 1..s : name[p + 1 + i] = stage[i]
        BY <2>2, Zenon DEF IsNameOf
      <3> QED
        BY <3>1, <3>2
    <2> HIDE DEF p, s
    <2>4. ASSUME \A i \in 2..p : policy[i] # Separator, \A i \in 2..(s - 1) : stage[i] # Separator
          PROVE  Owner(name) = policy
      <3>1. Cuts(name) = {p + 1}
        BY <2>1, <2>2, <2>4, OnlyCutIsBehindPolicy DEF p, s
      <3>2. p + 1 \in 1..Len(name) /\ Owner(name) = SubSeq(name, 1, (p + 1) - 1)
        BY <2>3, <3>1, OwnerOfOneCut
      <3>3. /\ Owner(name) \in Seq(S)
            /\ Len(Owner(name)) = (p + 1) - 1
            /\ \A i \in 1..((p + 1) - 1) : Owner(name)[i] = name[i]
        BY <2>2, <3>2, OwnerLabels
      <3>4. (p + 1) - 1 = p
        BY <2>1
      <3>5. Len(Owner(name)) = Len(policy) /\ \A i \in 1..Len(Owner(name)) : Owner(name)[i] = policy[i]
        BY <2>3, <3>3, <3>4 DEF p
      <3> QED
        BY <2>1, <3>3, <3>5, SeqEqual
    <2>5. ASSUME Owner(name) = policy
          PROVE  (\A i \in 2..p : policy[i] # Separator) /\ \A i \in 2..(s - 1) : stage[i] # Separator
      <3>1. Owner(name) # Malformed
        <4>1. policy # <<>>
          BY <2>1, EmptySeq DEF p
        <4> QED
          BY <2>5, <4>1 DEF Malformed
      <3>2. PICK c \in 1..Len(name) : Cuts(name) = {c} /\ Owner(name) = SubSeq(name, 1, c - 1)
        BY <2>3, <3>1, OwnerOfOneCut
      <3>3. c = p + 1
        <4>1. Len(Owner(name)) = c - 1
          BY <2>2, <3>2, OwnerLabels
        <4>2. p = c - 1
          BY <2>5, <4>1 DEF p
        <4> QED
          BY <2>3, <4>2
      <3>4. ASSUME NEW i \in 2..p PROVE policy[i] # Separator
        <4>1. i \in 2..(Len(name) - 1) /\ i \in 1..p /\ i # c /\ i - 1 # c
          BY <2>1, <2>3, <3>3
        <4>2. name[i] # Separator
          BY <2>3, <3>2, <4>1, SeparatorFollowsCut
        <4> QED
          BY <2>3, <4>1, <4>2
      <3>5. ASSUME NEW i \in 2..(s - 1) PROVE stage[i] # Separator
        <4>1. /\ p + 1 + i \in 2..(Len(name) - 1) /\ i \in 1..s
              /\ p + 1 + i # c /\ (p + 1 + i) - 1 # c
          BY <2>1, <2>3, <3>3
        <4>2. name[p + 1 + i] # Separator
          BY <2>3, <3>2, <4>1, SeparatorFollowsCut
        <4> QED
          BY <2>3, <4>1, <4>2
      <3> QED
        BY <3>4, <3>5
    <2>6. Owner(name) = policy
          <=> (\A i \in 2..p : policy[i] # Separator) /\ \A i \in 2..(s - 1) : stage[i] # Separator
      BY <2>4, <2>5
    <2> QED
      BY <2>6 DEF p, s, name, policy, stage
  <1>2. InputOK => OwnerRecovered
    BY <1>1 DEF OwnerRecovered
  <1> QED
    BY <1>2, InputsAreInputs, PTL

(* The events of a stage reach another policy only if that policy's name   *)
(* lacks the ".stage" in which the own policy's ends.                      *)
THEOREM WrongOwnersArePrefixes == Spec => []WrongOwnerIsPrefix
  <1>1. ASSUME InputOK, input.kind = "name"
        PROVE  LET owner == Owner(BindingPolicyName(input.policy, input.stage))
               IN  owner \in {Malformed, input.policy} \/ input.policy = Append(owner, Separator)
    <2> DEFINE S == Labels \cup {Separator}
               policy == input.policy
               stage == input.stage
               name == BindingPolicyName(policy, stage)
               p == Len(policy)
               owner == Owner(name)
    <2>1. /\ policy \in Seq(S) /\ stage \in Seq(S) /\ Separator \in S
          /\ p \in Nat \ {0} /\ Len(stage) \in Nat \ {0}
      BY <1>1, NameInputParts
    <2> HIDE DEF S, policy, stage, name
    <2>2. name \in Seq(S) /\ IsNameOf(name, policy, stage)
      BY <2>1, NameParts DEF name
    <2>3. /\ Len(name) = p + 1 + Len(stage)
          /\ Len(name) \in Nat
          /\ \A i \in 1..p : name[i] = policy[i]
          /\ name[p + 1] = Separator
      BY <2>2, LenProperties DEF IsNameOf
    <2> HIDE DEF p
    <2>4. ASSUME owner # Malformed
          PROVE  owner = policy \/ policy = Append(owner, Separator)
      <3>1. PICK c \in 1..Len(name) : Cuts(name) = {c} /\ Owner(name) = SubSeq(name, 1, c - 1)
        BY <2>3, <2>4, OwnerOfOneCut
      <3>2. owner \in Seq(S) /\ Len(owner) = c - 1 /\ \A i \in 1..(c - 1) : owner[i] = name[i]
        BY <2>2, <3>1, OwnerLabels
      <3> HIDE DEF owner
      <3>3. c = p + 1 \/ c = p
        <4>1. p + 1 \in 2..(Len(name) - 1)
          BY <2>1, <2>3
        <4>2. p + 1 = c \/ (p + 1) - 1 = c
          BY <2>3, <3>1, <4>1, SeparatorFollowsCut
        <4> QED
          BY <2>1, <4>2
      <3>4. CASE c = p + 1
        <4>1. c - 1 = p
          BY <2>1, <3>4
        <4>2. Len(owner) = Len(policy) /\ \A i \in 1..Len(owner) : owner[i] = policy[i]
          BY <2>3, <3>2, <4>1 DEF p
        <4>3. owner = policy
          BY <2>1, <3>2, <4>2, SeqEqual
        <4> QED
          BY <4>3
      <3>5. CASE c = p
        <4>1. policy[p] = Separator
          <5>1. c \in Cuts(name) /\ name[c] = Separator
            BY <2>3, <3>1, CutsStep
          <5>2. p \in 1..p
            BY <2>1
          <5> QED
            BY <2>3, <3>5, <5>1, <5>2
        <4> DEFINE longer == Append(owner, Separator)
        <4>2. /\ longer \in Seq(S)
              /\ Len(longer) = Len(owner) + 1
              /\ \A i \in 1..Len(owner) : longer[i] = owner[i]
              /\ longer[Len(owner) + 1] = Separator
          BY <2>1, <3>2, AppendProperties
        <4> HIDE DEF longer
        <4>3. Len(owner) = p - 1 /\ Len(longer) = p /\ longer[p] = Separator
          BY <2>1, <3>2, <3>5, <4>2
        <4>4. ASSUME NEW i \in 1..p PROVE policy[i] = longer[i]
          <5>1. CASE i = p
            BY <4>1, <4>3, <5>1
          <5>2. CASE i # p
            <6>1. i \in 1..(p - 1)
              BY <2>1, <5>2
            <6> QED
              BY <2>3, <3>2, <3>5, <4>2, <4>3, <6>1
          <5> QED
            BY <5>1, <5>2
        <4>5. policy = longer
          <5>1. Len(policy) = Len(longer) /\ \A i \in 1..Len(policy) : policy[i] = longer[i]
            BY <4>3, <4>4 DEF p
          <5> QED
            BY <2>1, <4>2, <5>1, SeqEqual
        <4> QED
          BY <4>5 DEF longer
      <3> QED
        BY <3>3, <3>4, <3>5
    <2>5. owner \in {Malformed, policy} \/ policy = Append(owner, Separator)
      <3> HIDE DEF owner
      <3> QED
        BY <2>4
    <2> QED
      BY <2>5 DEF owner, name, policy, stage
  <1>2. InputOK => WrongOwnerIsPrefix
    BY <1>1 DEF WrongOwnerIsPrefix
  <1> QED
    BY <1>2, InputsAreInputs, PTL
=============================================================================
