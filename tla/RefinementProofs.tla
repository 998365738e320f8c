--------------------------- MODULE RefinementProofs ---------------------------
(***************************************************************************)
(* The controller implements the staged rollout: each of its steps is a    *)
(* step of StagedRollout, for one policy, or leaves what StagedRollout     *)
(* says of every policy as it was.                                         *)
(***************************************************************************)
EXTENDS RolloutProofs

(* What a policy's rollout is made of.                                     *)
Conditions(stages) == [i \in 1..Len(stages) |-> stages[i].cond]

Rolled == [n \in SBPs |-> RolloutOf(n)]

LEMMA SomeRollout ==
  ASSUME NEW obj \in SBPObjects, NEW active \in Nat, NEW deployed \in SUBSET Nat
  PROVE  /\ [stages |-> Conditions(obj.stages), active |-> active, deployed |-> deployed] # None
         /\ Len(Conditions(obj.stages)) = Len(obj.stages)
         /\ \A i \in 1..Len(obj.stages) : Conditions(obj.stages)[i] = obj.stages[i].cond
  <1> DEFINE stages == obj.stages
  <1>1. stages \in Seq(Stages) /\ Len(stages) \in Nat
    BY DEF SBPObjects
  <1>2. \A i \in 1..Len(stages) : stages[i].cond \in BOOLEAN
    <2>1. \A i \in 1..Len(stages) : stages[i] \in Stages
      BY <1>1
    <2> QED
      BY <2>1 DEF Stages
  <1>3. Conditions(stages) \in Seq(BOOLEAN) /\ Len(Conditions(stages)) = Len(stages)
    BY <1>1, <1>2 DEF Conditions
  <1>4. [stages |-> Conditions(stages), active |-> active, deployed |-> deployed] \in Rollouts
    BY <1>3 DEF Rollouts
  <1>5. \A i \in 1..Len(stages) : Conditions(stages)[i] = stages[i].cond
    BY DEF Conditions
  <1> QED
    BY <1>3, <1>4, <1>5, RolloutAssumption

(* What is deployed is the policy's own.                                   *)
LEMMA DeployedOwned ==
  ASSUME NEW n \in SBPs, WdsTypeOK, RolloutInv(n), sbp[n] # None
  PROVE  DeployedPositions(n) = {j \in 1..Len(sbp[n].stages) : StageDeployed(n, j)}
  <1>1. \A j \in 1..Len(sbp[n].stages) : sbp[n].stages[j].name \in StageNames
    BY StageNameTyped
  <1>2. \A j \in 1..Len(sbp[n].stages) :
           StageDeployed(n, j) => bp[<<n, sbp[n].stages[j].name>>].owner = sbp[n].uid
    BY <1>1 DEF RolloutInv, DeployedNear, StageDeployed
  <1> QED
    BY <1>2 DEF DeployedPositions, StageDeployed, Deployed

(* The rollout of one policy changes.                                      *)
LEMMA RolledBecomes ==
  ASSUME NEW p \in SBPs, NEW r, RolloutOf(p)' = r,
         \A n \in SBPs : n # p => RolloutOf(n)' = RolloutOf(n)
  PROVE  /\ Rolled' = [Rolled EXCEPT ![p] = r]
         /\ Rolled[p] = RolloutOf(p) /\ Rolled'[p] = r
  BY DEF Rolled

LEMMA RolledKept ==
  ASSUME \A n \in SBPs : RolloutOf(n)' = RolloutOf(n)
  PROVE  UNCHANGED Rolled
  BY DEF Rolled

LEMMA SameRolloutOf ==
  ASSUME NEW n \in SBPs, WdsTypeOK, sbp'[n] = sbp[n],
         \A name \in StageNames : bp'[<<n, name>>] = bp[<<n, name>>]
  PROVE  RolloutOf(n)' = RolloutOf(n)
  <1>1. CASE sbp[n] = None
    BY <1>1 DEF RolloutOf, DeployedPositions
  <1>2. CASE sbp[n] # None
    <2>1. \A j \in 1..Len(sbp[n].stages) : sbp[n].stages[j].name \in StageNames
      BY <1>2, StageNameTyped
    <2>2. DeployedPositions(n)' = DeployedPositions(n)
      BY <2>1 DEF DeployedPositions
    <2> QED
      BY <2>2 DEF RolloutOf, DeployedPositions
  <1> QED
    BY <1>1, <1>2

(* The policy keeps its stages: the rollout moves by its status and by     *)
(* what is deployed.                                                       *)
LEMMA RolloutMoves ==
  ASSUME NEW n \in SBPs, sbp[n] # None, sbp'[n] # None, sbp'[n].stages = sbp[n].stages
  PROVE  /\ RolloutOf(n) = [stages |-> Conditions(sbp[n].stages), active |-> Position(sbp[n]),
                            deployed |-> DeployedPositions(n)]
         /\ RolloutOf(n)' = [stages |-> Conditions(sbp[n].stages), active |-> Position(sbp'[n]),
                             deployed |-> DeployedPositions(n)']
  <1>1. RolloutOf(n) = [stages |-> Conditions(sbp[n].stages), active |-> Position(sbp[n]),
                        deployed |-> DeployedPositions(n)]
    BY DEF RolloutOf, DeployedPositions, Conditions
  <1>2. RolloutOf(n)' = [stages |-> Conditions(sbp'[n].stages), active |-> Position(sbp'[n]),
                         deployed |-> DeployedPositions(n)']
    BY DEF RolloutOf, DeployedPositions, Conditions
  <1> QED
    BY <1>1, <1>2

LEMMA FieldsChange ==
  ASSUME NEW stages, NEW active, NEW deployed, NEW new
  PROVE  LET r == [stages |-> stages, active |-> active, deployed |-> deployed]
         IN  /\ [r EXCEPT !.active = new] = [stages |-> stages, active |-> new, deployed |-> deployed]
             /\ [r EXCEPT !.deployed = new] = [stages |-> stages, active |-> active, deployed |-> new]
  OBVIOUS

(* Steps of the staged rollout, in terms of one policy's.                  *)
LEMMA CreateIs ==
  ASSUME NEW p \in SBPs, NEW stages, RolloutOf(p) = None, RolloutOf(p)' # None,
         RolloutOf(p)' = [stages |-> stages, active |-> 0, deployed |-> {}],
         \A n \in SBPs : n # p => RolloutOf(n)' = RolloutOf(n)
  PROVE  Rollout!RolloutNext
  <1> DEFINE new == [stages |-> stages, active |-> 0, deployed |-> {}]
  <1>1. /\ Rolled' = [Rolled EXCEPT ![p] = new]
        /\ Rolled[p] = None /\ Rolled'[p] = new
    BY RolledBecomes
  <1>2. new # None /\ new.stages = stages
    OBVIOUS
  <1> HIDE DEF new
  <1>3. Rolled'[p].stages = stages
    BY <1>1, <1>2
  <1>4. Rolled' = [Rolled EXCEPT ![p] = [stages |-> Rolled'[p].stages, active |-> 0, deployed |-> {}]]
    BY <1>1, <1>3 DEF new
  <1>5. Rollout!Create(p)
    BY <1>1, <1>2, <1>4 DEF Rollout!Create, Rollout!Becomes, Rolled
  <1>6. Rolled' # Rolled
    BY <1>1, <1>2
  <1> QED
    BY <1>1, <1>5, <1>6 DEF Rollout!RolloutNext, Rolled

LEMMA MovesIs ==
  ASSUME NEW p \in SBPs, RolloutOf(p) # None, RolloutOf(p)' # RolloutOf(p),
         \A n \in SBPs : n # p => RolloutOf(n)' = RolloutOf(n),
         Rollout!Deploy(p) \/ Rollout!Withdraw(p) \/ Rollout!Announce(p)
  PROVE  Rollout!RolloutNext
  <1>1. Rolled[p] # None /\ Rolled' # Rolled
    BY RolledBecomes
  <1> QED
    BY <1>1 DEF Rollout!RolloutNext, Rolled

LEMMA DeployIs ==
  ASSUME NEW p \in SBPs, NEW stages, NEW active, NEW deployed,
         RolloutOf(p) = [stages |-> stages, active |-> active, deployed |-> deployed],
         NEW i \in 1..Len(stages), i \notin deployed,
         i = active \/ (i = active + 1 /\ (i = 1 \/ stages[i - 1])),
         deployed # {} => "crash" \in EventKinds,
         RolloutOf(p)' = [stages |-> stages, active |-> active, deployed |-> deployed \cup {i}],
         \A n \in SBPs : n # p => RolloutOf(n)' = RolloutOf(n)
  PROVE  Rollout!Deploy(p) /\ RolloutOf(p)' # RolloutOf(p)
  <1> DEFINE r == Rolled[p]
  <1>1. /\ Rolled' = [Rolled EXCEPT ![p] = RolloutOf(p)']
        /\ r = RolloutOf(p)
    BY RolledBecomes
  <1>2. r.stages = stages /\ r.active = active /\ r.deployed = deployed
    BY <1>1
  <1>3. [r EXCEPT !.deployed = @ \cup {i}] = RolloutOf(p)'
    <2>1. r = [stages |-> stages, active |-> active, deployed |-> deployed]
      BY <1>1
    <2> DEFINE new == deployed \cup {i}
    <2> HIDE DEF r
    <2>2. r.deployed \cup {i} = new
      BY <1>2
    <2> HIDE DEF new
    <2>3. [r EXCEPT !.deployed = new] = [stages |-> stages, active |-> active, deployed |-> new]
      BY <2>1, FieldsChange
    <2>4. [r EXCEPT !.deployed = @ \cup {i}] = [r EXCEPT !.deployed = new]
      BY <2>2
    <2> QED
      BY <2>3, <2>4 DEF new
  <1>4. Rolled' = [Rolled EXCEPT ![p] = [r EXCEPT !.deployed = @ \cup {i}]]
    BY <1>1, <1>3
  <1>5. i \in 1..Len(r.stages) \ r.deployed
    BY <1>2
  <1>6. /\ i = r.active \/ (i = r.active + 1 /\ (i = 1 \/ r.stages[i - 1]))
        /\ r.deployed # {} => "crash" \in EventKinds
    BY <1>2
  <1>7. \E k \in 1..Len(r.stages) \ r.deployed :
           /\ k = r.active \/ (k = r.active + 1 /\ (k = 1 \/ r.stages[k - 1]))
           /\ r.deployed # {} => "crash" \in EventKinds
           /\ Rolled' = [Rolled EXCEPT ![p] = [r EXCEPT !.deployed = @ \cup {k}]]
    BY <1>4, <1>5, <1>6
  <1>8. RolloutOf(p)'.deployed # RolloutOf(p).deployed
    OBVIOUS
  <1> HIDE DEF r
  <1> QED
    BY <1>7, <1>8 DEF Rollout!Deploy, Rollout!Becomes, Rollout!MayEnter, Rolled, r

LEMMA WithdrawIs ==
  ASSUME NEW p \in SBPs, NEW stages, NEW active, NEW deployed,
         RolloutOf(p) = [stages |-> stages, active |-> active, deployed |-> deployed],
         active \in deployed, stages[active],
         RolloutOf(p)' = [stages |-> stages, active |-> active, deployed |-> deployed \ {active}],
         \A n \in SBPs : n # p => RolloutOf(n)' = RolloutOf(n)
  PROVE  Rollout!Withdraw(p) /\ RolloutOf(p)' # RolloutOf(p)
  <1> DEFINE r == Rolled[p]
  <1>1. /\ Rolled' = [Rolled EXCEPT ![p] = RolloutOf(p)']
        /\ r = RolloutOf(p)
    BY RolledBecomes
  <1>2. r.stages = stages /\ r.active = active /\ r.deployed = deployed
    BY <1>1
  <1>3. [r EXCEPT !.deployed = @ \ {r.active}] = RolloutOf(p)'
    BY <1>1
  <1>4. /\ r.active \in r.deployed
        /\ r.stages[r.active]
        /\ Rolled' = [Rolled EXCEPT ![p] = [r EXCEPT !.deployed = @ \ {r.active}]]
    BY <1>1, <1>2, <1>3
  <1>5. RolloutOf(p)'.deployed # RolloutOf(p).deployed
    OBVIOUS
  <1> HIDE DEF r
  <1> QED
    BY <1>4, <1>5 DEF Rollout!Withdraw, Rollout!Becomes, Rolled, r

LEMMA AnnounceIs ==
  ASSUME NEW p \in SBPs, NEW stages, NEW active \in Nat, NEW deployed,
         RolloutOf(p) = [stages |-> stages, active |-> active, deployed |-> deployed],
         deployed = {active + 1},
         RolloutOf(p)' = [stages |-> stages, active |-> active + 1, deployed |-> deployed],
         \A n \in SBPs : n # p => RolloutOf(n)' = RolloutOf(n)
  PROVE  Rollout!Announce(p) /\ RolloutOf(p)' # RolloutOf(p)
  <1> DEFINE r == Rolled[p]
  <1>1. /\ Rolled' = [Rolled EXCEPT ![p] = RolloutOf(p)']
        /\ r = RolloutOf(p)
    BY RolledBecomes
  <1>2. r.stages = stages /\ r.active = active /\ r.deployed = deployed
    BY <1>1
  <1>3. [r EXCEPT !.active = @ + 1] = RolloutOf(p)'
    <2>1. r = [stages |-> stages, active |-> active, deployed |-> deployed]
      BY <1>1
    <2> DEFINE new == active + 1
    <2> HIDE DEF r
    <2>2. r.active + 1 = new
      BY <1>2
    <2> HIDE DEF new
    <2>3. [r EXCEPT !.active = new] = [stages |-> stages, active |-> new, deployed |-> deployed]
      BY <2>1, FieldsChange
    <2>4. [r EXCEPT !.active = @ + 1] = [r EXCEPT !.active = new]
      BY <2>2
    <2> QED
      BY <2>3, <2>4 DEF new
  <1>4. /\ r.deployed = {r.active + 1}
        /\ Rolled' = [Rolled EXCEPT ![p] = [r EXCEPT !.active = @ + 1]]
    BY <1>1, <1>2, <1>3
  <1>5. RolloutOf(p)'.active # RolloutOf(p).active
    BY active + 1 # active
  <1> HIDE DEF r
  <1> QED
    BY <1>4, <1>5 DEF Rollout!Announce, Rollout!Becomes, Rolled, r

-----------------------------------------------------------------------------
LEMMA OneUserStep ==
  ASSUME WdsTypeOK, WdsNext, NEW p \in SBPs, sbp'[p] # sbp[p], NEW n \in SBPs, n # p
  PROVE  sbp'[n] = sbp[n]
  <1>1. ASSUME NEW m \in SBPs, NEW stages \in StageLists, UserCreates(m, stages) \/ UserEdits(m, stages)
        PROVE  sbp'[n] = sbp[n]
    BY <1>1 DEF UserCreates, UserEdits, WdsTypeOK
  <1>2. ASSUME NEW m \in SBPs, UserDeletes(m)
        PROVE  sbp'[n] = sbp[n]
    BY <1>2 DEF UserDeletes, WdsTypeOK
  <1>3. ASSUME NEW o \in Objects, WorkloadChanges(o)
        PROVE  sbp'[n] = sbp[n]
    BY <1>3 DEF WorkloadChanges
  <1>4. ASSUME NEW k \in BPKeys, CollectBP(k) \/ KubeStellar(k)
        PROVE  sbp'[n] = sbp[n]
    BY <1>4 DEF CollectBP, KubeStellar, KsBinds, KsRebinds, KsUnbinds, KsReports, KsRetracts
  <1> QED
    BY <1>1, <1>2, <1>3, <1>4 DEF WdsNext

(* A user may only create a policy: its rollout begins.                    *)
LEMMA UsersRefine ==
  ASSUME LeftAlone, DistinctNames, TypeInv, RolloutsInv, WdsNext
  PROVE  Rollout!RolloutNext \/ UNCHANGED Rolled
  <1>1. WdsTypeOK /\ Undisturbed /\ UNCHANGED bp
    BY LeftAloneIs, NothingCollected DEF TypeInv
  <1>2. CASE \A n \in SBPs : sbp'[n] = sbp[n]
    <2>1. \A n \in SBPs : RolloutOf(n)' = RolloutOf(n)
      BY <1>1, <1>2, SameRolloutOf
    <2> QED
      BY <2>1, RolledKept
  <1>3. CASE \E n \in SBPs : sbp'[n] # sbp[n]
    <2>1. PICK p \in SBPs : sbp'[p] # sbp[p]
      BY <1>3
    <2>2. /\ sbp[p] = None /\ sbp'[p] \in SBPObjects
          /\ sbp'[p].uid = nextUid /\ sbp'[p].active = None
      BY <1>1, <2>1, UsersOnlyCreate
    <2>3. \A n \in SBPs : n # p => sbp'[n] = sbp[n]
      BY <1>1, <2>1, OneUserStep
    <2>4. \A n \in SBPs : n # p => RolloutOf(n)' = RolloutOf(n)
      BY <1>1, <2>3, SameRolloutOf
    <2>5. sbp'[p] # None /\ Position(sbp'[p]) = 0
      BY <2>2, PositionOfNone, WdsAssumption
    <2>6. \A name \in StageNames : ~Deployed(p, name)
      BY <2>2 DEF RolloutsInv, RolloutInv, DeployedNear
    <2>7. \A j \in 1..Len(sbp'[p].stages) : sbp'[p].stages[j].name \in StageNames
      <3>1. sbp'[p].stages \in Seq(Stages)
        BY <2>2 DEF SBPObjects
      <3>2. \A j \in 1..Len(sbp'[p].stages) : sbp'[p].stages[j] \in Stages
        BY <3>1
      <3> QED
        BY <3>2 DEF Stages
    <2>8. DeployedPositions(p)' = {}
      BY <1>1, <2>6, <2>7 DEF DeployedPositions, Deployed
    <2>9. RolloutOf(p) = None
      BY <2>2 DEF RolloutOf, DeployedPositions
    <2>10. RolloutOf(p)' = [stages |-> Conditions(sbp'[p].stages), active |-> 0, deployed |-> {}]
      BY <2>5, <2>8 DEF RolloutOf, DeployedPositions, Conditions
    <2>11. RolloutOf(p)' # None
      <3>1. 0 \in Nat /\ {} \in SUBSET Nat
        OBVIOUS
      <3>2. [stages |-> Conditions(sbp'[p].stages), active |-> 0, deployed |-> {}] # None
        BY <2>2, <3>1, SomeRollout
      <3> QED
        BY <2>10, <3>2
    <2> QED
      BY <2>4, <2>9, <2>10, <2>11, CreateIs
  <1> QED
    BY <1>2, <1>3

(* A step of an operation, by what it does to the rollout of its policy.   *)
LEMMA WithdrawsRefine ==
  ASSUME TypeInv, ReadsHold, CopiesInv, ItemsInv, NEW n \in SBPs, OpOn(n), op.pc # "return",
         RolloutInv(n), Deletes(n), \A m \in SBPs : m # n => RolloutOf(m)' = RolloutOf(m)
  PROVE  Rollout!RolloutNext \/ UNCHANGED Rolled
  <1> DEFINE s == Position(sbp[n])
             i == Tracked(n).activeIndex
             L == Len(sbp[n].stages)
             dep == DeployedPositions(n)
  <1>1. /\ sbp[n] # None /\ sbp[n] \in SBPObjects /\ L \in Nat
        /\ s \in 0..L /\ i \in Nat
        /\ Tracked(n).stages = sbp[n].stages /\ Tracked(n) # None
        /\ Distinct(sbp[n].stages) /\ \A j \in 1..L : NameAt(n, j) \in StageNames
        /\ WdsTypeOK
    BY AtWork DEF TypeInv
  <1>2. op.pc = "delete" /\ UNCHANGED sbp /\ i > 0
    BY DEF Deletes, RolloutInv, Deleting
  <1>3. \/ op.staging /\ i = s /\ s \in 1..L /\ sbp[n].stages[s].cond
        \/ ~op.staging /\ i + 1 = s
    BY <1>1, <1>2, WhereItStands
  <1>4. i \in 1..L
    BY <1>1, <1>2, <1>3
  <1>5. PreviousKey(n) = <<n, NameAt(n, i)>>
    <2>1. (i - 1) + 1 = i
      BY <1>1
    <2> QED
      BY <1>1, <2>1 DEF PreviousKey, Key, Stage, NameAt
  <1>6. \A name \in StageNames :
           /\ name = NameAt(n, i) => bp'[<<n, name>>] = None
           /\ name # NameAt(n, i) => bp'[<<n, name>>] = bp[<<n, name>>]
    BY <1>1, <1>4, <1>5 DEF Deletes, WdsTypeOK, BPKeys
  <1>7. DeployedPositions(n)' = dep \ {i}
    <2>1. ASSUME NEW j \in 1..L
          PROVE  LET key == <<n, NameAt(n, j)>>
                 IN  bp'[key] # None /\ bp'[key].owner = sbp[n].uid
                     <=> j # i /\ bp[key] # None /\ bp[key].owner = sbp[n].uid
      <3>1. NameAt(n, j) \in StageNames /\ (NameAt(n, j) = NameAt(n, i) <=> j = i)
        BY <1>1, <1>4 DEF Distinct, NameAt
      <3> QED
        BY <1>6, <3>1
    <2> QED
      BY <1>2, <2>1 DEF DeployedPositions, NameAt
  <1>8. /\ RolloutOf(n) = [stages |-> Conditions(sbp[n].stages), active |-> s, deployed |-> dep]
        /\ RolloutOf(n)' = [stages |-> Conditions(sbp[n].stages), active |-> s, deployed |-> dep \ {i}]
    BY <1>1, <1>2, <1>7, RolloutMoves
  <1>9. RolloutOf(n) # None /\ (s \in 1..L => Conditions(sbp[n].stages)[s] = sbp[n].stages[s].cond)
    <2>1. dep \in SUBSET Nat /\ s \in Nat
      BY <1>1 DEF DeployedPositions
    <2> QED
      BY <1>1, <1>8, <2>1, SomeRollout
  <1> HIDE DEF s, i, L, dep
  <1>10. CASE i \notin dep
    <2>1. RolloutOf(n)' = RolloutOf(n)
      BY <1>8, <1>10
    <2> QED
      BY <2>1, RolledKept
  <1>11. CASE i \in dep
    <2>1. i = s /\ sbp[n].stages[s].cond /\ s \in 1..L
      <3>1. StageDeployed(n, i)
        BY <1>11 DEF dep, DeployedPositions, StageDeployed, Deployed
      <3>2. PICK j \in {s, s + 1} : StageDeployed(n, j) /\ NameAt(n, j) = NameAt(n, i)
        BY <1>1, <1>4, <3>1 DEF RolloutInv, DeployedNear, StageDeployed, NameAt, s
      <3>3. j = i
        BY <1>1, <1>4, <3>2 DEF Distinct, NameAt, StageDeployed, L
      <3> QED
        BY <1>1, <1>3, <3>2, <3>3
    <2>2. /\ Rollout!Withdraw(n) /\ RolloutOf(n)' # RolloutOf(n)
      BY <1>8, <1>9, <1>11, <2>1, WithdrawIs
    <2> QED
      BY <1>9, <2>2, MovesIs
  <1> QED
    BY <1>10, <1>11

LEMMA DeploysRefine ==
  ASSUME TypeInv, ReadsHold, CopiesInv, ItemsInv, NEW n \in SBPs, OpOn(n), op.pc # "return",
         RolloutInv(n), Deploys(n), \A m \in SBPs : m # n => RolloutOf(m)' = RolloutOf(m)
  PROVE  Rollout!RolloutNext
  <1> DEFINE s == Position(sbp[n])
             i == Tracked(n).activeIndex
             L == Len(sbp[n].stages)
             dep == DeployedPositions(n)
             conds == Conditions(sbp[n].stages)
  <1>1. /\ sbp[n] # None /\ sbp[n] \in SBPObjects /\ L \in Nat
        /\ s \in 0..L /\ i \in Nat
        /\ Tracked(n).stages = sbp[n].stages /\ Tracked(n) # None
        /\ Tracked(n).uid = sbp[n].uid
        /\ Distinct(sbp[n].stages) /\ \A j \in 1..L : NameAt(n, j) \in StageNames
        /\ WdsTypeOK
    BY AtWork DEF TypeInv
  <1>2. op.pc = "create" /\ UNCHANGED sbp /\ i < L
    BY <1>1 DEF Deploys
  <1>3. \/ op.staging /\ i = s /\ s \in 1..L /\ sbp[n].stages[s].cond /\ ~StageDeployed(n, s)
        \/ ~op.staging /\ i + 1 = s
        \/ ~op.staging /\ i = 0 /\ s = 0
    BY <1>2, WhereItStands
  <1>4. i + 1 \in 1..L
    BY <1>1, <1>2
  <1>5. ActiveKey(n) = <<n, NameAt(n, i + 1)>>
    BY <1>1 DEF ActiveKey, Key, Stage, NameAt
  <1> DEFINE made == [uid |-> nextUid, owner |-> sbp[n].uid]
  <1>6. \A name \in StageNames :
           /\ name = NameAt(n, i + 1) => bp[<<n, name>>] = None /\ bp'[<<n, name>>] = made
           /\ name # NameAt(n, i + 1) => bp'[<<n, name>>] = bp[<<n, name>>]
    BY <1>1, <1>4, <1>5 DEF Deploys, WdsTypeOK, BPKeys
  <1>7. made # None /\ made.owner = sbp[n].uid
    <2>1. made \in BPObjects
      BY <1>1 DEF WdsTypeOK, SBPObjects, BPObjects
    <2> QED
      BY <2>1, WdsAssumption
  <1> HIDE DEF made
  <1>8. DeployedPositions(n)' = dep \cup {i + 1} /\ i + 1 \notin dep
    <2>1. ASSUME NEW j \in 1..L
          PROVE  LET key == <<n, NameAt(n, j)>>
                 IN  /\ bp'[key] # None /\ bp'[key].owner = sbp[n].uid
                        <=> j = i + 1 \/ (bp[key] # None /\ bp[key].owner = sbp[n].uid)
                     /\ j = i + 1 => bp[key] = None
      <3>1. NameAt(n, j) \in StageNames /\ (NameAt(n, j) = NameAt(n, i + 1) <=> j = i + 1)
        BY <1>1, <1>4 DEF Distinct, NameAt
      <3> QED
        BY <1>6, <1>7, <3>1
    <2>2. DeployedPositions(n)' = {j \in 1..L : LET key == <<n, NameAt(n, j)>>
                                                IN  bp'[key] # None /\ bp'[key].owner = sbp[n].uid}
      BY <1>2 DEF DeployedPositions, NameAt
    <2>3. dep = {j \in 1..L : LET key == <<n, NameAt(n, j)>>
                              IN  bp[key] # None /\ bp[key].owner = sbp[n].uid}
      BY DEF DeployedPositions, NameAt
    <2> HIDE DEF dep, L
    <2> QED
      BY <1>4, <2>1, <2>2, <2>3
  <1>9. /\ RolloutOf(n) = [stages |-> conds, active |-> s, deployed |-> dep]
        /\ RolloutOf(n)' = [stages |-> conds, active |-> s, deployed |-> dep \cup {i + 1}]
    BY <1>1, <1>2, <1>8, RolloutMoves
  <1>10. /\ RolloutOf(n) # None /\ Len(conds) = L
         /\ s \in 1..L => conds[s] = sbp[n].stages[s].cond
    <2>1. dep \in SUBSET Nat /\ s \in Nat
      BY <1>1 DEF DeployedPositions
    <2> QED
      BY <1>1, <1>9, <2>1, SomeRollout
  <1>11. ASSUME dep # {} PROVE "crash" \in EventKinds
    <2>1. PICK k \in 1..L : k \in dep /\ StageDeployed(n, k)
      BY <1>11 DEF DeployedPositions, StageDeployed, Deployed
    <2>2. PICK j \in {s, s + 1} : StageDeployed(n, j) /\ NameAt(n, j) = NameAt(n, k)
      BY <1>1, <2>1 DEF RolloutInv, DeployedNear, StageDeployed, NameAt
    <2>3. j = k
      BY <1>1, <2>1, <2>2 DEF Distinct, NameAt, StageDeployed
    <2>4. k = s + 1 /\ k # i + 1
      BY <1>1, <1>3, <1>8, <2>1, <2>2, <2>3
    <2>5. StageDeployed(n, s + 1)
      BY <2>1, <2>4
    <2> QED
      BY <1>1, <1>2, <2>5 DEF RolloutInv, NoneAhead, Deploying
  <1>12. i + 1 = s \/ (i + 1 = s + 1 /\ (i + 1 = 1 \/ conds[(i + 1) - 1]))
    <2>1. (i + 1) - 1 = i
      BY <1>1
    <2> QED
      BY <1>1, <1>3, <1>10, <2>1
  <1>13. Rollout!Deploy(n) /\ RolloutOf(n)' # RolloutOf(n)
    <2> DEFINE d == i + 1
    <2>1. /\ d \in 1..Len(conds) /\ d \notin dep
          /\ d = s \/ (d = s + 1 /\ (d = 1 \/ conds[d - 1]))
          /\ dep # {} => "crash" \in EventKinds
          /\ RolloutOf(n) = [stages |-> conds, active |-> s, deployed |-> dep]
          /\ RolloutOf(n)' = [stages |-> conds, active |-> s, deployed |-> dep \cup {d}]
      BY <1>4, <1>8, <1>9, <1>10, <1>11, <1>12
    <2> HIDE DEF d, dep, conds, s
    <2> QED
      BY <2>1, DeployIs
  <1> QED
    BY <1>10, <1>13, MovesIs

LEMMA AnnouncesRefine ==
  ASSUME TypeInv, ReadsHold, CopiesInv, ItemsInv, NEW n \in SBPs, OpOn(n), op.pc # "return",
         RolloutInv(n), Announces(n), \A m \in SBPs : m # n => RolloutOf(m)' = RolloutOf(m)
  PROVE  Rollout!RolloutNext \/ UNCHANGED Rolled
  <1> DEFINE s == Position(sbp[n])
             i == Tracked(n).activeIndex
             L == Len(sbp[n].stages)
             dep == DeployedPositions(n)
             conds == Conditions(sbp[n].stages)
  <1>1. /\ sbp[n] # None /\ sbp[n] \in SBPObjects /\ L \in Nat /\ s \in 0..L /\ i \in Nat
        /\ Tracked(n).stages = sbp[n].stages /\ Tracked(n) # None
        /\ Distinct(sbp[n].stages) /\ op.staging \in BOOLEAN
        /\ \A j \in 1..L : NameAt(n, j) \in StageNames
        /\ WdsTypeOK
    BY AtWork DEF TypeInv
  <1>2. op.pc = "update" /\ UNCHANGED <<bp, nextUid>>
    BY DEF Announces
  <1>3. HasUid(n)
    BY <1>2 DEF Deploying, RolloutInv
  <1>4. /\ sbp'[n] \in SBPObjects /\ sbp'[n] # None
        /\ sbp'[n].uid = sbp[n].uid /\ sbp'[n].stages = sbp[n].stages
        /\ sbp'[n].active = sbp[n].stages[i + 1].name
    BY <1>1, WdsAssumption DEF Announces, StatusBecomes, ActiveName, Stage
  <1>5. i + 1 \in 1..L
    BY <1>3 DEF HasUid, StageDeployed
  <1>6. Position(sbp'[n]) = i + 1
    BY <1>1, <1>4, <1>5, PositionIs
  <1>7. \/ op.staging /\ i = s /\ ~StageDeployed(n, s)
        \/ ~op.staging /\ i + 1 = s
        \/ ~op.staging /\ i = 0 /\ s = 0
    BY <1>2, WhereItStands
  <1>8. DeployedPositions(n)' = dep
    BY <1>2, <1>4 DEF DeployedPositions
  <1>9. /\ RolloutOf(n) = [stages |-> conds, active |-> s, deployed |-> dep]
        /\ RolloutOf(n)' = [stages |-> conds, active |-> i + 1, deployed |-> dep]
    BY <1>1, <1>4, <1>6, <1>8, RolloutMoves
  <1>10. RolloutOf(n) # None
    <2>1. dep \in SUBSET Nat /\ s \in Nat
      BY <1>1 DEF DeployedPositions
    <2> QED
      BY <1>1, <1>9, <2>1, SomeRollout
  <1>11. CASE i + 1 = s
    <2>1. RolloutOf(n)' = RolloutOf(n)
      BY <1>9, <1>11
    <2> QED
      BY <2>1, RolledKept
  <1>12. CASE i = s
    <2>1. ~StageDeployed(n, s)
      BY <1>1, <1>7, <1>12 DEF StageDeployed
    <2>2. dep = {j \in 1..L : StageDeployed(n, j)}
      BY <1>1, DeployedOwned
    <2>3. ASSUME NEW k \in 1..L, StageDeployed(n, k) PROVE k = s + 1
      <3>1. PICK j \in {s, s + 1} : StageDeployed(n, j) /\ NameAt(n, j) = NameAt(n, k)
        BY <1>1, <2>3 DEF RolloutInv, DeployedNear, StageDeployed, NameAt
      <3>2. j = k
        BY <1>1, <3>1 DEF Distinct, NameAt, StageDeployed
      <3> QED
        BY <2>1, <3>1, <3>2
    <2>4. dep = {s + 1}
      BY <1>3, <1>5, <1>12, <2>2, <2>3 DEF HasUid
    <2>5. Rollout!Announce(n) /\ RolloutOf(n)' # RolloutOf(n)
      <3>1. /\ RolloutOf(n) = [stages |-> conds, active |-> s, deployed |-> dep]
            /\ RolloutOf(n)' = [stages |-> conds, active |-> s + 1, deployed |-> dep]
            /\ s \in Nat
        BY <1>1, <1>9, <1>12
      <3> HIDE DEF dep, conds, s
      <3> QED
        BY <2>4, <3>1, AnnounceIs
    <2> QED
      BY <1>10, <2>5, MovesIs
  <1> QED
    BY <1>7, <1>11, <1>12

LEMMA OpStepsRefine ==
  ASSUME LeftAlone, TypeInv, ReadsHold, CopiesInv, ItemsInv, RolloutsInv, OpSteps
  PROVE  Rollout!RolloutNext \/ UNCHANGED Rolled
  <1>1. WdsTypeOK /\ TableInv /\ EndIsSure
    BY LeftAloneIs, ReadsMakeSure DEF TypeInv
  <1> PICK p \in SBPs : op.sbp = p
    BY <1>1, OpStepsBusy
  <1>2. /\ OpOn(p) /\ op.pc # "return" /\ RolloutInv(p)
        /\ \A m \in SBPs : m # p => sbp'[m] = sbp[m]
    BY <1>1, OpStepsBusy, OpStepsSame DEF OpOn, RolloutsInv
  <1>3. \/ Waits(p) \/ LeavesStage(p) \/ Deletes(p) \/ Deploys(p) \/ Refused(p)
        \/ ReadsPolicy(p) \/ Announces(p)
    BY <1>1, SureSteps
  <1>4. ASSUME NEW m \in SBPs, m # p PROVE RolloutOf(m)' = RolloutOf(m)
    <2>1. \A name \in StageNames : bp'[<<m, name>>] = bp[<<m, name>>]
      BY <1>1, <1>3, <1>4
      DEF Waits, LeavesStage, Deletes, Deploys, Refused, ReadsPolicy, Announces, PreviousKey, ActiveKey, Key,
          WdsTypeOK, BPKeys
    <2> QED
      BY <1>1, <1>2, <1>4, <2>1, SameRolloutOf
  <1>5. CASE Waits(p) \/ LeavesStage(p) \/ Refused(p) \/ ReadsPolicy(p)
    <2>1. UNCHANGED <<sbp, bp>>
      BY <1>5 DEF Waits, LeavesStage, Refused, ReadsPolicy
    <2>2. \A n \in SBPs : RolloutOf(n)' = RolloutOf(n)
      BY <1>1, <2>1, SameRolloutOf
    <2> QED
      BY <2>2, RolledKept
  <1>6. CASE Deletes(p)
    BY <1>2, <1>4, <1>6, WithdrawsRefine
  <1>7. CASE Deploys(p)
    BY <1>2, <1>4, <1>7, DeploysRefine
  <1>8. CASE Announces(p)
    BY <1>2, <1>4, <1>8, AnnouncesRefine
  <1> QED
    BY <1>3, <1>5, <1>6, <1>7, <1>8

LEMMA NextRefines ==
  ASSUME LeftAlone, DistinctNames, TypeInv, ReadsHold, StageInv, [Next]_vars
  PROVE  Rollout!RolloutNext \/ UNCHANGED Rolled
  <1>1. CASE Environment
    BY <1>1, UsersRefine DEF Environment, StageInv
  <1>2. CASE OpSteps
    BY <1>2, OpStepsRefine DEF StageInv
  <1>3. CASE ~Environment /\ ~OpSteps
    <2>1. UNCHANGED <<sbp, bp>>
      BY <1>3 DEF Next, Informers, DeliverPolicy, DeliverBinding, DeliverStatus, WorkerStep, Get,
        ReadLister, Reconcile, Finish, Resolve, Requeue, Crash, Panic, Restart, vars, wdsVars
    <2>2. \A n \in SBPs : RolloutOf(n)' = RolloutOf(n)
      BY <2>1, SameRolloutOf DEF TypeInv
    <2> QED
      BY <2>2, RolledKept
  <1> QED
    BY <1>1, <1>2, <1>3

(* As long as users leave a policy alone, the informers lose no event and  *)
(* no call fails, the controller performs a staged rollout of each policy: *)
(* whatever the interleaving of events, workers and API calls and wherever *)
(* the process dies, a stage is deployed, withdrawn and announced only as  *)
(* StagedRollout allows.                                                   *)
THEOREM ControllerImplementsRollout ==
  ASSUME LeftAlone, DistinctNames
  PROVE  Spec => ImplementsRollout
  <1>1. Spec => [](TypeInv /\ ReadsHold /\ QueueInv /\ StageInv)
    BY StagesInvariant
  <1>2. Init => Rollout!RolloutInit
    <2> SUFFICES ASSUME Init PROVE [n \in SBPs |-> RolloutOf(n)] = [n \in SBPs |-> None]
      BY DEF Rollout!RolloutInit
    <2>1. \A n \in SBPs : sbp[n] = None
      BY DEF Init, WdsInit
    <2>2. \A n \in SBPs : RolloutOf(n) = None
      BY <2>1 DEF RolloutOf, DeployedPositions
    <2> QED
      BY <2>2
  <1>3. TypeInv /\ ReadsHold /\ QueueInv /\ StageInv /\ [Next]_vars
        => [Rollout!RolloutNext]_[n \in SBPs |-> RolloutOf(n)]
    BY NextRefines DEF Rolled
  <1>4. Spec => [][Rollout!RolloutNext]_[n \in SBPs |-> RolloutOf(n)]
    BY <1>1, <1>3, PTL DEF Spec
  <1>5. Spec => Rollout!RolloutInit
    BY <1>2 DEF Spec
  <1> QED
    BY <1>4, <1>5, PTL DEF ImplementsRollout, Rollout!RolloutSpec
=============================================================================
