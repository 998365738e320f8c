---------------------------- MODULE StagedRollout ----------------------------
(***************************************************************************)
(* What a staged rollout is, with the controller left out: of each policy  *)
(* its stages, the position of the stage its status names (0 before the    *)
(* first) and the positions of the stages that are deployed.  A stage is   *)
(* reduced to whether it has a condition.                                  *)
(***************************************************************************)
EXTENDS Naturals, Sequences

CONSTANTS
    Policies,
    None,          \* the rollout of a policy that does not exist
    MayOverlap     \* whether a stage may be deployed while another one is

VARIABLE rollout   \* by policy: stages, active, deployed

-----------------------------------------------------------------------------
RolloutInit == rollout = [p \in Policies |-> None]

Becomes(p, new) == rollout' = [rollout EXCEPT ![p] = new]

Create(p) ==
    /\ rollout[p] = None
    /\ rollout'[p] # None
    /\ Becomes(p, [stages |-> rollout'[p].stages, active |-> 0, deployed |-> {}])

\* The first stage, and any that follows one with a condition, may be entered.
MayEnter(r, i) == i = 1 \/ r.stages[i - 1]

\* The stage the status names, or the next one.
Deploy(p) ==
    LET r == rollout[p] IN
    \E i \in 1..Len(r.stages) \ r.deployed :
        /\ i = r.active \/ (i = r.active + 1 /\ MayEnter(r, i))
        /\ r.deployed # {} => MayOverlap
        /\ Becomes(p, [r EXCEPT !.deployed = @ \cup {i}])

\* A stage with a condition is withdrawn to make room for the next one.
Withdraw(p) ==
    LET r == rollout[p] IN
    /\ r.active \in r.deployed
    /\ r.stages[r.active]
    /\ Becomes(p, [r EXCEPT !.deployed = @ \ {r.active}])

\* The status names the next stage once that alone is deployed.
Announce(p) ==
    LET r == rollout[p] IN
    /\ r.deployed = {r.active + 1}
    /\ Becomes(p, [r EXCEPT !.active = @ + 1])

\* Every step changes the rollout of one policy.
RolloutNext ==
    /\ rollout' # rollout
    /\ \E p \in Policies :
          IF rollout[p] = None THEN Create(p) ELSE Deploy(p) \/ Withdraw(p) \/ Announce(p)

RolloutSpec == RolloutInit /\ [][RolloutNext]_rollout
=============================================================================
