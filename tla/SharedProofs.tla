-------------------------- MODULE SharedProofs ---------------------------
(* Proofs about what deployments share: the tool Lambda of an account, for *)
(* any gateways, number of deploys and recreations and choice of failures  *)
(* (SharedToolLambda), and the registry of agents, for any callers,        *)
(* admins, slugs, canvases and number of requests (AgentRegistry).         *)
EXTENDS SharedToolLambda, AgentRegistry, TLAPS

-----------------------------------------------------------------------------
(* The shared tool Lambda.                                                 *)

\* One step of one gateway's process, by name.
Step(g) ==
  \/ Deploy(g) \/ EnsureRole(g) \/ CreateGateway(g) \/ Teardown(g)
  \/ CreateFunction(g) \/ UpdateFunction(g) \/ GetFunction(g)
  \/ AddPermission(g) \/ AddPermissionRaises(g) \/ PollFunction(g)
  \/ CreateTarget(g) \/ ProbeGateway(g)
  \/ ReadStatements(g) \/ CheckRole(g) \/ DropStatement(g)
  \/ RevokeOwn(g) \/ CountGrants(g) \/ FunctionExists(g)
  \/ DeleteFunction(g) \/ DeleteRole(g) \/ Kill(g)

(* The variables keep their types in every step.                           *)
LEMMA StepTypes ==
  ASSUME LambdaTypeOK, NEW g \in Gateway, Step(g)
  PROVE  LambdaTypeOK'
<1> USE LambdaAssumption DEF LambdaTypeOK, Statement, Deploying, Releasing, Pruning,
        Resting, aws, prune, history, Goto, EndTries, BeginPrune, Abort
<1>1. CASE Deploy(g)
  <2>1. deploys' \in 0..MaxDeploys BY <1>1 DEF Deploy
  <2> QED BY <1>1, <2>1 DEF Deploy
<1>2. CASE EnsureRole(g) BY <1>2 DEF EnsureRole
<1>3. CASE CreateGateway(g)
  <2>1. lapsed' \in BOOLEAN BY <1>3 DEF CreateGateway
  <2>2. tries' \in [Gateway -> 0..Recreations] BY <1>3 DEF CreateGateway
  <2> QED BY <1>3, <2>1, <2>2 DEF CreateGateway
<1>4. CASE Teardown(g) BY <1>4 DEF Teardown
<1>5. CASE CreateFunction(g) BY <1>5 DEF CreateFunction
<1>6. CASE UpdateFunction(g) BY <1>6 DEF UpdateFunction, Unnamed
<1>7. CASE GetFunction(g) BY <1>7 DEF GetFunction, Unnamed
<1>8. CASE AddPermission(g) BY <1>8 DEF AddPermission
<1>9. CASE AddPermissionRaises(g) BY <1>9 DEF AddPermissionRaises, Unnamed
<1>10. CASE PollFunction(g)
  <2>1. lapsed' \in BOOLEAN BY <1>10 DEF PollFunction
  <2>2. tries' \in [Gateway -> 0..Recreations] BY <1>10 DEF PollFunction
  <2>3. known' \in [Gateway -> BOOLEAN] BY <1>10 DEF PollFunction
  <2> QED BY <1>10, <2>1, <2>2, <2>3 DEF PollFunction
<1>11. CASE CreateTarget(g) BY <1>11 DEF CreateTarget, Unnamed
<1>12. CASE ProbeGateway(g)
  <2>1. lapsed' \in BOOLEAN BY <1>12 DEF ProbeGateway
  <2>2. tries' \in [Gateway -> 0..Recreations] BY <1>12 DEF ProbeGateway
  <2>3. known' \in [Gateway -> BOOLEAN] BY <1>12 DEF ProbeGateway
  <2> QED BY <1>12, <2>1, <2>2, <2>3 DEF ProbeGateway
<1>13. CASE ReadStatements(g) BY <1>13 DEF ReadStatements, Granted
<1>14. CASE CheckRole(g) BY <1>14 DEF CheckRole
<1>15. CASE DropStatement(g) BY <1>15 DEF DropStatement
<1>16. CASE RevokeOwn(g) BY <1>16 DEF RevokeOwn
<1>17. CASE CountGrants(g) BY <1>17 DEF CountGrants
<1>18. CASE FunctionExists(g) BY <1>18 DEF FunctionExists
<1>19. CASE DeleteFunction(g) BY <1>19 DEF DeleteFunction
<1>20. CASE DeleteRole(g) BY <1>20 DEF DeleteRole
<1>21. CASE Kill(g)
  <2>1. lapsed' \in BOOLEAN BY <1>21 DEF Kill
  <2>2. tries' \in [Gateway -> 0..Recreations] BY <1>21 DEF Kill
  <2> QED BY <1>21, <2>1, <2>2 DEF Kill
<1> QED
  BY <1>1, <1>2, <1>3, <1>4, <1>5, <1>6, <1>7, <1>8, <1>9, <1>10, <1>11, <1>12,
     <1>13, <1>14, <1>15, <1>16, <1>17, <1>18, <1>19, <1>20, <1>21 DEF Step

(* Only the function's creation and deletion touch its existence.  *)
LEMMA StepNoOrphanPolicy ==
  ASSUME LambdaTypeOK, NoOrphanPolicy, NEW g \in Gateway, Step(g)
  PROVE  NoOrphanPolicy'
<1> USE DEF NoOrphanPolicy, LambdaTypeOK, Statement, aws, prune, history, Goto, EndTries
<1>1. CASE Deploy(g) BY <1>1 DEF Deploy
<1>2. CASE EnsureRole(g) BY <1>2 DEF EnsureRole
<1>3. CASE CreateGateway(g) BY <1>3 DEF CreateGateway, Unnamed
<1>4. CASE Teardown(g) BY <1>4 DEF Teardown
<1>5. CASE CreateFunction(g) BY <1>5 DEF CreateFunction, BeginPrune
<1>6. CASE UpdateFunction(g) BY <1>6 DEF UpdateFunction, Abort, Unnamed
<1>7. CASE GetFunction(g) BY <1>7 DEF GetFunction, Abort, Unnamed, BeginPrune
<1>8. CASE AddPermission(g) BY <1>8 DEF AddPermission, Overtaken, Dangling
<1>9. CASE AddPermissionRaises(g) BY <1>9 DEF AddPermissionRaises, Abort, Unnamed
<1>10. CASE PollFunction(g) BY <1>10 DEF PollFunction, Abort, Unnamed
<1>11. CASE CreateTarget(g) BY <1>11 DEF CreateTarget, Abort, Unnamed
<1>12. CASE ProbeGateway(g) BY <1>12 DEF ProbeGateway
<1>13. CASE ReadStatements(g) BY <1>13 DEF ReadStatements, Granted
<1>14. CASE CheckRole(g) BY <1>14 DEF CheckRole
<1>15. CASE DropStatement(g) BY <1>15 DEF DropStatement
<1>16. CASE RevokeOwn(g) BY <1>16 DEF RevokeOwn, BeginPrune
<1>17. CASE CountGrants(g) BY <1>17 DEF CountGrants, Granted
<1>18. CASE FunctionExists(g) BY <1>18 DEF FunctionExists
<1>19. CASE DeleteFunction(g) BY <1>19 DEF DeleteFunction
<1>20. CASE DeleteRole(g) BY <1>20 DEF DeleteRole
<1>21. CASE Kill(g) BY <1>21 DEF Kill
<1> QED
  BY <1>1, <1>2, <1>3, <1>4, <1>5, <1>6, <1>7, <1>8, <1>9, <1>10, <1>11, <1>12,
     <1>13, <1>14, <1>15, <1>16, <1>17, <1>18, <1>19, <1>20, <1>21 DEF Step

(* A role is there from EnsureRole to DeleteRole.  *)
LEMMA StepRolesExist ==
  ASSUME LambdaTypeOK, RolesExist, NEW g \in Gateway, Step(g)
  PROVE  RolesExist'
<1> USE DEF RolesExist, WithRole, Deploying, Pruning, LambdaTypeOK, Statement, aws, prune, history, Goto, EndTries
<1>1. CASE Deploy(g) BY <1>1 DEF Deploy
<1>2. CASE EnsureRole(g) BY <1>2 DEF EnsureRole
<1>3. CASE CreateGateway(g) BY <1>3 DEF CreateGateway, Unnamed
<1>4. CASE Teardown(g) BY <1>4 DEF Teardown
<1>5. CASE CreateFunction(g) BY <1>5 DEF CreateFunction, BeginPrune
<1>6. CASE UpdateFunction(g) BY <1>6 DEF UpdateFunction, Abort, Unnamed
<1>7. CASE GetFunction(g) BY <1>7 DEF GetFunction, Abort, Unnamed, BeginPrune
<1>8. CASE AddPermission(g) BY <1>8 DEF AddPermission, Overtaken, Dangling
<1>9. CASE AddPermissionRaises(g) BY <1>9 DEF AddPermissionRaises, Abort, Unnamed
<1>10. CASE PollFunction(g) BY <1>10 DEF PollFunction, Abort, Unnamed
<1>11. CASE CreateTarget(g) BY <1>11 DEF CreateTarget, Abort, Unnamed
<1>12. CASE ProbeGateway(g) BY <1>12 DEF ProbeGateway
<1>13. CASE ReadStatements(g) BY <1>13 DEF ReadStatements, Granted
<1>14. CASE CheckRole(g) BY <1>14 DEF CheckRole
<1>15. CASE DropStatement(g) BY <1>15 DEF DropStatement
<1>16. CASE RevokeOwn(g) BY <1>16 DEF RevokeOwn, BeginPrune
<1>17. CASE CountGrants(g) BY <1>17 DEF CountGrants, Granted
<1>18. CASE FunctionExists(g) BY <1>18 DEF FunctionExists
<1>19. CASE DeleteFunction(g) BY <1>19 DEF DeleteFunction
<1>20. CASE DeleteRole(g) BY <1>20 DEF DeleteRole
<1>21. CASE Kill(g) BY <1>21 DEF Kill
<1> QED
  BY <1>1, <1>2, <1>3, <1>4, <1>5, <1>6, <1>7, <1>8, <1>9, <1>10, <1>11, <1>12,
     <1>13, <1>14, <1>15, <1>16, <1>17, <1>18, <1>19, <1>20, <1>21 DEF Step

(* A grant that a decision did not see was made after it.  *)
LEMMA StepDecisionsSound ==
  ASSUME LambdaTypeOK, RolesExist, DecisionsSound, NEW g \in Gateway, Step(g)
  PROVE  DecisionsSound'
<1> USE DEF DecisionsSound, LambdaTypeOK, Statement, aws, prune, history, Goto, EndTries
<1>1. CASE Deploy(g) BY <1>1 DEF Deploy
<1>2. CASE EnsureRole(g) BY <1>2 DEF EnsureRole
<1>3. CASE CreateGateway(g) BY <1>3 DEF CreateGateway, Unnamed
<1>4. CASE Teardown(g) BY <1>4 DEF Teardown
<1>5. CASE CreateFunction(g) BY <1>5 DEF CreateFunction, BeginPrune
<1>6. CASE UpdateFunction(g) BY <1>6 DEF UpdateFunction, Abort, Unnamed
<1>7. CASE GetFunction(g) BY <1>7 DEF GetFunction, Abort, Unnamed, BeginPrune
<1>8. CASE AddPermission(g) BY <1>8 DEF AddPermission, Overtaken, Dangling
<1>9. CASE AddPermissionRaises(g) BY <1>9 DEF AddPermissionRaises, Abort, Unnamed
<1>10. CASE PollFunction(g) BY <1>10 DEF PollFunction, Abort, Unnamed
<1>11. CASE CreateTarget(g) BY <1>11 DEF CreateTarget, Abort, Unnamed
<1>12. CASE ProbeGateway(g) BY <1>12 DEF ProbeGateway
<1>13. CASE ReadStatements(g) BY <1>13 DEF ReadStatements, Granted
<1>14. CASE CheckRole(g) BY <1>14 DEF CheckRole, RolesExist
<1>15. CASE DropStatement(g) BY <1>15 DEF DropStatement
<1>16. CASE RevokeOwn(g) BY <1>16 DEF RevokeOwn, BeginPrune
<1>17. CASE CountGrants(g) BY <1>17 DEF CountGrants, Granted
<1>18. CASE FunctionExists(g) BY <1>18 DEF FunctionExists
<1>19. CASE DeleteFunction(g) BY <1>19 DEF DeleteFunction
<1>20. CASE DeleteRole(g) BY <1>20 DEF DeleteRole
<1>21. CASE Kill(g) BY <1>21 DEF Kill
<1> QED
  BY <1>1, <1>2, <1>3, <1>4, <1>5, <1>6, <1>7, <1>8, <1>9, <1>10, <1>11, <1>12,
     <1>13, <1>14, <1>15, <1>16, <1>17, <1>18, <1>19, <1>20, <1>21 DEF Step

(* The deletes that follow a decision hit only overtaken gateways.  *)
LEMMA StepGrantedServed ==
  ASSUME LambdaTypeOK, NoOrphanPolicy, DecisionsSound, GrantedServed, NEW g \in Gateway, Step(g)
  PROVE  GrantedServed'
<1> USE DEF GrantedServed, Serves, LambdaTypeOK, Statement, aws, prune, history, Goto, EndTries
<1>1. CASE Deploy(g) BY <1>1 DEF Deploy
<1>2. CASE EnsureRole(g) BY <1>2 DEF EnsureRole
<1>3. CASE CreateGateway(g) BY <1>3 DEF CreateGateway, Unnamed
<1>4. CASE Teardown(g) BY <1>4 DEF Teardown
<1>5. CASE CreateFunction(g) BY <1>5 DEF CreateFunction, BeginPrune
<1>6. CASE UpdateFunction(g) BY <1>6 DEF UpdateFunction, Abort, Unnamed
<1>7. CASE GetFunction(g) BY <1>7 DEF GetFunction, Abort, Unnamed, BeginPrune, Pruning
<1>8. CASE AddPermission(g) BY <1>8 DEF AddPermission, Overtaken, Dangling
<1>9. CASE AddPermissionRaises(g) BY <1>9 DEF AddPermissionRaises, Abort, Unnamed
<1>10. CASE PollFunction(g) BY <1>10 DEF PollFunction, Abort, Unnamed
<1>11. CASE CreateTarget(g) BY <1>11 DEF CreateTarget, Abort, Unnamed
<1>12. CASE ProbeGateway(g) BY <1>12 DEF ProbeGateway
<1>13. CASE ReadStatements(g) BY <1>13 DEF ReadStatements, Granted
<1>14. CASE CheckRole(g) BY <1>14 DEF CheckRole
<1>15. CASE DropStatement(g) BY <1>15 DEF DropStatement, DecisionsSound
<1>16. CASE RevokeOwn(g) BY <1>16 DEF RevokeOwn, BeginPrune
<1>17. CASE CountGrants(g) BY <1>17 DEF CountGrants, Granted
<1>18. CASE FunctionExists(g) BY <1>18 DEF FunctionExists
<1>19. CASE DeleteFunction(g) BY <1>19 DEF DeleteFunction, DecisionsSound
<1>20. CASE DeleteRole(g) BY <1>20 DEF DeleteRole
<1>21. CASE Kill(g) BY <1>21 DEF Kill
<1> QED
  BY <1>1, <1>2, <1>3, <1>4, <1>5, <1>6, <1>7, <1>8, <1>9, <1>10, <1>11, <1>12,
     <1>13, <1>14, <1>15, <1>16, <1>17, <1>18, <1>19, <1>20, <1>21 DEF Step

(* The name is set by the poll and lost only with the deploy.  *)
LEMMA StepNamesKnown ==
  ASSUME LambdaTypeOK, NamesKnown, NEW g \in Gateway, Step(g)
  PROVE  NamesKnown'
<1> USE DEF NamesKnown, Pruning, LambdaTypeOK, Statement, aws, prune, history, Goto, EndTries
<1>1. CASE Deploy(g) BY <1>1 DEF Deploy
<1>2. CASE EnsureRole(g) BY <1>2 DEF EnsureRole
<1>3. CASE CreateGateway(g) BY <1>3 DEF CreateGateway, Unnamed
<1>4. CASE Teardown(g) BY <1>4 DEF Teardown
<1>5. CASE CreateFunction(g) BY <1>5 DEF CreateFunction, BeginPrune
<1>6. CASE UpdateFunction(g) BY <1>6 DEF UpdateFunction, Abort, Unnamed
<1>7. CASE GetFunction(g) BY <1>7 DEF GetFunction, Abort, Unnamed, BeginPrune
<1>8. CASE AddPermission(g) BY <1>8 DEF AddPermission, Overtaken, Dangling
<1>9. CASE AddPermissionRaises(g) BY <1>9 DEF AddPermissionRaises, Abort, Unnamed
<1>10. CASE PollFunction(g) BY <1>10 DEF PollFunction, Abort, Unnamed
<1>11. CASE CreateTarget(g) BY <1>11 DEF CreateTarget, Abort, Unnamed
<1>12. CASE ProbeGateway(g) BY <1>12 DEF ProbeGateway
<1>13. CASE ReadStatements(g) BY <1>13 DEF ReadStatements, Granted
<1>14. CASE CheckRole(g) BY <1>14 DEF CheckRole
<1>15. CASE DropStatement(g) BY <1>15 DEF DropStatement
<1>16. CASE RevokeOwn(g) BY <1>16 DEF RevokeOwn, BeginPrune
<1>17. CASE CountGrants(g) BY <1>17 DEF CountGrants, Granted
<1>18. CASE FunctionExists(g) BY <1>18 DEF FunctionExists
<1>19. CASE DeleteFunction(g) BY <1>19 DEF DeleteFunction
<1>20. CASE DeleteRole(g) BY <1>20 DEF DeleteRole
<1>21. CASE Kill(g) BY <1>21 DEF Kill
<1> QED
  BY <1>1, <1>2, <1>3, <1>4, <1>5, <1>6, <1>7, <1>8, <1>9, <1>10, <1>11, <1>12,
     <1>13, <1>14, <1>15, <1>16, <1>17, <1>18, <1>19, <1>20, <1>21 DEF Step

(* A revocation comes before the role's deletion, or a failure is on record.  *)
LEMMA StepReleasedUngranted ==
  ASSUME LambdaTypeOK, NoOrphanPolicy, NamesKnown, ReleasedUngranted, NEW g \in Gateway, Step(g)
  PROVE  ReleasedUngranted'
<1> USE DEF ReleasedUngranted, Released, NamesKnown, NoOrphanPolicy,
        Pruning, Resting, Releasing, LambdaTypeOK, Statement, aws, prune, history, Goto, EndTries
<1>1. CASE Deploy(g) BY <1>1 DEF Deploy
<1>2. CASE EnsureRole(g) BY <1>2 DEF EnsureRole
<1>3. CASE CreateGateway(g) BY <1>3 DEF CreateGateway, Unnamed
<1>4. CASE Teardown(g) BY <1>4 DEF Teardown
<1>5. CASE CreateFunction(g) BY <1>5 DEF CreateFunction, BeginPrune
<1>6. CASE UpdateFunction(g) BY <1>6 DEF UpdateFunction, Abort, Unnamed
<1>7. CASE GetFunction(g) BY <1>7 DEF GetFunction, Abort, Unnamed, BeginPrune
<1>8. CASE AddPermission(g) BY <1>8 DEF AddPermission, Overtaken, Dangling
<1>9. CASE AddPermissionRaises(g) BY <1>9 DEF AddPermissionRaises, Abort, Unnamed
<1>10. CASE PollFunction(g) BY <1>10 DEF PollFunction, Abort, Unnamed
<1>11. CASE CreateTarget(g) BY <1>11 DEF CreateTarget, Abort, Unnamed
<1>12. CASE ProbeGateway(g) BY <1>12 DEF ProbeGateway
<1>13. CASE ReadStatements(g) BY <1>13 DEF ReadStatements, Granted
<1>14. CASE CheckRole(g) BY <1>14 DEF CheckRole
<1>15. CASE DropStatement(g) BY <1>15 DEF DropStatement
<1>16. CASE RevokeOwn(g) BY <1>16 DEF RevokeOwn, BeginPrune
<1>17. CASE CountGrants(g) BY <1>17 DEF CountGrants, Granted
<1>18. CASE FunctionExists(g) BY <1>18 DEF FunctionExists
<1>19. CASE DeleteFunction(g) BY <1>19 DEF DeleteFunction
<1>20. CASE DeleteRole(g) BY <1>20 DEF DeleteRole
<1>21. CASE Kill(g) BY <1>21 DEF Kill
<1> QED
  BY <1>1, <1>2, <1>3, <1>4, <1>5, <1>6, <1>7, <1>8, <1>9, <1>10, <1>11, <1>12,
     <1>13, <1>14, <1>15, <1>16, <1>17, <1>18, <1>19, <1>20, <1>21 DEF Step

(* Whoever leaves the function without a grant deletes it or has failed.  *)
LEMMA StepSomeoneCharged ==
  ASSUME LambdaTypeOK, NoOrphanPolicy, NamesKnown, ReleasedUngranted, SomeoneCharged, NEW g \in Gateway, Step(g)
  PROVE  SomeoneCharged'
<1> USE DEF SomeoneCharged, Charged, ReleasedUngranted, Released, NamesKnown,
        NoOrphanPolicy, Pruning, Resting, Releasing, LambdaTypeOK, Statement, aws, prune, history, Goto, EndTries
<1>1. CASE Deploy(g) BY <1>1 DEF Deploy
<1>2. CASE EnsureRole(g) BY <1>2 DEF EnsureRole
<1>3. CASE CreateGateway(g) BY <1>3 DEF CreateGateway, Unnamed
<1>4. CASE Teardown(g) BY <1>4 DEF Teardown
<1>5. CASE CreateFunction(g) BY <1>5 DEF CreateFunction, BeginPrune
<1>6. CASE UpdateFunction(g) BY <1>6 DEF UpdateFunction, Abort, Unnamed
<1>7. CASE GetFunction(g) BY <1>7 DEF GetFunction, Abort, Unnamed, BeginPrune
<1>8. CASE AddPermission(g) BY <1>8 DEF AddPermission, Overtaken, Dangling
<1>9. CASE AddPermissionRaises(g) BY <1>9 DEF AddPermissionRaises, Abort, Unnamed
<1>10. CASE PollFunction(g) BY <1>10 DEF PollFunction, Abort, Unnamed
<1>11. CASE CreateTarget(g) BY <1>11 DEF CreateTarget, Abort, Unnamed
<1>12. CASE ProbeGateway(g) BY <1>12 DEF ProbeGateway
<1>13. CASE ReadStatements(g) BY <1>13 DEF ReadStatements, Granted
<1>14. CASE CheckRole(g) BY <1>14 DEF CheckRole
<1>15. CASE DropStatement(g) BY <1>15 DEF DropStatement
<1>16. CASE RevokeOwn(g) BY <1>16 DEF RevokeOwn, BeginPrune
<1>17. CASE CountGrants(g)
  <2>1. UNCHANGED <<function, grant, known, back>> BY <1>17 DEF CountGrants
  <2>2. CASE Fault("read") /\ Goto(g, "unrole") /\ lapsed' = (lapsed \/ function)
    BY <2>1, <2>2
  <2>3. CASE Goto(g, IF Granted = {} THEN "exists" ELSE "unrole") /\ UNCHANGED lapsed
    <3>1. CASE Granted = {} BY <1>17, <2>1, <2>3, <3>1
    <3>2. CASE Granted # {}
      <4>1. PICK s \in Gateway : grant[s] # "none" BY <3>2 DEF Granted
      <4> QED BY <2>1, <4>1
    <3> QED BY <3>1, <3>2
  <2> QED BY <1>17, <2>2, <2>3 DEF CountGrants
<1>18. CASE FunctionExists(g) BY <1>18 DEF FunctionExists
<1>19. CASE DeleteFunction(g) BY <1>19 DEF DeleteFunction
<1>20. CASE DeleteRole(g) BY <1>20 DEF DeleteRole
<1>21. CASE Kill(g) BY <1>21 DEF Kill
<1> QED
  BY <1>1, <1>2, <1>3, <1>4, <1>5, <1>6, <1>7, <1>8, <1>9, <1>10, <1>11, <1>12,
     <1>13, <1>14, <1>15, <1>16, <1>17, <1>18, <1>19, <1>20, <1>21 DEF Step

(* No part of the invariant mentions a variable that a stutter changes.    *)
LEMMA StutterKeeps ==
  ASSUME LambdaInv, UNCHANGED vars
  PROVE  LambdaInv'
<1> USE DEF vars, aws, prune, history
<1>1. LambdaTypeOK' BY DEF LambdaInv, LambdaTypeOK
<1>2. NoOrphanPolicy' /\ RolesExist' /\ DecisionsSound'
  BY DEF LambdaInv, NoOrphanPolicy, RolesExist, DecisionsSound
<1>3. GrantedServed' /\ NamesKnown'
  BY DEF LambdaInv, GrantedServed, Serves, NamesKnown
<1>4. ReleasedUngranted' /\ SomeoneCharged'
  BY DEF LambdaInv, ReleasedUngranted, Released, SomeoneCharged, Charged
<1> QED BY <1>1, <1>2, <1>3, <1>4 DEF LambdaInv

LEMMA InitHolds ==
  ASSUME Init
  PROVE  LambdaInv
<1> USE LambdaAssumption DEF Init
<1>1. LambdaTypeOK
  <2>1. tries \in [Gateway -> 0..Recreations] /\ deploys \in 0..MaxDeploys OBVIOUS
  <2> QED
    BY <2>1 DEF LambdaTypeOK, Statement, Deploying, Releasing, Pruning, Resting
<1>2. NoOrphanPolicy /\ RolesExist /\ DecisionsSound
  BY DEF NoOrphanPolicy, RolesExist, DecisionsSound, WithRole, Deploying, Pruning
<1>3. GrantedServed /\ NamesKnown
  BY DEF GrantedServed, NamesKnown
<1>4. ReleasedUngranted /\ SomeoneCharged
  BY DEF ReleasedUngranted, SomeoneCharged
<1> QED BY <1>1, <1>2, <1>3, <1>4 DEF LambdaInv

LEMMA NextKeeps ==
  ASSUME LambdaInv, Next
  PROVE  LambdaInv'
<1> USE DEF LambdaInv
<1>1. PICK g \in Gateway : Step(g) BY DEF Next, Step
<1>2. LambdaTypeOK' BY <1>1, StepTypes
<1>3. NoOrphanPolicy' BY <1>1, StepNoOrphanPolicy
<1>4. RolesExist' BY <1>1, StepRolesExist
<1>5. DecisionsSound' BY <1>1, StepDecisionsSound
<1>6. GrantedServed' BY <1>1, StepGrantedServed
<1>7. NamesKnown' BY <1>1, StepNamesKnown
<1>8. ReleasedUngranted' BY <1>1, StepReleasedUngranted
<1>9. SomeoneCharged' BY <1>1, StepSomeoneCharged
<1> QED BY <1>2, <1>3, <1>4, <1>5, <1>6, <1>7, <1>8, <1>9

-----------------------------------------------------------------------------

(* The types and the inductive invariant hold in every reachable state.    *)
THEOREM LambdaInvariant == Spec => []LambdaInv
<1>1. Init => LambdaInv BY InitHolds
<1>2. LambdaInv /\ [Next]_vars => LambdaInv'
  BY NextKeeps, StutterKeeps
<1> QED BY <1>1, <1>2, PTL DEF Spec

(* No gateway's teardown, prune or failed deploy takes the shared function *)
(* or its grant from another live gateway, except from one granted between *)
(* the read and the delete of the other process.                           *)
THEOREM LambdaServes == Spec => []ServedUnlessOvertaken
<1>1. LambdaInv => ServedUnlessOvertaken
  BY DEF LambdaInv, GrantedServed, ServedUnlessOvertaken
<1> QED BY <1>1, LambdaInvariant, PTL

(* Without a swallowed failure no statement of the policy names a deleted  *)
(* role, so no grant is ever rejected for another gateway's principal.     *)
THEOREM LambdaGrantsBacked == Spec => []GrantsAreBacked
<1>1. LambdaInv => GrantsAreBacked
  BY DEF LambdaInv, ReleasedUngranted, GrantsAreBacked, Dangling
<1> QED BY <1>1, LambdaInvariant, PTL

(* Without a swallowed failure the function and its grants are gone once   *)
(* every gateway is, in whatever order the teardowns interleaved.          *)
THEOREM LambdaQuietIsClean == Spec => []QuietIsClean
<1>1. ASSUME LambdaInv PROVE QuietIsClean
  <2>1. SUFFICES ASSUME ~lapsed, \A g \in Gateway : pc[g] \in {"idle", "gone"}
                 PROVE  ~function /\ Granted = {}
    BY DEF QuietIsClean
  <2>2. \A g \in Gateway : grant[g] = "none" /\ ~Charged(g)
    BY <1>1, <2>1 DEF LambdaInv, ReleasedUngranted, Released, Charged, Pruning
  <2>3. ~function BY <1>1, <2>1, <2>2 DEF LambdaInv, SomeoneCharged
  <2> QED BY <2>2, <2>3 DEF Granted
<1> QED BY <1>1, LambdaInvariant, PTL

-----------------------------------------------------------------------------
(* The registry of agents.                                                 *)

\* The rows that are no entries, and the state of a caller without a request.
LEMMA NoEntries ==
  /\ Missing \notin Entry /\ Ghost \notin Entry /\ Projected \notin Entry
  /\ Missing # Ghost /\ Missing # Projected /\ Ghost # Projected
  /\ Quiet \notin Asking
<1>1. /\ Missing \notin Entry /\ Ghost \notin Entry /\ Projected \notin Entry
  BY DEF Missing, Ghost, Projected, Entry
<1>2. Missing # Ghost /\ Missing # Projected /\ Ghost # Projected
  BY DEF Missing, Ghost, Projected
<1>3. Quiet \notin Asking
  BY DEF Quiet, Asking
<1> QED BY <1>1, <1>2, <1>3

\* A request under way is a record with all its fields.
LEMMA AskedFor ==
  ASSUME RegistryTypeOK, NEW c \in Caller, asks[c] # Quiet
  PROVE  /\ asks[c] \in Asking
         /\ asks[c].slug \in Slug /\ asks[c].canvas \in Canvas
         /\ asks[c].visibility \in Scope
         /\ asks[c].seen \in RowHere \cup {Projected}
  BY DEF RegistryTypeOK, Asking

\* A request that moves on stays one: its step, slug or copy of the row change.
LEMMA AskChanges ==
  ASSUME NEW a \in Asking,
         NEW step \in {"get", "again", "check", "reget", "write", "provider", "config"},
         NEW s \in Slug, NEW e \in RowHere \cup {Projected}
  PROVE  /\ [a EXCEPT !.step = step] \in Asking
         /\ [a EXCEPT !.step = step, !.slug = s] \in Asking
         /\ [a EXCEPT !.seen = e, !.step = step] \in Asking
  BY DEF Asking

\* What a read finds is a row, an entry standing for a server, or nothing.
LEMMA FindsRow ==
  ASSUME RegistryTypeOK, NEW c \in Caller, NEW s \in Slug
  PROVE  /\ Finds(c, s) \in RowHere \cup {Projected}
         /\ Finds(c, s) \in Entry => Finds(c, s) = entries[s]
  BY NoEntries DEF Finds, RegistryTypeOK, RowHere

\* The row an update leaves: an entry stays one, and whose it is.
LEMMA SetOnRow ==
  ASSUME RegistryTypeOK, NEW s \in Slug, NEW change,
         entries[s] \in Entry => change \in Entry, SetOn(s, change)
  PROVE  /\ entries' \in [Slug -> RowHere]
         /\ entries'[s] = IF entries[s] \in Entry THEN change ELSE Ghost
         /\ \A t \in Slug \ {s} : entries'[t] = entries[t]
  BY DEF RegistryTypeOK, SetOn, RowHere

-----------------------------------------------------------------------------
(* Types.                                                                  *)

LEMMA RegistryTypeInit == RegistryInit => RegistryTypeOK
<1> SUFFICES ASSUME RegistryInit PROVE RegistryTypeOK
  OBVIOUS
<1>1. entries \in [Slug -> RowHere] /\ asks \in [Caller -> Asking \cup {Quiet}]
  BY DEF RegistryInit, RowHere
<1>2. lastVerdict \in [Slug -> Review \cup {"none"}] /\ asked \in 0..MaxRegistryCalls
  BY RegistryAssumption DEF RegistryInit
<1>3. configured \in BOOLEAN /\ backend \in {"dynamodb", "litellm"}
  BY DEF RegistryInit
<1>4. /\ servers \subseteq Slug /\ straddled \subseteq Slug
      /\ blessed \subseteq Slug \X Caller \X Canvas
      /\ delivered \subseteq Slug \X Caller \X Canvas
  BY DEF RegistryInit
<1> QED BY <1>1, <1>2, <1>3, <1>4 DEF RegistryTypeOK

\* Requests arrive and settings change.
LEMMA TypeAsked ==
  ASSUME RegistryTypeOK, NEW c \in Caller,
         Ask(c) \/ AskSetting(c) \/ WriteConfig(c) \/ WriteProvider(c)
  PROVE  RegistryTypeOK'
<1> USE RegistryAssumption
<1>1. CASE Ask(c)
  <2>1. \A op \in {"publish", "edit", "delete", "clone", "approve", "reject"},
           s \in Slug, v \in Canvas, w \in Scope :
          Request(c, op, "get", s, v, w) => asks' \in [Caller -> Asking \cup {Quiet}]
    BY DEF Request, RegistryTypeOK, Asking, RowHere
  <2>2. asks' \in [Caller -> Asking \cup {Quiet}]
    BY <1>1, <2>1 DEF Ask
  <2>3. asked' \in 0..MaxRegistryCalls
    BY <1>1 DEF Ask, RegistryTypeOK
  <2>4. UNCHANGED <<entries, servers, backend, configured, blessed, lastVerdict,
                    straddled, delivered>>
    BY <1>1 DEF Ask, settingVars, registryHistory
  <2> QED BY <2>2, <2>3, <2>4 DEF RegistryTypeOK
<1>2. CASE AskSetting(c)
  <2>1. \A op \in {"enable", "disable"}, first \in {"config", "provider"},
           s \in Slug, v \in Canvas :
          Request(c, op, first, s, v, "org") => asks' \in [Caller -> Asking \cup {Quiet}]
    BY DEF Request, RegistryTypeOK, Asking, RowHere
  <2>2. asks' \in [Caller -> Asking \cup {Quiet}]
    BY <1>2, <2>1 DEF AskSetting
  <2>3. asked' \in 0..MaxRegistryCalls
    BY <1>2 DEF AskSetting, RegistryTypeOK
  <2>4. UNCHANGED <<entries, servers, backend, configured, blessed, lastVerdict,
                    straddled, delivered>>
    BY <1>2 DEF AskSetting, settingVars, registryHistory
  <2> QED BY <2>2, <2>3, <2>4 DEF RegistryTypeOK
<1>3. CASE WriteConfig(c) \/ WriteProvider(c)
  <2>1. \A step \in {"provider", "config"} : [asks[c] EXCEPT !.step = step] \in Asking
    BY <1>3, AskedFor, AskChanges DEF WriteConfig, WriteProvider
  <2>2. \E step \in {"provider", "config"} :
          asks' \in {[asks EXCEPT ![c] = Quiet],
                    [asks EXCEPT ![c] = [asks[c] EXCEPT !.step = step]]}
    BY <1>3 DEF WriteConfig, WriteProvider, StepTo, AnswerTo
  <2>3. asks' \in [Caller -> Asking \cup {Quiet}]
    BY <2>1, <2>2 DEF RegistryTypeOK
  <2> QED BY <1>3, <2>3 DEF WriteConfig, WriteProvider, RegistryTypeOK, registryHistory
<1> QED BY <1>1, <1>2, <1>3

\* Reads.
LEMMA TypeReads ==
  ASSUME RegistryTypeOK, NEW c \in Caller,
         ReadRaises(c) \/ ReadForPublish(c) \/ CheckCollision(c)
           \/ ReadForChange(c) \/ ReadAgain(c)
  PROVE  RegistryTypeOK'
<1> DEFINE a == asks[c]
           e == Finds(c, a.slug)
<1>1. a # Quiet
  BY DEF ReadRaises, ReadForPublish, CheckCollision, ReadForChange, ReadAgain
<1>2. a \in Asking /\ a.slug \in Slug
  BY <1>1, AskedFor
<1>3. e \in RowHere \cup {Projected} /\ (e \in Entry => e = entries[a.slug])
  BY <1>2, FindsRow
<1>4. SuffixedSlug[a.slug][c] \in Slug
  BY <1>2, RegistryAssumption
<1>5. \A r \in Asking \cup {Quiet} : [asks EXCEPT ![c] = r] \in [Caller -> Asking \cup {Quiet}]
  BY DEF RegistryTypeOK
<1>6. asks' \in [Caller -> Asking \cup {Quiet}]
  <2>1. CASE ReadRaises(c)
    BY <2>1, <1>5 DEF ReadRaises, AnswerTo
  <2>2. CASE ReadForPublish(c)
    <3>1. CASE Evades(c, e)
      <4>1. asks' = [asks EXCEPT ![c] =
               [a EXCEPT !.step = "again", !.slug = SuffixedSlug[a.slug][c]]]
        BY <2>2, <3>1 DEF ReadForPublish
      <4>2. [a EXCEPT !.step = "again", !.slug = SuffixedSlug[a.slug][c]] \in Asking
        BY <1>2, <1>3, <1>4, AskChanges
      <4> QED BY <4>1, <4>2, <1>5
    <3>2. CASE ~Evades(c, e)
      <4>1. PICK step \in {"check", "write"} : asks' = [asks EXCEPT ![c] =
               [a EXCEPT !.seen = e, !.step = step]]
        BY <2>2, <3>2 DEF ReadForPublish
      <4>2. [a EXCEPT !.seen = e, !.step = step] \in Asking
        BY <1>2, <1>3, AskChanges
      <4> QED BY <4>1, <4>2, <1>5
    <3> QED BY <3>1, <3>2
  <2>3. CASE CheckCollision(c) \/ ReadAgain(c)
    <3>1. [a EXCEPT !.step = "write"] \in Asking
      BY <1>2, <1>3, AskChanges
    <3>2. asks' \in {[asks EXCEPT ![c] = Quiet],
                     [asks EXCEPT ![c] = [a EXCEPT !.step = "write"]]}
      BY <2>3 DEF CheckCollision, ReadAgain, StepTo, AnswerTo
    <3> QED BY <3>1, <3>2, <1>5
  <2>4. CASE ReadForChange(c)
    <3>1. CASE e \in Entry /\ Allowed(c, e)
      <4>1. PICK step \in {"reget", "write"} : asks' = [asks EXCEPT ![c] =
               [a EXCEPT !.seen = e, !.step = step]]
        BY <2>4, <3>1 DEF ReadForChange
      <4>2. [a EXCEPT !.seen = e, !.step = step] \in Asking
        BY <1>2, <1>3, AskChanges
      <4> QED BY <4>1, <4>2, <1>5
    <3>2. CASE ~(e \in Entry /\ Allowed(c, e))
      BY <2>4, <3>2, <1>5 DEF ReadForChange, AnswerTo
    <3> QED BY <3>1, <3>2
  <2> QED BY <2>1, <2>2, <2>3, <2>4
<1>7. delivered' \subseteq Slug \X Caller \X Canvas
  <2>1. CASE ReadForChange(c)
    <3>1. e \in Entry => <<a.slug, e.owner, e.canvas>> \in Slug \X Caller \X Canvas
      BY <1>2 DEF Entry
    <3> QED BY <2>1, <3>1 DEF ReadForChange, RegistryTypeOK
  <2>2. CASE ~ReadForChange(c)
    BY <2>2 DEF ReadRaises, ReadForPublish, CheckCollision, ReadAgain, Reads,
                RegistryTypeOK, registryHistory
  <2> QED BY <2>1, <2>2
<1>8. UNCHANGED <<entries, servers, backend, configured, asked, blessed,
                  lastVerdict, straddled>>
  BY DEF ReadRaises, ReadForPublish, CheckCollision, ReadForChange, ReadAgain,
         Reads, settingVars, registryHistory
<1> QED BY <1>6, <1>7, <1>8 DEF RegistryTypeOK

\* Writes.
LEMMA PublishedRow ==
  ASSUME RegistryTypeOK, NEW c \in Caller, asks[c] # Quiet
  PROVE  /\ StatusOnPublish(c) \in Review
         /\ [owner |-> c, canvas |-> asks[c].canvas, visibility |-> asks[c].visibility,
             status |-> StatusOnPublish(c)] \in Entry
<1>1. StatusOnPublish(c) \in Review
  BY DEF StatusOnPublish, OwnedBy, Entry, Review
<1> QED BY <1>1, AskedFor DEF Entry

\* What an edit or a verdict makes of an entry, and what of it stays.
LEMMA ChangedRow ==
  ASSUME NEW e \in Entry, NEW v \in Scope, NEW status \in Review
  PROVE  /\ [e EXCEPT !.visibility = v, !.status = status] \in Entry
         /\ [e EXCEPT !.status = status] \in Entry
         /\ [e EXCEPT !.visibility = v, !.status = status].owner = e.owner
         /\ [e EXCEPT !.visibility = v, !.status = status].canvas = e.canvas
         /\ [e EXCEPT !.visibility = v, !.status = status].status = status
         /\ [e EXCEPT !.status = status].owner = e.owner
         /\ [e EXCEPT !.status = status].canvas = e.canvas
         /\ [e EXCEPT !.status = status].status = status
         /\ e.status \in Review
  BY DEF Entry

\* Of an entry, an update of it keeps owner and canvas; a row that is none
\* becomes a ghost.
LEMMA EditedRow ==
  ASSUME RegistryTypeOK, NEW c \in Caller,
         Edit(c) \/ GiveVerdict(c) \/ CountUse(c)
  PROVE  LET s == asks[c].slug IN
         /\ s \in Slug /\ entries' \in [Slug -> RowHere]
         /\ \A t \in Slug \ {s} : entries'[t] = entries[t]
         /\ entries[s] \notin Entry => entries'[s] = Ghost
         /\ entries[s] \in Entry =>
              /\ entries'[s] \in Entry
              /\ entries'[s].owner = entries[s].owner
              /\ entries'[s].canvas = entries[s].canvas
              /\ Edit(c) => entries'[s].status =
                    IF IsAdmin(c) THEN entries[s].status ELSE "pending"
              /\ GiveVerdict(c) => entries'[s].status =
                    IF asks[c].op = "approve" THEN "approved" ELSE "rejected"
              /\ CountUse(c) => entries'[s] = entries[s]
<1> DEFINE s == asks[c].slug
           e == entries[s]
<1>1. asks[c] # Quiet
  BY DEF Edit, GiveVerdict, CountUse
<1>2. s \in Slug /\ asks[c].visibility \in Scope
  BY <1>1, AskedFor
<1>3. CASE Edit(c)
  <2>1. PICK st : st = IF IsAdmin(c) THEN e.status ELSE "pending"
    OBVIOUS
  <2> DEFINE change == [e EXCEPT !.visibility = asks[c].visibility, !.status = st]
  <2>2. SetOn(s, change)
    BY <1>3, <2>1 DEF Edit
  <2>3. e \in Entry => st \in Review
    BY <2>1 DEF Entry, Review
  <2>4. e \in Entry => /\ change \in Entry /\ change.owner = e.owner
                       /\ change.canvas = e.canvas /\ change.status = st
    BY <1>2, <2>3 DEF Entry
  <2>5. ~GiveVerdict(c) /\ ~CountUse(c)
    BY <1>3 DEF Edit, GiveVerdict, CountUse
  <2> HIDE DEF change
  <2> QED BY <1>2, <2>1, <2>2, <2>4, <2>5, SetOnRow
<1>4. CASE GiveVerdict(c)
  <2> DEFINE status == IF asks[c].op = "approve" THEN "approved" ELSE "rejected"
             change == [e EXCEPT !.status = status]
  <2>1. status \in Review
    BY DEF Review
  <2>2. SetOn(s, change)
    BY <1>4 DEF GiveVerdict
  <2>3. e \in Entry => /\ change \in Entry /\ change.owner = e.owner
                       /\ change.canvas = e.canvas /\ change.status = status
    BY <1>2, <2>1, ChangedRow
  <2>4. ~Edit(c) /\ ~CountUse(c)
    BY <1>4 DEF Edit, GiveVerdict, CountUse
  <2> HIDE DEF change
  <2> QED BY <1>2, <2>2, <2>3, <2>4, SetOnRow
<1>5. CASE CountUse(c)
  <2>1. SetOn(s, e) /\ ~Edit(c) /\ ~GiveVerdict(c)
    BY <1>5 DEF Edit, GiveVerdict, CountUse
  <2> QED BY <1>2, <2>1, SetOnRow
<1> QED BY <1>3, <1>4, <1>5

LEMMA TypeWrites ==
  ASSUME RegistryTypeOK, NEW c \in Caller,
         Publish(c) \/ Edit(c) \/ GiveVerdict(c) \/ Delete(c) \/ CountUse(c)
  PROVE  RegistryTypeOK'
<1> DEFINE s == asks[c].slug
<1>1. s \in Slug /\ asks[c] # Quiet
  BY AskedFor DEF Publish, Edit, GiveVerdict, Delete, CountUse
<1>2. entries' \in [Slug -> RowHere]
  <2>1. CASE Publish(c)
    BY <2>1, <1>1, PublishedRow DEF Publish, RegistryTypeOK, RowHere
  <2>2. CASE Delete(c)
    BY <2>2, <1>1 DEF Delete, RegistryTypeOK, RowHere
  <2>3. CASE Edit(c) \/ GiveVerdict(c) \/ CountUse(c)
    BY <2>3, EditedRow
  <2> QED BY <2>1, <2>2, <2>3
<1>3. asks' \in [Caller -> Asking \cup {Quiet}]
  BY DEF Publish, Edit, GiveVerdict, Delete, CountUse, AnswerTo, RegistryTypeOK
<1>4. lastVerdict' \in [Slug -> Review \cup {"none"}]
  BY <1>1 DEF Publish, Edit, GiveVerdict, Delete, CountUse, RegistryTypeOK,
              registryHistory, Review
<1>5. straddled' \subseteq Slug
  BY <1>1 DEF Publish, Edit, GiveVerdict, Delete, CountUse, Straddle,
              RegistryTypeOK, registryHistory
<1>6. blessed' \subseteq Slug \X Caller \X Canvas
  <2>1. entries[s] \in Entry =>
          <<s, entries[s].owner, entries[s].canvas>> \in Slug \X Caller \X Canvas
    BY <1>1 DEF Entry
  <2>2. blessed \subseteq Slug \X Caller \X Canvas
    BY DEF RegistryTypeOK
  <2>3. CASE GiveVerdict(c)
    <3>1. \/ blessed' = blessed
          \/ /\ entries[s] \in Entry
             /\ blessed' = blessed \cup {<<s, entries[s].owner, entries[s].canvas>>}
      BY <2>3 DEF GiveVerdict
    <3> QED BY <2>1, <2>2, <3>1
  <2>4. CASE Publish(c) \/ Edit(c) \/ Delete(c) \/ CountUse(c)
    BY <2>2, <2>4 DEF Publish, Edit, Delete, CountUse, registryHistory
  <2> QED BY <2>3, <2>4
<1>7. UNCHANGED <<servers, backend, configured, asked, delivered>>
  BY DEF Publish, Edit, GiveVerdict, Delete, CountUse, settingVars, registryHistory
<1> QED BY <1>2, <1>3, <1>4, <1>5, <1>6, <1>7 DEF RegistryTypeOK

LEMMA RegistryTypeStep == RegistryTypeOK /\ [RegistryNext]_registryVars => RegistryTypeOK'
<1> SUFFICES ASSUME RegistryTypeOK, [RegistryNext]_registryVars PROVE RegistryTypeOK'
  OBVIOUS
<1>1. CASE UNCHANGED registryVars
  BY <1>1 DEF RegistryTypeOK, registryVars, settingVars, registryHistory
<1>2. CASE \E s \in Slug : FlipServer(s)
  <2>1. servers' \subseteq Slug
    <3>1. PICK s \in Slug : servers' = IF s \in servers THEN servers \ {s}
                                                       ELSE servers \cup {s}
      BY <1>2 DEF FlipServer
    <3>2. servers \subseteq Slug
      BY DEF RegistryTypeOK
    <3> QED BY <3>1, <3>2
  <2>2. UNCHANGED <<entries, backend, configured, asks, asked, blessed,
                    lastVerdict, straddled, delivered>>
    BY <1>2 DEF FlipServer, registryHistory
  <2> QED BY <2>1, <2>2 DEF RegistryTypeOK
<1>3. CASE RegistryNext /\ ~\E s \in Slug : FlipServer(s)
  BY <1>3, TypeAsked, TypeReads, TypeWrites DEF RegistryNext
<1> QED BY <1>1, <1>2, <1>3

\* The table, the settings and the requests under way keep their shape.
THEOREM RegistryTyped == RegistrySpec => []RegistryTypeOK
  BY RegistryTypeInit, RegistryTypeStep, PTL DEF RegistrySpec

-----------------------------------------------------------------------------
(* Approval.  A publish decides on the row it has read, so the invariant   *)
(* says of the row in its hand what the property says of the table.        *)

Suffixed(c) == \E t \in Slug : asks[c].slug = SuffixedSlug[t][c]
HoldsRow(c) ==
  asks[c] # Quiet /\ asks[c].op = "publish" /\ asks[c].step \in {"check", "write"}

\* A publish holds nothing, a row of its own, or reads under a suffixed slug;
\* an approval it may carry on was written.
HandSound(c) ==
  /\ asks[c] # Quiet /\ asks[c].op = "publish" =>
       /\ asks[c].step \in {"get", "again", "check", "write"}
       /\ asks[c].step = "again" => Suffixed(c)
  /\ HoldsRow(c) =>
       /\ asks[c].seen = Missing \/ OwnedBy(asks[c].seen, c) \/ Suffixed(c)
       /\ OwnedBy(asks[c].seen, c) /\ asks[c].seen.status = "approved" =>
            <<asks[c].slug, asks[c].seen.owner, asks[c].seen.canvas>> \in blessed

HandsSound == \A c \in Caller : HandSound(c)
RegistryInv == RegistryTypeOK /\ HandsSound /\ ApprovalHolds

LEMMA RegistryInvInit == RegistryInit => RegistryInv
<1> SUFFICES ASSUME RegistryInit PROVE RegistryInv
  OBVIOUS
<1>1. HandsSound
  BY DEF RegistryInit, HandsSound, HandSound, HoldsRow
<1>2. ApprovalHolds
  BY NoEntries DEF RegistryInit, ApprovalHolds
<1> QED BY <1>1, <1>2, RegistryTypeInit DEF RegistryInv

\* The request of a caller says nothing of the others', and no approval is
\* forgotten.
LEMMA OthersHands ==
  ASSUME HandsSound, NEW c \in Caller, blessed \subseteq blessed',
         \A d \in Caller \ {c} : asks'[d] = asks[d], HandSound(c)'
  PROVE  HandsSound'
<1>1. ASSUME NEW d \in Caller \ {c} PROVE HandSound(d)'
  BY <1>1 DEF HandsSound, HandSound, HoldsRow, Suffixed, OwnedBy
<1> QED BY <1>1 DEF HandsSound

\* Every request but a publish that reads: what it leaves in its hand.
LEMMA HandsAsked ==
  ASSUME RegistryInv, NEW c \in Caller,
         Ask(c) \/ AskSetting(c) \/ WriteConfig(c) \/ WriteProvider(c)
           \/ ReadRaises(c) \/ ReadForChange(c) \/ ReadAgain(c) \/ CheckCollision(c)
  PROVE  HandsSound'
<1> USE DEF RegistryInv
<1>1. \A d \in Caller \ {c} : asks'[d] = asks[d]
  BY DEF Ask, AskSetting, Request, WriteConfig, WriteProvider, ReadRaises,
         ReadForChange, ReadAgain, CheckCollision, StepTo, AnswerTo, RegistryTypeOK
<1>2. blessed' = blessed
  BY DEF Ask, AskSetting, WriteConfig, WriteProvider, ReadRaises, ReadForChange,
         ReadAgain, CheckCollision, Reads, registryHistory
<1>3. HandSound(c)'
  <2>1. CASE Ask(c)
    <3>1. asks'[c].step = "get"
      BY <2>1 DEF Ask, Request, RegistryTypeOK
    <3> QED BY <3>1 DEF HandSound, HoldsRow
  <2>2. CASE AskSetting(c)
    <3>1. asks'[c].op # "publish"
      BY <2>2 DEF AskSetting, Request, RegistryTypeOK
    <3> QED BY <3>1 DEF HandSound, HoldsRow
  <2>3. CASE asks[c] # Quiet /\ asks[c].op # "publish" /\ ~Ask(c) /\ ~AskSetting(c)
    <3>1. asks[c] \in Asking
      BY <2>3, AskedFor
    <3>2. asks'[c] = Quiet \/ asks'[c].op = asks[c].op
      BY <2>3, <3>1 DEF WriteConfig, WriteProvider, ReadRaises, ReadForChange,
         ReadAgain, CheckCollision, StepTo, AnswerTo, RegistryTypeOK, Asking
    <3> QED BY <2>3, <3>2 DEF HandSound, HoldsRow
  <2>4. CASE /\ asks[c] # Quiet /\ asks[c].op = "publish" /\ ~Ask(c) /\ ~AskSetting(c)
    <3>1. asks[c] \in Asking
      BY <2>4, AskedFor
    <3>2. HandSound(c)
      BY DEF HandsSound
    <3>3. ReadRaises(c) \/ CheckCollision(c)
      <4>1. asks[c].step \in {"get", "again", "check", "write"}
        BY <2>4, <3>2 DEF HandSound
      <4> QED BY <2>4, <4>1 DEF WriteConfig, WriteProvider, ReadForChange, ReadAgain
    <3>4. \/ asks'[c] = Quiet
          \/ CheckCollision(c) /\ asks'[c] = [asks[c] EXCEPT !.step = "write"]
      BY <3>3 DEF ReadRaises, CheckCollision, StepTo, AnswerTo, RegistryTypeOK
    <3>5. CASE asks'[c] = Quiet
      BY <3>5 DEF HandSound, HoldsRow
    <3>6. CASE CheckCollision(c) /\ asks'[c] = [asks[c] EXCEPT !.step = "write"]
      <4>1. HoldsRow(c)
        BY <2>4, <3>6 DEF HoldsRow, CheckCollision
      <4>2. /\ asks'[c].step = "write" /\ asks'[c].slug = asks[c].slug
            /\ asks'[c].seen = asks[c].seen /\ asks'[c].op = asks[c].op
        BY <3>6, <3>1 DEF Asking
      <4> QED BY <4>1, <4>2, <3>2, <1>2 DEF HandSound, HoldsRow, Suffixed, OwnedBy
    <3> QED BY <3>4, <3>5, <3>6
  <2>5. asks[c] = Quiet => Ask(c) \/ AskSetting(c)
    BY DEF WriteConfig, WriteProvider, ReadRaises, ReadForChange, ReadAgain,
           CheckCollision
  <2> QED BY <2>1, <2>2, <2>3, <2>4, <2>5
<1> QED BY <1>1, <1>2, <1>3, OthersHands

\* A publish that reads takes a row of its own, none, or one under the
\* suffixed slug.
LEMMA HandsRead ==
  ASSUME RegistryInv, NEW c \in Caller, ReadForPublish(c)
  PROVE  HandsSound'
<1> USE DEF RegistryInv
<1> DEFINE a == asks[c]
           e == Finds(c, a.slug)
<1>1. \A d \in Caller \ {c} : asks'[d] = asks[d]
  BY DEF ReadForPublish, RegistryTypeOK
<1>2. blessed' = blessed
  BY DEF ReadForPublish, Reads, registryHistory
<1>3. /\ a \in Asking /\ a.slug \in Slug
      /\ a.op = "publish" /\ a.step \in {"get", "again"}
  BY AskedFor DEF ReadForPublish
<1>4. e \in RowHere \cup {Projected} /\ (e \in Entry => e = entries[a.slug])
  BY <1>3, FindsRow
<1>5. HandSound(c)'
  <2>1. CASE Evades(c, e)
    <3>1. asks'[c] = [a EXCEPT !.step = "again", !.slug = SuffixedSlug[a.slug][c]]
      BY <2>1 DEF ReadForPublish, RegistryTypeOK
    <3>2. asks'[c].step = "again" /\ asks'[c].slug = SuffixedSlug[a.slug][c]
      BY <3>1, <1>3 DEF Asking
    <3>3. Suffixed(c)'
      BY <3>2, <1>3 DEF Suffixed
    <3>4. ~HoldsRow(c)'
      BY <3>2 DEF HoldsRow
    <3> QED BY <3>2, <3>3, <3>4 DEF HandSound
  <2>2. CASE ~Evades(c, e)
    <3>1. PICK step \in {"check", "write"} :
            asks'[c] = [a EXCEPT !.seen = e, !.step = step]
      BY <2>2 DEF ReadForPublish, RegistryTypeOK
    <3>2. /\ asks'[c].seen = e /\ asks'[c].slug = a.slug
          /\ asks'[c].step \in {"check", "write"}
      BY <3>1, <1>3 DEF Asking
    <3>3. e = Missing \/ OwnedBy(e, c) \/ Suffixed(c)
      <4>1. CASE a.step = "get"
        BY <4>1, <2>2 DEF Evades
      <4>2. CASE a.step = "again"
        BY <4>2, <1>3 DEF HandsSound, HandSound, ReadForPublish
      <4> QED BY <4>1, <4>2, <1>3
    <3>4. OwnedBy(e, c) /\ e.status = "approved" =>
            <<a.slug, e.owner, e.canvas>> \in blessed
      BY <1>3, <1>4 DEF OwnedBy, ApprovalHolds
    <3>5. Suffixed(c) => Suffixed(c)'
      BY <3>2 DEF Suffixed
    <3> QED BY <3>2, <3>3, <3>4, <3>5, <1>2 DEF HandSound, HoldsRow, OwnedBy
  <2> QED BY <2>1, <2>2
<1> QED BY <1>1, <1>2, <1>5, OthersHands

\* A write ends its request.
LEMMA HandsWritten ==
  ASSUME RegistryInv, NEW c \in Caller,
         Publish(c) \/ Edit(c) \/ GiveVerdict(c) \/ Delete(c) \/ CountUse(c)
  PROVE  HandsSound'
<1>1. (\A d \in Caller \ {c} : asks'[d] = asks[d]) /\ asks'[c] = Quiet
  BY DEF RegistryInv, RegistryTypeOK, Publish, Edit, GiveVerdict, Delete, CountUse,
         AnswerTo
<1>2. blessed \subseteq blessed'
  BY DEF Publish, Edit, GiveVerdict, Delete, CountUse, registryHistory
<1>3. HandSound(c)'
  BY <1>1 DEF HandSound, HoldsRow
<1> QED BY <1>1, <1>2, <1>3, OthersHands DEF RegistryInv

LEMMA HandsStep == RegistryInv /\ [RegistryNext]_registryVars => HandsSound'
<1> SUFFICES ASSUME RegistryInv, [RegistryNext]_registryVars PROVE HandsSound'
  OBVIOUS
<1>1. CASE UNCHANGED <<asks, blessed>>
  BY <1>1 DEF RegistryInv, HandsSound, HandSound, HoldsRow, Suffixed, OwnedBy
<1>2. CASE UNCHANGED registryVars \/ \E s \in Slug : FlipServer(s)
  BY <1>1, <1>2 DEF registryVars, registryHistory, FlipServer
<1>3. CASE RegistryNext /\ ~\E s \in Slug : FlipServer(s)
  BY <1>3, HandsAsked, HandsRead, HandsWritten DEF RegistryNext
<1> QED BY <1>2, <1>3

\* What the property says of one slug.
SlugApproved(s) ==
  entries[s] \in Entry /\ entries[s].status = "approved" =>
    /\ <<s, entries[s].owner, entries[s].canvas>> \in blessed
    /\ lastVerdict[s] = "approved" \/ s \in straddled

\* A write touches one slug, and forgets no approval.
LEMMA OtherSlugs ==
  ASSUME ApprovalHolds, NEW s \in Slug, delivered' = delivered,
         blessed \subseteq blessed', SlugApproved(s)',
         \A t \in Slug \ {s} : /\ entries'[t] = entries[t]
                               /\ lastVerdict'[t] = lastVerdict[t]
                               /\ t \in straddled => t \in straddled'
  PROVE  ApprovalHolds'
<1>1. ASSUME NEW t \in Slug \ {s} PROVE SlugApproved(t)'
  BY DEF ApprovalHolds, SlugApproved
<1>2. (delivered \subseteq blessed)'
  BY DEF ApprovalHolds
<1> QED BY <1>1, <1>2 DEF ApprovalHolds, SlugApproved

LEMMA ApprovalWritten ==
  ASSUME RegistryInv, NEW c \in Caller,
         Publish(c) \/ Edit(c) \/ GiveVerdict(c) \/ Delete(c) \/ CountUse(c)
  PROVE  ApprovalHolds'
<1> USE DEF RegistryInv
<1> DEFINE a == asks[c]
<1>0. a # Quiet /\ a \in Asking /\ a.slug \in Slug
  BY AskedFor DEF Publish, Edit, GiveVerdict, Delete, CountUse
<1> PICK s \in Slug : s = a.slug
  BY <1>0
<1>1. a # Quiet /\ a \in Asking /\ s = a.slug
  BY <1>0
<1>2. SlugApproved(s)
  BY <1>1 DEF ApprovalHolds, SlugApproved
<1>3. delivered' = delivered /\ blessed \subseteq blessed'
  BY DEF Publish, Edit, GiveVerdict, Delete, CountUse, registryHistory
<1>4. \A t \in Slug \ {s} : /\ lastVerdict'[t] = lastVerdict[t]
                            /\ t \in straddled => t \in straddled'
  BY <1>1 DEF Publish, Edit, GiveVerdict, Delete, CountUse, registryHistory,
              Straddle, RegistryTypeOK
<1>5. CASE Publish(c)
  <2> DEFINE new == [owner |-> c, canvas |-> a.canvas, visibility |-> a.visibility,
                     status |-> StatusOnPublish(c)]
  <2>1. entries'[s] = new /\ \A t \in Slug \ {s} : entries'[t] = entries[t]
    BY <1>1, <1>5 DEF Publish, RegistryTypeOK
  <2>2. blessed' = blessed
    BY <1>5 DEF Publish
  <2>3. ASSUME StatusOnPublish(c) = "approved" PROVE SlugApproved(s)'
    <3>1. /\ OwnedBy(a.seen, c) /\ a.seen.canvas = a.canvas
          /\ a.seen.status = "approved"
      BY <2>3 DEF StatusOnPublish
    <3>2. HoldsRow(c) /\ HandSound(c)
      BY <1>5, <1>1 DEF HandsSound, HoldsRow, Publish
    <3>3. <<s, c, a.canvas>> \in blessed
      BY <1>1, <3>1, <3>2 DEF HandSound, OwnedBy
    <3>4. lastVerdict'[s] = lastVerdict[s]
      BY <1>1, <1>5, <2>3 DEF Publish
    <3>5. s \in straddled' \/ lastVerdict[s] = "approved"
      <4>1. a.seen # Missing
        BY <3>1, NoEntries DEF OwnedBy
      <4>2. CASE Unlike(c) \/ s \in straddled
        BY <1>1, <4>1, <4>2, <1>5 DEF Publish, Straddle
      <4>3. CASE entries[s] = a.seen /\ s \notin straddled
        BY <4>3, <3>1, <1>2 DEF SlugApproved, OwnedBy
      <4> QED BY <1>1, <4>2, <4>3 DEF Unlike
    <3> QED BY <2>1, <2>2, <3>3, <3>4, <3>5 DEF SlugApproved
  <2>4. ASSUME StatusOnPublish(c) # "approved" PROVE SlugApproved(s)'
    BY <2>1, <2>4 DEF SlugApproved
  <2> QED BY <1>1, <1>3, <1>4, <2>1, <2>3, <2>4, OtherSlugs
<1>6. CASE Delete(c)
  <2>1. entries'[s] = Missing /\ \A t \in Slug \ {s} : entries'[t] = entries[t]
    BY <1>1, <1>6 DEF Delete, RegistryTypeOK
  <2>2. SlugApproved(s)'
    BY <2>1, NoEntries DEF SlugApproved
  <2> QED BY <1>1, <1>3, <1>4, <2>1, <2>2, OtherSlugs
<1>7. CASE Edit(c) \/ GiveVerdict(c) \/ CountUse(c)
  <2>1. \A t \in Slug \ {s} : entries'[t] = entries[t]
    BY <1>1, <1>7, EditedRow
  <2>2. CASE entries[s] \notin Entry
    <3>1. entries'[s] \notin Entry
      BY <1>1, <2>2, <1>7, EditedRow, NoEntries
    <3>2. SlugApproved(s)'
      BY <3>1 DEF SlugApproved
    <3> QED BY <1>1, <1>3, <1>4, <2>1, <3>2, OtherSlugs
  <2>3. CASE entries[s] \in Entry
    <3>1. /\ entries'[s].owner = entries[s].owner
          /\ entries'[s].canvas = entries[s].canvas
      BY <1>1, <2>3, <1>7, EditedRow
    <3>2. CASE Edit(c) \/ CountUse(c)
      <4>1. straddled' = straddled
        BY <3>2 DEF Edit, CountUse, registryHistory
      <4>2. entries'[s].status = "approved" =>
              /\ entries[s].status = "approved"
              /\ lastVerdict'[s] = lastVerdict[s]
        BY <1>1, <3>2, <2>3, EditedRow DEF Edit, CountUse, registryHistory
      <4>3. SlugApproved(s)'
        BY <1>2, <1>3, <2>3, <3>1, <4>1, <4>2 DEF SlugApproved
      <4> QED BY <1>1, <1>3, <1>4, <2>1, <4>3, OtherSlugs
    <3>3. CASE GiveVerdict(c)
      <4>1. ASSUME entries'[s].status = "approved"
            PROVE  a.op = "approve"
        BY <1>1, <4>1, <3>3, <2>3, EditedRow
      <4>2. a.op = "approve" =>
              /\ <<s, entries[s].owner, entries[s].canvas>> \in blessed'
              /\ lastVerdict'[s] = "approved"
        BY <3>3, <2>3, <1>1 DEF GiveVerdict, RegistryTypeOK
      <4>3. SlugApproved(s)'
        BY <3>1, <4>1, <4>2 DEF SlugApproved
      <4> QED BY <1>1, <1>3, <1>4, <2>1, <4>3, OtherSlugs
    <3> QED BY <1>7, <3>2, <3>3
  <2> QED BY <2>2, <2>3
<1> QED BY <1>5, <1>6, <1>7

\* A clone delivers an entry that counts as approved to those who may not see
\* others.
LEMMA ApprovalRead ==
  ASSUME RegistryInv, NEW c \in Caller, ReadForChange(c)
  PROVE  ApprovalHolds'
<1> USE DEF RegistryInv
<1> DEFINE a == asks[c]
           e == Finds(c, a.slug)
<1>1. a \in Asking /\ a.slug \in Slug
  BY AskedFor DEF ReadForChange
<1>2. UNCHANGED <<entries, blessed, lastVerdict, straddled>>
  BY DEF ReadForChange
<1>3. delivered' \subseteq blessed
  <2>1. CASE a.op = "clone" /\ e \in Entry /\ Allowed(c, e) /\ ~IsAdmin(c) /\ ~OwnedBy(e, c)
    <3>1. e.status = "approved" /\ e = entries[a.slug]
      BY <2>1, <1>1, FindsRow DEF Allowed
    <3>2. <<a.slug, e.owner, e.canvas>> \in blessed
      BY <3>1, <2>1, <1>1 DEF ApprovalHolds
    <3> QED BY <2>1, <3>2 DEF ReadForChange, ApprovalHolds
  <2>2. CASE ~(a.op = "clone" /\ e \in Entry /\ Allowed(c, e) /\ ~IsAdmin(c) /\ ~OwnedBy(e, c))
    BY <2>2 DEF ReadForChange, ApprovalHolds
  <2> QED BY <2>1, <2>2
<1> QED BY <1>2, <1>3 DEF ApprovalHolds

LEMMA ApprovalStep == RegistryInv /\ [RegistryNext]_registryVars => ApprovalHolds'
<1> SUFFICES ASSUME RegistryInv, [RegistryNext]_registryVars PROVE ApprovalHolds'
  OBVIOUS
<1>1. CASE UNCHANGED <<entries, registryHistory>>
  BY <1>1 DEF RegistryInv, ApprovalHolds, registryHistory
<1>2. CASE UNCHANGED registryVars \/ \E s \in Slug : FlipServer(s)
  BY <1>1, <1>2 DEF registryVars, registryHistory, FlipServer
<1>3. ASSUME NEW c \in Caller,
             Ask(c) \/ AskSetting(c) \/ WriteConfig(c) \/ WriteProvider(c)
               \/ ReadRaises(c) \/ ReadForPublish(c) \/ CheckCollision(c) \/ ReadAgain(c)
      PROVE  ApprovalHolds'
  BY <1>1, <1>3 DEF Ask, AskSetting, WriteConfig, WriteProvider, ReadRaises,
                    ReadForPublish, CheckCollision, ReadAgain, Reads
<1>4. CASE RegistryNext /\ ~\E s \in Slug : FlipServer(s)
  BY <1>3, <1>4, ApprovalRead, ApprovalWritten DEF RegistryNext
<1> QED BY <1>2, <1>4

LEMMA RegistryInvStep == RegistryInv /\ [RegistryNext]_registryVars => RegistryInv'
  BY RegistryTypeStep, HandsStep, ApprovalStep DEF RegistryInv

\* An entry that counts as approved has the owner and the canvas on which an
\* approval was written, and nothing else reaches those who may not see it,
\* whatever publishes, edits, verdicts and deletes overlap (ApprovalHolds).
THEOREM ApprovalKept == RegistrySpec => []ApprovalHolds
<1>1. RegistryInv => ApprovalHolds
  BY DEF RegistryInv
<1> QED BY <1>1, RegistryInvInit, RegistryInvStep, PTL DEF RegistrySpec

-----------------------------------------------------------------------------
(* Owners.                                                                 *)

\* The publish that may give a slug away.
GivenAway(s) ==
  \E c \in Caller :
    /\ asks[c] # Quiet /\ asks[c].op = "publish" /\ asks[c].slug = s
    /\ \/ asks[c].seen # entries[s]
       \/ \E t \in Slug : s = SuffixedSlug[t][c]

LEMMA OwnersStep ==
  ASSUME RegistryInv, [RegistryNext]_entries, NEW s \in Slug,
         entries[s] \in Entry, entries'[s] \in Entry,
         entries'[s].owner # entries[s].owner
  PROVE  GivenAway(s)
<1> USE DEF RegistryInv
<1>1. PICK c \in Caller : Publish(c) \/ Delete(c) \/ Edit(c) \/ GiveVerdict(c) \/ CountUse(c)
  BY DEF RegistryNext, FlipServer, Ask, AskSetting, WriteConfig, WriteProvider,
         ReadRaises, ReadForPublish, CheckCollision, ReadForChange, ReadAgain, Reads
<1> DEFINE a == asks[c]
<1>2. a # Quiet /\ a.slug \in Slug
  BY <1>1, AskedFor DEF Publish, Edit, GiveVerdict, Delete, CountUse
<1>3. CASE Publish(c)
  <2>1. a.slug = s /\ entries'[s].owner = c
    BY <1>2, <1>3 DEF Publish, RegistryTypeOK
  <2>2. HoldsRow(c) /\ HandSound(c)
    BY <1>2, <1>3 DEF Publish, HoldsRow, HandsSound
  <2>3. CASE a.seen = entries[s]
    <3>1. a.seen # Missing /\ ~OwnedBy(a.seen, c)
      BY <2>1, <2>3, NoEntries DEF OwnedBy
    <3>2. Suffixed(c)
      BY <2>2, <3>1 DEF HandSound
    <3> QED BY <1>2, <1>3, <2>1, <3>2 DEF GivenAway, Suffixed, Publish
  <2>4. CASE a.seen # entries[s]
    BY <1>2, <1>3, <2>1, <2>4 DEF GivenAway, Publish
  <2> QED BY <2>3, <2>4
<1>4. CASE Delete(c)
  BY <1>2, <1>4, NoEntries DEF Delete, RegistryTypeOK
<1>5. CASE Edit(c) \/ GiveVerdict(c) \/ CountUse(c)
  BY <1>2, <1>5, EditedRow
<1> QED BY <1>1, <1>3, <1>4, <1>5

\* An entry changes hands only through a publish that had read another row, or
\* one under the slug it evaded to (OwnersKept).
THEOREM OwnersStay == RegistrySpec => OwnersKept
<1>1. RegistryInv /\ [RegistryNext]_registryVars =>
        [\A s \in Slug :
           entries[s] \in Entry /\ entries'[s] \in Entry
             /\ entries'[s].owner # entries[s].owner =>
           \E c \in Caller :
             /\ asks[c] # Quiet /\ asks[c].op = "publish" /\ asks[c].slug = s
             /\ \/ asks[c].seen # entries[s]
                \/ \E t \in Slug : s = SuffixedSlug[t][c]]_entries
  BY OwnersStep DEF GivenAway, registryVars
<1> QED BY <1>1, RegistryInvInit, RegistryInvStep, PTL DEF RegistrySpec, OwnersKept
=============================================================================
