---------------------------- MODULE RegistryProofs ----------------------------
(***************************************************************************)
(* Theorems about Registry, for every number of requests, models,          *)
(* credentials and deployments: type correctness, that what a deployment   *)
(* refers to stays unless a reference is added in between, and that the    *)
(* snapshots follow the tables.                                            *)
(***************************************************************************)
EXTENDS Registry, TLAPS

-------------------------------------------------------------------------------
(* Tables *)

\* A table has rows of the right kind, under the right ids.
LEMMA TableRows ==
    ASSUME NEW S, NEW T, NEW f \in TableOf(S, T)
    PROVE  DOMAIN f \subseteq S /\ \A x \in DOMAIN f : f[x] \in T
BY DEF TableOf

\* A function with such rows is a table.
LEMMA IsTable ==
    ASSUME NEW S, NEW T, NEW D \in SUBSET S, NEW f \in [D -> T]
    PROVE  f \in TableOf(S, T)
BY DEF TableOf

\* Inserting or updating a row gives a table.
LEMMA WithTable ==
    ASSUME NEW S, NEW T, NEW f \in TableOf(S, T), NEW i \in S, NEW v \in T
    PROVE  With(f, i, v) \in TableOf(S, T)
<1>1. DOMAIN f \cup {i} \in SUBSET S
    BY TableRows
<1>2. With(f, i, v) \in [DOMAIN f \cup {i} -> T]
    BY TableRows DEF With
<1> QED
    BY <1>1, <1>2, IsTable

\* So does deleting one.
LEMMA WithoutTable ==
    ASSUME NEW S, NEW T, NEW f \in TableOf(S, T), NEW i
    PROVE  Without(f, i) \in TableOf(S, T)
<1>1. DOMAIN f \ {i} \in SUBSET S
    BY TableRows
<1>2. Without(f, i) \in [DOMAIN f \ {i} -> T]
    BY TableRows DEF Without
<1> QED
    BY <1>1, <1>2, IsTable

\* The empty table is one.
LEMMA NoRowsTable ==
    ASSUME NEW S, NEW T
    PROVE  NoRows \in TableOf(S, T)
<1>1. NoRows \in [{} -> T]
    BY DEF NoRows
<1> QED
    BY <1>1, IsTable

\* What a reload makes of credentials and deployments is a snapshot.
LEMMA RoutesTable ==
    ASSUME NEW cs \in TableOf(Credentials, Secrets),
           NEW ds \in TableOf(Deployments, DeploymentRow)
    PROVE  Routes(cs, ds) \in TableOf(Deployments, Route)
<1> DEFINE D == {e \in DOMAIN ds : ds[e].cred \in DOMAIN cs}
<1>1. D \in SUBSET Deployments
    BY TableRows
<1>2. ASSUME NEW d \in D
      PROVE  [model |-> ds[d].model, secret |-> cs[ds[d].cred]] \in Route
    <2>1. ds[d] \in DeploymentRow
        BY TableRows
    <2>2. cs[ds[d].cred] \in Secrets
        BY TableRows
    <2> QED
        BY <2>1, <2>2 DEF DeploymentRow, Route
<1>3. Routes(cs, ds) \in [D -> Route]
    BY <1>2 DEF Routes
<1> QED
    BY <1>1, <1>3, IsTable

\* The fields of a request, by operation.
LEMMA RequestFields ==
    ASSUME NEW r \in Request \cup {ReloadOf(k) : k \in Kinds} \cup {Nothing}
    PROVE  /\ r.op \in {"create_model", "update_model"} =>
                 r.model \in Names /\ r.alias \in Targets \cup {None}
           /\ r.op \in {"create_credential", "update_credential"} =>
                 r.cred \in Credentials /\ r.secret \in Secrets
           /\ r.op = "create_deployment" =>
                 r.dep \in Deployments /\ r.model \in Names /\ r.cred \in Credentials
           /\ r.op = "update_deployment" =>
                 r.dep \in Deployments /\ r.cred \in Credentials \cup {None, Unset}
           /\ KindOf(r) \in Kinds
BY DEF Request, ReloadOf, Kinds, Nothing, KindOf, ModelOps

-------------------------------------------------------------------------------
(* Type correctness *)

\* What a reload has read is of the kind it is going to store.
ReadTyped ==
    \A a \in Admins :
        /\ pc[a] = "reading" =>
              KindOf(req[a]) = "deployments" /\ got[a] \in TableOf(Credentials, Secrets)
        /\ pc[a] = "store" =>
              got[a] \in IF KindOf(req[a]) = "models" THEN TableOf(Names, Targets \cup {None})
                                                     ELSE TableOf(Deployments, Route)

TypeInv == TypeOK /\ ReadTyped

LEMMA InitTypeInv == Init => TypeInv
<1> SUFFICES ASSUME Init PROVE TypeInv
  OBVIOUS
<1>1. /\ [model : Names, cred : {None}] \subseteq DeploymentRow
      /\ deps \in TableOf(Deployments, [model : Names, cred : {None}])
  BY DEF DeploymentRow, Init
<1>2. deps \in TableOf(Deployments, DeploymentRow)
  <2>1. DOMAIN deps \in SUBSET Deployments /\ deps \in [DOMAIN deps -> DeploymentRow]
    BY <1>1 DEF TableOf
  <2> QED
    BY <2>1, IsTable
<1>3. models \in TableOf(Names, Targets \cup {None})
  <2> DEFINE N == {deps[d].model : d \in DOMAIN deps}
  <2>1. \A d \in DOMAIN deps : deps[d].model \in Names
    <3>1. \A d \in DOMAIN deps : deps[d] \in DeploymentRow
      BY <1>2 DEF TableOf
    <3> QED
      BY <3>1 DEF DeploymentRow
  <2>2. N \in SUBSET Names /\ models \in [N -> Targets \cup {None}]
    BY <2>1 DEF Init
  <2> QED
    BY <2>2, IsTable
<1> QED
  BY <1>2, <1>3, NoRowsTable DEF Init, TypeInv, TypeOK, ReadTyped

\* The steps of one request touch its own entries only.
LEMMA OverTyped ==
    ASSUME TypeInv, NEW a \in Admins, Over(a)
    PROVE  /\ pc' \in [Admins -> {"idle", "check", "commit", "refresh", "reload", "reading", "store"}]
           /\ req' \in [Admins -> Request \cup {ReloadOf(k) : k \in Kinds} \cup {Nothing}]
           /\ got' \in [Admins -> TableOf(Names, Targets \cup {None}) \cup
                           TableOf(Credentials, Secrets) \cup TableOf(Deployments, Route)]
           /\ ReadTyped'
<1>1. NoRows \in TableOf(Credentials, Secrets)
  BY NoRowsTable
<1> QED
  BY <1>1 DEF Over, TypeInv, TypeOK, ReadTyped

LEMMA ThenRefreshTyped ==
    ASSUME TypeInv, NEW a \in Admins, ThenRefresh(a)
    PROVE  /\ pc' \in [Admins -> {"idle", "check", "commit", "refresh", "reload", "reading", "store"}]
           /\ ReadTyped'
BY DEF ThenRefresh, TypeInv, TypeOK, ReadTyped

LEMMA ThenReloadTyped ==
    ASSUME TypeInv, NEW a \in Admins, ThenReload(a)
    PROVE  /\ pc' \in [Admins -> {"idle", "check", "commit", "refresh", "reload", "reading", "store"}]
           /\ req' \in [Admins -> Request \cup {ReloadOf(k) : k \in Kinds} \cup {Nothing}]
           /\ ReadTyped'
<1>1. KindOf(req[a]) \in Kinds
  BY RequestFields DEF TypeInv, TypeOK
<1> QED
  BY <1>1 DEF ThenReload, TypeInv, TypeOK, ReadTyped

\* Every commit leaves tables, and requests, of the right kind.
LEMMA CommitTyped ==
    ASSUME TypeInv, NEW a \in Admins, Commit(a)
    PROVE  TypeInv'
<1> USE DEF TypeInv, TypeOK
<1>1. req[a] \in Request \cup {ReloadOf(k) : k \in Kinds} \cup {Nothing}
  OBVIOUS
<1>2. CASE create_model_config(a)
  <2>1. models' \in TableOf(Names, Targets \cup {None})
    BY <1>1, <1>2, RequestFields, WithTable DEF create_model_config, Committing
  <2>2. ThenRefresh(a)
    BY <1>2 DEF create_model_config
  <2> QED
    BY <1>2, <2>1, <2>2, ThenRefreshTyped DEF create_model_config, ThenRefresh, history, snapshots
<1>3. CASE update_model_config(a)
  <2>1. models' \in TableOf(Names, Targets \cup {None})
    BY <1>1, <1>3, RequestFields, WithTable DEF update_model_config, Committing
  <2>2. ThenRefresh(a)
    BY <1>3 DEF update_model_config
  <2> QED
    BY <1>3, <2>1, <2>2, ThenRefreshTyped DEF update_model_config, ThenRefresh, history, snapshots
<1>4. CASE delete_model_config(a)
  <2>1. models' \in TableOf(Names, Targets \cup {None})
    BY <1>4, WithoutTable DEF delete_model_config
  <2>2. ThenReload(a)
    BY <1>4 DEF delete_model_config
  <2> QED
    BY <1>4, <2>1, <2>2, ThenReloadTyped DEF delete_model_config, ThenReload, history, snapshots
<1>5. CASE create_credential(a)
  <2>1. creds' \in TableOf(Credentials, Secrets)
    BY <1>1, <1>5, RequestFields, WithTable DEF create_credential, Committing
  <2>2. Over(a)
    BY <1>5 DEF create_credential
  <2> QED
    BY <1>5, <2>1, <2>2, OverTyped DEF create_credential, history, snapshots
<1>6. CASE update_credential(a)
  <2>1. creds' \in TableOf(Credentials, Secrets)
    BY <1>1, <1>6, RequestFields, WithTable DEF update_credential, Committing
  <2>2. ThenRefresh(a)
    BY <1>6 DEF update_credential
  <2> QED
    BY <1>6, <2>1, <2>2, ThenRefreshTyped DEF update_credential, ThenRefresh, history, snapshots
<1>7. CASE delete_credential(a)
  <2>1. creds' \in TableOf(Credentials, Secrets)
    BY <1>7, WithoutTable DEF delete_credential
  <2>2. Over(a)
    BY <1>7 DEF delete_credential
  <2> QED
    BY <1>7, <2>1, <2>2, OverTyped DEF delete_credential, history, snapshots
<1>8. CASE create_deployment(a)
  <2>1. deps' \in TableOf(Deployments, DeploymentRow)
    <3>1. req[a].dep \in Deployments /\ [model |-> req[a].model, cred |-> req[a].cred] \in DeploymentRow
      BY <1>1, <1>8, RequestFields DEF create_deployment, Committing, DeploymentRow
    <3> QED
      BY <1>8, <3>1, WithTable DEF create_deployment
  <2>2. ThenRefresh(a)
    BY <1>8 DEF create_deployment
  <2> QED
    BY <1>8, <2>1, <2>2, ThenRefreshTyped DEF create_deployment, ThenRefresh, history, snapshots
<1>9. CASE update_deployment(a)
  <2>1. deps' \in TableOf(Deployments, DeploymentRow)
    <3>1. CASE req[a].cred = Unset
      BY <1>9, <3>1 DEF update_deployment
    <3>2. CASE req[a].cred # Unset
      <4>1. req[a].dep \in Deployments /\ req[a].cred \in Credentials \cup {None}
        BY <1>1, <1>9, <3>2, RequestFields DEF update_deployment, Committing
      <4>2. deps[req[a].dep] \in DeploymentRow
        BY <1>9, TableRows DEF update_deployment
      <4>3. [model |-> deps[req[a].dep].model, cred |-> req[a].cred] \in DeploymentRow
        BY <4>1, <4>2 DEF DeploymentRow
      <4> QED
        BY <1>9, <3>2, <4>1, <4>3, WithTable DEF update_deployment
    <3> QED
      BY <3>1, <3>2
  <2>2. ThenRefresh(a)
    BY <1>9 DEF update_deployment
  <2> QED
    BY <1>9, <2>1, <2>2, ThenRefreshTyped DEF update_deployment, ThenRefresh, history, snapshots
<1>10. CASE delete_deployment(a)
  <2>1. deps' \in TableOf(Deployments, DeploymentRow)
    BY <1>10, WithoutTable DEF delete_deployment
  <2>2. ThenReload(a)
    BY <1>10 DEF delete_deployment
  <2> QED
    BY <1>10, <2>1, <2>2, ThenReloadTyped DEF delete_deployment, ThenReload, history, snapshots
<1> QED
  BY <1>2, <1>3, <1>4, <1>5, <1>6, <1>7, <1>8, <1>9, <1>10 DEF Commit

LEMMA NextTypeInv == TypeInv /\ [Next]_vars => TypeInv'
<1> SUFFICES ASSUME TypeInv, [Next]_vars PROVE TypeInv'
  OBVIOUS
<1> USE DEF TypeInv, TypeOK
<1>1. ASSUME NEW a \in Admins, NEW r \in Request, Begin(a, r)
      PROVE  TypeInv'
  <2>1. raced' \subseteq Request
    <3>1. \A q \in Others(a) : \A p : Conflicts(p, q) => q \in Request
      BY DEF Others, Conflicts, ReloadOf, Nothing
    <3> QED
      BY <1>1, <3>1 DEF Begin
  <2> QED
    BY <1>1, <2>1 DEF Begin, tables, snapshots, ReadTyped
<1>2. ASSUME NEW a \in Admins, Check(a)
      PROVE  TypeInv'
  BY <1>2 DEF Check, tables, snapshots, history, ReadTyped
<1>3. ASSUME NEW a \in Admins, Refused(a)
      PROVE  TypeInv'
  BY <1>3, OverTyped DEF Refused, tables, snapshots, history
<1>4. ASSUME NEW a \in Admins, Commit(a)
      PROVE  TypeInv'
  BY <1>4, CommitTyped
<1>5. ASSUME NEW a \in Admins, Refresh(a)
      PROVE  TypeInv'
  BY <1>5, ThenReloadTyped DEF Refresh, ThenReload, tables, snapshots, history
<1>6. ASSUME NEW a \in Admins, Forgotten(a, covers) = covers'
      PROVE  covers' \in [Admins -> SUBSET Admins]
  BY <1>6 DEF Forgotten
<1>7. ASSUME NEW a \in Admins, RefreshRaises(a)
      PROVE  TypeInv'
  BY <1>6, <1>7, OverTyped DEF RefreshRaises, tables, snapshots
<1>8. ASSUME NEW a \in Admins, Starts(a)
      PROVE  /\ covers' \in [Admins -> SUBSET Admins]
             /\ passed' \subseteq Admins
             /\ excused' = excused /\ raced' = raced
  BY <1>8 DEF Starts, Owing
<1>9. ASSUME NEW a \in Admins, ReadModels(a)
      PROVE  TypeInv'
  BY <1>8, <1>9 DEF ReadModels, tables, snapshots, ReadTyped
<1>10. ASSUME NEW a \in Admins, ReadCredentials(a)
       PROVE  TypeInv'
  BY <1>8, <1>10 DEF ReadCredentials, tables, snapshots, ReadTyped
<1>11. ASSUME NEW a \in Admins, ReadDeployments(a)
       PROVE  TypeInv'
  <2>1. Routes(got[a], deps) \in TableOf(Deployments, Route)
    BY <1>11, RoutesTable DEF ReadDeployments, ReadTyped
  <2>2. KindOf(req[a]) = "deployments"
    BY <1>11 DEF ReadDeployments, ReadTyped
  <2> QED
    BY <1>11, <2>1, <2>2 DEF ReadDeployments, tables, snapshots, history, ReadTyped
<1>12. ASSUME NEW a \in Admins, Store(a)
       PROVE  TypeInv'
  <2>1. modelSnap' \in TableOf(Names, Targets \cup {None})
    BY <1>12 DEF Store, ReadTyped
  <2>2. depSnap' \in TableOf(Deployments, Route)
    BY <1>12 DEF Store, ReadTyped
  <2>3. excused' \in [Kinds -> BOOLEAN]
    <3>1. (a \in passed) \in BOOLEAN
      OBVIOUS
    <3> HIDE DEF TypeInv
    <3>2. excused \in [Kinds -> BOOLEAN]
      BY DEF TypeInv
    <3> QED
      BY <1>12, <3>1, <3>2, Zenon DEF Store
  <2>4. passed' \subseteq Admins /\ covers' \in [Admins -> SUBSET Admins]
    BY <1>6, <1>12 DEF Store
  <2> QED
    BY <1>12, <2>1, <2>2, <2>3, <2>4, OverTyped DEF Store, tables
<1>13. ASSUME NEW a \in Admins, ReloadFails(a)
       PROVE  TypeInv'
  <2>1. excused' \in [Kinds -> BOOLEAN]
    BY <1>13 DEF ReloadFails
  <2>2. passed' \subseteq Admins /\ covers' \in [Admins -> SUBSET Admins]
    BY <1>6, <1>13 DEF ReloadFails, Owing
  <2> QED
    BY <1>13, <2>1, <2>2, OverTyped DEF ReloadFails, tables, snapshots
<1>14. CASE UNCHANGED vars
  BY <1>14 DEF vars, tables, snapshots, history, ReadTyped
<1> QED
  BY <1>1, <1>2, <1>3, <1>4, <1>5, <1>7, <1>9, <1>10, <1>11, <1>12, <1>13, <1>14 DEF Next

\* The tables, the snapshots and the requests of app/api/admin.py stay within
\* their types, whatever is created, changed or deleted meanwhile.
THEOREM TypeCorrect == Spec => []TypeOK
<1>1. TypeInv => TypeOK
  BY DEF TypeInv
<1> QED
  BY <1>1, InitTypeInv, NextTypeInv, PTL DEF Spec

-------------------------------------------------------------------------------
(* References *)

\* A reference to m or c was added while it was being deleted.
ModelRaced(m) == [op |-> "delete_model", model |-> m] \in raced
CredentialRaced(c) == [op |-> "delete_credential", cred |-> c] \in raced

\* When a pending request adds a reference to what another one is to delete, the
\* deletion is known to be raced.
Apart ==
    \A a, b \in Admins : a # b /\ Pending(a) /\ Pending(b) /\ Conflicts(req[a], req[b])
                             => req[b] \in raced

\* What a pending request has checked is still so.
StillAllowed ==
    \A a \in Admins :
        /\ req[a].op = "create_deployment" /\ Pending(a)
              => req[a].model \in DOMAIN models \/ ModelRaced(req[a].model)
        /\ req[a].op = "create_deployment" /\ pc[a] = "commit"
              => req[a].cred \in DOMAIN creds \/ CredentialRaced(req[a].cred)
        /\ req[a].op = "update_deployment" /\ pc[a] = "commit" /\ req[a].cred \in Credentials
              => req[a].cred \in DOMAIN creds \/ CredentialRaced(req[a].cred)
        /\ req[a].op = "delete_model" /\ pc[a] = "commit"
              => (\A d \in DOMAIN deps : deps[d].model # req[a].model) \/ ModelRaced(req[a].model)
        /\ req[a].op = "delete_credential" /\ pc[a] = "commit"
              => (\A d \in DOMAIN deps : deps[d].cred # req[a].cred) \/ CredentialRaced(req[a].cred)

RefInv == ReferencesHold /\ Apart /\ StillAllowed

LEMMA InitRefInv == Init => RefInv
<1> SUFFICES ASSUME Init PROVE RefInv
  OBVIOUS
<1>1. ASSUME NEW d \in DOMAIN deps
      PROVE  deps[d].model \in DOMAIN models /\ deps[d].cred = None /\ Upgraded
  <2>1. deps[d] \in [model : Names, cred : {None}]
    <3>1. deps \in TableOf(Deployments, [model : Names, cred : {None}])
      BY DEF Init
    <3> QED
      BY <3>1 DEF TableOf
  <2>2. deps # NoRows
    BY DEF NoRows
  <2> QED
    BY <2>1, <2>2 DEF Init
<1>2. ReferencesHold
  BY <1>1 DEF ReferencesHold
<1>3. Apart /\ StillAllowed
  BY DEF Init, Apart, StillAllowed, Pending
<1> QED
  BY <1>2, <1>3 DEF RefInv

\* A deletion is known by its target.
LEMMA Deletions ==
    ASSUME TypeInv, NEW a \in Admins
    PROVE  /\ req[a].op = "delete_model" => (req[a] \in raced <=> ModelRaced(req[a].model))
           /\ req[a].op = "delete_credential" => (req[a] \in raced <=> CredentialRaced(req[a].cred))
<1>1. req[a] \in Request \cup {ReloadOf(k) : k \in Kinds} \cup {Nothing}
  BY DEF TypeInv, TypeOK
<1>2. req[a].op = "delete_model" => req[a] = [op |-> "delete_model", model |-> req[a].model]
  BY <1>1 DEF Request, ReloadOf, Nothing
<1>3. req[a].op = "delete_credential" => req[a] = [op |-> "delete_credential", cred |-> req[a].cred]
  BY <1>1 DEF Request, ReloadOf, Nothing
<1> QED
  BY <1>2, <1>3 DEF ModelRaced, CredentialRaced

\* A step that leaves the tables alone and makes no request pending.
LEMMA NoNewPending ==
    ASSUME ReferencesHold, Apart, StillAllowed, UNCHANGED <<tables, raced>>,
           \A b \in Admins : Pending(b)' => pc'[b] = pc[b] /\ req'[b] = req[b]
    PROVE  ReferencesHold' /\ Apart' /\ StillAllowed'
<1>1. models' = models /\ creds' = creds /\ deps' = deps /\ raced' = raced
  BY DEF tables
<1>2. ReferencesHold'
  BY <1>1 DEF ReferencesHold
<1>3. Apart'
  BY <1>1 DEF Apart, Pending, Conflicts
<1>4. StillAllowed'
  BY <1>1 DEF StillAllowed, Pending, ModelRaced, CredentialRaced
<1> QED
  BY <1>2, <1>3, <1>4

\* A commit: the request is pending no more, the others go on.
LEMMA Committed ==
    ASSUME TypeInv, NEW a \in Admins, Commit(a), Apart
    PROVE  /\ pc[a] = "commit"
           /\ ~Pending(a)'
           /\ \A b \in Admins \ {a} : pc'[b] = pc[b] /\ req'[b] = req[b]
           /\ Apart' /\ raced' = raced
<1>1. pc' \in [Admins -> {"idle", "check", "commit", "refresh", "reload", "reading", "store"}]
  BY CommitTyped DEF TypeInv, TypeOK
<1>2. /\ pc[a] = "commit"
      /\ ~Pending(a)'
      /\ \A b \in Admins \ {a} : pc'[b] = pc[b] /\ req'[b] = req[b]
  BY DEF Commit, create_model_config, update_model_config, delete_model_config,
         create_credential, update_credential, delete_credential,
         create_deployment, update_deployment, delete_deployment,
         Committing, ThenRefresh, ThenReload, Over, Pending, TypeInv, TypeOK
<1>3. raced' = raced
  BY DEF Commit, create_model_config, update_model_config, delete_model_config,
         create_credential, update_credential, delete_credential,
         create_deployment, update_deployment, delete_deployment, history
<1>4. Apart'
  BY <1>2, <1>3 DEF Apart, Pending, Conflicts
<1> QED
  BY <1>2, <1>3, <1>4

\* A commit keeps every reference, and what the other requests have checked.
LEMMA CommitKeepsReferences ==
    ASSUME TypeInv, ReferencesHold, Apart, StillAllowed, NEW a \in Admins, Commit(a)
    PROVE  ReferencesHold' /\ StillAllowed'
<1>1. /\ pc[a] = "commit"
      /\ ~Pending(a)'
      /\ \A b \in Admins \ {a} : pc'[b] = pc[b] /\ req'[b] = req[b]
      /\ raced' = raced
  BY Committed
<1>2. ASSUME NEW b \in Admins, Pending(b)'
      PROVE  /\ b # a /\ pc'[b] = pc[b] /\ req'[b] = req[b] /\ Pending(b)
             /\ Conflicts(req[a], req[b]) => req[b] \in raced
             /\ Conflicts(req[b], req[a]) => req[a] \in raced
  BY <1>1, <1>2 DEF Pending, Apart
<1>11. ASSUME NEW b \in Admins, Pending(b)'
       PROVE  /\ req[a].op = "delete_model" /\ req[b].op = "create_deployment"
                  /\ req[b].model = req[a].model => ModelRaced(req[a].model)
              /\ req[a].op = "delete_credential"
                  /\ req[b].op \in {"create_deployment", "update_deployment"}
                  /\ req[b].cred = req[a].cred => CredentialRaced(req[a].cred)
              /\ req[a].op = "create_deployment" /\ req[b].op = "delete_model"
                  /\ req[b].model = req[a].model => ModelRaced(req[b].model)
              /\ req[a].op \in {"create_deployment", "update_deployment"}
                  /\ req[b].op = "delete_credential"
                  /\ req[b].cred = req[a].cred => CredentialRaced(req[b].cred)
  BY <1>2, <1>11, Deletions DEF Conflicts
<1>3. ASSUME deps' = deps, DOMAIN models \subseteq DOMAIN models', DOMAIN creds \subseteq DOMAIN creds'
      PROVE  ReferencesHold' /\ StillAllowed'
  <2>1. ReferencesHold'
    BY <1>1, <1>3 DEF ReferencesHold
  <2>2. StillAllowed'
    BY <1>1, <1>2, <1>3 DEF StillAllowed, Pending, ModelRaced, CredentialRaced
  <2> QED
    BY <2>1, <2>2
<1>4. CASE create_model_config(a) \/ update_model_config(a)
  BY <1>3, <1>4 DEF create_model_config, update_model_config, With
<1>5. CASE create_credential(a) \/ update_credential(a)
  BY <1>3, <1>5 DEF create_credential, update_credential, With
<1>6. CASE delete_model_config(a)
  <2>1. DOMAIN models' = DOMAIN models \ {req[a].model} /\ creds' = creds /\ deps' = deps
    BY <1>6 DEF delete_model_config, Without
  <2>2. req[a].op = "delete_model"
    BY <1>6 DEF delete_model_config, Committing
  <2>3. ReferencesHold'
    BY <1>1, <2>1, <2>2 DEF ReferencesHold, StillAllowed, ModelRaced, CredentialRaced
  <2>4. StillAllowed'
    BY <1>1, <1>2, <1>11, <2>1, <2>2 DEF StillAllowed, Pending, ModelRaced, CredentialRaced
  <2> QED
    BY <2>3, <2>4
<1>7. CASE delete_credential(a)
  <2>1. DOMAIN creds' = DOMAIN creds \ {req[a].cred} /\ models' = models /\ deps' = deps
    BY <1>7 DEF delete_credential, Without
  <2>2. req[a].op = "delete_credential"
    BY <1>7 DEF delete_credential, Committing
  <2>3. ReferencesHold'
    BY <1>1, <2>1, <2>2 DEF ReferencesHold, StillAllowed, ModelRaced, CredentialRaced
  <2>4. StillAllowed'
    BY <1>1, <1>2, <1>11, <2>1, <2>2 DEF StillAllowed, Pending, ModelRaced, CredentialRaced
  <2> QED
    BY <2>3, <2>4
<1>8. CASE delete_deployment(a)
  <2>1. deps' = Without(deps, req[a].dep) /\ models' = models /\ creds' = creds
    BY <1>8 DEF delete_deployment
  <2>2. DOMAIN deps' \subseteq DOMAIN deps /\ \A d \in DOMAIN deps' : deps'[d] = deps[d]
    BY <2>1 DEF Without
  <2>3. ReferencesHold'
    BY <1>1, <2>1, <2>2 DEF ReferencesHold
  <2>4. StillAllowed'
    BY <1>1, <1>2, <2>1, <2>2 DEF StillAllowed, Pending, ModelRaced, CredentialRaced
  <2> QED
    BY <2>3, <2>4
<1>9. CASE create_deployment(a)
  <2> DEFINE m == req[a].model
             c == req[a].cred
  <2>1. /\ DOMAIN deps' = DOMAIN deps \cup {req[a].dep}
        /\ deps'[req[a].dep] = [model |-> m, cred |-> c]
        /\ \A d \in DOMAIN deps \ {req[a].dep} : deps'[d] = deps[d]
        /\ models' = models /\ creds' = creds
    BY <1>9 DEF create_deployment, With
  <2>2. req[a].op = "create_deployment"
    BY <1>9 DEF create_deployment, Committing
  <2>3. /\ m \in DOMAIN models \/ ModelRaced(m)
        /\ c \in DOMAIN creds \/ CredentialRaced(c)
    BY <1>1, <2>2 DEF StillAllowed, Pending
  <2>4. ReferencesHold'
    BY <1>1, <2>1, <2>3 DEF ReferencesHold, ModelRaced, CredentialRaced
  <2>5. StillAllowed'
    BY <1>1, <1>2, <1>11, <2>1, <2>2 DEF StillAllowed, Pending, ModelRaced, CredentialRaced
  <2> QED
    BY <2>4, <2>5
<1>10. CASE update_deployment(a)
  <2>1. req[a].op = "update_deployment"
    BY <1>10 DEF update_deployment, Committing
  <2>2. CASE req[a].cred = Unset
    BY <1>3, <1>10, <2>2 DEF update_deployment
  <2>3. CASE req[a].cred # Unset
    <3> DEFINE d0 == req[a].dep
               c == req[a].cred
    <3>1. d0 \in DOMAIN deps /\ (c \in Credentials \/ (c = None /\ Upgraded))
      <4>1. req[a] \in Request \cup {ReloadOf(k) : k \in Kinds} \cup {Nothing}
        BY DEF TypeInv, TypeOK
      <4> QED
        BY <1>10, <2>1, <2>3, <4>1, RequestFields DEF update_deployment
    <3>2. c \in DOMAIN creds \/ CredentialRaced(c) \/ (c = None /\ Upgraded)
      BY <1>1, <2>1, <3>1 DEF StillAllowed
    <3>3. /\ DOMAIN deps' = DOMAIN deps
          /\ deps'[d0] = [model |-> deps[d0].model, cred |-> c]
          /\ \A d \in DOMAIN deps \ {d0} : deps'[d] = deps[d]
          /\ models' = models /\ creds' = creds
      BY <1>10, <2>3, <3>1 DEF update_deployment, With
    <3>4. ReferencesHold'
      <4>1. ASSUME NEW d \in DOMAIN deps', d # d0
            PROVE  d \in DOMAIN deps /\ deps'[d] = deps[d]
        BY <3>3, <4>1
      <4>2. deps'[d0].model = deps[d0].model /\ deps'[d0].cred = c
        BY <3>3
      <4> HIDE DEF c, d0
      <4> QED
        BY <1>1, <3>1, <3>2, <3>3, <4>1, <4>2 DEF ReferencesHold, CredentialRaced
    <3>5. StillAllowed'
      BY <1>1, <1>2, <1>11, <2>1, <3>3 DEF StillAllowed, Pending, ModelRaced, CredentialRaced
    <3> QED
      BY <3>4, <3>5
  <2> QED
    BY <2>2, <2>3
<1> QED
  BY <1>4, <1>5, <1>6, <1>7, <1>8, <1>9, <1>10 DEF Commit

\* A request starts: what it found is there, and it is apart from the others
\* unless a race is recorded.
LEMMA BeginKeepsReferences ==
    ASSUME TypeInv, ReferencesHold, Apart, StillAllowed,
           NEW a \in Admins, NEW r \in Request, Begin(a, r)
    PROVE  ReferencesHold' /\ Apart' /\ StillAllowed'
<1>1. models' = models /\ creds' = creds /\ deps' = deps
  BY DEF Begin, tables
<1>2. /\ req'[a] = r /\ pc'[a] = (IF ChecksMore(r) THEN "check" ELSE "commit")
      /\ \A b \in Admins \ {a} : pc'[b] = pc[b] /\ req'[b] = req[b]
  BY DEF Begin, TypeInv, TypeOK
<1>3. /\ raced \subseteq raced'
      /\ \A b \in Admins \ {a} : Pending(b) /\ Conflicts(r, req[b]) => req[b] \in raced'
      /\ \A b \in Admins \ {a} : Pending(b) /\ Conflicts(req[b], r) => r \in raced'
  BY DEF Begin, Others
<1>4. ReferencesHold'
  BY <1>1, <1>3 DEF ReferencesHold
<1>5. Apart'
  <2> SUFFICES ASSUME NEW b \in Admins, NEW c \in Admins, b # c, Pending(b)', Pending(c)',
                      Conflicts(req'[b], req'[c])
               PROVE  req'[c] \in raced'
    BY DEF Apart, Conflicts
  <2>1. CASE b = a
    <3>1. c \in Admins \ {a} /\ Pending(c) /\ req'[c] = req[c] /\ Conflicts(r, req[c])
      BY <1>2, <2>1 DEF Pending
    <3> QED
      BY <1>3, <3>1
  <2>2. CASE c = a
    <3>1. b \in Admins \ {a} /\ Pending(b) /\ req'[c] = r /\ Conflicts(req[b], r)
      BY <1>2, <2>2 DEF Pending
    <3> QED
      BY <1>3, <3>1
  <2>3. CASE b # a /\ c # a
    BY <1>2, <1>3, <2>3 DEF Apart, Pending
  <2> QED
    BY <2>1, <2>2, <2>3
<1>6. Found(r)
  BY DEF Begin
<1>7. StillAllowed'
  BY <1>1, <1>2, <1>3, <1>6 DEF StillAllowed, Pending, Found, ChecksMore, ModelRaced, CredentialRaced
<1> QED
  BY <1>4, <1>5, <1>7

LEMMA NextRefInv == TypeInv /\ RefInv /\ [Next]_vars => RefInv'
<1> SUFFICES ASSUME TypeInv, RefInv, [Next]_vars
             PROVE  ReferencesHold' /\ Apart' /\ StillAllowed'
  BY DEF RefInv
<1>2. ReferencesHold /\ Apart /\ StillAllowed
  BY DEF RefInv
<1>3. ASSUME NEW a \in Admins, NEW r \in Request, Begin(a, r)
      PROVE  ReferencesHold' /\ Apart' /\ StillAllowed'
  BY <1>2, <1>3, BeginKeepsReferences
<1>4. ASSUME NEW a \in Admins, Check(a)
      PROVE  ReferencesHold' /\ Apart' /\ StillAllowed'
  <2>1. models' = models /\ creds' = creds /\ deps' = deps /\ raced' = raced
    BY <1>4 DEF Check, tables, history
  <2>2. /\ pc[a] = "check" /\ pc'[a] = "commit" /\ req' = req /\ Allowed(req[a])
        /\ \A b \in Admins \ {a} : pc'[b] = pc[b]
    BY <1>4 DEF Check, TypeInv, TypeOK
  <2>3. ReferencesHold'
    BY <1>2, <2>1 DEF ReferencesHold
  <2>4. Apart'
    BY <1>2, <2>1, <2>2 DEF Apart, Pending, Conflicts
  <2>5. StillAllowed'
    BY <1>2, <2>1, <2>2 DEF StillAllowed, Pending, Allowed, ModelRaced, CredentialRaced
  <2> QED
    BY <2>3, <2>4, <2>5
<1>5. ASSUME NEW a \in Admins, Commit(a)
      PROVE  ReferencesHold' /\ Apart' /\ StillAllowed'
  BY <1>2, <1>5, Committed, CommitKeepsReferences
<1>6. ASSUME NEW a \in Admins,
             Refused(a) \/ Refresh(a) \/ RefreshRaises(a) \/ ReadModels(a) \/ ReadCredentials(a)
               \/ ReadDeployments(a) \/ Store(a) \/ ReloadFails(a)
      PROVE  ReferencesHold' /\ Apart' /\ StillAllowed'
  <2>1. UNCHANGED <<tables, raced>>
    BY <1>6 DEF Refused, Refresh, RefreshRaises, ReadModels, ReadCredentials, Starts,
                ReadDeployments, Store, ReloadFails, history
  <2>2. \A b \in Admins : Pending(b)' => pc'[b] = pc[b] /\ req'[b] = req[b]
    BY <1>6 DEF Refused, Refresh, RefreshRaises, ReadModels, ReadCredentials, ReadDeployments,
                Store, ReloadFails, Over, ThenReload, Pending, TypeInv, TypeOK
  <2> QED
    BY <1>2, <2>1, <2>2, NoNewPending
<1>7. CASE UNCHANGED vars
  <2>1. UNCHANGED <<tables, raced>> /\ pc' = pc /\ req' = req
    BY <1>7 DEF vars, history
  <2> QED
    BY <1>2, <2>1, NoNewPending
<1> QED
  BY <1>3, <1>4, <1>5, <1>6, <1>7 DEF Next

\* "delete those first": no handler of app/api/admin.py leaves a deployment
\* without its model or its credential, unless a request was adding that very
\* reference while the target was being deleted; and only where a migration has
\* added the column a deployment may have no credential at all.
THEOREM ReferencesStay == Spec => []ReferencesHold
<1>1. RefInv => ReferencesHold
  BY DEF RefInv
<1> QED
  BY <1>1, InitTypeInv, NextTypeInv, InitRefInv, NextRefInv, PTL DEF Spec

-------------------------------------------------------------------------------
(* Reloads *)

(***************************************************************************)
(* The reloads of one registry, as sets: the requests that owe one (O),    *)
(* those that have begun to read (R), those that others have served (P),   *)
(* and what each has seen of the others when it began (cov).               *)
(***************************************************************************)
Before(a, b, cov) == a \in cov[b] /\ cov[a] \ {b} \subseteq cov[b]

Ordered(O, R, P, cov) ==
    /\ R \subseteq O
    /\ \A a \in R : cov[a] \subseteq O /\ a \notin cov[a]
    /\ \A a, b \in R : a # b => Before(a, b, cov) \/ Before(b, a, cov)
    /\ \A c \in R, d \in O : d \in P /\ d # c /\ d \notin cov[c] => c \in P

\* A request in F that is yet to be served, as far as a running reload can know.
Awaited(F, P, seen) == \E c \in F : c \notin P /\ c \notin seen

\* A reload that others have not overtaken will store what is true (G), or some
\* request that it has not seen will store something later.
Witnessed(R, F, P, cov, G) ==
    \A a \in R : a \in P \/ a \in G \/ Awaited(F, P, cov[a] \cup {a})

LEMMA OrderedStays ==
    ASSUME NEW O, NEW R, NEW P, NEW cov, NEW Q, NEW cov2, Ordered(O, R, P, cov),
           \A a \in O : a \in Q <=> a \in P,
           \A a \in R : cov2[a] = cov[a]
    PROVE  Ordered(O, R, Q, cov2)
BY DEF Ordered, Before

LEMMA OrderedCommits ==
    ASSUME NEW O, NEW R, NEW P, NEW cov, NEW x, Ordered(O, R, P, cov), x \notin P
    PROVE  Ordered(O \cup {x}, R, P, cov)
BY DEF Ordered, Before

LEMMA OrderedStarts ==
    ASSUME NEW O, NEW R, NEW P, NEW cov, NEW x \in O \ R, Ordered(O, R, P, cov),
           NEW cov2, cov2[x] = O \ {x}, \A a \in R : cov2[a] = cov[a]
    PROVE  Ordered(O, R \cup {x}, P \ {x}, cov2)
BY DEF Ordered, Before

\* A request that is over, without having served another or failed one.
LEMMA OrderedLeaves ==
    ASSUME NEW O, NEW R, NEW P, NEW cov, NEW x \in O, Ordered(O, R, P, cov),
           NEW cov2, \A a \in R \ {x} : cov2[a] = cov[a] \ {x}
    PROVE  Ordered(O \ {x}, R \ {x}, P \ {x}, cov2)
BY DEF Ordered, Before

LEMMA OrderedStores ==
    ASSUME NEW O, NEW R, NEW P, NEW cov, NEW x \in R, Ordered(O, R, P, cov),
           NEW cov2, \A a \in R \ {x} : cov2[a] = cov[a] \ {x}
    PROVE  Ordered(O \ {x}, R \ {x}, (P \cup cov[x]) \ {x}, cov2)
<1>1. Ordered(O, R, P \cup cov[x], cov)
  BY DEF Ordered, Before
<1>2. x \in O
  BY DEF Ordered
<1> QED
  BY <1>1, <1>2, OrderedLeaves

LEMMA OrderedFails ==
    ASSUME NEW O, NEW R, NEW P, NEW cov, NEW x \in O, Ordered(O, R, P, cov),
           NEW cov2, \A a \in R \ {x} : cov2[a] = cov[a] \ {x}
    PROVE  Ordered(O \ {x}, R \ {x}, (P \cup {b \in R : x \notin cov[b]}) \ {x}, cov2)
<1> DEFINE Q == P \cup {b \in R : x \notin cov[b]}
<1>1. \A c \in R \ {x}, d \in O \ {x} : d \in Q /\ d # c /\ d \notin cov[c] => c \in Q
  BY DEF Ordered, Before
<1>2. Ordered(O \ {x}, R \ {x}, P \ {x}, cov2)
  BY OrderedLeaves
<1> QED
  BY <1>1, <1>2 DEF Ordered

LEMMA WitnessedMore ==
    ASSUME NEW O, NEW R, NEW P, NEW cov, NEW F \in SUBSET O, NEW G, Witnessed(R, F, P, cov, G),
           NEW Q, NEW cov2, NEW F2, NEW G2,
           \A a \in O : a \in Q <=> a \in P, \A a \in R : cov2[a] = cov[a],
           R \subseteq O, F \subseteq F2, G \subseteq G2
    PROVE  Witnessed(R, F2, Q, cov2, G2)
BY DEF Witnessed, Awaited

LEMMA WitnessedCommits ==
    ASSUME NEW O, NEW R, NEW P, NEW cov, NEW x, Ordered(O, R, P, cov), x \notin P, x \notin O,
           NEW F, NEW G, x \in F
    PROVE  Witnessed(R, F, P, cov, G) /\ Awaited(F, P, {})
BY DEF Ordered, Witnessed, Awaited

LEMMA WitnessedStarts ==
    ASSUME NEW O, NEW R, NEW P, NEW cov, NEW x \in O \ R, Ordered(O, R, P, cov),
           NEW cov2, \A a \in R : cov2[a] = cov[a],
           NEW F, NEW G, NEW F2, NEW G2, Witnessed(R, F, P, cov, G),
           F \subseteq F2, G \cup {x} \subseteq G2
    PROVE  /\ Witnessed(R \cup {x}, F2, P \ {x}, cov2, G2)
           /\ Awaited(F, P, {}) => Awaited(F2, P \ {x}, {})
BY DEF Witnessed, Awaited, Ordered

LEMMA WitnessedLeaves ==
    ASSUME NEW O, NEW R, NEW P, NEW cov, NEW x \in O, Ordered(O, R, P, cov),
           NEW cov2, \A a \in R \ {x} : cov2[a] = cov[a] \ {x},
           NEW F, NEW G, NEW F2, NEW G2, Witnessed(R, F, P, cov, G),
           F \subseteq F2, x \notin F, G \ {x} \subseteq G2
    PROVE  /\ Witnessed(R \ {x}, F2, P \ {x}, cov2, G2)
           /\ Awaited(F, P, {}) => Awaited(F2, P \ {x}, {})
BY DEF Witnessed, Awaited, Ordered

LEMMA WitnessedStores ==
    ASSUME NEW O, NEW R, NEW P, NEW cov, NEW x \in R, Ordered(O, R, P, cov),
           NEW cov2, \A a \in R \ {x} : cov2[a] = cov[a] \ {x},
           NEW F, NEW G, NEW F2, NEW G2, Witnessed(R, F, P, cov, G),
           F \subseteq O, F \ {x} \subseteq F2, G \ {x} \subseteq G2
    PROVE  /\ Witnessed(R \ {x}, F2, (P \cup cov[x]) \ {x}, cov2, G2)
           /\ x \in P \/ x \in G \/ Awaited(F2, (P \cup cov[x]) \ {x}, {})
<1>1. ASSUME NEW a \in R \ {x}, a \notin P, a \notin cov[x], Awaited(F, P, cov[a] \cup {a})
      PROVE  Awaited(F2, (P \cup cov[x]) \ {x}, cov2[a] \cup {a})
  <2>1. x \in cov[a] /\ cov[x] \ {a} \subseteq cov[a]
    BY <1>1 DEF Ordered, Before
  <2>2. PICK c \in F : c \notin P /\ c \notin cov[a] /\ c # a
    BY <1>1 DEF Awaited
  <2> QED
    BY <1>1, <2>1, <2>2 DEF Awaited
<1>2. Witnessed(R \ {x}, F2, (P \cup cov[x]) \ {x}, cov2, G2)
  BY <1>1 DEF Witnessed
<1>3. ASSUME x \notin P, x \notin G
      PROVE  Awaited(F2, (P \cup cov[x]) \ {x}, {})
  BY <1>3 DEF Witnessed, Awaited
<1> QED
  BY <1>2, <1>3

LEMMA WitnessedFails ==
    ASSUME NEW O, NEW R, NEW P, NEW cov, NEW x \in O, Ordered(O, R, P, cov),
           NEW cov2, \A a \in R \ {x} : cov2[a] = cov[a] \ {x},
           NEW F, NEW G, NEW F2, NEW G2, Witnessed(R, F, P, cov, G),
           F \subseteq O, F \ {x} \subseteq F2, G \ {x} \subseteq G2,
           NEW Q, Q = (P \cup {b \in R : x \notin cov[b]}) \ {x}
    PROVE  /\ Witnessed(R \ {x}, F2, Q, cov2, G2)
           /\ x \in P /\ Awaited(F, P, {}) => Awaited(F2, Q, {})
<1>1. ASSUME NEW a \in R \ {x}, a \notin P, x \in cov[a], Awaited(F, P, cov[a] \cup {a})
      PROVE  Awaited(F2, Q, cov2[a] \cup {a})
  <2>1. PICK c \in F : c \notin P /\ c \notin cov[a] /\ c # a
    BY <1>1 DEF Awaited
  <2>2. c # x
    BY <1>1, <2>1
  <2>3. c \notin Q
    BY <1>1, <2>1, <2>2 DEF Ordered, Before
  <2> QED
    BY <1>1, <2>1, <2>2, <2>3 DEF Awaited
<1>2. Witnessed(R \ {x}, F2, Q, cov2, G2)
  BY <1>1 DEF Witnessed
<1>3. ASSUME x \in P, Awaited(F, P, {})
      PROVE  Awaited(F2, Q, {})
  <2>1. PICK c \in F : c \notin P
    BY <1>3 DEF Awaited
  <2>2. c \notin Q /\ c # x
    BY <1>3, <2>1 DEF Ordered
  <2> QED
    BY <2>1, <2>2 DEF Awaited
<1> QED
  BY <1>2, <1>3

(***************************************************************************)
(* The requests of a registry.                                             *)
(***************************************************************************)
Loading == {"refresh", "reload", "reading", "store"}

Reloading(k) == {a \in Owing(k) : pc[a] \in {"reading", "store"}}

\* What a written row still is to the process: a row nothing routes by is not.
Effective(r) ==
    IF KindOf(r) = "models" THEN r.model \in DOMAIN models
    ELSE IF r.op = "update_credential" THEN \E d \in DOMAIN deps : deps[d].cred = r.cred
    ELSE r.dep \in DOMAIN deps

\* The requests that will load what they wrote, unless a query fails.
Firm(k) == {a \in Owing(k) : pc[a] = "refresh" => Effective(req[a])}

Truth(k) == IF k = "models" THEN models ELSE Routes(creds, deps)
Snap(k) == IF k = "models" THEN modelSnap ELSE depSnap
WillStore(a) == IF pc[a] = "reading" THEN Routes(got[a], deps) ELSE got[a]
Right(k) == {a \in Reloading(k) : WillStore(a) = Truth(k)}

\* Deployments without their target are no concern of a reload.
Told(k) == k = "deployments" => raced = {}

KindInv(k) ==
    /\ Ordered(Owing(k), Reloading(k), passed, covers)
    /\ Told(k) =>
         /\ Witnessed(Reloading(k), Firm(k), passed, covers, Right(k))
         /\ excused[k] \/ Snap(k) = Truth(k) \/ Awaited(Firm(k), passed, {})

LoadInv ==
    /\ \A a \in passed : pc[a] \in Loading
    /\ \A k \in Kinds : KindInv(k)

\* What a step of one request does to the others: nothing.
Elsewhere(a) ==
    \A b \in Admins \ {a} : pc'[b] = pc[b] /\ req'[b] = req[b] /\ got'[b] = got[b]

LEMMA OthersOwing ==
    ASSUME NEW a \in Admins, Elsewhere(a), NEW k
    PROVE  /\ \A b \in Admins \ {a} : b \in Owing(k)' <=> b \in Owing(k)
           /\ \A b \in Admins \ {a} : b \in Reloading(k)' <=> b \in Reloading(k)
BY DEF Elsewhere, Owing, Reloading

LEMMA OthersSame ==
    ASSUME NEW a \in Admins, Elsewhere(a), UNCHANGED tables, NEW k
    PROVE  /\ Truth(k)' = Truth(k)
           /\ \A r : Effective(r)' = Effective(r)
           /\ \A b \in Admins \ {a} : b \in Firm(k)' <=> b \in Firm(k)
           /\ \A b \in Admins \ {a} : b \in Right(k)' <=> b \in Right(k)
<1>1. models' = models /\ creds' = creds /\ deps' = deps
  BY DEF tables
<1>2. Truth(k)' = Truth(k)
  BY <1>1 DEF Truth, Routes
<1>3. \A r : Effective(r)' = Effective(r)
  BY <1>1 DEF Effective
<1>4. \A b \in Admins \ {a} : b \in Firm(k)' <=> b \in Firm(k)
  BY <1>3, OthersOwing DEF Firm, Elsewhere
<1>5. \A b \in Admins \ {a} : WillStore(b)' = WillStore(b)
  BY <1>1 DEF WillStore, Elsewhere, Routes
<1>6. \A b \in Admins \ {a} : b \in Right(k)' <=> b \in Right(k)
  BY <1>2, <1>5, OthersOwing DEF Right
<1> QED
  BY <1>2, <1>3, <1>4, <1>6

\* A step that is none of a registry's.
LEMMA KindStays ==
    ASSUME NEW a \in Admins, Elsewhere(a), NEW k \in Kinds, KindInv(k),
           a \in Owing(k)' <=> a \in Owing(k), a \in Reloading(k)' <=> a \in Reloading(k),
           \A b \in Owing(k) : b \in passed' <=> b \in passed,
           \A b \in Reloading(k) : covers'[b] = covers[b],
           Told(k)' => /\ Told(k)
                       /\ Firm(k) \subseteq Firm(k)' /\ Right(k) \subseteq Right(k)'
                       /\ excused[k] \/ Snap(k) = Truth(k) => excused'[k] \/ Snap(k)' = Truth(k)'
    PROVE  KindInv(k)'
<1>1. Owing(k)' = Owing(k) /\ Reloading(k)' = Reloading(k)
  BY OthersOwing DEF Owing, Reloading
<1>2. Ordered(Owing(k), Reloading(k), passed', covers')
  BY OrderedStays DEF KindInv
<1>3. ASSUME Told(k)'
      PROVE  /\ Witnessed(Reloading(k), Firm(k)', passed', covers', Right(k)')
             /\ excused'[k] \/ Snap(k)' = Truth(k)' \/ Awaited(Firm(k)', passed', {})
  <2>1. Reloading(k) \subseteq Owing(k) /\ Firm(k) \in SUBSET Owing(k)
    BY DEF Reloading, Firm
  <2>2. Witnessed(Reloading(k), Firm(k), passed, covers, Right(k))
    BY <1>3 DEF KindInv
  <2>3. Witnessed(Reloading(k), Firm(k)', passed', covers', Right(k)')
    BY <1>3, <2>1, <2>2, WitnessedMore
  <2>4. Awaited(Firm(k), passed, {}) => Awaited(Firm(k)', passed', {})
    BY <1>3, <2>1 DEF Awaited
  <2> QED
    BY <1>3, <2>3, <2>4 DEF KindInv
<1> QED
  BY <1>1, <1>2, <1>3 DEF KindInv

LEMMA KindAside ==
    ASSUME NEW a \in Admins, Elsewhere(a), UNCHANGED tables, NEW k \in Kinds, KindInv(k),
           a \notin Owing(k), a \notin Owing(k)',
           \A b \in Owing(k) : b \in passed' <=> b \in passed,
           \A b \in Reloading(k) : covers'[b] = covers[b],
           raced \subseteq raced', excused'[k] = excused[k], Snap(k)' = Snap(k)
    PROVE  KindInv(k)'
<1>1. a \notin Reloading(k) /\ a \notin Reloading(k)'
  BY DEF Reloading
<1>2. Firm(k) \subseteq Firm(k)' /\ Right(k) \subseteq Right(k)' /\ Truth(k)' = Truth(k)
  BY <1>1, OthersSame DEF Firm, Right, Owing, Reloading
<1>3. Told(k)' => Told(k)
  BY DEF Told
<1> QED
  BY <1>1, <1>2, <1>3, KindStays

LEMMA OneKind ==
    ASSUME NEW a \in Admins, NEW k, NEW l, k # l, a \in Owing(k)
    PROVE  a \notin Owing(l)
BY DEF Owing

LEMMA OwingKind ==
    ASSUME TypeInv, NEW a \in Admins, pc[a] \in Loading
    PROVE  KindOf(req[a]) \in Kinds /\ a \in Owing(KindOf(req[a]))
BY RequestFields DEF TypeInv, TypeOK, Owing, Loading

LEMMA ForgottenElse ==
    ASSUME TypeInv, NEW a \in Admins, covers' = Forgotten(a, covers)
    PROVE  \A b \in Admins \ {a} : covers'[b] = covers[b] \ {a}
BY DEF Forgotten

LEMMA OverElsewhere ==
    ASSUME TypeInv, NEW a \in Admins, Over(a)
    PROVE  /\ Elsewhere(a) /\ pc'[a] = "idle"
           /\ \A k : a \notin Owing(k)' /\ a \notin Reloading(k)'
BY DEF Over, Elsewhere, TypeInv, TypeOK, Owing, Reloading

\* A request before its commit concerns no registry.
LEMMA NotYet ==
    ASSUME TypeInv, LoadInv, NEW a \in Admins, Elsewhere(a),
           pc[a] \notin Loading, pc'[a] \notin Loading,
           UNCHANGED <<tables, snapshots, covers, passed, excused>>, raced \subseteq raced'
    PROVE  LoadInv'
<1>1. ASSUME NEW k \in Kinds
      PROVE  KindInv(k)'
  <2>1. a \notin Owing(k) /\ a \notin Owing(k)'
    BY DEF Owing, Loading
  <2>2. Snap(k)' = Snap(k)
    BY DEF Snap, snapshots
  <2> QED
    BY <2>1, <2>2, KindAside DEF LoadInv
<1>2. \A b \in passed' : pc'[b] \in Loading
  BY DEF LoadInv, Elsewhere, TypeInv, TypeOK
<1> QED
  BY <1>1, <1>2 DEF LoadInv

\* What another kind's request leaves behind when it is over.
LEMMA OtherKind ==
    ASSUME TypeInv, LoadInv, NEW a \in Admins, pc[a] \in Loading, Over(a),
           UNCHANGED <<tables, raced>>, covers' = Forgotten(a, covers),
           NEW S \in SUBSET Owing(KindOf(req[a])), passed' = (passed \cup S) \ {a},
           NEW k \in Kinds \ {KindOf(req[a])}, excused'[k] = excused[k], Snap(k)' = Snap(k)
    PROVE  KindInv(k)'
<1>1. a \notin Owing(k) /\ a \notin Owing(k)' /\ Elsewhere(a)
  BY OwingKind, OneKind, OverElsewhere
<1>2. \A b \in Owing(k) : b \in passed' <=> b \in passed
  BY <1>1 DEF Owing
<1>3. ASSUME NEW b \in Reloading(k)
      PROVE  covers'[b] = covers[b]
  <2>1. b \in Admins \ {a} /\ covers[b] \subseteq Owing(k)
    BY <1>1, <1>3 DEF LoadInv, KindInv, Ordered, Reloading, Owing
  <2>2. a \notin covers[b]
    BY <1>1, <2>1
  <2>3. covers[b] \ {a} = covers[b]
    BY <2>2
  <2> QED
    BY <2>1, <2>3, ForgottenElse
<1> QED
  BY <1>1, <1>2, <1>3, KindAside DEF LoadInv

\* Who is left when a request is over.
LEMMA Remaining ==
    ASSUME TypeInv, NEW a \in Admins, Over(a), UNCHANGED tables, NEW k
    PROVE  /\ Owing(k)' = Owing(k) \ {a} /\ Reloading(k)' = Reloading(k) \ {a}
           /\ Firm(k) \ {a} \subseteq Firm(k)' /\ Right(k) \ {a} \subseteq Right(k)'
           /\ Truth(k)' = Truth(k)
<1>1. Elsewhere(a) /\ a \notin Owing(k)' /\ a \notin Reloading(k)'
  BY OverElsewhere
<1>2. Owing(k)' = Owing(k) \ {a} /\ Reloading(k)' = Reloading(k) \ {a}
  BY <1>1, OthersOwing DEF Owing, Reloading
<1>3. \A b \in Firm(k) : b \in Admins
  BY DEF Firm, Owing
<1>4. \A b \in Right(k) : b \in Admins
  BY DEF Right, Reloading, Owing
<1> QED
  BY <1>1, <1>2, <1>3, <1>4, OthersSame
\* The row a request wrote is gone: it had nothing left to load.
LEMMA NotFirm ==
    ASSUME TypeInv, NEW a \in Admins, pc[a] = "refresh", ~RowExists(req[a]), RefInv,
           NEW k, k = KindOf(req[a]), Told(k), k \in Kinds
    PROVE  a \notin Firm(k)
<1>1. ~Effective(req[a])
  <2>1. CASE KindOf(req[a]) = "models"
    BY <2>1 DEF RowExists, Effective, KindOf, ModelOps
  <2>2. CASE KindOf(req[a]) # "models" /\ req[a].op = "update_credential"
    <3>1. raced = {}
      <4>1. k = "deployments"
        BY <2>2 DEF Kinds
      <4> QED
        BY <4>1 DEF Told
    <3>2. \A d \in DOMAIN deps : deps[d].cred \in DOMAIN creds \/ deps[d].cred = None
      BY <3>1 DEF RefInv, ReferencesHold
    <3>3. req[a].cred \notin DOMAIN creds
      BY <2>2 DEF RowExists
    <3>4. req[a].cred # None
      BY <2>2, RequestFields, RegistryAssumption DEF TypeInv, TypeOK
    <3> QED
      BY <2>2, <3>2, <3>3, <3>4 DEF Effective
  <2>3. CASE KindOf(req[a]) # "models" /\ req[a].op # "update_credential"
    BY <2>3 DEF RowExists, Effective
  <2> QED
    BY <2>1, <2>2, <2>3
<1> QED
  BY <1>1 DEF Firm

LEMMA RaisesLoadInv ==
    ASSUME TypeInv, RefInv, LoadInv, NEW a \in Admins, RefreshRaises(a)
    PROVE  LoadInv'
<1>1. /\ pc[a] = "refresh" /\ ~RowExists(req[a]) /\ Over(a)
      /\ passed' = (passed \cup {}) \ {a} /\ covers' = Forgotten(a, covers)
      /\ UNCHANGED <<tables, snapshots, excused, raced>>
  BY DEF RefreshRaises
<1>2. PICK k0 \in Kinds : k0 = KindOf(req[a])
  BY <1>1, OwingKind DEF Loading
<1>3. a \in Owing(k0) /\ pc[a] \in Loading
  BY <1>1, <1>2, OwingKind DEF Loading
<1>4. ASSUME NEW k \in Kinds, k # k0
      PROVE  KindInv(k)'
  <2>1. Snap(k)' = Snap(k)
    BY <1>1 DEF Snap, snapshots
  <2> QED
    BY <1>1, <1>2, <1>3, <1>4, <2>1, OtherKind
<1>5. KindInv(k0)'
  <2>1. /\ Owing(k0)' = Owing(k0) \ {a} /\ Reloading(k0)' = Reloading(k0) \ {a}
        /\ Firm(k0) \ {a} \subseteq Firm(k0)' /\ Right(k0) \ {a} \subseteq Right(k0)'
        /\ Truth(k0)' = Truth(k0)
    BY <1>1, Remaining
  <2>2. \A b \in Reloading(k0) \ {a} : covers'[b] = covers[b] \ {a}
    BY <1>1, ForgottenElse DEF Reloading, Owing
  <2>3. /\ Ordered(Owing(k0), Reloading(k0), passed, covers)
        /\ passed' = passed \ {a} /\ Snap(k0)' = Snap(k0) /\ excused' = excused
        /\ Told(k0)' => Told(k0)
    BY <1>1 DEF LoadInv, KindInv, Snap, snapshots, Told
  <2>4. Ordered(Owing(k0)', Reloading(k0)', passed', covers')
    BY <1>3, <2>1, <2>2, <2>3, OrderedLeaves
  <2>5. ASSUME Told(k0)
        PROVE  /\ Witnessed(Reloading(k0)', Firm(k0)', passed', covers', Right(k0)')
               /\ excused'[k0] \/ Snap(k0)' = Truth(k0)' \/ Awaited(Firm(k0)', passed', {})
    <3>1. a \notin Firm(k0) /\ Firm(k0) \subseteq Firm(k0)'
      BY <1>1, <1>2, <2>1, <2>5, NotFirm
    <3>2. /\ Witnessed(Reloading(k0), Firm(k0), passed, covers, Right(k0))
          /\ excused[k0] \/ Snap(k0) = Truth(k0) \/ Awaited(Firm(k0), passed, {})
      BY <2>5 DEF LoadInv, KindInv
    <3>3. /\ Witnessed(Reloading(k0)', Firm(k0)', passed', covers', Right(k0)')
          /\ Awaited(Firm(k0), passed, {}) => Awaited(Firm(k0)', passed', {})
      BY <1>3, <2>1, <2>2, <2>3, <3>1, <3>2, WitnessedLeaves
    <3> QED
      BY <2>1, <2>3, <3>2, <3>3
  <2> QED
    BY <2>3, <2>4, <2>5 DEF KindInv
<1>6. \A b \in passed' : pc'[b] \in Loading
  BY <1>1, OverElsewhere DEF LoadInv, Elsewhere, TypeInv, TypeOK
<1> QED
  BY <1>4, <1>5, <1>6 DEF LoadInv

\* A step of a loading request that reads nothing new.
LEMMA RefreshLoadInv ==
    ASSUME TypeInv, LoadInv, NEW a \in Admins, Refresh(a)
    PROVE  LoadInv'
<1>1. /\ pc[a] = "refresh" /\ pc'[a] = "reload" /\ KindOf(req'[a]) = KindOf(req[a])
      /\ Elsewhere(a)
      /\ UNCHANGED <<tables, snapshots, history>>
  BY DEF Refresh, ThenReload, Elsewhere, TypeInv, TypeOK, KindOf, ReloadOf
<1>2. ASSUME NEW k \in Kinds
      PROVE  KindInv(k)'
  <2>1. /\ a \in Owing(k)' <=> a \in Owing(k)
        /\ a \notin Reloading(k) /\ a \notin Reloading(k)'
        /\ a \in Owing(k)' => a \in Firm(k)'
    BY <1>1 DEF Owing, Reloading, Firm
  <2>2. Firm(k) \subseteq Firm(k)'
    <3> SUFFICES ASSUME NEW b \in Firm(k) PROVE b \in Firm(k)'
      OBVIOUS
    <3>1. b \in Admins /\ b \in Owing(k)
      BY DEF Firm, Owing
    <3> QED
      BY <1>1, <2>1, <3>1, OthersSame
  <2>3. Right(k) \subseteq Right(k)' /\ Truth(k)' = Truth(k)
    BY <1>1, <2>1, OthersSame DEF Right, Reloading, Owing
  <2>4. Snap(k)' = Snap(k) /\ excused' = excused /\ passed' = passed /\ covers' = covers
        /\ (Told(k)' => Told(k))
    BY <1>1 DEF Snap, snapshots, history, Told
  <2> QED
    BY <1>1, <2>1, <2>2, <2>3, <2>4, KindStays DEF LoadInv
<1>3. \A b \in passed' : pc'[b] \in Loading
  BY <1>1 DEF LoadInv, Elsewhere, TypeInv, TypeOK, Loading, history
<1> QED
  BY <1>2, <1>3 DEF LoadInv

LEMMA ReadDeploymentsLoadInv ==
    ASSUME TypeInv, LoadInv, NEW a \in Admins, ReadDeployments(a)
    PROVE  LoadInv'
<1>1. /\ pc[a] = "reading" /\ pc'[a] = "store" /\ req' = req
      /\ got'[a] = Routes(got[a], deps)
      /\ Elsewhere(a)
      /\ UNCHANGED <<tables, snapshots, history>>
  BY DEF ReadDeployments, Elsewhere, TypeInv, TypeOK
<1>2. WillStore(a)' = WillStore(a)
  BY <1>1 DEF WillStore
<1>3. ASSUME NEW k \in Kinds
      PROVE  KindInv(k)'
  <2>1. /\ a \in Owing(k)' <=> a \in Owing(k)
        /\ a \in Reloading(k)' <=> a \in Reloading(k)
        /\ a \in Owing(k)' => a \in Firm(k)'
    BY <1>1 DEF Owing, Reloading, Firm
  <2>2. Firm(k) \subseteq Firm(k)'
    <3> SUFFICES ASSUME NEW b \in Firm(k) PROVE b \in Firm(k)'
      OBVIOUS
    <3>1. b \in Admins /\ b \in Owing(k)
      BY DEF Firm, Owing
    <3> QED
      BY <1>1, <2>1, <3>1, OthersSame
  <2>3. Right(k) \subseteq Right(k)' /\ Truth(k)' = Truth(k)
    <3>1. Truth(k)' = Truth(k)
      BY <1>1, OthersSame
    <3> SUFFICES ASSUME NEW b \in Right(k) PROVE b \in Right(k)'
      BY <3>1
    <3>2. b \in Admins /\ b \in Reloading(k) /\ WillStore(b) = Truth(k)
      BY DEF Right, Reloading, Owing
    <3>3. CASE b = a
      BY <1>2, <2>1, <3>1, <3>2, <3>3 DEF Right
    <3>4. CASE b # a
      BY <1>1, <3>2, <3>4, OthersSame
    <3> QED
      BY <3>3, <3>4
  <2>4. Snap(k)' = Snap(k) /\ excused' = excused /\ passed' = passed /\ covers' = covers
        /\ (Told(k)' => Told(k))
    BY <1>1 DEF Snap, snapshots, history, Told
  <2> QED
    BY <1>1, <2>1, <2>2, <2>3, <2>4, KindStays DEF LoadInv
<1>4. \A b \in passed' : pc'[b] \in Loading
  BY <1>1 DEF LoadInv, Elsewhere, TypeInv, TypeOK, Loading, history
<1> QED
  BY <1>3, <1>4 DEF LoadInv

\* A reload begins: it will store what is true now.
LEMMA StartsLoadInv ==
    ASSUME TypeInv, LoadInv, NEW a \in Admins, ReadModels(a) \/ ReadCredentials(a)
    PROVE  LoadInv'
<1>1. PICK k0 \in Kinds : k0 = KindOf(req[a])
  BY RequestFields DEF TypeInv, TypeOK
<1>2. /\ pc[a] = "reload" /\ pc'[a] \in {"reading", "store"} /\ req' = req
      /\ covers' = [covers EXCEPT ![a] = Owing(k0) \ {a}] /\ passed' = passed \ {a}
      /\ Elsewhere(a)
      /\ UNCHANGED <<tables, snapshots, excused, raced>>
  BY <1>1 DEF ReadModels, ReadCredentials, Starts, Elsewhere, TypeInv, TypeOK
<1>3. /\ a \in Owing(k0) /\ a \notin Reloading(k0)
      /\ a \in Owing(k0)' /\ a \in Reloading(k0)' /\ a \in Firm(k0)
      /\ covers'[a] = Owing(k0) \ {a} /\ \A b \in Admins \ {a} : covers'[b] = covers[b]
  BY <1>1, <1>2 DEF Owing, Reloading, Firm, TypeInv, TypeOK
<1>4. WillStore(a)' = Truth(k0)'
  <2>1. models' = models /\ creds' = creds /\ deps' = deps
    BY <1>2 DEF tables
  <2>2. CASE ReadModels(a)
    <3>1. k0 = "models" /\ pc'[a] = "store" /\ got'[a] = models
      BY <1>1, <2>2 DEF ReadModels, TypeInv, TypeOK
    <3> QED
      BY <2>1, <3>1 DEF WillStore, Truth
  <2>3. CASE ReadCredentials(a)
    <3>1. k0 = "deployments" /\ pc'[a] = "reading" /\ got'[a] = creds
      BY <1>1, <2>3 DEF ReadCredentials, TypeInv, TypeOK
    <3> QED
      BY <2>1, <3>1 DEF WillStore, Truth
  <2> QED
    BY <2>2, <2>3
<1>5. ASSUME NEW k \in Kinds, k # k0
      PROVE  KindInv(k)'
  <2>1. Snap(k)' = Snap(k)
    BY <1>2 DEF Snap, snapshots
  <2>2. a \notin Owing(k) /\ a \notin Owing(k)'
    BY <1>1, <1>2, <1>5 DEF Owing
  <2>3. \A b \in Owing(k) : b \in passed' <=> b \in passed
    BY <1>2, <2>2
  <2>4. \A b \in Reloading(k) : covers'[b] = covers[b]
    BY <1>3, <2>2 DEF Reloading, Owing
  <2> QED
    BY <1>2, <2>1, <2>2, <2>3, <2>4, KindAside DEF LoadInv
<1>6. KindInv(k0)'
  <2>1. Owing(k0)' = Owing(k0) /\ Reloading(k0)' = Reloading(k0) \cup {a}
    BY <1>2, <1>3, OthersOwing DEF Owing, Reloading
  <2>2. Truth(k0)' = Truth(k0)
    BY <1>2, OthersSame
  <2>3. Firm(k0) \subseteq Firm(k0)'
    <3> SUFFICES ASSUME NEW b \in Firm(k0) PROVE b \in Firm(k0)'
      OBVIOUS
    <3>1. b \in Admins
      BY DEF Firm, Owing
    <3>2. a \in Firm(k0)'
      BY <1>2, <1>3 DEF Firm
    <3> QED
      BY <1>2, <3>1, <3>2, OthersSame
  <2>4. Right(k0) \cup {a} \subseteq Right(k0)'
    <3>1. a \in Right(k0)'
      BY <1>3, <1>4 DEF Right
    <3> SUFFICES ASSUME NEW b \in Right(k0), b # a PROVE b \in Right(k0)'
      BY <3>1
    <3>2. b \in Admins
      BY DEF Right, Reloading, Owing
    <3> QED
      BY <1>2, <3>2, OthersSame
  <2>5. \A b \in Reloading(k0) : covers'[b] = covers[b]
    BY <1>3 DEF Reloading, Owing
  <2>6. /\ Ordered(Owing(k0), Reloading(k0), passed, covers)
        /\ Snap(k0)' = Snap(k0) /\ excused' = excused
        /\ Told(k0)' => Told(k0)
    BY <1>2 DEF LoadInv, KindInv, Snap, snapshots, Told
  <2>7. Ordered(Owing(k0)', Reloading(k0)', passed', covers')
    <3>1. a \in Owing(k0) \ Reloading(k0) /\ covers'[a] = Owing(k0) \ {a}
      BY <1>3
    <3>2. Ordered(Owing(k0), Reloading(k0) \cup {a}, passed \ {a}, covers')
      BY <2>5, <2>6, <3>1, OrderedStarts
    <3> QED
      BY <1>2, <2>1, <3>2
  <2>8. ASSUME Told(k0)
        PROVE  /\ Witnessed(Reloading(k0)', Firm(k0)', passed', covers', Right(k0)')
               /\ excused'[k0] \/ Snap(k0)' = Truth(k0)' \/ Awaited(Firm(k0)', passed', {})
    <3>1. /\ Witnessed(Reloading(k0), Firm(k0), passed, covers, Right(k0))
          /\ excused[k0] \/ Snap(k0) = Truth(k0) \/ Awaited(Firm(k0), passed, {})
      BY <2>8 DEF LoadInv, KindInv
    <3>2. a \in Owing(k0) \ Reloading(k0)
      BY <1>3
    <3>3. /\ Witnessed(Reloading(k0) \cup {a}, Firm(k0)', passed \ {a}, covers', Right(k0)')
          /\ Awaited(Firm(k0), passed, {}) => Awaited(Firm(k0)', passed \ {a}, {})
      BY <2>3, <2>4, <2>5, <2>6, <3>1, <3>2, WitnessedStarts
    <3> QED
      BY <1>2, <2>1, <2>2, <2>6, <3>1, <3>3
  <2> QED
    BY <2>6, <2>7, <2>8 DEF KindInv
<1>7. \A b \in passed' : pc'[b] \in Loading
  BY <1>2 DEF LoadInv, Elsewhere, TypeInv, TypeOK
<1> QED
  BY <1>5, <1>6, <1>7 DEF LoadInv

\* A reload ends: what it stores is true, or another one is still to come, or
\* it had been overtaken.
LEMMA StoreLoadInv ==
    ASSUME TypeInv, LoadInv, NEW a \in Admins, Store(a)
    PROVE  LoadInv'
<1>1. PICK k0 \in Kinds : k0 = KindOf(req[a])
  BY RequestFields DEF TypeInv, TypeOK
<1>2. /\ pc[a] = "store" /\ Over(a)
      /\ passed' = (passed \cup covers[a]) \ {a} /\ covers' = Forgotten(a, covers)
      /\ UNCHANGED <<tables, raced>>
      /\ Snap(k0)' = got[a] /\ \A k \in Kinds \ {k0} : Snap(k)' = Snap(k)
  BY <1>1 DEF Store, Snap, Kinds
<1>3. /\ excused'[k0] <=> a \in passed
      /\ \A k \in Kinds \ {k0} : excused'[k] = excused[k]
  <2> DEFINE overtaken == a \in passed
  <2>1. overtaken \in BOOLEAN
    OBVIOUS
  <2>2. excused' = [excused EXCEPT ![k0] = overtaken] /\ excused \in [Kinds -> BOOLEAN]
    BY <1>1 DEF Store, TypeInv, TypeOK
  <2> HIDE DEF overtaken
  <2>3. excused'[k0] = overtaken /\ \A k \in Kinds \ {k0} : excused'[k] = excused[k]
    BY <2>1, <2>2, Zenon
  <2> QED
    BY <2>3 DEF overtaken
<1>4. a \in Owing(k0) /\ a \in Reloading(k0) /\ pc[a] \in Loading
  BY <1>1, <1>2 DEF Owing, Reloading, Loading
<1>5. Ordered(Owing(k0), Reloading(k0), passed, covers) /\ covers[a] \in SUBSET Owing(k0)
  BY <1>4 DEF LoadInv, KindInv, Ordered
<1>6. ASSUME NEW k \in Kinds, k # k0
      PROVE  KindInv(k)'
  BY <1>1, <1>2, <1>3, <1>4, <1>5, <1>6, OtherKind
<1>7. KindInv(k0)'
  <2>1. /\ Owing(k0)' = Owing(k0) \ {a} /\ Reloading(k0)' = Reloading(k0) \ {a}
        /\ Firm(k0) \ {a} \subseteq Firm(k0)' /\ Right(k0) \ {a} \subseteq Right(k0)'
        /\ Truth(k0)' = Truth(k0)
    BY <1>2, Remaining
  <2>2. \A b \in Reloading(k0) \ {a} : covers'[b] = covers[b] \ {a}
    BY <1>2, ForgottenElse DEF Reloading, Owing
  <2>3. Told(k0)' => Told(k0)
    BY <1>2 DEF Told
  <2>4. Ordered(Owing(k0)', Reloading(k0)', passed', covers')
    BY <1>2, <1>4, <1>5, <2>1, <2>2, OrderedStores
  <2>5. ASSUME Told(k0)
        PROVE  /\ Witnessed(Reloading(k0)', Firm(k0)', passed', covers', Right(k0)')
               /\ excused'[k0] \/ Snap(k0)' = Truth(k0)' \/ Awaited(Firm(k0)', passed', {})
    <3>1. Witnessed(Reloading(k0), Firm(k0), passed, covers, Right(k0)) /\ Firm(k0) \subseteq Owing(k0)
      BY <2>5 DEF LoadInv, KindInv, Firm
    <3>2. /\ Witnessed(Reloading(k0)', Firm(k0)', passed', covers', Right(k0)')
          /\ a \in passed \/ a \in Right(k0) \/ Awaited(Firm(k0)', passed', {})
      BY <1>2, <1>4, <1>5, <2>1, <2>2, <3>1, WitnessedStores
    <3>3. a \in Right(k0) => Snap(k0)' = Truth(k0)'
      BY <1>2, <2>1 DEF Right, WillStore
    <3> QED
      BY <1>3, <3>2, <3>3
  <2> QED
    BY <2>3, <2>4, <2>5 DEF KindInv
<1>8. \A b \in passed' : pc'[b] \in Loading
  <2>1. \A b \in covers[a] : b \in Admins /\ pc[b] \in Loading
    BY <1>5 DEF Owing, Loading
  <2> QED
    BY <1>2, <2>1, OverElsewhere DEF LoadInv, Elsewhere, TypeInv, TypeOK
<1> QED
  BY <1>6, <1>7, <1>8 DEF LoadInv

\* A reload fails: the snapshot may be old now, unless another had served it.
LEMMA FailsLoadInv ==
    ASSUME TypeInv, LoadInv, NEW a \in Admins, ReloadFails(a)
    PROVE  LoadInv'
<1>1. PICK k0 \in Kinds : k0 = KindOf(req[a])
  BY RequestFields DEF TypeInv, TypeOK
<1> DEFINE S == {b \in Reloading(k0) : a \notin covers[b]}
<1>2. /\ pc[a] \in Loading /\ Over(a)
      /\ passed' = (passed \cup S) \ {a} /\ covers' = Forgotten(a, covers)
      /\ UNCHANGED <<tables, snapshots, raced>>
  <2>1. S = {b \in Owing(k0) : pc[b] \in {"reading", "store"} /\ a \notin covers[b]}
    BY DEF Reloading
  <2> QED
    BY <1>1, <2>1 DEF ReloadFails, Loading
<1>3. /\ excused'[k0] <=> (excused[k0] \/ a \notin passed)
      /\ \A k \in Kinds \ {k0} : excused'[k] = excused[k]
  <2> DEFINE v == excused[k0] \/ a \notin passed
  <2>1. v \in BOOLEAN
    OBVIOUS
  <2>2. excused' = [excused EXCEPT ![k0] = v] /\ excused \in [Kinds -> BOOLEAN]
    BY <1>1 DEF ReloadFails, TypeInv, TypeOK
  <2> HIDE DEF v
  <2>3. excused'[k0] = v /\ \A k \in Kinds \ {k0} : excused'[k] = excused[k]
    BY <2>1, <2>2, Zenon
  <2> QED
    BY <2>3 DEF v
<1>4. a \in Owing(k0) /\ \A k : Snap(k)' = Snap(k)
  BY <1>1, <1>2, OwingKind DEF Snap, snapshots
<1>5. Ordered(Owing(k0), Reloading(k0), passed, covers) /\ S \in SUBSET Owing(k0)
  BY DEF LoadInv, KindInv, Reloading
<1>6. ASSUME NEW k \in Kinds, k # k0
      PROVE  KindInv(k)'
  <2> HIDE DEF S
  <2> QED
    BY <1>1, <1>2, <1>3, <1>4, <1>5, <1>6, OtherKind
<1>7. KindInv(k0)'
  <2>1. /\ Owing(k0)' = Owing(k0) \ {a} /\ Reloading(k0)' = Reloading(k0) \ {a}
        /\ Firm(k0) \ {a} \subseteq Firm(k0)' /\ Right(k0) \ {a} \subseteq Right(k0)'
        /\ Truth(k0)' = Truth(k0)
    BY <1>2, Remaining
  <2>2. \A b \in Reloading(k0) \ {a} : covers'[b] = covers[b] \ {a}
    BY <1>2, ForgottenElse DEF Reloading, Owing
  <2>3. Told(k0)' => Told(k0)
    BY <1>2 DEF Told
  <2>4. Ordered(Owing(k0)', Reloading(k0)', passed', covers')
    BY <1>2, <1>4, <1>5, <2>1, <2>2, OrderedFails
  <2>5. ASSUME Told(k0)
        PROVE  /\ Witnessed(Reloading(k0)', Firm(k0)', passed', covers', Right(k0)')
               /\ excused'[k0] \/ Snap(k0)' = Truth(k0)' \/ Awaited(Firm(k0)', passed', {})
    <3>1. /\ Witnessed(Reloading(k0), Firm(k0), passed, covers, Right(k0))
          /\ Firm(k0) \subseteq Owing(k0)
          /\ excused[k0] \/ Snap(k0) = Truth(k0) \/ Awaited(Firm(k0), passed, {})
      BY <2>5 DEF LoadInv, KindInv, Firm
    <3>2. /\ Witnessed(Reloading(k0)', Firm(k0)', passed', covers', Right(k0)')
          /\ a \in passed /\ Awaited(Firm(k0), passed, {}) => Awaited(Firm(k0)', passed', {})
      BY <1>2, <1>4, <1>5, <2>1, <2>2, <3>1, WitnessedFails
    <3> QED
      BY <1>3, <1>4, <2>1, <3>1, <3>2
  <2> QED
    BY <2>3, <2>4, <2>5 DEF KindInv
<1>8. \A b \in passed' : pc'[b] \in Loading
  <2>1. \A b \in S : b \in Admins /\ pc[b] \in Loading
    BY DEF Owing, Reloading, Loading
  <2> QED
    BY <1>2, <2>1, OverElsewhere DEF LoadInv, Elsewhere, TypeInv, TypeOK
<1> QED
  BY <1>6, <1>7, <1>8 DEF LoadInv

\* What is true to a registry does not change: neither do its other requests.
LEMMA OthersKeep ==
    ASSUME TypeInv, NEW a \in Admins, Elsewhere(a), NEW k \in Kinds, a \notin Owing(k),
           Truth(k)' = Truth(k), IF k = "models" THEN models' = models ELSE deps' = deps
    PROVE  Firm(k) \subseteq Firm(k)' /\ Right(k) \subseteq Right(k)'
<1>1. ASSUME NEW b \in Owing(k)
      PROVE  /\ b \in Admins \ {a} /\ KindOf(req[b]) = k
             /\ pc'[b] = pc[b] /\ req'[b] = req[b] /\ got'[b] = got[b]
             /\ b \in Owing(k)' /\ (b \in Reloading(k) => b \in Reloading(k)')
  <2>1. b \in Admins \ {a} /\ KindOf(req[b]) = k
    BY DEF Owing
  <2> QED
    BY <2>1, OthersOwing DEF Elsewhere
<1>2. ASSUME NEW b \in Firm(k)
      PROVE  b \in Firm(k)'
  <2>1. b \in Owing(k) /\ (pc[b] = "refresh" => Effective(req[b]))
    BY DEF Firm
  <2>2. Effective(req[b]) => Effective(req[b])'
    BY <1>1, <2>1 DEF Effective
  <2> QED
    BY <1>1, <2>1, <2>2 DEF Firm
<1>3. ASSUME NEW b \in Right(k)
      PROVE  b \in Right(k)'
  <2>1. b \in Owing(k) /\ b \in Reloading(k) /\ WillStore(b) = Truth(k)
    BY DEF Right, Reloading
  <2>2. pc[b] = "reading" => k = "deployments"
    BY <1>1, <2>1 DEF TypeInv, ReadTyped
  <2>3. WillStore(b)' = WillStore(b)
    <3>1. CASE pc[b] = "reading"
      BY <1>1, <2>1, <2>2, <3>1 DEF WillStore
    <3>2. CASE pc[b] # "reading"
      BY <1>1, <2>1, <3>2 DEF WillStore
    <3> QED
      BY <3>1, <3>2
  <2> QED
    BY <1>1, <2>1, <2>3 DEF Right
<1> QED
  BY <1>2, <1>3

\* A commit that changes nothing a registry is made of, by another's request.
LEMMA CommitAside ==
    ASSUME TypeInv, LoadInv, NEW a \in Admins, Elsewhere(a), NEW k \in Kinds,
           a \notin Owing(k), a \notin Owing(k)', UNCHANGED <<snapshots, history>>,
           Told(k) => Truth(k)' = Truth(k),
           IF k = "models" THEN models' = models ELSE deps' = deps
    PROVE  KindInv(k)'
<1>1. Told(k)' => Told(k)
  BY DEF Told, history
<1>2. Told(k) => Firm(k) \subseteq Firm(k)' /\ Right(k) \subseteq Right(k)'
  BY OthersKeep
<1>3. a \notin Reloading(k) /\ a \notin Reloading(k)'
  BY DEF Reloading
<1>4. passed' = passed /\ covers' = covers /\ excused' = excused /\ Snap(k)' = Snap(k)
  BY DEF history, Snap, snapshots
<1> QED
  BY <1>1, <1>2, <1>3, <1>4, KindStays DEF LoadInv

\* A commit the registry has to load: its request is there to do it.
LEMMA LoudCommit ==
    ASSUME TypeInv, LoadInv, NEW a \in Admins, Elsewhere(a), NEW k \in Kinds,
           pc[a] = "commit", pc'[a] \in {"refresh", "reload"}, KindOf(req'[a]) = k,
           pc'[a] = "refresh" => Effective(req[a])', UNCHANGED history
    PROVE  KindInv(k)'
<1>1. a \notin Owing(k) /\ a \notin Reloading(k) /\ a \notin Reloading(k)' /\ a \in Owing(k)'
  BY DEF Owing, Reloading
<1>2. Owing(k)' = Owing(k) \cup {a} /\ Reloading(k)' = Reloading(k)
  BY <1>1, OthersOwing DEF Owing, Reloading
<1>3. passed' = passed /\ covers' = covers /\ a \notin passed
  BY DEF history, LoadInv, Loading
<1>4. Ordered(Owing(k), Reloading(k), passed, covers)
  BY DEF LoadInv, KindInv
<1>5. Ordered(Owing(k)', Reloading(k)', passed', covers')
  BY <1>2, <1>3, <1>4, OrderedCommits
<1>6. a \in Firm(k)'
  BY <1>1 DEF Firm
<1>7. /\ Witnessed(Reloading(k), Firm(k)', passed, covers, Right(k)')
      /\ Awaited(Firm(k)', passed, {})
  BY <1>1, <1>3, <1>4, <1>6, WitnessedCommits
<1> QED
  BY <1>2, <1>3, <1>5, <1>7 DEF KindInv

\* A commit that changes nothing the registry would load.
LEMMA QuietCommit ==
    ASSUME TypeInv, LoadInv, NEW a \in Admins, Elsewhere(a), NEW k \in Kinds,
           pc[a] = "commit", pc'[a] \in {"refresh", "reload"}, KindOf(req'[a]) = k,
           Truth(k)' = Truth(k), IF k = "models" THEN models' = models ELSE deps' = deps,
           UNCHANGED <<snapshots, history>>
    PROVE  KindInv(k)'
<1>1. a \notin Owing(k) /\ a \notin Reloading(k) /\ a \notin Reloading(k)' /\ a \in Owing(k)'
  BY DEF Owing, Reloading
<1>2. Owing(k)' = Owing(k) \cup {a} /\ Reloading(k)' = Reloading(k)
  BY <1>1, OthersOwing DEF Owing, Reloading
<1>3. passed' = passed /\ covers' = covers /\ excused' = excused /\ a \notin passed
      /\ Snap(k)' = Snap(k) /\ (Told(k)' => Told(k))
  BY DEF history, LoadInv, Loading, Snap, snapshots, Told
<1>4. Ordered(Owing(k), Reloading(k), passed, covers)
  BY DEF LoadInv, KindInv
<1>5. Ordered(Owing(k)', Reloading(k)', passed', covers')
  BY <1>2, <1>3, <1>4, OrderedCommits
<1>6. Firm(k) \subseteq Firm(k)' /\ Right(k) \subseteq Right(k)'
  BY <1>1, OthersKeep
<1>7. ASSUME Told(k)
      PROVE  /\ Witnessed(Reloading(k), Firm(k)', passed, covers, Right(k)')
             /\ excused[k] \/ Snap(k) = Truth(k) \/ Awaited(Firm(k)', passed, {})
  BY <1>6, <1>7 DEF LoadInv, KindInv, Witnessed, Awaited
<1> QED
  BY <1>2, <1>3, <1>5, <1>7 DEF KindInv

\* A commit of a model, and what it means to the deployments: nothing.
LEMMA ModelCommit ==
    ASSUME TypeInv, LoadInv, NEW a \in Admins,
           create_model_config(a) \/ update_model_config(a) \/ delete_model_config(a)
    PROVE  \A k \in Kinds : KindInv(k)'
<1>1. /\ Elsewhere(a) /\ pc[a] = "commit" /\ pc'[a] \in {"refresh", "reload"}
      /\ KindOf(req'[a]) = "models" /\ UNCHANGED <<creds, deps, snapshots, history>>
  BY DEF create_model_config, update_model_config, delete_model_config, Committing, ThenRefresh,
         ThenReload, Elsewhere, TypeInv, TypeOK, KindOf, ModelOps, ReloadOf
<1>2. pc'[a] = "refresh" => Effective(req[a])'
  <2>1. ASSUME pc'[a] = "refresh"
        PROVE  req' = req /\ req[a].model \in DOMAIN models' /\ KindOf(req[a]) = "models"
    BY <2>1 DEF create_model_config, update_model_config, delete_model_config, Committing,
                ThenRefresh, ThenReload, With, TypeInv, TypeOK, KindOf, ModelOps
  <2> QED
    BY <2>1 DEF Effective
<1>3. KindInv("models")'
  BY <1>1, <1>2, LoudCommit DEF Kinds
<1>4. KindInv("deployments")'
  <2>1. a \notin Owing("deployments") /\ a \notin Owing("deployments")'
    BY <1>1 DEF Owing
  <2>2. Truth("deployments")' = Truth("deployments") /\ deps' = deps
    BY <1>1 DEF Truth, Routes
  <2> QED
    BY <1>1, <2>1, <2>2, CommitAside DEF Kinds
<1> QED
  BY <1>3, <1>4 DEF Kinds

\* A commit of a credential or a deployment means nothing to the models.
LEMMA AsideModels ==
    ASSUME TypeInv, LoadInv, NEW a \in Admins, Elsewhere(a), pc[a] = "commit",
           pc'[a] \in {"refresh", "reload"} => KindOf(req'[a]) = "deployments",
           pc'[a] \in {"refresh", "reload", "idle"},
           UNCHANGED <<models, snapshots, history>>
    PROVE  KindInv("models")'
<1>1. a \notin Owing("models") /\ a \notin Owing("models")'
  BY DEF Owing
<1>2. Truth("models")' = Truth("models") /\ models' = models
  BY DEF Truth
<1> QED
  BY <1>1, <1>2, CommitAside DEF Kinds

LEMMA DeploymentCommit ==
    ASSUME TypeInv, LoadInv, NEW a \in Admins,
           create_deployment(a) \/ update_deployment(a) \/ delete_deployment(a)
    PROVE  \A k \in Kinds : KindInv(k)'
<1>1. /\ Elsewhere(a) /\ pc[a] = "commit" /\ pc'[a] \in {"refresh", "reload"}
      /\ KindOf(req'[a]) = "deployments" /\ UNCHANGED <<models, snapshots, history>>
  BY DEF create_deployment, update_deployment, delete_deployment, Committing, ThenRefresh,
         ThenReload, Elsewhere, TypeInv, TypeOK, KindOf, ModelOps, ReloadOf
<1>2. pc'[a] = "refresh" => Effective(req[a])'
  <2>1. ASSUME pc'[a] = "refresh"
        PROVE  /\ req' = req /\ req[a].dep \in DOMAIN deps' /\ KindOf(req[a]) # "models"
               /\ req[a].op # "update_credential"
    BY <2>1 DEF create_deployment, update_deployment, delete_deployment, Committing,
                ThenRefresh, ThenReload, With, TypeInv, TypeOK, KindOf, ModelOps
  <2> QED
    BY <2>1 DEF Effective
<1>3. KindInv("deployments")'
  BY <1>1, <1>2, LoudCommit DEF Kinds
<1>4. KindInv("models")'
  BY <1>1, AsideModels
<1> QED
  BY <1>3, <1>4 DEF Kinds

\* A new key reaches the snapshot with the reload, when a deployment uses it.
LEMMA UpdateCredentialCommit ==
    ASSUME TypeInv, LoadInv, NEW a \in Admins, update_credential(a)
    PROVE  \A k \in Kinds : KindInv(k)'
<1>1. /\ Elsewhere(a) /\ pc[a] = "commit" /\ pc'[a] \in {"refresh", "reload"} /\ req' = req
      /\ KindOf(req'[a]) = "deployments" /\ UNCHANGED <<models, deps, snapshots, history>>
      /\ req[a].op = "update_credential"
  BY DEF update_credential, Committing, ThenRefresh, Elsewhere, TypeInv, TypeOK, KindOf, ModelOps
<1>2. KindInv("deployments")'
  <2>1. CASE \E d \in DOMAIN deps : deps[d].cred = req[a].cred
    <3>1. Effective(req[a])'
      BY <1>1, <2>1 DEF Effective
    <3> QED
      BY <1>1, <3>1, LoudCommit DEF Kinds
  <2>2. CASE \A d \in DOMAIN deps : deps[d].cred # req[a].cred
    <3>1. Routes(creds', deps) = Routes(creds, deps)
      <4> DEFINE c == req[a].cred
      <4>1. /\ \A x : x # c => (x \in DOMAIN creds' <=> x \in DOMAIN creds)
            /\ \A x \in DOMAIN creds \ {c} : creds'[x] = creds[x]
        BY DEF update_credential, With
      <4>2. \A d \in DOMAIN deps : deps[d].cred # c
        BY <2>2
      <4> HIDE DEF c
      <4> QED
        BY <4>1, <4>2 DEF Routes
    <3>2. Truth("deployments")' = Truth("deployments")
      BY <1>1, <3>1 DEF Truth, Routes
    <3> QED
      BY <1>1, <3>2, QuietCommit DEF Kinds
  <2> QED
    BY <2>1, <2>2
<1>3. KindInv("models")'
  BY <1>1, AsideModels
<1> QED
  BY <1>2, <1>3 DEF Kinds

\* A credential comes or goes without a reload: no deployment refers to it.
LEMMA CredentialCommit ==
    ASSUME TypeInv, RefInv, LoadInv, NEW a \in Admins, create_credential(a) \/ delete_credential(a)
    PROVE  \A k \in Kinds : KindInv(k)'
<1> DEFINE c == req[a].cred
<1>1. /\ Elsewhere(a) /\ pc[a] = "commit" /\ pc'[a] = "idle"
      /\ UNCHANGED <<models, deps, snapshots, history>>
      /\ req[a].op \in {"create_credential", "delete_credential"}
      /\ req[a].op = "create_credential" => c \notin DOMAIN creds
  BY OverElsewhere DEF create_credential, delete_credential, Committing
<1>2. /\ \A x : x # c => (x \in DOMAIN creds' <=> x \in DOMAIN creds)
      /\ \A x \in DOMAIN creds \ {c} : creds'[x] = creds[x]
  BY DEF create_credential, delete_credential, With, Without
<1>3. ASSUME Told("deployments")
      PROVE  Truth("deployments")' = Truth("deployments")
  <2>1. ReferencesHold /\ StillAllowed /\ raced = {}
    BY <1>3 DEF Told, RefInv
  <2>2. \A d \in DOMAIN deps : deps[d].cred # c
    <3>1. c # None
      <4>1. \A r \in Request \cup {ReloadOf(k) : k \in Kinds} \cup {Nothing} :
                r.op \in {"create_credential", "delete_credential"} => r.cred \in Credentials
        BY DEF Request, ReloadOf, Nothing
      <4> QED
        BY <1>1, <4>1, RegistryAssumption DEF TypeInv, TypeOK
    <3>2. CASE req[a].op = "create_credential"
      BY <1>1, <2>1, <3>1, <3>2 DEF ReferencesHold
    <3>3. CASE req[a].op = "delete_credential"
      BY <1>1, <2>1, <3>3 DEF StillAllowed, CredentialRaced
    <3> QED
      BY <1>1, <3>2, <3>3
  <2> HIDE DEF c
  <2>3. Routes(creds', deps) = Routes(creds, deps)
    BY <1>2, <2>2 DEF Routes
  <2> QED
    BY <1>1, <2>3 DEF Truth, Routes
<1>4. KindInv("deployments")'
  <2>1. a \notin Owing("deployments") /\ a \notin Owing("deployments")'
    BY <1>1 DEF Owing
  <2> QED
    BY <1>1, <1>3, <2>1, CommitAside DEF Kinds
<1>5. KindInv("models")'
  BY <1>1, AsideModels
<1> QED
  BY <1>4, <1>5 DEF Kinds

LEMMA InitLoadInv == Init => LoadInv
<1> SUFFICES ASSUME Init, NEW k \in Kinds PROVE KindInv(k)
  BY DEF LoadInv, Init
<1>1. Owing(k) = {} /\ Reloading(k) = {}
  BY DEF Init, Owing, Reloading
<1>2. Snap(k) = Truth(k)
  <2>1. Routes(NoRows, deps) = NoRows
    BY DEF Routes, NoRows
  <2> QED
    BY <2>1 DEF Init, Snap, Truth
<1> QED
  BY <1>1, <1>2 DEF KindInv, Ordered, Witnessed

LEMMA NextLoadInv == TypeInv /\ RefInv /\ LoadInv /\ [Next]_vars => LoadInv'
<1> SUFFICES ASSUME TypeInv, RefInv, LoadInv, [Next]_vars PROVE LoadInv'
  OBVIOUS
<1>1. ASSUME NEW a \in Admins, NEW r \in Request, Begin(a, r)
      PROVE  LoadInv'
  <2>1. /\ Elsewhere(a) /\ pc[a] = "idle" /\ pc'[a] \in {"check", "commit"}
        /\ UNCHANGED <<tables, snapshots, covers, passed, excused>> /\ (raced \subseteq raced')
    BY <1>1 DEF Begin, Elsewhere, TypeInv, TypeOK
  <2> QED
    BY <2>1, NotYet DEF Loading
<1>2. ASSUME NEW a \in Admins, Check(a) \/ Refused(a)
      PROVE  LoadInv'
  <2>1. /\ Elsewhere(a) /\ pc[a] \in {"check", "commit"} /\ pc'[a] \in {"commit", "idle"}
        /\ UNCHANGED <<tables, snapshots, covers, passed, excused>> /\ (raced \subseteq raced')
    BY <1>2 DEF Check, Refused, Over, Elsewhere, history, TypeInv, TypeOK
  <2> QED
    BY <2>1, NotYet DEF Loading
<1>3. ASSUME NEW a \in Admins, Commit(a)
      PROVE  LoadInv'
  <2>1. \A k \in Kinds : KindInv(k)'
    BY <1>3, ModelCommit, DeploymentCommit, UpdateCredentialCommit, CredentialCommit DEF Commit
  <2>2. pc[a] = "commit" /\ passed' = passed /\ \A b \in Admins \ {a} : pc'[b] = pc[b]
    BY <1>3 DEF Commit, create_model_config, update_model_config, delete_model_config,
                create_credential, update_credential, delete_credential,
                create_deployment, update_deployment, delete_deployment,
                Committing, ThenRefresh, ThenReload, Over, history, TypeInv, TypeOK
  <2>3. \A b \in passed' : pc'[b] \in Loading
    BY <2>2 DEF LoadInv, Loading, TypeInv, TypeOK
  <2> QED
    BY <2>1, <2>3 DEF LoadInv
<1>4. CASE UNCHANGED vars
  <2>1. /\ models' = models /\ creds' = creds /\ deps' = deps /\ modelSnap' = modelSnap
        /\ depSnap' = depSnap /\ pc' = pc /\ req' = req /\ got' = got /\ covers' = covers
        /\ passed' = passed /\ excused' = excused /\ raced' = raced
    BY <1>4 DEF vars, tables, snapshots, history
  <2>2. ASSUME NEW k \in Kinds
        PROVE  KindInv(k)'
    <3>1. Owing(k)' = Owing(k) /\ Reloading(k)' = Reloading(k)
      BY <2>1 DEF Owing, Reloading
    <3>2. Truth(k)' = Truth(k) /\ Snap(k)' = Snap(k) /\ (Told(k)' => Told(k))
      BY <2>1 DEF Truth, Snap, Told
    <3>3. \A b \in Owing(k) : Effective(req[b])' = Effective(req[b]) /\ WillStore(b)' = WillStore(b)
      BY <2>1 DEF Effective, WillStore
    <3>4. Firm(k)' = Firm(k) /\ Right(k)' = Right(k)
      BY <2>1, <3>1, <3>2, <3>3 DEF Firm, Right, Reloading
    <3> QED
      BY <2>1, <3>1, <3>2, <3>4 DEF LoadInv, KindInv
  <2> QED
    BY <2>1, <2>2 DEF LoadInv
<1> QED
  BY <1>1, <1>2, <1>3, <1>4, RefreshLoadInv, RaisesLoadInv, ReadDeploymentsLoadInv,
     StartsLoadInv, StoreLoadInv, FailsLoadInv DEF Next

\* Once the requests of a registry are answered, the snapshot the process routes
\* by is what the tables say, however the handlers of app/api/admin.py, their
\* commits and the queries of their reloads interleave: a snapshot can only be old
\* after a failed reload, or one that came in after a later one.
THEOREM SnapshotsStayFresh == Spec => []SnapshotsFresh
<1>1. ASSUME LoadInv, NEW k \in Kinds, Owing(k) = {}, ~excused[k], Told(k)
      PROVE  Snap(k) = Truth(k)
  BY <1>1 DEF LoadInv, KindInv, Firm, Awaited
<1>2. LoadInv => SnapshotsFresh
  BY <1>1 DEF SnapshotsFresh, Kinds, Told, Snap, Truth
<1> QED
  BY <1>2, InitTypeInv, NextTypeInv, InitRefInv, NextRefInv, InitLoadInv, NextLoadInv, PTL DEF Spec

===============================================================================
