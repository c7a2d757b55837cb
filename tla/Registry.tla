------------------------------- MODULE Registry -------------------------------
(***************************************************************************)
(* The tables an administrator edits (app/api/admin.py: models, provider   *)
(* credentials, deployments) and the snapshots of them one process routes  *)
(* by (app/core/model_registry.py, app/router/deployments.py).  Handlers   *)
(* interleave at every await: each query, commit and refresh is a step of  *)
(* its own, and a query sees what is committed.                            *)
(*                                                                         *)
(* A model is identified by its name, which no handler changes.  Columns   *)
(* no property depends on (prices, limits, weights, enabled) are left out, *)
(* and so are the names of credentials.                                    *)
(***************************************************************************)
EXTENDS Naturals, FiniteSets

CONSTANTS
    Admins,        \* requests to the admin API under way at the same time
    Names,         \* names of models
    Targets,       \* what a model may be an alias of
    Credentials,   \* ids of ProviderCredential rows
    Secrets,       \* their providers, keys and endpoints
    Deployments,   \* ids of ModelDeployment rows
    None,          \* no alias; a null
    Unset,         \* a field the request leaves out
    MaxRaced,      \* bound: on the deletions of which raced keeps the history
    Upgraded       \* is the database older than credentials?  Then a migration
                   \* has added the column credential_id, and it takes nulls

ASSUME RegistryAssumption ==
    /\ IsFiniteSet(Admins)
    /\ None \notin Targets \cup Credentials
    /\ Unset \notin Credentials \cup {None}
    /\ MaxRaced \in Nat
    /\ Upgraded \in BOOLEAN

VARIABLES
    models,      \* table model_configs: name -> alias_of
    creds,       \* table provider_credentials: id -> secret
    deps,        \* table model_deployments: id -> model_name, credential_id
    modelSnap,   \* ModelRegistry._models
    depSnap,     \* DeploymentRegistry._by_model: id -> model_name, secret
    pc, req, got,  \* a request: where it is, what it asks, what its reload read
    covers,      \* history: requests whose commit a running reload has seen
    passed,      \* history: requests a later reload has served already
    excused,     \* history: a snapshot may be old, see SnapshotsFresh
    raced        \* history: deletions during which a reference to the target was added

tables == <<models, creds, deps>>
snapshots == <<modelSnap, depSnap>>
history == <<covers, passed, excused, raced>>
vars == <<tables, snapshots, pc, req, got, history>>

Kinds == {"models", "deployments"}

\* A request to create a row comes with the id the table will give the row.
Request ==
    [op : {"create_model", "update_model"}, model : Names, alias : Targets \cup {None}]
    \cup [op : {"delete_model"}, model : Names]
    \cup [op : {"create_credential", "update_credential"}, cred : Credentials, secret : Secrets]
    \cup [op : {"delete_credential"}, cred : Credentials]
    \cup [op : {"create_deployment"}, dep : Deployments, model : Names, cred : Credentials]
    \cup [op : {"update_deployment"}, dep : Deployments, cred : Credentials \cup {None, Unset}]
    \cup [op : {"delete_deployment"}, dep : Deployments]

\* What is left of a request once its commit is done and refreshed.
ReloadOf(kind) == [op |-> "reload", kind |-> kind]

ModelOps == {"create_model", "update_model", "delete_model"}
KindOf(r) ==
    IF r.op = "reload" THEN r.kind ELSE IF r.op \in ModelOps THEN "models" ELSE "deployments"

Nothing == [op |-> "none"]

NoRows == [x \in {} |-> x]
With(table, id, row) == [x \in DOMAIN table \cup {id} |-> IF x = id THEN row ELSE table[x]]
Without(table, id) == [x \in DOMAIN table \ {id} |-> table[x]]
TableOf(S, T) == UNION {[D -> T] : D \in SUBSET S}

DeploymentRow == [model : Names, cred : Credentials \cup {None}]
Route == [model : Names, secret : Secrets]

TypeOK ==
    /\ models \in TableOf(Names, Targets \cup {None})
    /\ creds \in TableOf(Credentials, Secrets)
    /\ deps \in TableOf(Deployments, DeploymentRow)
    /\ modelSnap \in TableOf(Names, Targets \cup {None})
    /\ depSnap \in TableOf(Deployments, Route)
    /\ pc \in [Admins -> {"idle", "check", "commit", "refresh", "reload", "reading", "store"}]
    /\ req \in [Admins -> Request \cup {ReloadOf(k) : k \in Kinds} \cup {Nothing}]
    /\ got \in [Admins -> TableOf(Names, Targets \cup {None}) \cup
                           TableOf(Credentials, Secrets) \cup TableOf(Deployments, Route)]
    /\ covers \in [Admins -> SUBSET Admins]
    /\ passed \subseteq Admins
    /\ excused \in [Kinds -> BOOLEAN]
    /\ raced \subseteq Request

\* Deployments of an old database refer to no credential yet, so that the process
\* has started without them.
Init ==
    /\ deps \in TableOf(Deployments, [model : Names, cred : {None}])
    /\ deps # NoRows => Upgraded
    /\ models = [n \in {deps[d].model : d \in DOMAIN deps} |-> None]
    /\ creds = NoRows
    /\ modelSnap = models /\ depSnap = NoRows
    /\ pc = [a \in Admins |-> "idle"]
    /\ req = [a \in Admins |-> Nothing]
    /\ got = [a \in Admins |-> NoRows]
    /\ covers = [a \in Admins |-> {}]
    /\ passed = {}
    /\ excused = [k \in Kinds |-> FALSE]
    /\ raced = {}

\* The request of a is over: with an answer or with an error.
Over(a) ==
    /\ pc' = [pc EXCEPT ![a] = "idle"]
    /\ req' = [req EXCEPT ![a] = Nothing]
    /\ got' = [got EXCEPT ![a] = NoRows]

Forgotten(a, cov) == [b \in Admins |-> IF b = a THEN {} ELSE cov[b] \ {a}]

-------------------------------------------------------------------------------
\* The first query of a handler finds what it needs.
Found(r) ==
    \/ r.op = "create_model" /\ r.model \notin DOMAIN models
    \/ r.op \in {"update_model", "delete_model"} /\ r.model \in DOMAIN models
    \/ r.op = "create_credential"
    \/ r.op \in {"update_credential", "delete_credential"} /\ r.cred \in DOMAIN creds
    \/ r.op = "create_deployment" /\ r.model \in DOMAIN models /\ models[r.model] = None
    \/ r.op \in {"update_deployment", "delete_deployment"} /\ r.dep \in DOMAIN deps

\* Handlers with a second query, and what it has to find.
ChecksMore(r) ==
    \/ r.op \in {"delete_model", "delete_credential", "create_deployment"}
    \/ r.op = "update_deployment" /\ r.cred \in Credentials

\* Mutant: a credential is deleted without counting its deployments.
Allowed_CredentialInUse(r) ==
    \/ r.op = "delete_model" /\ \A d \in DOMAIN deps : deps[d].model # r.model
    \/ r.op = "delete_credential"
    \/ r.op \in {"create_deployment", "update_deployment"} /\ r.cred \in DOMAIN creds

Allowed(r) ==
    \/ r.op = "delete_model" /\ \A d \in DOMAIN deps : deps[d].model # r.model
    \/ r.op = "delete_credential" /\ \A d \in DOMAIN deps : deps[d].cred # r.cred
    \/ r.op \in {"create_deployment", "update_deployment"} /\ r.cred \in DOMAIN creds

\* Request r makes a deployment refer to what request q deletes.
Conflicts(r, q) ==
    \/ /\ r.op = "create_deployment" /\ q.op = "delete_model"
       /\ r.model = q.model
    \/ /\ r.op \in {"create_deployment", "update_deployment"} /\ q.op = "delete_credential"
       /\ r.cred = q.cred

\* Requests that may still commit.
Pending(a) == pc[a] \in {"check", "commit"}
Others(a) == {req[b] : b \in {c \in Admins \ {a} : Pending(c)}}

\* A handler starts: a request that is refused here changes nothing.
Begin(a, r) ==
    /\ pc[a] = "idle"
    /\ Found(r)
    /\ pc' = [pc EXCEPT ![a] = IF ChecksMore(r) THEN "check" ELSE "commit"]
    /\ req' = [req EXCEPT ![a] = r]
    /\ raced' = raced \cup {q \in Others(a) : Conflicts(r, q)}
                      \cup {q \in {r} : \E p \in Others(a) : Conflicts(p, q)}
    /\ Cardinality(raced') <= MaxRaced
    /\ UNCHANGED <<tables, snapshots, got, covers, passed, excused>>

Check(a) ==
    /\ pc[a] = "check"
    /\ Allowed(req[a])
    /\ pc' = [pc EXCEPT ![a] = "commit"]
    /\ UNCHANGED <<tables, snapshots, req, got, history>>

\* 404 or 409; or the commit fails, on a constraint of the table, on a row that
\* is gone, or on the connection.
Refused(a) ==
    /\ \/ pc[a] = "check" /\ ~Allowed(req[a])
       \/ pc[a] = "commit"
    /\ Over(a)
    /\ UNCHANGED <<tables, snapshots, history>>

-------------------------------------------------------------------------------
\* The commit of each handler.  Most go on to refresh the row they wrote.
Committing(a, op) == pc[a] = "commit" /\ req[a].op = op

ThenRefresh(a) == pc' = [pc EXCEPT ![a] = "refresh"] /\ UNCHANGED <<req, got>>

ThenReload(a) ==
    /\ pc' = [pc EXCEPT ![a] = "reload"]
    /\ req' = [req EXCEPT ![a] = ReloadOf(KindOf(@))]
    /\ UNCHANGED got

create_model_config(a) ==
    /\ Committing(a, "create_model")
    /\ req[a].model \notin DOMAIN models
    /\ models' = With(models, req[a].model, req[a].alias)
    /\ ThenRefresh(a)
    /\ UNCHANGED <<creds, deps, snapshots, history>>

update_model_config(a) ==
    /\ Committing(a, "update_model")
    /\ req[a].model \in DOMAIN models
    /\ models' = With(models, req[a].model, req[a].alias)
    /\ ThenRefresh(a)
    /\ UNCHANGED <<creds, deps, snapshots, history>>

\* Deleting a row that is gone already is no error.
delete_model_config(a) ==
    /\ Committing(a, "delete_model")
    /\ models' = Without(models, req[a].model)
    /\ ThenReload(a)
    /\ UNCHANGED <<creds, deps, snapshots, history>>

\* No reload: no deployment can use the new credential yet.
create_credential(a) ==
    /\ Committing(a, "create_credential")
    /\ req[a].cred \notin DOMAIN creds
    /\ creds' = With(creds, req[a].cred, req[a].secret)
    /\ Over(a)
    /\ UNCHANGED <<models, deps, snapshots, history>>

\* Mutant: a rotated key is not loaded.
update_credential_NoReload(a) ==
    /\ Committing(a, "update_credential")
    /\ req[a].cred \in DOMAIN creds
    /\ creds' = With(creds, req[a].cred, req[a].secret)
    /\ Over(a)
    /\ UNCHANGED <<models, deps, snapshots, history>>

update_credential(a) ==
    /\ Committing(a, "update_credential")
    /\ req[a].cred \in DOMAIN creds
    /\ creds' = With(creds, req[a].cred, req[a].secret)
    /\ ThenRefresh(a)
    /\ UNCHANGED <<models, deps, snapshots, history>>

\* No reload: no deployment uses the credential any more.
delete_credential(a) ==
    /\ Committing(a, "delete_credential")
    /\ creds' = Without(creds, req[a].cred)
    /\ Over(a)
    /\ UNCHANGED <<models, deps, snapshots, history>>

create_deployment(a) ==
    /\ Committing(a, "create_deployment")
    /\ req[a].dep \notin DOMAIN deps
    /\ deps' = With(deps, req[a].dep, [model |-> req[a].model, cred |-> req[a].cred])
    /\ ThenRefresh(a)
    /\ UNCHANGED <<models, creds, snapshots, history>>

\* A null credential_id passes the handler, and the column of an upgraded database.
update_deployment(a) ==
    /\ Committing(a, "update_deployment")
    /\ req[a].dep \in DOMAIN deps
    /\ req[a].cred = None => Upgraded
    /\ deps' = IF req[a].cred = Unset THEN deps
               ELSE With(deps, req[a].dep, [model |-> deps[req[a].dep].model, cred |-> req[a].cred])
    /\ ThenRefresh(a)
    /\ UNCHANGED <<models, creds, snapshots, history>>

delete_deployment(a) ==
    /\ Committing(a, "delete_deployment")
    /\ deps' = Without(deps, req[a].dep)
    /\ ThenReload(a)
    /\ UNCHANGED <<models, creds, snapshots, history>>

Commit(a) ==
    \/ create_model_config(a) \/ update_model_config(a) \/ delete_model_config(a)
    \/ create_credential(a) \/ update_credential(a) \/ delete_credential(a)
    \/ create_deployment(a) \/ update_deployment(a) \/ delete_deployment(a)

-------------------------------------------------------------------------------
\* session.refresh selects the row again: when another request has deleted it,
\* it raises, and the handler ends without a reload.
RowExists(r) ==
    CASE KindOf(r) = "models" -> r.model \in DOMAIN models
      [] r.op = "update_credential" -> r.cred \in DOMAIN creds
      [] OTHER -> r.dep \in DOMAIN deps

Refresh(a) ==
    /\ pc[a] = "refresh"
    /\ RowExists(req[a])
    /\ ThenReload(a)
    /\ UNCHANGED <<tables, snapshots, history>>

RefreshRaises(a) ==
    /\ pc[a] = "refresh"
    /\ ~RowExists(req[a])
    /\ Over(a)
    /\ passed' = passed \ {a}
    /\ covers' = Forgotten(a, covers)
    /\ UNCHANGED <<tables, snapshots, excused, raced>>

-------------------------------------------------------------------------------
\* The requests whose commit no reload of their own has brought in yet.
Owing(kind) ==
    {a \in Admins : pc[a] \in {"refresh", "reload", "reading", "store"} /\ KindOf(req[a]) = kind}

\* History: the reload of a sees every commit that precedes its first query.
Starts(a) ==
    /\ covers' = [covers EXCEPT ![a] = Owing(KindOf(req[a])) \ {a}]
    /\ passed' = passed \ {a}
    /\ UNCHANGED <<excused, raced>>

\* ModelRegistry.reload
ReadModels(a) ==
    /\ pc[a] = "reload" /\ KindOf(req[a]) = "models"
    /\ got' = [got EXCEPT ![a] = models]
    /\ pc' = [pc EXCEPT ![a] = "store"]
    /\ Starts(a)
    /\ UNCHANGED <<tables, snapshots, req>>

\* DeploymentRegistry.reload: first the credentials,
ReadCredentials(a) ==
    /\ pc[a] = "reload" /\ KindOf(req[a]) = "deployments"
    /\ got' = [got EXCEPT ![a] = creds]
    /\ pc' = [pc EXCEPT ![a] = "reading"]
    /\ Starts(a)
    /\ UNCHANGED <<tables, snapshots, req>>

\* Deployments whose credential is missing are not routable.
Routes(someCreds, someDeps) ==
    [d \in {e \in DOMAIN someDeps : someDeps[e].cred \in DOMAIN someCreds} |->
        [model |-> someDeps[d].model, secret |-> someCreds[someDeps[d].cred]]]

\* Mutant: the snapshot gets the rows, not the credentials they refer to.
ReadDeployments_Raw(a) ==
    /\ pc[a] = "reading"
    /\ got' = [got EXCEPT ![a] = deps]
    /\ pc' = [pc EXCEPT ![a] = "store"]
    /\ UNCHANGED <<tables, snapshots, req, history>>

\* ... then the deployments.
ReadDeployments(a) ==
    /\ pc[a] = "reading"
    /\ got' = [got EXCEPT ![a] = Routes(@, deps)]
    /\ pc' = [pc EXCEPT ![a] = "store"]
    /\ UNCHANGED <<tables, snapshots, req, history>>

\* set: the snapshot is replaced, by an older one if a later reload was faster.
Store(a) ==
    /\ pc[a] = "store"
    /\ IF KindOf(req[a]) = "models"
       THEN modelSnap' = got[a] /\ UNCHANGED depSnap
       ELSE depSnap' = got[a] /\ UNCHANGED modelSnap
    /\ Over(a)
    /\ excused' = [excused EXCEPT ![KindOf(req[a])] = a \in passed]
    /\ passed' = (passed \cup covers[a]) \ {a}
    /\ covers' = Forgotten(a, covers)
    /\ UNCHANGED <<tables, raced>>

\* A query of the refresh or of the reload fails: 500, and the snapshot stays.
ReloadFails(a) ==
    /\ pc[a] \in {"refresh", "reload", "reading", "store"}
    /\ Over(a)
    /\ excused' = [excused EXCEPT ![KindOf(req[a])] = @ \/ a \notin passed]
    /\ passed' = (passed \cup {b \in Owing(KindOf(req[a])) : pc[b] \in {"reading", "store"}
                                                       /\ a \notin covers[b]}) \ {a}
    /\ covers' = Forgotten(a, covers)
    /\ UNCHANGED <<tables, snapshots, raced>>

Next ==
    \/ \E a \in Admins, r \in Request : Begin(a, r)
    \/ \E a \in Admins :
          \/ Check(a) \/ Refused(a) \/ Commit(a)
          \/ Refresh(a) \/ RefreshRaises(a)
          \/ ReadModels(a) \/ ReadCredentials(a) \/ ReadDeployments(a) \/ Store(a)
          \/ ReloadFails(a)

Spec == Init /\ [][Next]_vars

-------------------------------------------------------------------------------
\* "delete those first": a model or a credential that a deployment refers to is
\* not deleted, whatever the other administrators do meanwhile.  The check and
\* the deletion are awaited one after the other: if a deployment is given the
\* reference during a deletion, this one may be lost, and no other.  A null
\* reference exists in an upgraded database only.
ReferencesHold ==
    \A d \in DOMAIN deps :
        LET m == deps[d].model
            c == deps[d].cred
        IN  /\ m \in DOMAIN models \/ [op |-> "delete_model", model |-> m] \in raced
            /\ \/ c \in DOMAIN creds \/ [op |-> "delete_credential", cred |-> c] \in raced
               \/ c = None /\ Upgraded

\* Once the requests for a registry are answered, the process routes by what
\* the tables say, whatever failed and however the requests interleaved - even
\* though creating and deleting a credential reload nothing, and a reload reads
\* two tables at two moments - unless a reload failed or the last to come in was
\* one whose request another reload, that overlapped, had served already
\* (excused), or a reference was added while its target was being deleted
\* (raced).
SnapshotsFresh ==
    /\ Owing("models") = {} /\ ~excused["models"] => modelSnap = models
    /\ Owing("deployments") = {} /\ ~excused["deployments"] /\ raced = {} =>
          depSnap = Routes(creds, deps)
===============================================================================
