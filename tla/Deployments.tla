---------------------------- MODULE Deployments ----------------------------
(***************************************************************************)
(* The life of deployments in the orchestrator                              *)
(* (orchestrator/internal/deployment and internal/kube/deploy.go): a row in *)
(* Postgres, a workload and an internal Service in the cluster, the calls   *)
(* that make and remove them one request after the other, and the sweep     *)
(* that every replica of the orchestrator runs to put the two back into     *)
(* agreement.                                                               *)
(*                                                                          *)
(* Each call of Deploy has the id it mints.  A Service is modelled by the   *)
(* deployment it selects; every deployment here is one that others reach    *)
(* (without an HTTP source there is neither slug nor Service, and nothing   *)
(* that depends on them).  The objects named from the id (ConfigMap, token  *)
(* Secret, Service, endpoint) are left out; so are Scale and Rollout, which *)
(* make and remove neither rows nor workloads.                              *)
(***************************************************************************)
EXTENDS Naturals

CONSTANTS
    Deploys,        \* the calls of Deploy
    NoDeploy,
    Slugs,
    NoSlug,
    Sweepers,       \* the replicas of the orchestrator
    MaxFaults       \* how many times something goes wrong: see Fault

ASSUME DeploymentsAssumption ==
    /\ NoDeploy \notin Deploys /\ NoSlug \notin Slugs
    /\ MaxFaults \in Nat

VARIABLES
    rows,       \* the deployments that have a row
    fresh,      \* those whose row was touched within reconcileGrace
    slug,       \* the slug of each deployment
    workloads,  \* the deployments that have a workload in the cluster
    service,    \* the deployment that octo-int-{slug} selects
    informed,   \* the workloads in the informer cache
    deploy,     \* how far each call of Deploy is
    undeploy,   \* how far a call of Undeploy is
    sweep,      \* how far each sweeper is
    live,       \* the workloads a sweep has listed; later, those among them that no row names
    todo,       \* the deployments it has still to deal with, in the loop it is in
    target,     \* the deployment whose row it is removing
    contended,  \* the slugs taken while a Service or a call under them was still around
    faults

table == <<rows, fresh>>
cluster == <<workloads, service>>
sweeping == <<sweep, live, todo, target>>
vars == <<table, slug, cluster, informed, deploy, undeploy, sweeping, contended, faults>>

Init ==
    /\ rows = {} /\ fresh = {} /\ slug = [d \in Deploys |-> NoSlug]
    /\ workloads = {} /\ service = [s \in Slugs |-> NoDeploy] /\ informed = {}
    /\ deploy = [d \in Deploys |-> "idle"] /\ undeploy = [d \in Deploys |-> "idle"]
    /\ sweep = [w \in Sweepers |-> "idle"]
    /\ live = [w \in Sweepers |-> {}]
    /\ todo = [w \in Sweepers |-> {}] /\ target = [w \in Sweepers |-> NoDeploy]
    /\ contended = {} /\ faults = 0

\* A request that fails, a call that is cut off, a cluster that is rebuilt.  What fails a
\* Deploy may last through its rollback: that is one fault.
Fault == faults < MaxFaults /\ faults' = faults + 1
NoFault == UNCHANGED faults
Count(succeeds) == IF succeeds THEN NoFault ELSE Fault

----------------------------------------------------------------------------
(* The requests *)

\* Client.Delete: it may fail before the workload is gone, or after.
DeleteWorkload(d, succeeds) ==
    \/ workloads' = workloads \ {d}
    \/ ~succeeds /\ UNCHANGED workloads

\* Client.DeleteInternalService, by name: whoever the Service selects.
DeleteInternalService(s, succeeds) ==
    IF succeeds THEN service' = [x \in Slugs |-> IF x = s THEN NoDeploy ELSE service[x]]
                ELSE s # NoSlug /\ UNCHANGED service

\* Repo.Delete of a row that is there.
DeleteRow(d) ==
    /\ d \in rows
    /\ rows' = rows \ {d} /\ fresh' = fresh \ {d}

\* Repo.Delete fails, or the row is gone already.
KeepRow(d) ==
    /\ IF d \in rows THEN Fault ELSE NoFault
    /\ UNCHANGED table

----------------------------------------------------------------------------
(* Deploy *)

To(d, l) == deploy' = [deploy EXCEPT ![d] = l]

\* No row has the slug.
Free(s) == \A e \in rows : slug[e] # s

\* The calls that have still to do with the Service of slug s.
Pending(s) ==
    \/ \E e \in Deploys : slug[e] = s /\ deploy[e] \notin {"idle", "up", "over"}
    \/ \E e \in Deploys : slug[e] = s /\ undeploy[e] # "idle"
    \/ \E w \in Sweepers : sweep[w] = "service" /\ slug[target[w]] = s

\* Mutant of Resolve: the slug is taken as it was asked for.
ResolveUnchecked(d) ==
    /\ deploy[d] = "idle"
    /\ \E s \in Slugs : slug' = [slug EXCEPT ![d] = s]
    /\ To(d, "row")
    /\ UNCHANGED <<table, cluster, informed, undeploy, sweeping, contended, faults>>

\* Deploy up to the row: the slug is chosen or allocated, and no row has it.
Resolve(d) ==
    /\ deploy[d] = "idle"
    /\ \E s \in Slugs :
          /\ Free(s)
          /\ slug' = [slug EXCEPT ![d] = s]
          /\ contended' = IF service[s] # NoDeploy \/ Pending(s) THEN contended \cup {s}
                                                                ELSE contended
    /\ To(d, "row")
    /\ UNCHANGED <<table, cluster, informed, undeploy, sweeping, faults>>

\* Repo.Create, or its failure.
CreateRow(d) ==
    /\ deploy[d] = "row"
    /\ \/ /\ rows' = rows \cup {d} /\ fresh' = fresh \cup {d}
          /\ To(d, "apply") /\ NoFault
       \/ To(d, "over") /\ UNCHANGED table /\ Fault
    /\ UNCHANGED <<slug, cluster, informed, undeploy, sweeping, contended>>

\* Apply: the workload.  Or its failure, or that of identityFor before it.
ApplyWorkload(d) ==
    /\ deploy[d] = "apply"
    /\ \/ workloads' = workloads \cup {d} /\ To(d, "ensure") /\ NoFault
       \/ To(d, "undo") /\ UNCHANGED workloads /\ Fault
       \/ To(d, "undoRow") /\ UNCHANGED workloads /\ Fault
    /\ UNCHANGED <<table, slug, service, informed, undeploy, sweeping, contended>>

\* Apply: ensureInternalService, content with one that exists; then the endpoint,
\* and applyRefresh, which touches the row if it finds the status changed.
ApplyService(d) ==
    /\ deploy[d] = "ensure"
    /\ service' = [s \in Slugs |-> IF s = slug[d] /\ service[s] = NoDeploy THEN d ELSE service[s]]
    /\ \/ /\ To(d, "up") /\ NoFault
          /\ fresh' \in {fresh, fresh \cup ({d} \cap rows)}
       \/ To(d, "undo") /\ UNCHANGED fresh /\ Fault
    /\ UNCHANGED <<rows, slug, workloads, informed, undeploy, sweeping, contended>>

\* Apply: a request fails before the Service.
ApplyFails(d) ==
    /\ deploy[d] = "ensure" /\ To(d, "undo") /\ Fault
    /\ UNCHANGED <<table, slug, cluster, informed, undeploy, sweeping, contended>>

\* The rollback: what is left of it is done whether or not a part fails.
UndoWorkload(d) ==
    /\ deploy[d] = "undo"
    /\ \E ok \in BOOLEAN : DeleteWorkload(d, ok)
    /\ To(d, "undoService")
    /\ UNCHANGED <<table, slug, service, informed, undeploy, sweeping, contended, faults>>

UndoService(d) ==
    /\ deploy[d] = "undoService"
    /\ \E ok \in BOOLEAN : DeleteInternalService(slug[d], ok)
    /\ To(d, "undoRow")
    /\ UNCHANGED <<table, slug, workloads, informed, undeploy, sweeping, contended, faults>>

UndoRow(d) ==
    /\ deploy[d] = "undoRow"
    /\ DeleteRow(d) \/ UNCHANGED table
    /\ To(d, "over")
    /\ UNCHANGED <<slug, cluster, informed, undeploy, sweeping, contended, faults>>

----------------------------------------------------------------------------
(* Undeploy *)

\* Undeploy finds the row.
Undeploy(d) ==
    /\ undeploy[d] = "idle" /\ d \in rows
    /\ undeploy' = [undeploy EXCEPT ![d] = "workload"]
    /\ UNCHANGED <<table, slug, cluster, informed, deploy, sweeping, contended, faults>>

\* The workload first; if that fails, the row stays.
UndeployWorkload(d) ==
    /\ undeploy[d] = "workload"
    /\ \E ok \in BOOLEAN :
          /\ DeleteWorkload(d, ok) /\ Count(ok)
          /\ undeploy' = [undeploy EXCEPT ![d] = IF ok THEN "row" ELSE "idle"]
    /\ UNCHANGED <<table, slug, service, informed, deploy, sweeping, contended>>

UndeployRow(d) ==
    /\ undeploy[d] = "row"
    /\ \/ DeleteRow(d) /\ undeploy' = [undeploy EXCEPT ![d] = "service"] /\ NoFault
       \/ KeepRow(d) /\ undeploy' = [undeploy EXCEPT ![d] = "idle"]
    /\ UNCHANGED <<slug, cluster, informed, deploy, sweeping, contended>>

\* The Service last, and the entries of the stores, as well as they go.
UndeployService(d) ==
    /\ undeploy[d] = "service"
    /\ \E ok \in BOOLEAN : DeleteInternalService(slug[d], ok) /\ Count(ok)
    /\ undeploy' = [undeploy EXCEPT ![d] = "idle"]
    /\ UNCHANGED <<table, slug, workloads, informed, deploy, sweeping, contended>>

----------------------------------------------------------------------------
(* Reconcile *)

Sweeps(w, l) == sweep' = [sweep EXCEPT ![w] = l]

\* Mutant of ListWorkloads: a managed workload without a deployment's label counts as one.
ListUnlabelled(w) ==
    /\ sweep[w] = "idle"
    /\ \E seen \in {informed, workloads} : live' = [live EXCEPT ![w] = seen \cup {NoDeploy}]
    /\ Sweeps(w, "list")
    /\ UNCHANGED <<table, slug, cluster, informed, deploy, undeploy, todo, target,
                   contended, faults>>

\* DeploymentIDs: from the informer cache, or from the server when the cache is not synced;
\* a workload without the label is passed over.
ListWorkloads(w) ==
    /\ sweep[w] = "idle"
    /\ \E seen \in {informed, workloads} : live' = [live EXCEPT ![w] = seen]
    /\ Sweeps(w, "list")
    /\ UNCHANGED <<table, slug, cluster, informed, deploy, undeploy, todo, target,
                   contended, faults>>

\* Mutant of Orphans: a row is as good as its workload from the start.
OrphansAtOnce(w) == rows \ live[w]

\* The rows a sweep looks into: no workload listed, and not touched lately.
Orphans(w) == rows \ (live[w] \cup fresh)

\* ListAll.
ListRows(w) ==
    /\ sweep[w] = "list"
    /\ live' = [live EXCEPT ![w] = @ \ rows]
    /\ todo' = [todo EXCEPT ![w] = Orphans(w)]
    /\ Sweeps(w, "rows")
    /\ UNCHANGED <<table, slug, cluster, informed, deploy, undeploy, target, contended, faults>>

\* DeploymentExists: the workload is asked for by name before the row goes.
Confirm(w, d) ==
    /\ sweep[w] = "rows" /\ d \in todo[w]
    /\ todo' = [todo EXCEPT ![w] = @ \ {d}]
    /\ \/ /\ d \notin workloads
          /\ target' = [target EXCEPT ![w] = d] /\ Sweeps(w, "row") /\ NoFault
       \/ /\ IF d \in workloads THEN NoFault ELSE Fault
          /\ UNCHANGED <<target, sweep>>
    /\ UNCHANGED <<table, slug, cluster, informed, deploy, undeploy, live, contended>>

\* removeOrphanedRow: the row, unless somebody else removed it,
SweepRow(w) ==
    /\ sweep[w] = "row"
    /\ \/ DeleteRow(target[w]) /\ Sweeps(w, "service") /\ NoFault /\ UNCHANGED target
       \/ /\ KeepRow(target[w])
          /\ Sweeps(w, "rows") /\ target' = [target EXCEPT ![w] = NoDeploy]
    /\ UNCHANGED <<slug, cluster, informed, deploy, undeploy, live, todo, contended>>

\* and the Service and the entries of the stores, as well as they go.
SweepService(w) ==
    /\ sweep[w] = "service"
    /\ \E ok \in BOOLEAN : DeleteInternalService(slug[target[w]], ok) /\ Count(ok)
    /\ Sweeps(w, "rows") /\ target' = [target EXCEPT ![w] = NoDeploy]
    /\ UNCHANGED <<table, slug, workloads, informed, deploy, undeploy, live, todo, contended>>

\* On to the workloads that no row names.
RowsSwept(w) ==
    /\ sweep[w] = "rows" /\ todo[w] = {}
    /\ todo' = [todo EXCEPT ![w] = live[w]] /\ live' = [live EXCEPT ![w] = {}]
    /\ Sweeps(w, "workloads")
    /\ UNCHANGED <<table, slug, cluster, informed, deploy, undeploy, target, contended, faults>>

SweepWorkload(w, d) ==
    /\ sweep[w] = "workloads" /\ d \in todo[w]
    /\ \E ok \in BOOLEAN : DeleteWorkload(d, ok) /\ Count(ok)
    /\ todo' = [todo EXCEPT ![w] = @ \ {d}]
    /\ UNCHANGED <<table, slug, service, informed, deploy, undeploy, sweep, live, target,
                   contended>>

\* The sweep is over, at its end or because it is cut off.
EndSweep(w) ==
    /\ Sweeps(w, "idle")
    /\ live' = [live EXCEPT ![w] = {}]
    /\ todo' = [todo EXCEPT ![w] = {}] /\ target' = [target EXCEPT ![w] = NoDeploy]
    /\ UNCHANGED <<table, slug, cluster, informed, deploy, undeploy, contended>>

\* Mutant of Swept: the sweep at startup is the only one.
SweptForGood(w) == sweep[w] = "workloads" /\ todo[w] = {} /\ UNCHANGED vars

\* The next sweep is the ticker's.
Swept(w) == sweep[w] = "workloads" /\ todo[w] = {} /\ EndSweep(w) /\ NoFault

----------------------------------------------------------------------------
(* The world *)

\* The context of a call ends or its replica dies: nothing more of it is done, the rollback
\* neither.
CutDeploy(d) ==
    /\ deploy[d] \notin {"idle", "up", "over"} /\ Fault
    /\ To(d, "over")
    /\ UNCHANGED <<table, slug, cluster, informed, undeploy, sweeping, contended>>

CutUndeploy(d) ==
    /\ undeploy[d] # "idle" /\ Fault
    /\ undeploy' = [undeploy EXCEPT ![d] = "idle"]
    /\ UNCHANGED <<table, slug, cluster, informed, deploy, sweeping, contended>>

CutSweep(w) == sweep[w] # "idle" /\ EndSweep(w) /\ Fault

\* The cluster is rebuilt, empty.
Rebuild ==
    /\ workloads # {} /\ Fault
    /\ workloads' = {} /\ service' = [s \in Slugs |-> NoDeploy]
    /\ UNCHANGED <<table, slug, informed, deploy, undeploy, sweeping, contended>>

\* reconcileGrace passes.  It is longer than a deploy takes from its row to its workload.
Age(d) ==
    /\ d \in fresh /\ deploy[d] # "apply"
    /\ fresh' = fresh \ {d}
    /\ UNCHANGED <<rows, slug, cluster, informed, deploy, undeploy, sweeping, contended,
                   faults>>

\* The informers catch up.
Inform ==
    /\ informed # workloads
    /\ informed' = workloads
    /\ UNCHANGED <<table, slug, cluster, deploy, undeploy, sweeping, contended, faults>>

----------------------------------------------------------------------------

DeployStep(d) ==
    \/ CreateRow(d) \/ ApplyWorkload(d) \/ ApplyService(d) \/ ApplyFails(d)
    \/ UndoWorkload(d) \/ UndoService(d) \/ UndoRow(d)
UndeployStep(d) == UndeployWorkload(d) \/ UndeployRow(d) \/ UndeployService(d)
SweepStep(w) ==
    \/ ListWorkloads(w) \/ ListRows(w) \/ SweepRow(w) \/ SweepService(w) \/ RowsSwept(w) \/ Swept(w)
    \/ \E d \in Deploys : Confirm(w, d) \/ SweepWorkload(w, d)

Next ==
    \/ \E d \in Deploys : Resolve(d) \/ DeployStep(d) \/ Undeploy(d) \/ UndeployStep(d)
    \/ \E w \in Sweepers : SweepStep(w) \/ CutSweep(w)
    \/ \E d \in Deploys : CutDeploy(d) \/ CutUndeploy(d) \/ Age(d)
    \/ Rebuild \/ Inform

Spec == Init /\ [][Next]_vars

\* Requests are answered, every replica sweeps again and again, time passes and the informers
\* catch up.  Nobody has to deploy, undeploy or look.
Fairness ==
    /\ \A d \in Deploys : WF_vars(DeployStep(d)) /\ WF_vars(UndeployStep(d)) /\ WF_vars(Age(d))
    /\ \A w \in Sweepers : WF_vars(SweepStep(w))
    /\ WF_vars(Inform)

FairSpec == Spec /\ Fairness

----------------------------------------------------------------------------
(* Properties *)

\* The kinds of values: what a sweep lists and works through are deployments, and what it
\* says of rows is said of rows that are there.
TypeOK ==
    /\ rows \subseteq Deploys /\ fresh \subseteq rows
    /\ slug \in [Deploys -> Slugs \cup {NoSlug}]
    /\ workloads \subseteq Deploys /\ informed \subseteq Deploys
    /\ service \in [Slugs -> Deploys \cup {NoDeploy}]
    /\ deploy \in [Deploys -> {"idle", "row", "apply", "ensure", "up",
                               "undo", "undoService", "undoRow", "over"}]
    /\ undeploy \in [Deploys -> {"idle", "workload", "row", "service"}]
    /\ sweep \in [Sweepers -> {"idle", "list", "rows", "row", "service", "workloads"}]
    /\ {live, todo} \subseteq [Sweepers -> SUBSET Deploys]
    /\ target \in [Sweepers -> Deploys \cup {NoDeploy}]
    /\ contended \subseteq Slugs /\ faults \in 0..MaxFaults

\* Reconcile: the order of its two listings, the grace and the second opinion (reconcile.go
\* 54-118, "What it does not do is guess").  A sweep about to delete a row, or a workload,
\* deletes no deployment that has both, whatever was deployed since it listed them.
SweepSparesDeployments ==
    \A w \in Sweepers :
        /\ sweep[w] = "row" => target[w] \notin workloads
        /\ sweep[w] = "workloads" => todo[w] \cap rows = {}

\* Deploy, ensureInternalService: a deployment that is up, until its row or its workload is
\* gone, is behind its own internal Service, unless its slug was taken while the Service, or a
\* call, of an earlier one was around.
AddressIsOwn ==
    \A d \in rows \cap workloads :
        deploy[d] = "up" /\ slug[d] \in Slugs \ contended => service[slug[d]] = d


\* Reconcile: rows and workloads come to agree, whatever was cut off, failed or rebuilt.
ComesToAgree == <>[](rows = workloads)
============================================================================
