-------------------------- MODULE DeploymentsProofs --------------------------
(***************************************************************************)
(* Proofs about Deployments, for every set of deployments and slugs, any    *)
(* number of orchestrator replicas and any number of faults.                *)
(*                                                                          *)
(* Inv says how far a deployment must have come to be known to a table, to  *)
(* the cluster or to a sweep, and that the calls which may touch a Service  *)
(* whose slug is not contended are all on behalf of one deployment.         *)
(***************************************************************************)
EXTENDS Deployments, TLAPS

\* Deploy has not written its row yet, or not applied its workload.
BeforeRow == {"idle", "row"}
BeforeWorkload == {"idle", "row", "apply"}

\* What has a row, a workload or a call of Undeploy has been through Deploy's row, and a row
\* whose workload Deploy has still to make is too young to be swept.
RowInv ==
    /\ \A d \in rows : deploy[d] \notin BeforeRow /\ (deploy[d] = "apply" => d \in fresh)
    /\ \A d \in workloads \cup informed : deploy[d] \notin BeforeRow
    /\ \A d \in Deploys : undeploy[d] # "idle" => deploy[d] \notin BeforeRow
    /\ \A d \in Deploys : undeploy[d] = "service" => d \notin rows
    /\ \A d \in Deploys : deploy[d] # "idle" => slug[d] \in Slugs

\* What a sweep has in hand, by the loop it is in.
SweepInv ==
    \A w \in Sweepers :
        /\ sweep[w] = "row" => /\ target[w] \in Deploys \ workloads
                               /\ deploy[target[w]] \notin BeforeWorkload
        /\ sweep[w] = "service" => /\ target[w] \in Deploys \ rows
                                   /\ deploy[target[w]] \notin BeforeRow
        /\ sweep[w] \in {"rows", "row", "service"} =>
               /\ \A d \in todo[w] : deploy[d] \notin BeforeWorkload
               /\ live[w] \cap rows = {}
        /\ \A d \in live[w] : deploy[d] \notin BeforeRow
        /\ sweep[w] = "workloads" => \A d \in todo[w] : deploy[d] \notin BeforeRow /\ d \notin rows

\* A Service selects a deployment that has its slug.
ServiceInv ==
    \A s \in Slugs : service[s] # NoDeploy =>
        slug[service[s]] = s /\ deploy[service[s]] \notin BeforeRow

\* Deployment d may yet do something to the Service of its slug, or is behind it.
Active(d) ==
    \/ d \in rows
    \/ deploy[d] \notin {"idle", "up", "over"} \/ undeploy[d] # "idle"
    \/ \E w \in Sweepers : sweep[w] = "service" /\ target[w] = d
    \/ \E s \in Slugs : service[s] = d

\* A slug that is not contended is one deployment's.
SlugInv ==
    \A d, e \in Deploys :
        slug[d] = slug[e] /\ slug[d] \in Slugs \ contended /\ Active(d) /\ Active(e) => d = e

Inv == TypeOK /\ RowInv /\ SweepInv /\ ServiceInv /\ SlugInv /\ AddressIsOwn

----------------------------------------------------------------------------
LEMMA InitInv == Init => Inv
<1> SUFFICES ASSUME Init PROVE Inv
  OBVIOUS
<1>1. TypeOK
  BY DeploymentsAssumption DEF Init, TypeOK
<1>2. RowInv /\ SweepInv /\ ServiceInv /\ AddressIsOwn
  BY DEF Init, RowInv, SweepInv, ServiceInv, AddressIsOwn
<1>3. SlugInv
  BY DeploymentsAssumption DEF Init, SlugInv
<1> QED BY <1>1, <1>2, <1>3 DEF Inv

\* The kinds of values survive every step.
LEMMA TypeStep == TypeOK /\ [Next]_vars => TypeOK'
<1> SUFFICES ASSUME TypeOK, [Next]_vars PROVE TypeOK'
  OBVIOUS
<1> USE DeploymentsAssumption DEF TypeOK, table, cluster, sweeping
<1>1. ASSUME NEW d \in Deploys, Resolve(d) PROVE TypeOK'
  BY <1>1 DEF Resolve, To
<1>2. ASSUME NEW d \in Deploys, DeployStep(d) PROVE TypeOK'
  <2>1. CASE CreateRow(d)
    BY <2>1 DEF CreateRow, To, Fault, NoFault
  <2>2. CASE ApplyWorkload(d)
    BY <2>2 DEF ApplyWorkload, To, Fault, NoFault
  <2>3. CASE ApplyService(d)
    BY <2>3 DEF ApplyService, To, Fault, NoFault
  <2>4. CASE ApplyFails(d)
    BY <2>4 DEF ApplyFails, To, Fault, NoFault
  <2>5. CASE UndoWorkload(d)
    BY <2>5 DEF UndoWorkload, DeleteWorkload, To
  <2>6. CASE UndoService(d)
    BY <2>6 DEF UndoService, DeleteInternalService, To
  <2>7. CASE UndoRow(d)
    BY <2>7 DEF UndoRow, DeleteRow, To
  <2> QED BY <1>2, <2>1, <2>2, <2>3, <2>4, <2>5, <2>6, <2>7 DEF DeployStep
<1>3. ASSUME NEW d \in Deploys, Undeploy(d) \/ UndeployStep(d) PROVE TypeOK'
  BY <1>3 DEF Undeploy, UndeployStep, UndeployWorkload, UndeployRow, UndeployService,
              DeleteWorkload, DeleteRow, KeepRow, DeleteInternalService, Count, Fault, NoFault
<1>4. ASSUME NEW w \in Sweepers, SweepStep(w) PROVE TypeOK'
  <2>1. CASE ListWorkloads(w)
    BY <2>1 DEF ListWorkloads, Sweeps
  <2>2. CASE ListRows(w)
    BY <2>2 DEF ListRows, Orphans, Sweeps
  <2>3. CASE SweepRow(w)
    BY <2>3 DEF SweepRow, DeleteRow, KeepRow, Sweeps, Fault, NoFault
  <2>4. CASE SweepService(w)
    BY <2>4 DEF SweepService, DeleteInternalService, Sweeps, Count, Fault, NoFault
  <2>5. CASE RowsSwept(w)
    BY <2>5 DEF RowsSwept, Sweeps
  <2>6. CASE Swept(w)
    BY <2>6 DEF Swept, EndSweep, Sweeps, NoFault
  <2>7. ASSUME NEW d \in Deploys, Confirm(w, d) PROVE TypeOK'
    BY <2>7 DEF Confirm, Sweeps, Fault, NoFault
  <2>8. ASSUME NEW d \in Deploys, SweepWorkload(w, d) PROVE TypeOK'
    BY <2>8 DEF SweepWorkload, DeleteWorkload, Count, Fault, NoFault
  <2> QED BY <1>4, <2>1, <2>2, <2>3, <2>4, <2>5, <2>6, <2>7, <2>8 DEF SweepStep
<1>5. ASSUME NEW w \in Sweepers, CutSweep(w) PROVE TypeOK'
  BY <1>5 DEF CutSweep, EndSweep, Sweeps, Fault
<1>6. ASSUME NEW d \in Deploys, CutDeploy(d) \/ CutUndeploy(d) \/ Age(d) PROVE TypeOK'
  BY <1>6 DEF CutDeploy, CutUndeploy, Age, To, Fault
<1>7. CASE Rebuild \/ Inform
  BY <1>7 DEF Rebuild, Inform, Fault
<1>8. CASE UNCHANGED vars
  BY <1>8 DEF vars
<1> QED BY <1>1, <1>2, <1>3, <1>4, <1>5, <1>6, <1>7, <1>8 DEF Next

\* Rows, workloads and the calls on them.
LEMMA RowStep == Inv /\ [Next]_vars => RowInv'
<1> SUFFICES ASSUME Inv, [Next]_vars PROVE RowInv'
  OBVIOUS
<1> USE DEF Inv, TypeOK, RowInv, BeforeRow, table, cluster, sweeping
<1>1. ASSUME NEW d \in Deploys, Resolve(d) PROVE RowInv'
  BY <1>1 DEF Resolve, To
<1>2. ASSUME NEW d \in Deploys, DeployStep(d) PROVE RowInv'
  <2>1. CASE CreateRow(d)
    <3>1. undeploy[d] = "idle"
      BY <2>1 DEF CreateRow
    <3> QED BY <2>1, <3>1 DEF CreateRow, To
  <2>2. CASE ApplyWorkload(d)
    BY <2>2 DEF ApplyWorkload, To
  <2>3. CASE ApplyService(d) \/ ApplyFails(d)
    BY <2>3 DEF ApplyService, ApplyFails, To
  <2>4. CASE UndoWorkload(d) \/ UndoService(d)
    BY <2>4 DEF UndoWorkload, UndoService, DeleteWorkload, To
  <2>5. CASE UndoRow(d)
    BY <2>5 DEF UndoRow, DeleteRow, To
  <2> QED BY <1>2, <2>1, <2>2, <2>3, <2>4, <2>5 DEF DeployStep
<1>3. ASSUME NEW d \in Deploys, Undeploy(d) \/ UndeployStep(d) PROVE RowInv'
  BY <1>3 DEF Undeploy, UndeployStep, UndeployWorkload, UndeployRow, UndeployService,
              DeleteWorkload, DeleteRow, KeepRow
<1>4. ASSUME NEW w \in Sweepers, SweepStep(w) PROVE RowInv'
  BY <1>4 DEF SweepStep, ListWorkloads, ListRows, SweepRow, SweepService, RowsSwept, Swept,
              EndSweep, Confirm, SweepWorkload, DeleteRow, KeepRow, DeleteWorkload
<1>5. ASSUME NEW w \in Sweepers, CutSweep(w) PROVE RowInv'
  BY <1>5 DEF CutSweep, EndSweep
<1>6. ASSUME NEW d \in Deploys, CutDeploy(d) \/ CutUndeploy(d) \/ Age(d) PROVE RowInv'
  BY <1>6 DEF CutDeploy, CutUndeploy, Age, To
<1>7. CASE Rebuild \/ Inform
  BY <1>7 DEF Rebuild, Inform
<1>8. CASE UNCHANGED vars
  BY <1>8 DEF vars
<1> QED BY <1>1, <1>2, <1>3, <1>4, <1>5, <1>6, <1>7, <1>8 DEF Next

\* A sweep that takes no step of its own has nothing in hand that a call could make good
\* again: the calls that could are behind what it has in hand.
LEMMA SweepUndisturbed ==
    ASSUME Inv, UNCHANGED sweeping,
           \A d \in Deploys : deploy[d] \notin BeforeRow => deploy'[d] \notin BeforeRow,
           \A d \in Deploys : deploy[d] \notin BeforeWorkload => deploy'[d] \notin BeforeWorkload,
           \A d \in rows' \ rows : deploy[d] \in BeforeRow,
           \A d \in workloads' \ workloads : deploy[d] \in BeforeWorkload
    PROVE  SweepInv'
<1> SUFFICES ASSUME NEW w \in Sweepers
             PROVE  /\ sweep[w] = "row" => /\ target[w] \in Deploys \ workloads'
                                           /\ deploy'[target[w]] \notin BeforeWorkload
                    /\ sweep[w] = "service" => /\ target[w] \in Deploys \ rows'
                                               /\ deploy'[target[w]] \notin BeforeRow
                    /\ sweep[w] \in {"rows", "row", "service"} =>
                           /\ \A d \in todo[w] : deploy'[d] \notin BeforeWorkload
                           /\ live[w] \cap rows' = {}
                    /\ \A d \in live[w] : deploy'[d] \notin BeforeRow
                    /\ sweep[w] = "workloads" =>
                           \A d \in todo[w] : deploy'[d] \notin BeforeRow /\ d \notin rows'
  BY DEF SweepInv, sweeping
<1>1. live[w] \subseteq Deploys /\ todo[w] \subseteq Deploys
  BY DEF Inv, TypeOK
<1> QED BY <1>1 DEF Inv, SweepInv

\* What the sweeps have in hand.
LEMMA SweepInvStep == Inv /\ [Next]_vars => SweepInv'
<1> SUFFICES ASSUME Inv, [Next]_vars PROVE SweepInv'
  OBVIOUS
<1> USE DEF Inv, TypeOK, table, cluster
<1>1. ASSUME NEW d \in Deploys, Resolve(d) PROVE SweepInv'
  BY <1>1, SweepUndisturbed DEF Resolve, To, BeforeRow, BeforeWorkload
<1>2. ASSUME NEW d \in Deploys, DeployStep(d) PROVE SweepInv'
  <2>1. CASE CreateRow(d)
    BY <2>1, SweepUndisturbed DEF CreateRow, To, BeforeRow, BeforeWorkload
  <2>2. CASE ApplyWorkload(d)
    BY <2>2, SweepUndisturbed DEF ApplyWorkload, To, BeforeRow, BeforeWorkload
  <2>3. CASE ApplyService(d) \/ ApplyFails(d)
    BY <2>3, SweepUndisturbed DEF ApplyService, ApplyFails, To, BeforeRow, BeforeWorkload
  <2>4. CASE UndoWorkload(d) \/ UndoService(d)
    BY <2>4, SweepUndisturbed
    DEF UndoWorkload, UndoService, DeleteWorkload, To, BeforeRow, BeforeWorkload
  <2>5. CASE UndoRow(d)
    BY <2>5, SweepUndisturbed DEF UndoRow, DeleteRow, KeepRow, To, BeforeRow, BeforeWorkload
  <2> QED BY <1>2, <2>1, <2>2, <2>3, <2>4, <2>5 DEF DeployStep
<1>3. ASSUME NEW d \in Deploys, Undeploy(d) \/ UndeployStep(d) PROVE SweepInv'
  BY <1>3, SweepUndisturbed
  DEF Undeploy, UndeployStep, UndeployWorkload, UndeployRow, UndeployService,
      DeleteWorkload, DeleteRow, KeepRow
<1>4. ASSUME NEW w \in Sweepers, SweepStep(w) PROVE SweepInv'
  <2> USE DEF SweepInv, Sweeps
  <2>1. CASE ListWorkloads(w)
    BY <2>1 DEF ListWorkloads, RowInv
  <2>2. CASE ListRows(w)
    <3>1. \A d \in rows \ fresh : deploy[d] \notin BeforeWorkload
      BY DEF RowInv, BeforeRow, BeforeWorkload
    <3>2. live'[w] = live[w] \ rows /\ todo'[w] = rows \ (live[w] \cup fresh) /\ sweep'[w] = "rows"
      BY <2>2 DEF ListRows, Orphans
    <3>3. \A v \in Sweepers \ {w} :
             live'[v] = live[v] /\ todo'[v] = todo[v] /\ sweep'[v] = sweep[v]
      BY <2>2 DEF ListRows, Orphans
    <3>4. UNCHANGED <<rows, workloads, deploy, target>>
      BY <2>2 DEF ListRows
    <3> QED BY <3>1, <3>2, <3>3, <3>4
  <2>3. CASE SweepRow(w)
    BY <2>3 DEF SweepRow, DeleteRow, KeepRow, BeforeRow, BeforeWorkload
  <2>4. CASE SweepService(w)
    BY <2>4 DEF SweepService
  <2>5. CASE RowsSwept(w)
    BY <2>5 DEF RowsSwept
  <2>6. CASE Swept(w)
    BY <2>6 DEF Swept, EndSweep
  <2>7. ASSUME NEW d \in Deploys, Confirm(w, d) PROVE SweepInv'
    BY <2>7 DEF Confirm
  <2>8. ASSUME NEW d \in Deploys, SweepWorkload(w, d) PROVE SweepInv'
    BY <2>8 DEF SweepWorkload, DeleteWorkload
  <2> QED BY <1>4, <2>1, <2>2, <2>3, <2>4, <2>5, <2>6, <2>7, <2>8 DEF SweepStep
<1>5. ASSUME NEW w \in Sweepers, CutSweep(w) PROVE SweepInv'
  BY <1>5 DEF CutSweep, EndSweep, SweepInv, Sweeps
<1>6. ASSUME NEW d \in Deploys, CutDeploy(d) \/ CutUndeploy(d) \/ Age(d) PROVE SweepInv'
  BY <1>6, SweepUndisturbed DEF CutDeploy, CutUndeploy, Age, To, BeforeRow, BeforeWorkload
<1>7. CASE Rebuild \/ Inform
  BY <1>7, SweepUndisturbed DEF Rebuild, Inform
<1>8. CASE UNCHANGED vars
  BY <1>8, SweepUndisturbed DEF vars
<1> QED BY <1>1, <1>2, <1>3, <1>4, <1>5, <1>6, <1>7, <1>8 DEF Next

\* A Service comes into being for the deployment that has its slug, and only goes otherwise.
LEMMA ServiceStep == Inv /\ [Next]_vars => ServiceInv'
<1> SUFFICES ASSUME Inv, [Next]_vars PROVE ServiceInv'
  OBVIOUS
<1> USE DEF Inv, TypeOK, ServiceInv, BeforeRow, table, cluster, sweeping
<1>1. ASSUME \A s \in Slugs : service'[s] \in {service[s], NoDeploy},
             \A d \in Deploys : deploy[d] \notin BeforeRow =>
                                    slug'[d] = slug[d] /\ deploy'[d] \notin BeforeRow
      PROVE  ServiceInv'
  BY <1>1
<1>2. ASSUME NEW d \in Deploys, Resolve(d) PROVE ServiceInv'
  BY <1>1, <1>2 DEF Resolve, To
<1>3. ASSUME NEW d \in Deploys, ApplyService(d) PROVE ServiceInv'
  BY <1>3 DEF ApplyService, To
<1>4. ASSUME NEW d \in Deploys,
             CreateRow(d) \/ ApplyWorkload(d) \/ ApplyFails(d) \/ UndoWorkload(d) \/ UndoRow(d)
      PROVE  ServiceInv'
  BY <1>1, <1>4 DEF CreateRow, ApplyWorkload, ApplyFails, UndoWorkload, UndoRow, To
<1>5. ASSUME NEW d \in Deploys, UndoService(d) PROVE ServiceInv'
  BY <1>1, <1>5 DEF UndoService, DeleteInternalService, To
<1>6. ASSUME NEW d \in Deploys, Undeploy(d) \/ UndeployStep(d) PROVE ServiceInv'
  BY <1>1, <1>6 DEF Undeploy, UndeployStep, UndeployWorkload, UndeployRow, UndeployService,
                    DeleteInternalService
<1>7. ASSUME NEW w \in Sweepers, SweepStep(w) \/ CutSweep(w) PROVE ServiceInv'
  BY <1>1, <1>7 DEF SweepStep, ListWorkloads, ListRows, SweepRow, SweepService, RowsSwept,
                    Swept, CutSweep, EndSweep, Confirm, SweepWorkload, DeleteInternalService
<1>8. ASSUME NEW d \in Deploys, CutDeploy(d) \/ CutUndeploy(d) \/ Age(d) PROVE ServiceInv'
  BY <1>1, <1>8 DEF CutDeploy, CutUndeploy, Age, To
<1>9. CASE Rebuild \/ Inform
  BY <1>1, <1>9 DEF Rebuild, Inform
<1>10. CASE UNCHANGED vars
  BY <1>1, <1>10 DEF vars
<1> QED
  BY <1>2, <1>3, <1>4, <1>5, <1>6, <1>7, <1>8, <1>9, <1>10 DEF Next, DeployStep

\* A step after which nobody new may touch a Service.
LEMMA SlugUndisturbed ==
    ASSUME Inv, UNCHANGED <<slug, contended>>, \A d \in Deploys : Active(d)' => Active(d)
    PROVE  SlugInv'
  BY DEF Inv, SlugInv

\* A slug is taken: whoever else is active under it makes it contended.
LEMMA ResolveSlug == ASSUME Inv, NEW d \in Deploys, Resolve(d) PROVE SlugInv'
<1> USE DEF Inv
<1>1. PICK s \in Slugs :
         /\ Free(s)
         /\ slug' = [slug EXCEPT ![d] = s]
         /\ contended' = IF service[s] # NoDeploy \/ Pending(s) THEN contended \cup {s}
                                                               ELSE contended
  BY DEF Resolve
<1>2. /\ UNCHANGED <<table, cluster, undeploy, sweeping>>
      /\ slug'[d] = s /\ \A e \in Deploys \ {d} : slug'[e] = slug[e] /\ deploy'[e] = deploy[e]
      /\ contended \subseteq contended'
  BY <1>1 DEF Resolve, To, TypeOK
<1>3. \A e \in Deploys \ {d} : Active(e)' => Active(e)
  BY <1>2 DEF Active, table, cluster, sweeping
<1>4. ASSUME NEW e \in Deploys \ {d}, slug[e] = s, Active(e) PROVE s \in contended'
  <2>1. e \notin rows
    BY <1>1, <1>4 DEF Free
  <2>2. CASE \E t \in Slugs : service[t] = e
    BY <1>1, <1>4, <2>2, DeploymentsAssumption DEF ServiceInv
  <2>3. CASE ~ \E t \in Slugs : service[t] = e
    <3>1. Pending(s)
      BY <1>4, <2>1, <2>3 DEF Active, Pending
    <3> QED BY <1>1, <3>1
  <2> QED BY <2>2, <2>3
<1>5. SUFFICES ASSUME NEW a \in Deploys, NEW b \in Deploys, slug'[a] = slug'[b],
                      slug'[a] \in Slugs \ contended', Active(a)', Active(b)', a # b
               PROVE  FALSE
  BY DEF SlugInv
<1>6. CASE a = d
  BY <1>2, <1>3, <1>4, <1>5, <1>6
<1>7. CASE b = d
  BY <1>2, <1>3, <1>4, <1>5, <1>7
<1>8. CASE a # d /\ b # d
  BY <1>2, <1>3, <1>5, <1>8 DEF SlugInv
<1> QED BY <1>6, <1>7, <1>8

\* Nobody becomes active but by taking a slug.
LEMMA SlugStep == Inv /\ [Next]_vars => SlugInv'
<1> SUFFICES ASSUME Inv, [Next]_vars PROVE SlugInv'
  OBVIOUS
<1> USE DEF Inv, TypeOK, table, cluster, sweeping
<1>1. ASSUME NEW d \in Deploys, Resolve(d) PROVE SlugInv'
  BY <1>1, ResolveSlug
<1>2. ASSUME NEW d \in Deploys, DeployStep(d) PROVE SlugInv'
  <2>1. UNCHANGED <<slug, contended, undeploy, sweep, target>>
    BY <1>2 DEF DeployStep, CreateRow, ApplyWorkload, ApplyService, ApplyFails, UndoWorkload,
                UndoService, UndoRow
  <2>2. deploy[d] \notin {"idle", "up", "over"}
    BY <1>2 DEF DeployStep, CreateRow, ApplyWorkload, ApplyService, ApplyFails, UndoWorkload,
                UndoService, UndoRow
  <2>3. ASSUME NEW e \in Deploys \ {d}
        PROVE  deploy'[e] = deploy[e] /\ (e \in rows' => e \in rows)
    BY <1>2 DEF DeployStep, CreateRow, ApplyWorkload, ApplyService, ApplyFails, UndoWorkload,
                UndoService, UndoRow, DeleteRow, KeepRow, To
  <2>4. ASSUME NEW s \in Slugs PROVE service'[s] \in {service[s], d, NoDeploy}
    BY <1>2 DEF DeployStep, CreateRow, ApplyWorkload, ApplyService, ApplyFails, UndoWorkload,
                UndoService, UndoRow, DeleteInternalService
  <2>5. \A e \in Deploys : Active(e)' => Active(e)
    BY <2>1, <2>2, <2>3, <2>4, DeploymentsAssumption DEF Active
  <2> QED BY <2>1, <2>5, SlugUndisturbed
<1>3. ASSUME NEW d \in Deploys, Undeploy(d) \/ UndeployStep(d) PROVE SlugInv'
  <2>1. UNCHANGED <<slug, contended, deploy, sweep, target>> /\ rows' \subseteq rows
    BY <1>3 DEF Undeploy, UndeployStep, UndeployWorkload, UndeployRow, UndeployService,
                DeleteRow, KeepRow
  <2>2. d \in rows \/ undeploy[d] # "idle"
    BY <1>3 DEF Undeploy, UndeployStep, UndeployWorkload, UndeployRow, UndeployService
  <2>3. \A e \in Deploys \ {d} : undeploy'[e] = undeploy[e]
    BY <1>3 DEF Undeploy, UndeployStep, UndeployWorkload, UndeployRow, UndeployService
  <2>4. \A s \in Slugs : service'[s] \in {service[s], NoDeploy}
    BY <1>3 DEF Undeploy, UndeployStep, UndeployWorkload, UndeployRow, UndeployService,
                DeleteInternalService
  <2>5. \A e \in Deploys : Active(e)' => Active(e)
    BY <2>1, <2>2, <2>3, <2>4, DeploymentsAssumption DEF Active
  <2> QED BY <2>1, <2>5, SlugUndisturbed
<1>4. ASSUME NEW w \in Sweepers, SweepStep(w) \/ CutSweep(w) PROVE SlugInv'
  <2>1. UNCHANGED <<slug, contended, deploy, undeploy>> /\ rows' \subseteq rows
    BY <1>4 DEF SweepStep, ListWorkloads, ListRows, SweepRow, SweepService, RowsSwept, Swept,
                CutSweep, EndSweep, Confirm, SweepWorkload, DeleteRow, KeepRow
  <2>2. \A s \in Slugs : service'[s] \in {service[s], NoDeploy}
    BY <1>4 DEF SweepStep, ListWorkloads, ListRows, SweepRow, SweepService, RowsSwept, Swept,
                CutSweep, EndSweep, Confirm, SweepWorkload, DeleteInternalService
  <2>3. \A v \in Sweepers \ {w} : sweep'[v] = sweep[v] /\ target'[v] = target[v]
    BY <1>4 DEF SweepStep, ListWorkloads, ListRows, SweepRow, SweepService, RowsSwept, Swept,
                CutSweep, EndSweep, Confirm, SweepWorkload, Sweeps
  <2>4. sweep'[w] = "service" =>
            target'[w] = target[w] /\ (sweep[w] = "service" \/ target[w] \in rows)
    BY <1>4 DEF SweepStep, ListWorkloads, ListRows, SweepRow, SweepService, RowsSwept, Swept,
                CutSweep, EndSweep, Confirm, SweepWorkload, Sweeps, DeleteRow
  <2>5. \A e \in Deploys : Active(e)' => Active(e)
    BY <2>1, <2>2, <2>3, <2>4, DeploymentsAssumption DEF Active
  <2> QED BY <2>1, <2>5, SlugUndisturbed
<1>5. ASSUME NEW d \in Deploys, CutDeploy(d) \/ CutUndeploy(d) \/ Age(d) PROVE SlugInv'
  <2>1. \A e \in Deploys : Active(e)' => Active(e)
    BY <1>5 DEF CutDeploy, CutUndeploy, Age, To, Active
  <2> QED BY <1>5, <2>1, SlugUndisturbed DEF CutDeploy, CutUndeploy, Age
<1>6. CASE Rebuild \/ Inform
  <2>1. \A e \in Deploys : Active(e)' => Active(e)
    BY <1>6, DeploymentsAssumption DEF Rebuild, Inform, Active
  <2> QED BY <1>6, <2>1, SlugUndisturbed DEF Rebuild, Inform
<1>7. CASE UNCHANGED vars
  <2>1. \A e \in Deploys : Active(e)' => Active(e)
    BY <1>7 DEF vars, Active
  <2> QED BY <1>7, <2>1, SlugUndisturbed DEF vars
<1> QED BY <1>1, <1>2, <1>3, <1>4, <1>5, <1>6, <1>7 DEF Next

\* A step that leaves alone the Service of a deployment that is up, and brings none up.
LEMMA AddressUndisturbed ==
    ASSUME Inv, rows' \subseteq rows, slug' = slug, contended' = contended,
           \A d \in rows' \cap workloads' :
               deploy'[d] = "up" /\ slug[d] \in Slugs \ contended =>
                   /\ deploy[d] = "up" /\ d \in workloads
                   /\ service'[slug[d]] = service[slug[d]]
    PROVE  AddressIsOwn'
  BY DEF Inv, TypeOK, AddressIsOwn

\* Whoever deletes the Service of a slug is not up, has no row, or shares the slug.
LEMMA AddressStep == Inv /\ [Next]_vars => AddressIsOwn'
<1> SUFFICES ASSUME Inv, [Next]_vars PROVE AddressIsOwn'
  OBVIOUS
<1> USE DEF Inv, TypeOK, table, cluster, sweeping
<1>0. ASSUME NEW d \in rows, NEW e \in Deploys, slug[e] = slug[d], Active(e), e # d
      PROVE  slug[d] \notin Slugs \ contended
  BY <1>0 DEF SlugInv, Active
<1>1. ASSUME NEW d \in Deploys, Resolve(d) PROVE AddressIsOwn'
  BY <1>1 DEF Resolve, To, AddressIsOwn
<1>2. ASSUME NEW d \in Deploys, CreateRow(d) PROVE AddressIsOwn'
  BY <1>2 DEF CreateRow, To, AddressIsOwn
<1>3. ASSUME NEW d \in Deploys, ApplyWorkload(d) PROVE AddressIsOwn'
  BY <1>3 DEF ApplyWorkload, To, AddressIsOwn
<1>4. ASSUME NEW d \in Deploys, ApplyService(d) PROVE AddressIsOwn'
  <2> SUFFICES ASSUME NEW e \in rows \cap workloads, deploy'[e] = "up",
                      slug[e] \in Slugs \ contended
               PROVE  service'[slug[e]] = e
    BY <1>4 DEF ApplyService, AddressIsOwn
  <2>1. CASE e = d
    <3>1. service[slug[d]] \in {d, NoDeploy}
      <4>1. SUFFICES ASSUME service[slug[d]] \in Deploys PROVE service[slug[d]] = d
        BY <2>1
      <4>2. slug[service[slug[d]]] = slug[d] /\ Active(service[slug[d]])
        BY <2>1, <4>1, DeploymentsAssumption DEF ServiceInv, Active
      <4> QED BY <1>0, <2>1, <4>1, <4>2
    <3> QED BY <1>4, <2>1, <3>1 DEF ApplyService
  <2>2. CASE e # d
    <3>1. deploy[e] = "up"
      BY <1>4, <2>2 DEF ApplyService, To
    <3>2. service[slug[e]] = e
      BY <3>1 DEF AddressIsOwn
    <3> QED BY <1>4, <3>2, DeploymentsAssumption DEF ApplyService
  <2> QED BY <2>1, <2>2
<1>5. ASSUME NEW d \in Deploys, ApplyFails(d) \/ UndoWorkload(d) \/ UndoRow(d)
      PROVE  AddressIsOwn'
  BY <1>5 DEF ApplyFails, UndoWorkload, UndoRow, DeleteWorkload, DeleteRow, KeepRow, To,
              AddressIsOwn
<1>6. ASSUME NEW d \in Deploys, UndoService(d) PROVE AddressIsOwn'
  <2>1. Active(d) /\ \A e \in Deploys : deploy'[e] = "up" => deploy[e] = "up" /\ e # d
    BY <1>6 DEF UndoService, To, Active
  <2>2. \A s \in Slugs \ {slug[d]} : service'[s] = service[s]
    BY <1>6 DEF UndoService, DeleteInternalService
  <2>3. UNCHANGED <<rows, slug, workloads, contended>>
    BY <1>6 DEF UndoService
  <2> QED BY <1>0, <2>1, <2>2, <2>3, AddressUndisturbed
<1>7. ASSUME NEW d \in Deploys, Undeploy(d) \/ UndeployWorkload(d) \/ UndeployRow(d)
      PROVE  AddressIsOwn'
  BY <1>7 DEF Undeploy, UndeployWorkload, UndeployRow, DeleteWorkload, DeleteRow, KeepRow,
              AddressIsOwn
<1>8. ASSUME NEW d \in Deploys, UndeployService(d) PROVE AddressIsOwn'
  <2>1. Active(d) /\ d \notin rows
    BY <1>8 DEF UndeployService, Active, RowInv
  <2>2. \A s \in Slugs \ {slug[d]} : service'[s] = service[s]
    BY <1>8 DEF UndeployService, DeleteInternalService
  <2>3. UNCHANGED <<rows, slug, workloads, contended, deploy>>
    BY <1>8 DEF UndeployService
  <2> QED BY <1>0, <2>1, <2>2, <2>3, AddressUndisturbed
<1>9. ASSUME NEW w \in Sweepers, SweepService(w) PROVE AddressIsOwn'
  <2>1. target[w] \in Deploys \ rows /\ Active(target[w])
    BY <1>9 DEF SweepService, Active, SweepInv
  <2>2. \A s \in Slugs \ {slug[target[w]]} : service'[s] = service[s]
    BY <1>9 DEF SweepService, DeleteInternalService
  <2>3. UNCHANGED <<rows, slug, workloads, contended, deploy>>
    BY <1>9 DEF SweepService
  <2> QED BY <1>0, <2>1, <2>2, <2>3, AddressUndisturbed
<1>10. ASSUME NEW w \in Sweepers,
              \/ ListWorkloads(w) \/ ListRows(w) \/ SweepRow(w) \/ RowsSwept(w) \/ Swept(w)
              \/ CutSweep(w) \/ \E d \in Deploys : Confirm(w, d) \/ SweepWorkload(w, d)
       PROVE  AddressIsOwn'
  <2>1. UNCHANGED <<slug, service, contended, deploy>>
        /\ rows' \subseteq rows /\ workloads' \subseteq workloads
    BY <1>10 DEF ListWorkloads, ListRows, SweepRow, RowsSwept, Swept, CutSweep, EndSweep,
                 Confirm, SweepWorkload, DeleteRow, KeepRow, DeleteWorkload
  <2> QED BY <2>1, AddressUndisturbed
<1>11. ASSUME NEW d \in Deploys, CutDeploy(d) \/ CutUndeploy(d) \/ Age(d) PROVE AddressIsOwn'
  BY <1>11 DEF CutDeploy, CutUndeploy, Age, To, AddressIsOwn
<1>12. CASE Rebuild \/ Inform
  BY <1>12 DEF Rebuild, Inform, AddressIsOwn
<1>13. CASE UNCHANGED vars
  BY <1>13 DEF vars, AddressIsOwn
<1> QED
  BY <1>1, <1>2, <1>3, <1>4, <1>5, <1>6, <1>7, <1>8, <1>9, <1>10, <1>11, <1>12, <1>13
  DEF Next, DeployStep, UndeployStep, SweepStep

----------------------------------------------------------------------------
\* The inductive invariant holds of every state of the orchestrator.
THEOREM InvariantHolds == Spec => []Inv
<1>1. Inv /\ [Next]_vars => Inv'
  BY TypeStep, RowStep, SweepInvStep, ServiceStep, SlugStep, AddressStep DEF Inv
<1> QED BY <1>1, InitInv, PTL DEF Spec

\* The table, the cluster, the calls and the sweeps have their types.
THEOREM TypeCorrect == Spec => []TypeOK
  BY InvariantHolds, PTL DEF Inv

\* Reconcile: however many replicas sweep at once and whatever is deployed, undeployed, cut
\* off or rebuilt meanwhile, a sweep about to delete a row or a workload deletes no
\* deployment that has both.
THEOREM SweepsSpareDeployments == Spec => []SweepSparesDeployments
<1>1. Inv => SweepSparesDeployments
  BY DEF Inv, SweepInv, SweepSparesDeployments
<1> QED BY <1>1, InvariantHolds, PTL

\* Deploy: a deployment that is up is behind its own Service, unless its slug was taken while
\* the Service, or a call, of an earlier one was around.
THEOREM AddressesAreOwn == Spec => []AddressIsOwn
  BY InvariantHolds, PTL DEF Inv
=============================================================================
