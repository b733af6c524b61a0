--------------------------- MODULE DevServerProofs ---------------------------
(***************************************************************************)
(* Proofs about DevServer for every set of mapper keys, every number of    *)
(* build processes and every choice of plugins: what was harvested is      *)
(* served, and a resolved serverReady is this process's server, or it had  *)
(* a rival for the port.                                                   *)
(***************************************************************************)
EXTENDS DevServer, TLAPS

-----------------------------------------------------------------------------
(* The inductive invariant.                                                *)

\* Every mapper of the source is in the harvest of this process or waits to be
\* reported; while the manifest is being written all of them are in the harvest.
HarvestComplete ==
  /\ parent = "up" /\ plugin.emit => source \subseteq harvested \cup unreported
  /\ Writing => source \subseteq harvested

\* With nothing unreported and no torn manifest, the manifest has the source.
ManifestComplete ==
  unreported = {} /\ manifest.state # "partial" => source \subseteq manifest.keys

\* A build process that runs has a number, and children only go up to it.
RunsNumbered ==
  /\ parent # "off" => run \in Runs
  /\ \A c \in Runs : c > run => children[c] = "none"

\* Only a process that runs has started a server, and only then it polls for one
\* or was answered; until it has, the child of its number does not exist.
StartedOnce ==
  /\ started => parent # "off"
  /\ polling \/ ready = "resolved" => started
  /\ parent # "off" /\ ~started => children[run] = "none"

\* What listens while this process waits is its own child, which it has been told
\* of, one that was alive when that child was spawned, or another program.
ListenersKnown ==
  started =>
    /\ children[run] = "listening" => own
    /\ \A c \in Runs \ {run} : children[c] \in Alive => rival
    /\ foreign => rival

HarvestInv == HarvestComplete /\ ManifestComplete /\ ShippedComplete

ServerInv == RunsNumbered /\ StartedOnce /\ ListenersKnown /\ ReadyIsOwn

IInv == TypeOK /\ HarvestInv /\ ServerInv

-----------------------------------------------------------------------------
(* Types.                                                                  *)

\* What a child of the plugin does to its own state and to what is kept of it.
LEMMA ChildTypes ==
  ASSUME TypeOK, RunsNumbered, NEW c \in Runs, ChildStep(c)
  PROVE  TypeOK'
<1>1. CASE Boots(c)
  BY <1>1 DEF Boots, TypeOK, Alive, Read, client, process, orchestrator
<1>2. CASE Listens(c)
  BY <1>2 DEF Listens, TypeOK, Alive, client, process
<1>3. CASE Closes(c)
  BY <1>3 DEF Closes, TypeOK, Alive, client, process, orchestrator
<1>4. ASSUME NEW key \in Keys, Lookup(c, key)
      PROVE  TypeOK'
  BY <1>4 DEF Lookup, AllowedAfter, TypeOK, Read, client, process, orchestrator
<1>5. ASSUME NEW code \in {"zero", "failure", "none"}, Ends(c, code)
      PROVE  TypeOK'
  BY <1>5 DEF Ends, TypeOK, Settled, client, process
<1> QED BY <1>1, <1>2, <1>3, <1>4, <1>5 DEF ChildStep

\* Every step of the build process, its server and its bundle keeps the types.
LEMMA TypeStep ==
  ASSUME TypeOK, RunsNumbered, [Next]_vars
  PROVE  TypeOK'
<1>1. CASE StartRun
  <2>1. run' \in 0 .. MaxRuns
    BY <1>1, DevServerAssumption DEF StartRun, TypeOK
  <2> QED BY <1>1, <2>1 DEF StartRun, TypeOK, orchestrator
<1>2. CASE ConfigRefused
  <2>1. run' \in 0 .. MaxRuns
    BY <1>2, DevServerAssumption DEF ConfigRefused, TypeOK
  <2> QED BY <1>2, <2>1 DEF ConfigRefused, TypeOK, orchestrator, client
<1>3. CASE StartManagedServer
  BY <1>3 DEF StartManagedServer, TypeOK, client, process, Alive, RunsNumbered
<1>4. CASE SpawnFails
  BY <1>4 DEF SpawnFails, TypeOK, client, process, Settled
<1>5. CASE PollAnswered
  <2>1. ready' \in {"pending", "resolved", "rejected"}
    BY <1>5 DEF PollAnswered, TypeOK, Settled
  <2> QED BY <1>5, <2>1 DEF PollAnswered, TypeOK, client, process
<1>6. CASE Deadline
  <2>1. ready' \in {"pending", "resolved", "rejected"}
    BY <1>6 DEF Deadline, TypeOK, Settled
  <2>2. signalled' \subseteq Runs
    BY <1>6 DEF Deadline, TypeOK, KillChild
  <2> QED BY <1>6, <2>1, <2>2 DEF Deadline, TypeOK, client, process
<1>7. CASE ExitRun
  BY <1>7 DEF ExitRun, ModuleStateGone, TypeOK, KillChild
<1>8. CASE KilledRun
  BY <1>8 DEF KilledRun, ModuleStateGone, TypeOK
<1>9. CASE Edit
  BY <1>9 DEF Edit, TypeOK, process, orchestrator
<1>10. ASSUME NEW phase \in {"build", "update"}, HarvestReport(phase)
       PROVE  TypeOK'
  BY <1>10 DEF HarvestReport, HarvestedAfter, TypeOK, orchestrator
<1>11. CASE BuildsUnharvested
  BY <1>11 DEF BuildsUnharvested, TypeOK, client, orchestrator
<1>12. CASE WriteMapperManifest
  BY <1>12 DEF WriteMapperManifest, TypeOK, process, orchestrator
<1>13. CASE \E c \in Runs : ChildStep(c)
  BY <1>13, ChildTypes
<1>14. CASE BuildServer
  BY <1>14 DEF BuildServer, Bundled, Failed, Shipped, TypeOK, client, process, orchestrator
<1>15. CASE ForeignListens \/ ForeignLeaves
  BY <1>15 DEF ForeignListens, ForeignLeaves, TypeOK, client, process, orchestrator
<1>16. CASE UNCHANGED vars
  BY <1>16 DEF vars, TypeOK, client, process, orchestrator
<1> QED BY <1>1, <1>2, <1>3, <1>4, <1>5, <1>6, <1>7, <1>8, <1>9, <1>10, <1>11, <1>12, <1>13,
           <1>14, <1>15, <1>16 DEF Next

-----------------------------------------------------------------------------
(* The harvest.                                                            *)

\* What the harvest part of the invariant speaks of.
harvestVars == <<client, manifest, parent, plugin, bundle>>

\* Reports, edits, writes, builds and the death of the process keep the harvest
\* complete; nothing the server does touches it.
LEMMA HarvestStep ==
  ASSUME TypeOK, HarvestInv, [Next]_vars
  PROVE  HarvestInv'
<1> USE DEF HarvestInv, HarvestComplete, ManifestComplete, ShippedComplete, Writing
<1>1. CASE StartRun
  BY <1>1 DEF StartRun, TypeOK
<1>2. CASE ConfigRefused \/ StartManagedServer \/ SpawnFails \/ PollAnswered \/ Deadline
  BY <1>2 DEF ConfigRefused, StartManagedServer, SpawnFails, PollAnswered, Deadline, client, process
<1>3. CASE ExitRun \/ KilledRun
  BY <1>3 DEF ExitRun, KilledRun
<1>4. CASE Edit
  BY <1>4 DEF Edit, TypeOK, process
<1>5. ASSUME NEW phase \in {"build", "update"}, HarvestReport(phase)
      PROVE  HarvestInv'
  BY <1>5 DEF HarvestReport, HarvestedAfter
<1>6. CASE BuildsUnharvested
  BY <1>6 DEF BuildsUnharvested, client
<1>7. CASE WriteMapperManifest
  BY <1>7 DEF WriteMapperManifest, process
<1>8. ASSUME NEW c \in Runs, ChildStep(c)
      PROVE  HarvestInv'
  <2>1. UNCHANGED harvestVars
    BY <1>8 DEF ChildStep, Boots, Listens, Closes, Lookup, Ends, harvestVars, client, process
  <2> QED BY <2>1 DEF harvestVars, client
<1>9. CASE BuildServer
  <2>1. UNCHANGED <<client, manifest, parent, plugin>>
    BY <1>9 DEF BuildServer, process
  <2>2. manifest.state = "whole" => (unreported = {} => source \subseteq manifest.keys)
    OBVIOUS
  <2>3. bundle'.lacks = {}
    BY <1>9, <2>2 DEF BuildServer, Bundled, Failed, Shipped
  <2> QED BY <2>1, <2>3 DEF client
<1>10. CASE UNCHANGED vars \/ ForeignListens \/ ForeignLeaves
  BY <1>10 DEF vars, client, process, ForeignListens, ForeignLeaves
<1> QED BY <1>1, <1>2, <1>3, <1>4, <1>5, <1>6, <1>7, <1>8, <1>9, <1>10 DEF Next

-----------------------------------------------------------------------------
(* The managed server.                                                     *)

\* A child moves on by itself: only when this process's child listens does the
\* process learn something.
LEMMA ChildServerStep ==
  ASSUME TypeOK, ServerInv, NEW c \in Runs, ChildStep(c)
  PROVE  ServerInv'
<1> USE DEF ServerInv, RunsNumbered, StartedOnce, ListenersKnown, ReadyIsOwn, TypeOK, Alive
<1>1. CASE Boots(c)
  BY <1>1 DEF Boots, process, orchestrator
<1>2. CASE Listens(c)
  BY <1>2 DEF Listens, process
<1>3. CASE Closes(c)
  BY <1>3 DEF Closes, process, orchestrator
<1>4. ASSUME NEW key \in Keys, Lookup(c, key)
      PROVE  ServerInv'
  BY <1>4 DEF Lookup, process, orchestrator
<1>5. ASSUME NEW code \in {"zero", "failure", "none"}, Ends(c, code)
      PROVE  ServerInv'
  BY <1>5 DEF Ends, MayEnd, Settled, process
<1> QED BY <1>1, <1>2, <1>3, <1>4, <1>5 DEF ChildStep

\* A poll is answered by a child this process knows of.
LEMMA ServerStep ==
  ASSUME TypeOK, ServerInv, [Next]_vars
  PROVE  ServerInv'
<1>1. CASE \E c \in Runs : ChildStep(c)
  BY <1>1, ChildServerStep
<1> USE DevServerAssumption
    DEF ServerInv, RunsNumbered, StartedOnce, ListenersKnown, ReadyIsOwn, Alive
<1>2. CASE StartRun
  BY <1>2 DEF StartRun, TypeOK, orchestrator, Runs
<1>3. CASE ConfigRefused
  BY <1>3 DEF ConfigRefused, TypeOK, orchestrator, Runs
<1>4. CASE StartManagedServer
  <2>1. /\ run \in Runs /\ parent # "off" /\ ~started /\ ~polling
        /\ UNCHANGED <<parent, run, ready, own>> /\ started' = TRUE
    BY <1>4 DEF StartManagedServer, process
  <2>2. children' = [children EXCEPT ![run] = "booting"]
    BY <1>4 DEF StartManagedServer
  <2>3. children'[run] = "booting" /\ \A c \in Runs \ {run} : children'[c] = children[c]
    BY <2>1, <2>2 DEF TypeOK
  <2>4. (\A c \in Runs \ {run} : children[c] \in Alive => rival') /\ (foreign' => rival')
    BY <1>4 DEF StartManagedServer
  <2>5. ready = "resolved" => own \/ rival'
    BY <1>4 DEF StartManagedServer
  <2>6. RunsNumbered'
    BY <2>1, <2>3, DevServerAssumption DEF TypeOK, Runs
  <2>7. StartedOnce' /\ ListenersKnown'
    BY <2>1, <2>3, <2>4
  <2> QED BY <2>1, <2>5, <2>6, <2>7
<1>5. CASE SpawnFails
  BY <1>5 DEF SpawnFails, TypeOK, Settled, process
<1>6. CASE PollAnswered
  <2>1. started /\ (own \/ rival)
    BY <1>6 DEF PollAnswered, PortAnswers
  <2> QED BY <1>6, <2>1 DEF PollAnswered, Settled, process
<1>7. CASE Deadline
  BY <1>7 DEF Deadline, Settled, process
<1>8. CASE ExitRun \/ KilledRun
  BY <1>8 DEF ExitRun, KilledRun, ModuleStateGone
<1>9. CASE Edit \/ (\E phase \in {"build", "update"} : HarvestReport(phase))
           \/ BuildsUnharvested \/ WriteMapperManifest \/ BuildServer \/ UNCHANGED vars
  <2>1. /\ UNCHANGED <<run, started, polling, ready, own, rival, children, foreign>>
        /\ parent' = parent \/ (parent # "off" /\ parent' = "up")
    BY <1>9 DEF Edit, HarvestReport, BuildsUnharvested, WriteMapperManifest, BuildServer, vars,
                process, orchestrator
  <2> QED BY <2>1
<1>10. CASE ForeignListens
  <2>1. UNCHANGED <<parent, run, started, polling, ready, own, children>>
    BY <1>10 DEF ForeignListens, process
  <2>2. (rival => rival') /\ (started => rival')
    BY <1>10 DEF ForeignListens
  <2> QED BY <2>1, <2>2
<1>11. CASE ForeignLeaves
  BY <1>11 DEF ForeignLeaves, process, orchestrator
<1> QED BY <1>1, <1>2, <1>3, <1>4, <1>5, <1>6, <1>7, <1>8, <1>9, <1>10, <1>11 DEF Next

-----------------------------------------------------------------------------
(* The theorems.                                                           *)

\* A first process starts with an unreported source and no server.
LEMMA InitInv == Init => IInv
<1> SUFFICES ASSUME Init PROVE IInv
  OBVIOUS
<1> USE DEF Init
<1>1. TypeOK
  <2>1. 0 \in 0 .. MaxRuns
    BY DevServerAssumption
  <2> QED BY <2>1 DEF TypeOK, Alive
<1>2. HarvestInv
  BY DEF HarvestInv, HarvestComplete, ManifestComplete, ShippedComplete, Writing
<1>3. ServerInv
  BY DevServerAssumption DEF ServerInv, RunsNumbered, StartedOnce, ListenersKnown, ReadyIsOwn
<1> QED BY <1>1, <1>2, <1>3 DEF IInv

\* The strengthening holds of every reachable state.
THEOREM DevServerInvariant == Spec => []IInv
<1>1. Init => IInv
  BY InitInv
<1>2. IInv /\ [Next]_vars => IInv'
  BY TypeStep, HarvestStep, ServerStep DEF IInv, ServerInv
<1> QED BY <1>1, <1>2, PTL DEF Spec

\* No mapper of the source is refused once its harvest is written, and no bundle
\* is shipped without it (writeMapperManifest, getServerMapper, buildStart).
THEOREM HarvestReachesServers == Spec => []MappersServed
<1>1. IInv => MappersServed
  <2> SUFFICES ASSUME IInv PROVE HarvestedServed
    BY DEF IInv, HarvestInv, MappersServed
  <2> QED BY DEF IInv, HarvestInv, ManifestComplete, HarvestedServed, AllowedAfter, Read
<1> QED BY <1>1, DevServerInvariant, PTL

\* serverReady resolves for this process's server, unless an older child was still
\* alive when it was spawned or another program listened since (waitForPort,
\* startManagedServer).
THEOREM ReadyMeansOwnServer == Spec => []ReadyIsOwn
<1>1. IInv => ReadyIsOwn
  BY DEF IInv, ServerInv
<1> QED BY <1>1, DevServerInvariant, PTL
=============================================================================
