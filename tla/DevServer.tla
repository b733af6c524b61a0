------------------------------ MODULE DevServer ------------------------------
(***************************************************************************)
(* The vite plugin at work (devtools/src/vite-plugin/mionVitePlugin.ts):   *)
(* the build process of a client project starts a mion server as a child   *)
(* process, waits until its port answers, and harvests the mappers of      *)
(* serverMapFrom into a manifest.  The server reads the manifest when it   *)
(* boots and again when a mapper is missing (core serverMappers.ts); a     *)
(* server build compiles the manifest into its bundle.                     *)
(*                                                                         *)
(* Build processes follow one another, at most MaxRuns of them, and each   *)
(* starts at most one child, which has the number of its build process.    *)
(* Writing a file is not atomic for a reader in another process, and       *)
(* neither are signals and exits: a child outlives the signal for a while. *)
(* The port is anybody's: another program may listen there.                *)
(***************************************************************************)
EXTENDS Naturals

CONSTANTS
  Keys,      \* keys of mappers a client's source may hold
  MaxRuns,   \* build processes, one after the other
  Plugins,   \* [emit, serve]: whether a process harvests, and manages a server
  NoChild

ASSUME DevServerAssumption ==
  /\ MaxRuns \in Nat \ {0}
  /\ Plugins \subseteq [emit : BOOLEAN, serve : BOOLEAN]
  /\ NoChild \notin 1 .. MaxRuns

Runs == 1 .. MaxRuns
Alive == {"booting", "booted", "listening", "closing"}

VARIABLES
  source,      \* the keys in the client's source
  unreported,  \* those of them the plugin has not been told of
  harvested,   \* harvestedMappers
  manifest,    \* [state, keys]: "missing", "partial" or "whole"
  parent,      \* "off", "starting" (before the first report) or "up"
  plugin,      \* one of Plugins, or Unloaded
  run,         \* the number of this build process
  started,     \* serverStarted
  serverChild, \* serverChild
  ready,       \* the promise serverReady
  polling,     \* whether waitForPort is still running
  children,    \* run -> the state of its child
  signalled,   \* the children that were sent SIGTERM
  allowed,     \* child -> allowedMapperKeys of that process
  bundle,      \* the server build: what it became, and what it lacks of the source
  own,         \* whether this run's child ever listened
  foreign,     \* whether another program listens on the port
  rival,       \* whether an older child was alive when this run's was spawned, or
               \* another program has listened since
  exited       \* whether the build process ended through its exit event

Unloaded == [emit |-> FALSE, serve |-> FALSE]

client == <<source, unreported, harvested>>
orchestrator == <<started, serverChild, ready, polling, own, rival>>
process == <<parent, plugin, run, exited>>
vars == <<client, manifest, process, orchestrator, children, signalled, allowed, bundle, foreign>>

Init ==
  /\ source \in SUBSET Keys /\ unreported = source /\ harvested = {}
  /\ manifest = [state |-> "missing", keys |-> {}]
  /\ parent = "off" /\ plugin = Unloaded /\ run = 0 /\ exited = FALSE
  /\ started = FALSE /\ serverChild = NoChild
  /\ ready = "pending" /\ polling = FALSE /\ own = FALSE /\ rival = FALSE
  /\ children = [c \in Runs |-> "none"] /\ signalled = {}
  /\ allowed = [c \in Runs |-> {}]
  /\ bundle = [state |-> "none", lacks |-> {}] /\ foreign \in BOOLEAN
-----------------------------------------------------------------------------
(* The build process *)

\* within writeFileSync, which nothing else of the process interrupts; a torn
\* manifest of an earlier process is not this one's
Writing == parent = "up" /\ plugin.emit /\ manifest.state = "partial"

\* mionVitePlugin: a new process loads the plugin, with a manifest to emit or not,
\* and with a server to manage or not; a harvest starts anew
StartRun ==
  /\ parent = "off" /\ run < MaxRuns
  /\ plugin' \in Plugins
  /\ unreported' = IF plugin'.emit THEN source ELSE unreported
  /\ parent' = "starting" /\ run' = run + 1 /\ exited' = FALSE
  /\ UNCHANGED <<source, harvested, manifest, orchestrator, children, signalled, allowed, bundle, foreign>>

\* assertNoRemovedOptions, emitMode 'functions' and moduleMode 'allSingle': the
\* plugin throws when it is loaded, before it has anything to stop
ConfigRefused ==
  /\ parent = "off" /\ run < MaxRuns
  /\ run' = run + 1 /\ exited' = TRUE
  /\ UNCHANGED <<parent, plugin, client, manifest, orchestrator, children, signalled, allowed, bundle, foreign>>

\* the module state dies with its process; files and children do not
ModuleStateGone ==
  /\ plugin' = Unloaded
  /\ harvested' = {} /\ started' = FALSE /\ serverChild' = NoChild
  /\ ready' = "pending" /\ polling' = FALSE /\ own' = FALSE /\ rival' = FALSE

\* a promise settles once
Settled(outcome) == IF ready = "pending" THEN outcome ELSE ready

\* startManagedServer, of buildStart; every project of the process calls it, the first one spawns
StartManagedServer ==
  /\ parent # "off" /\ plugin.serve /\ ~started
  /\ started' = TRUE /\ serverChild' = run /\ polling' = TRUE
  /\ children' = [children EXCEPT ![run] = "booting"]
  /\ rival' = (foreign \/ \E c \in Runs \ {run} : children[c] \in Alive)
  /\ UNCHANGED <<client, manifest, process, ready, own, signalled, allowed, bundle, foreign>>

\* child.once('error')
SpawnFails ==
  /\ parent # "off" /\ serverChild # NoChild /\ children[serverChild] = "booting"
  /\ children' = [children EXCEPT ![serverChild] = "gone"]
  /\ serverChild' = NoChild /\ ready' = Settled("rejected")
  /\ UNCHANGED <<client, manifest, process, started, polling, own, rival, signalled, allowed, bundle, foreign>>

\* fault: a refused connection counts as an answer
AnyReply == TRUE

\* any response means a server is listening, whichever it is
PortAnswers == foreign \/ \E c \in Runs : children[c] = "listening"

PollAnswered ==
  /\ parent # "off" /\ polling /\ PortAnswers
  /\ polling' = FALSE /\ ready' = Settled("resolved")
  /\ UNCHANGED <<client, manifest, process, started, serverChild, own, rival, children, signalled, allowed, bundle, foreign>>

\* fault: kills without a look at whether there is a child
KillUnchecked == signalled \cup {serverChild}

\* fault: the child is not held any more
KillNobody == signalled

\* killChild; a child that was signalled already is left alone
KillChild == signalled \cup ({serverChild} \ {NoChild})

\* fault: the deadline kills the child and tells nobody
DeadlineSilent ==
  /\ parent # "off" /\ polling
  /\ polling' = FALSE /\ signalled' = KillChild
  /\ UNCHANGED <<client, manifest, process, ready, started, serverChild, own, rival, children, allowed, bundle, foreign>>

\* waitForPort's deadline
Deadline ==
  /\ parent # "off" /\ polling
  /\ polling' = FALSE /\ ready' = Settled("rejected") /\ signalled' = KillChild
  /\ UNCHANGED <<client, manifest, process, started, serverChild, own, rival, children, allowed, bundle, foreign>>

\* process.once('exit', killChild)
ExitRun ==
  /\ parent # "off" /\ ~Writing
  /\ parent' = "off" /\ exited' = TRUE /\ signalled' = KillChild /\ ModuleStateGone
  /\ UNCHANGED <<source, unreported, manifest, run, children, allowed, bundle, foreign>>

\* a build process that is killed runs no exit handler, and may leave half a manifest
KilledRun ==
  /\ parent # "off" /\ parent' = "off" /\ exited' = FALSE /\ ModuleStateGone
  /\ UNCHANGED <<source, unreported, manifest, run, children, signalled, allowed, bundle, foreign>>
-----------------------------------------------------------------------------
(* Harvesting *)

\* a mapper is written into the source, another one may go
Edit ==
  \E key \in Keys \ source, kept \in SUBSET source :
    /\ parent = "up" /\ ~Writing
    /\ source' = kept \cup {key} /\ unreported' = (unreported \cap kept) \cup {key}
    /\ UNCHANGED <<harvested, manifest, process, orchestrator, children, signalled, allowed, bundle, foreign>>

\* harvestReport: a build reports every mapper, an update those of the modules that changed
HarvestedAfter(phase) ==
  IF phase = "build" THEN source ELSE harvested \cup unreported

HarvestReport(phase) ==
  /\ plugin.emit
  /\ \/ parent = "starting" /\ phase = "build"
     \/ parent = "up" /\ ~Writing /\ (phase = "build" \/ unreported # {})
  /\ parent' = "up"
  /\ harvested' = HarvestedAfter(phase)
  /\ manifest' = [state |-> "partial", keys |-> {}]
  /\ UNCHANGED <<source, unreported, plugin, run, exited, orchestrator, children, signalled, allowed, bundle, foreign>>

\* a build whose plugin asks for no report
BuildsUnharvested ==
  /\ parent = "starting" /\ ~plugin.emit
  /\ parent' = "up"
  /\ UNCHANGED <<client, manifest, plugin, run, exited, orchestrator, children, signalled, allowed, bundle, foreign>>

\* writeMapperManifest returns
WriteMapperManifest ==
  /\ Writing
  /\ manifest' = [state |-> "whole", keys |-> harvested] /\ unreported' = {}
  /\ UNCHANGED <<source, harvested, process, orchestrator, children, signalled, allowed, bundle, foreign>>
-----------------------------------------------------------------------------
(* The managed server *)

\* the generated module's reader: nothing from a manifest it can not read
Read == manifest.keys

\* the generated module runs before the server's own code
Boots(c) ==
  /\ children[c] = "booting"
  /\ children' = [children EXCEPT ![c] = "booted"]
  /\ allowed' = [allowed EXCEPT ![c] = Read]
  /\ UNCHANGED <<client, manifest, process, orchestrator, signalled, bundle, foreign>>

Listens(c) ==
  /\ children[c] = "booted" /\ ~ PortAnswers
  /\ children' = [children EXCEPT ![c] = "listening"]
  /\ own' = (own \/ (parent # "off" /\ c = run))
  /\ UNCHANGED <<client, manifest, process, started, serverChild, ready, polling, rival, signalled, allowed, bundle, foreign>>

\* fault: a server never looks at the manifest again
BootOnly(c, key) == allowed[c]

\* getServerMapper: a miss reads the manifest again
AllowedAfter(c, key) == IF key \in allowed[c] THEN allowed[c] ELSE allowed[c] \cup Read

Lookup(c, key) ==
  /\ children[c] = "listening"
  /\ allowed' = [allowed EXCEPT ![c] = AllowedAfter(c, key)]
  /\ UNCHANGED <<client, manifest, process, orchestrator, children, signalled, bundle, foreign>>

\* the adapter's shutdown handler stops listening first
Closes(c) ==
  /\ c \in signalled /\ children[c] = "listening"
  /\ children' = [children EXCEPT ![c] = "closing"]
  /\ UNCHANGED <<client, manifest, process, orchestrator, signalled, allowed, bundle, foreign>>

\* how a child may end: its port is taken, it fails or ends by itself, or it was told to
MayEnd(c, code) ==
  \/ c \in signalled /\ children[c] \in Alive \ {"listening"} /\ code = "none"
  \/ children[c] \in Alive /\ code \in {"zero", "failure"}

\* child.once('exit'): an exit without an error code is not reported
Ends(c, code) ==
  /\ MayEnd(c, code)
  /\ children' = [children EXCEPT ![c] = "gone"]
  /\ allowed' = [allowed EXCEPT ![c] = {}] /\ signalled' = signalled \ {c}
  /\ IF parent # "off" /\ c = run
       THEN /\ serverChild' = NoChild
            /\ ready' = IF code = "failure" THEN Settled("rejected") ELSE ready
       ELSE UNCHANGED <<serverChild, ready>>
  /\ UNCHANGED <<client, manifest, process, started, polling, own, rival, bundle, foreign>>
-----------------------------------------------------------------------------
(* A server build *)

Failed == [state |-> "failed", lacks |-> {}]
Shipped(keys) ==
  [state |-> "shipped", lacks |-> IF unreported = {} THEN source \ keys ELSE {}]

\* fault: a bundle nothing was injected into is shipped
ShipAnyway(injected) ==
  IF manifest.state # "whole" THEN Failed ELSE Shipped(IF injected THEN manifest.keys ELSE {})

\* a manifest that is missing or torn fails the build when it starts (buildStart), and so
\* does, when it ends (buildEnd), that no module took the import of the generated one
Bundled(injected) ==
  IF manifest.state # "whole" \/ ~injected THEN Failed ELSE Shipped(manifest.keys)

\* one build reads the manifest once; nothing else of it is read or written later
BuildServer ==
  /\ bundle.state = "none"
  /\ \E injected \in BOOLEAN : bundle' = Bundled(injected)
  /\ UNCHANGED <<client, manifest, process, orchestrator, children, signalled, allowed, foreign>>
-----------------------------------------------------------------------------
(* Whoever else wants the port *)

ForeignListens ==
  /\ ~PortAnswers /\ foreign' = TRUE /\ rival' = (rival \/ started)
  /\ UNCHANGED <<client, manifest, process, started, serverChild, ready, polling, own, children, signalled, allowed, bundle>>

ForeignLeaves ==
  /\ foreign /\ foreign' = FALSE
  /\ UNCHANGED <<client, manifest, process, orchestrator, children, signalled, allowed, bundle>>

ChildStep(c) ==
  \/ Boots(c) \/ Listens(c) \/ Closes(c)
  \/ \E key \in Keys : Lookup(c, key)
  \/ \E code \in {"zero", "failure", "none"} : Ends(c, code)

Next ==
  \/ StartRun \/ ConfigRefused \/ StartManagedServer \/ SpawnFails \/ PollAnswered \/ Deadline
  \/ ExitRun \/ KilledRun
  \/ Edit \/ \E phase \in {"build", "update"} : HarvestReport(phase)
  \/ BuildsUnharvested \/ WriteMapperManifest
  \/ \E c \in Runs : ChildStep(c)
  \/ BuildServer
  \/ ForeignListens \/ ForeignLeaves

Spec == Init /\ [][Next]_vars

\* timers fire, and a process that was told to end ends (the adapters close and exit)
Fairness ==
  /\ WF_vars(Deadline)
  /\ \A c \in Runs : WF_vars(Closes(c)) /\ WF_vars(Ends(c, "none"))

FairSpec == Spec /\ Fairness
-----------------------------------------------------------------------------
(* Properties *)

\* Types of every variable.
TypeOK ==
  /\ source \subseteq Keys /\ unreported \subseteq source /\ harvested \subseteq Keys
  /\ manifest \in [state : {"missing", "partial", "whole"}, keys : SUBSET Keys]
  /\ parent \in {"off", "starting", "up"} /\ plugin \in Plugins \cup {Unloaded}
  /\ run \in 0 .. MaxRuns /\ exited \in BOOLEAN
  /\ started \in BOOLEAN /\ serverChild \in Runs \cup {NoChild}
  /\ ready \in {"pending", "resolved", "rejected"} /\ polling \in BOOLEAN
  /\ children \in [Runs -> Alive \cup {"none", "gone"}] /\ signalled \subseteq Runs
  /\ allowed \in [Runs -> SUBSET Keys]
  /\ bundle \in [state : {"none", "failed", "shipped"}, lacks : SUBSET Keys]
  /\ own \in BOOLEAN /\ rival \in BOOLEAN /\ foreign \in BOOLEAN

\* serverReady means the server this process started, unless a child of an earlier
\* process was still alive when it did, or another program has listened on the port
\* since: the poll can not tell them apart (mionVitePlugin.ts:603-604).
ReadyIsOwn == ready = "resolved" => own \/ rival

\* Once the harvest of the source is in the manifest, no running server refuses a
\* mapper of it, whether it booted before, during or after the harvest.
HarvestedServed ==
  \A c \in Runs, key \in source :
    children[c] = "listening" /\ unreported = {} /\ manifest.state # "partial"
      => key \in AllowedAfter(c, key)

\* A server build either fails or ships every mapper the client build had
\* finished harvesting when it began.
ShippedComplete ==
  bundle.state = "shipped" => bundle.lacks = {}

\* Whoever waits for serverReady is told, whatever becomes of the child.
ReadySettles == started /\ ready = "pending" ~> ready # "pending" \/ parent = "off"

\* A build process that exits takes its server with it.
ExitEndsServer ==
  \A c \in Runs : (exited /\ run = c) ~> children[c] \in {"none", "gone"}

\* What was harvested is served, by the server of the build process and by the
\* bundle that is shipped (mionVitePlugin.ts:244-262,355-380,432-450,493-520).
MappersServed == TypeOK /\ HarvestedServed /\ ShippedComplete
=============================================================================
