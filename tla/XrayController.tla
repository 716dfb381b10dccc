---------------------------- MODULE XrayController ----------------------------
(***************************************************************************)
(* cmd/xray-controller/main.go: the store of nodes, subscriptions, rules   *)
(* and inbounds that the web handlers edit, and the application of that    *)
(* store to Xray.                                                          *)
(*                                                                         *)
(* Every handler locks mu, reads the whole store from controller_data.json *)
(* and, if it edits it, writes the whole store back.  handlePingNodes lets *)
(* go of mu in the middle.  handleApplyConfig keeps it from the read to    *)
(* the restart of Xray.  handleService does not take it at all.            *)
(*                                                                         *)
(* The data a node, a rule or an inbound carries is left out: a node is a  *)
(* tag and where it came from, a rule is the tag of its outbound, and of   *)
(* the inbounds only whether xray -test refuses them.  The list of nodes   *)
(* is a set; its first element is then any of them.                        *)
(***************************************************************************)
EXTENDS Naturals, FiniteSets

CONSTANTS
    Handlers,   \* goroutines of the web server
    NoOne,      \* the holder of mu when it is free
    Tags,       \* the tags of nodes: node-<nanoseconds modulo a million>
    NoTag,      \* the empty string
    Subs,       \* identifiers of subscriptions: sub-<seconds>
    Manual,     \* the SubID of an imported node
    Torn,       \* a file that was truncated and not, or not fully, written
    Stopped,    \* no Xray
    Freedom,    \* an outbound that sends directly
    Picks,      \* the tags a client may name as the active node
    RuleSets,   \* the sets of node tags that rules may name
    MaxNodes    \* bound: no edit leaves more nodes

ASSUME XrayAssumption ==
    /\ NoOne \notin Handlers /\ NoTag \notin Tags /\ Manual \notin Subs
    /\ Freedom \notin Tags /\ MaxNodes \in Nat
    /\ Picks \subseteq Tags /\ RuleSets \subseteq SUBSET Tags

VARIABLES
    file,       \* controller_data.json
    files,      \* the files of confDir, one per part of the configuration
    running,    \* the configuration Xray runs with, or Stopped
    mu,         \* the holder of the mutex
    pc, op,     \* where each handler is, and which one it is
    data,       \* its appData
    todo        \* of handleApplyConfig: the files it has yet to write

locals == <<pc, op, data, todo>>
xrayVars == <<file, files, running, mu, locals>>

Nodes == [tag : Tags, sub : Subs \cup {Manual}]

AppData == [active : Tags \cup {NoTag}, subs : SUBSET Subs, nodes : SUBSET Nodes,
            rules : SUBSET Tags, rejected : BOOLEAN]

Parts == {"routing", "inbounds", "outbounds"}

Outbounds == [default : Tags \cup {Freedom}, others : SUBSET Tags]

Config == [routing : (SUBSET Tags) \cup {Torn}, inbounds : BOOLEAN \cup {Torn},
           outbounds : Outbounds \cup {Torn}]

Edits == {"add", "update", "delsub", "import", "delnode", "active", "inbounds", "routing"}

\* The store a new installation starts with.
Default == [active |-> NoTag, subs |-> {}, nodes |-> {}, rules |-> {},
            rejected |-> FALSE]

TagsOf(d) == {n.tag : n \in d.nodes}

\* generateXrayConfig: the active node under the tag proxy-default, or a direct
\* outbound in its place; then the nodes that rules name, as far as they exist.
DefaultOutbound(d) == IF d.active \in TagsOf(d) THEN d.active ELSE Freedom

generateXrayConfig(d) ==
    [routing   |-> d.rules,
     inbounds  |-> d.rejected,
     outbounds |-> [default |-> DefaultOutbound(d), others |-> d.rules \cap TagsOf(d)]]

\* xray run -test on confDir.
Passes(c) == (\A p \in Parts : c[p] # Torn) /\ c.inbounds = FALSE

XrayInit ==
    /\ file = Default
    /\ files = generateXrayConfig(Default)
    /\ running = Stopped
    /\ mu = NoOne
    /\ pc = [h \in Handlers |-> "idle"]
    /\ op = [h \in Handlers |-> "none"]
    /\ data = [h \in Handlers |-> Default]
    /\ todo = [h \in Handlers |-> {}]

XrayTypeOK ==
    /\ file \in AppData \cup {Torn}
    /\ files \in Config
    /\ running \in Config \cup {Stopped}
    /\ mu \in Handlers \cup {NoOne}
    /\ pc \in [Handlers -> {"idle", "ping", "save", "parts", "restart", "again"}]
    /\ op \in [Handlers -> Edits \cup {"none", "ping", "apply"}]
    /\ data \in [Handlers -> AppData]
    /\ todo \in [Handlers -> SUBSET Parts]

-----------------------------------------------------------------------------
(***************************************************************************)
(* What each edit may make of the store d.  Fetched and imported nodes get *)
(* tags from the clock, so nothing keeps two of them from being the same.  *)
(* A fetch that fails ends the handler before it changes anything.         *)
(***************************************************************************)
ActivateFirst(d) ==
    IF d.active = NoTag /\ d.nodes # {}
    THEN {[d EXCEPT !.active = t] : t \in TagsOf(d)}
    ELSE {d}

Fetched(s) == SUBSET [tag : Tags, sub : {s}]

\* Two subscriptions added in one second share an identifier.
AddSubscription(d) ==
    UNION {UNION {ActivateFirst([d EXCEPT !.subs = @ \cup {s}, !.nodes = @ \cup new])
                    : new \in Fetched(s)} : s \in Subs}

UpdateSubscription(d) ==
    UNION {{[d EXCEPT !.nodes = {n \in @ : n.sub # s} \cup new] : new \in Fetched(s)}
             : s \in d.subs}

DeleteSubscription(d) ==
    {[d EXCEPT !.subs = @ \ {s}, !.nodes = {n \in @ : n.sub # s}] : s \in Subs}

ImportNodes(d) ==
    UNION {ActivateFirst([d EXCEPT !.nodes = @ \cup new]) : new \in Fetched(Manual)}

\* The tags that may become active when t is deleted and leaves the nodes kept.
KeepActive(d, t, kept) == {d.active}

NextActive(d, t, kept) ==
    IF d.active # t THEN {d.active}
    ELSE IF kept = {} THEN {NoTag}
    ELSE {n.tag : n \in kept}

DeleteNode(d) ==
    UNION {LET kept == {n \in d.nodes : n.tag # t}
           IN  {[d EXCEPT !.nodes = kept, !.active = a] : a \in NextActive(d, t, kept)}
             : t \in Tags}

\* No check that the node exists.
SetActiveNode(d) == {[d EXCEPT !.active = t] : t \in Picks}

SaveInbounds(d) == {[d EXCEPT !.rejected = r] : r \in BOOLEAN}

SaveRouting(d) == {[d EXCEPT !.rules = r] : r \in RuleSets}

Results(o, d) ==
    CASE o = "add"      -> AddSubscription(d)
      [] o = "update"   -> UpdateSubscription(d)
      [] o = "delsub"   -> DeleteSubscription(d)
      [] o = "import"   -> ImportNodes(d)
      [] o = "delnode"  -> DeleteNode(d)
      [] o = "active"   -> SetActiveNode(d)
      [] o = "inbounds" -> SaveInbounds(d)
      [] o = "routing"  -> SaveRouting(d)

-----------------------------------------------------------------------------
Goto(h, there) == pc' = [pc EXCEPT ![h] = there]

\* The handler returns; its locals are gone.
Return(h) ==
    /\ Goto(h, "idle")
    /\ op' = [op EXCEPT ![h] = "none"]
    /\ data' = [data EXCEPT ![h] = Default]
    /\ todo' = [todo EXCEPT ![h] = {}]

Unlock == mu' = NoOne

\* mu is free, and loadData returns the store: on a torn file it fails, and
\* every handler then returns an error.
LoadUnlocked == file # Torn

LockedLoad == mu = NoOne /\ file # Torn

Lock(h) == mu' = h

Begin(h, o, d, there) ==
    /\ pc[h] = "idle"
    /\ op' = [op EXCEPT ![h] = o]
    /\ data' = [data EXCEPT ![h] = d]
    /\ Goto(h, there)

\* An edit, up to its call of saveData.
Edit(h, o) ==
    /\ LockedLoad
    /\ \E d \in Results(o, file) :
         Cardinality(d.nodes) <= MaxNodes /\ Begin(h, o, d, "save")
    /\ Lock(h)
    /\ UNCHANGED <<file, files, running, todo>>

\* handlePingNodes: load, unlock, dial every node, lock again.
PingLoad(h) ==
    /\ LockedLoad
    /\ Begin(h, "ping", file, "ping")
    /\ UNCHANGED <<file, files, running, mu, todo>>

PingNoLock(h) ==
    /\ pc[h] = "ping"
    /\ Goto(h, "save")
    /\ UNCHANGED <<file, files, running, mu, op, data, todo>>

PingLock(h) ==
    /\ pc[h] = "ping" /\ mu = NoOne
    /\ Goto(h, "save")
    /\ Lock(h)
    /\ UNCHANGED <<file, files, running, op, data, todo>>

\* saveData: its error is ignored, so a failed one is reported as a success.
Save(h) ==
    /\ pc[h] = "save"
    /\ file' \in {data[h], Torn}
    /\ Return(h) /\ Unlock
    /\ UNCHANGED <<files, running>>

-----------------------------------------------------------------------------
(***************************************************************************)
(* handleApplyConfig.  The files are written in the random order of a map. *)
(***************************************************************************)
ApplyBegin(h) ==
    /\ LockedLoad
    /\ Begin(h, "apply", file, "parts")
    /\ todo' = [todo EXCEPT ![h] = Parts]
    /\ Lock(h)
    /\ UNCHANGED <<file, files, running>>

WritePart(h, p) ==
    /\ pc[h] = "parts" /\ p \in todo[h]
    /\ files' = [files EXCEPT ![p] = generateXrayConfig(data[h])[p]]
    /\ todo' = [todo EXCEPT ![h] = @ \ {p}]
    /\ UNCHANGED <<file, running, mu, pc, op, data>>

PartFailsLocked(h, p) ==
    /\ pc[h] = "parts" /\ p \in todo[h]
    /\ files' = [files EXCEPT ![p] = Torn]
    /\ Return(h) /\ UNCHANGED mu
    /\ UNCHANGED <<file, running>>

\* An error ends the handler; the files written so far stay.
PartFails(h, p) ==
    /\ pc[h] = "parts" /\ p \in todo[h]
    /\ files' = [files EXCEPT ![p] = Torn]
    /\ Return(h) /\ Unlock
    /\ UNCHANGED <<file, running>>

PreflightSkipped(h) ==
    /\ pc[h] = "parts" /\ todo[h] = {}
    /\ Goto(h, "restart")
    /\ UNCHANGED <<file, files, running, mu, op, data, todo>>

\* The test comes after the files are in place, and its failure leaves them.
PreflightPasses(h) ==
    /\ pc[h] = "parts" /\ todo[h] = {} /\ Passes(files)
    /\ Goto(h, "restart")
    /\ UNCHANGED <<file, files, running, mu, op, data, todo>>

PreflightFails(h) ==
    /\ pc[h] = "parts" /\ todo[h] = {} /\ ~Passes(files)
    /\ Return(h) /\ Unlock
    /\ UNCHANGED <<file, files, running>>

\* Xray reads confDir when it starts.  It does not start with files that its test
\* refuses; nor with others when a listener cannot be opened, because its port is
\* taken or its address is not local: xray -test opens none.
Launch ==
    \/ running' = Stopped
    \/ Passes(files) /\ running' = files

\* The service is restarted twice, through service(8) and through its script.
Restart(h) ==
    /\ pc[h] = "restart"
    /\ Launch
    /\ Goto(h, "again")
    /\ UNCHANGED <<file, files, mu, op, data, todo>>

RestartAgain(h) ==
    /\ pc[h] = "again"
    /\ Launch
    /\ Return(h) /\ Unlock
    /\ UNCHANGED <<file, files>>

-----------------------------------------------------------------------------
\* handleService, and the same actions by hand, at any moment.
ServiceStart ==
    /\ running = Stopped
    /\ Launch
    /\ UNCHANGED <<file, files, mu, locals>>

ServiceRestart ==
    /\ Launch
    /\ UNCHANGED <<file, files, mu, locals>>

ServiceStop ==
    /\ running' = Stopped
    /\ UNCHANGED <<file, files, mu, locals>>

\* The controller is killed, in the middle of a write too, and started again.
Crash ==
    /\ \/ UNCHANGED <<file, files>>
       \/ /\ \E h \in Handlers : pc[h] = "save"
          /\ file' = Torn /\ UNCHANGED files
       \/ /\ \E h \in Handlers : \E p \in todo[h] : files' = [files EXCEPT ![p] = Torn]
          /\ UNCHANGED file
    /\ mu' = NoOne
    /\ pc' = [h \in Handlers |-> "idle"]
    /\ op' = [h \in Handlers |-> "none"]
    /\ data' = [h \in Handlers |-> Default]
    /\ todo' = [h \in Handlers |-> {}]
    /\ UNCHANGED running

Step(h) ==
    \/ Save(h)
    \/ \E p \in Parts : WritePart(h, p) \/ PartFails(h, p)
    \/ PreflightPasses(h) \/ PreflightFails(h)
    \/ Restart(h) \/ RestartAgain(h)

XrayNext ==
    \/ \E h \in Handlers :
         \/ \E o \in Edits : Edit(h, o)
         \/ PingLoad(h) \/ PingLock(h)
         \/ ApplyBegin(h)
         \/ Step(h)
    \/ ServiceStart \/ ServiceRestart \/ ServiceStop
    \/ Crash

XraySpec == XrayInit /\ [][XrayNext]_xrayVars

\* Disk, network and xray -test come back, and sync.Mutex starves nobody.
FairXraySpec ==
    /\ XraySpec
    /\ \A h \in Handlers : WF_xrayVars(Step(h)) /\ SF_xrayVars(PingLock(h))

-----------------------------------------------------------------------------
(***************************************************************************)
(* No edit loses another one: what a handler is about to write is what the *)
(* file holds at that moment, edited.  Only a ping writes back older data. *)
(***************************************************************************)
NoStaleEdit ==
    \A h \in Handlers : pc[h] = "save" /\ op[h] # "ping" =>
        file # Torn /\ data[h] \in Results(op[h], file)

(***************************************************************************)
(* The active node of the store exists, unless a subscription was renewed  *)
(* or deleted under it, a client named one that is gone, or a ping brought *)
(* such a store back.  Adding, importing and deleting nodes keep it.       *)
(***************************************************************************)
Resolves(d) == d.active # NoTag => d.active \in TagsOf(d)

DanglesOnlyBy ==
    \A h \in Handlers :
        pc[h] = "save" /\ file # Torn /\ Resolves(file) /\ ~Resolves(data[h])
            => op[h] \in {"update", "delsub", "active", "ping"}

(***************************************************************************)
(* When an apply restarts Xray, every file was generated from one store,   *)
(* and that is the store on disk now, whatever other handlers are doing.   *)
(***************************************************************************)
AppliedAsStored ==
    \A h \in Handlers : pc[h] \in {"restart", "again"} =>
        data[h] = file /\ files = generateXrayConfig(file)

(***************************************************************************)
(* A request changes what Xray runs only in the restart of an apply.  Xray *)
(* then runs the configuration of the store on disk; or nothing, when the  *)
(* files are those of the store and passed xray -test but a listener does  *)
(* not open.  Files that a failed apply left behind, of two generations or *)
(* refused, are run, or fail to, only when handleService starts Xray.      *)
(***************************************************************************)
ApplyRunsStored ==
    [][running' # running =>
         \/ UNCHANGED <<mu, locals>>
         \/ /\ Passes(files) /\ files = generateXrayConfig(file)
            /\ running' \in {Stopped, files}]_xrayVars

(***************************************************************************)
(* Every request is answered, the ones that wait for mu a second time too. *)
(***************************************************************************)
RequestsEnd == \A h \in Handlers : pc[h] # "idle" ~> pc[h] = "idle"
=============================================================================
