------------------------- MODULE XrayControllerProofs -------------------------
(***************************************************************************)
(* Proofs about XrayController, for every number of handlers and every set *)
(* of tags, subscriptions and rules.                                       *)
(***************************************************************************)
EXTENDS XrayController, TLAPS

Holding == {"save", "parts", "restart", "again"}

\* mu is held by the one handler that is between its lock and its unlock.
MutexHeld == \A h \in Handlers : mu = h <=> pc[h] \in Holding

\* A handler in its ping is a ping, and one about to save is a ping or an edit.
KindsOK ==
    \A h \in Handlers : /\ pc[h] = "ping" => op[h] = "ping"
                        /\ pc[h] = "save" => op[h] \in Edits \cup {"ping"}

\* The files an apply has written so far come from the store on disk.
Written ==
    \A h \in Handlers : pc[h] = "parts" =>
        /\ data[h] = file
        /\ \A p \in Parts \ todo[h] : files[p] = generateXrayConfig(file)[p]

\* An apply restarts Xray with files that passed the test.
Tested == \A h \in Handlers : pc[h] \in {"restart", "again"} => Passes(files)

Guarded == MutexHeld /\ KindsOK /\ Written /\ Tested /\ NoStaleEdit /\ AppliedAsStored

XrayInv == XrayTypeOK /\ Guarded

-----------------------------------------------------------------------------
(***************************************************************************)
(* The edits, as operators: they give stores, and some keep Resolves.      *)
(***************************************************************************)
LEMMA DefaultTyped == Default \in AppData
BY DEF Default, AppData

LEMMA FetchedTyped ==
    ASSUME NEW s \in Subs \cup {Manual}, NEW new \in Fetched(s)
    PROVE  new \in SUBSET Nodes
BY DEF Fetched, Nodes

LEMMA ActivateKeeps ==
    ASSUME NEW d \in AppData, NEW e \in ActivateFirst(d)
    PROVE  e \in AppData /\ (Resolves(d) => Resolves(e))
<1>1. CASE d.active = NoTag /\ d.nodes # {}
  <2>1. PICK t \in TagsOf(d) : e = [d EXCEPT !.active = t]
    BY <1>1 DEF ActivateFirst
  <2>2. t \in Tags
    BY <2>1 DEF TagsOf, AppData, Nodes
  <2>3. e \in AppData /\ e.active \in TagsOf(e)
    BY <2>1, <2>2 DEF AppData, TagsOf
  <2>4. QED
    BY <2>3 DEF Resolves
<1>2. CASE ~(d.active = NoTag /\ d.nodes # {})
  BY <1>2 DEF ActivateFirst
<1>3. QED
  BY <1>1, <1>2

LEMMA AddKeeps ==
    ASSUME NEW d \in AppData, NEW e \in AddSubscription(d)
    PROVE  e \in AppData /\ (Resolves(d) => Resolves(e))
<1>1. PICK s \in Subs :
        e \in UNION {ActivateFirst([d EXCEPT !.subs = @ \cup {s}, !.nodes = @ \cup new])
                      : new \in Fetched(s)}
  BY ZenonT(30) DEF AddSubscription
<1>2. PICK new \in Fetched(s) :
        e \in ActivateFirst([d EXCEPT !.subs = @ \cup {s}, !.nodes = @ \cup new])
  BY <1>1
<1>3. new \in SUBSET Nodes
  BY <1>2, FetchedTyped
<1> DEFINE f == [d EXCEPT !.subs = @ \cup {s}, !.nodes = @ \cup new]
<1>4. f \in AppData /\ f.active = d.active /\ f.nodes = d.nodes \cup new
  BY <1>3 DEF AppData
<1>5. Resolves(d) => Resolves(f)
  BY <1>4 DEF Resolves, TagsOf
<1>6. e \in ActivateFirst(f)
  BY <1>2
<1> HIDE DEF f
<1>7. QED
  BY <1>4, <1>5, <1>6, ActivateKeeps

LEMMA ImportKeeps ==
    ASSUME NEW d \in AppData, NEW e \in ImportNodes(d)
    PROVE  e \in AppData /\ (Resolves(d) => Resolves(e))
<1>1. PICK new \in Fetched(Manual) : e \in ActivateFirst([d EXCEPT !.nodes = @ \cup new])
  BY DEF ImportNodes
<1>2. new \in SUBSET Nodes
  BY <1>1, FetchedTyped
<1> DEFINE f == [d EXCEPT !.nodes = @ \cup new]
<1>3. f \in AppData /\ f.active = d.active /\ f.nodes = d.nodes \cup new
  BY <1>2 DEF AppData
<1>4. Resolves(d) => Resolves(f)
  BY <1>3 DEF Resolves, TagsOf
<1>5. e \in ActivateFirst(f)
  BY <1>1
<1> HIDE DEF f
<1>6. QED
  BY <1>3, <1>4, <1>5, ActivateKeeps

LEMMA DeleteNodeKeeps ==
    ASSUME NEW d \in AppData, NEW e \in DeleteNode(d)
    PROVE  e \in AppData /\ (Resolves(d) => Resolves(e))
<1>1. PICK t \in Tags : \E a \in NextActive(d, t, {n \in d.nodes : n.tag # t}) :
        e = [d EXCEPT !.nodes = {n \in d.nodes : n.tag # t}, !.active = a]
  BY DEF DeleteNode
<1> DEFINE kept == {n \in d.nodes : n.tag # t}
<1>2. PICK a \in NextActive(d, t, kept) : e = [d EXCEPT !.nodes = kept, !.active = a]
  BY <1>1
<1>3. kept \in SUBSET Nodes /\ \A n \in Nodes : n.tag \in Tags
  BY DEF AppData, Nodes
<1>4. a \in Tags \cup {NoTag}
  <2>1. a \in {d.active, NoTag} \cup {n.tag : n \in kept}
    BY <1>2 DEF NextActive
  <2>2. d.active \in Tags \cup {NoTag}
    BY DEF AppData
  <2>3. QED
    BY <2>1, <2>2, <1>3
<1>5. e \in AppData /\ e.active = a /\ e.nodes = kept
  BY <1>2, <1>3, <1>4 DEF AppData
<1>6. ASSUME Resolves(d) PROVE Resolves(e)
  <2>1. CASE d.active # t
    <3>1. a = d.active
      BY <1>2, <2>1 DEF NextActive
    <3>2. d.active \in TagsOf(d) => d.active \in {n.tag : n \in kept}
      BY <2>1 DEF TagsOf
    <3>3. QED
      BY <3>1, <3>2, <1>5, <1>6 DEF Resolves, TagsOf
  <2>2. CASE d.active = t /\ kept = {}
    BY <1>2, <2>2, <1>5 DEF NextActive, Resolves
  <2>3. CASE d.active = t /\ kept # {}
    BY <1>2, <2>3, <1>5 DEF NextActive, Resolves, TagsOf
  <2>4. QED
    BY <2>1, <2>2, <2>3
<1>7. QED
  BY <1>5, <1>6

LEMMA UpdateTyped ==
    ASSUME NEW d \in AppData, NEW e \in UpdateSubscription(d)
    PROVE  e \in AppData
<1>1. PICK s \in d.subs : \E new \in Fetched(s) :
        e = [d EXCEPT !.nodes = {n \in @ : n.sub # s} \cup new]
  BY DEF UpdateSubscription
<1>2. PICK new \in Fetched(s) : e = [d EXCEPT !.nodes = {n \in @ : n.sub # s} \cup new]
  BY <1>1
<1>3. s \in Subs
  BY <1>1 DEF AppData
<1>4. new \in SUBSET Nodes
  BY <1>2, <1>3, FetchedTyped
<1>5. QED
  BY <1>2, <1>4 DEF AppData

LEMMA SavesKeep ==
    ASSUME NEW d \in AppData, NEW e \in SaveInbounds(d) \cup SaveRouting(d)
    PROVE  e \in AppData /\ (Resolves(d) => Resolves(e))
<1>1. e \in AppData /\ e.active = d.active /\ e.nodes = d.nodes
  BY XrayAssumption DEF AppData, SaveInbounds, SaveRouting
<1>2. QED
  BY <1>1 DEF Resolves, TagsOf

Dangling == {"update", "delsub", "active"}

LEMMA ResultsKeep ==
    ASSUME NEW d \in AppData, NEW o \in Edits, NEW e \in Results(o, d)
    PROVE  e \in AppData /\ (o \notin Dangling /\ Resolves(d) => Resolves(e))
<1>1. CASE o = "add"
  BY <1>1, AddKeeps DEF Results
<1>2. CASE o = "update"
  BY <1>2, UpdateTyped DEF Results, Dangling
<1>3. CASE o = "delsub"
  <2>1. PICK s \in Subs :
          e = [d EXCEPT !.subs = @ \ {s}, !.nodes = {n \in @ : n.sub # s}]
    BY <1>3 DEF Results, DeleteSubscription
  <2>2. QED
    BY <1>3, <2>1 DEF Dangling, AppData
<1>4. CASE o = "import"
  BY <1>4, ImportKeeps DEF Results
<1>5. CASE o = "delnode"
  BY <1>5, DeleteNodeKeeps DEF Results
<1>6. CASE o = "active"
  BY <1>6, XrayAssumption DEF Results, Dangling, SetActiveNode, AppData
<1>7. CASE o = "inbounds"
  BY <1>7, SavesKeep DEF Results
<1>8. CASE o = "routing"
  BY <1>8, SavesKeep DEF Results
<1>9. QED
  BY <1>1, <1>2, <1>3, <1>4, <1>5, <1>6, <1>7, <1>8 DEF Edits

-----------------------------------------------------------------------------
LEMMA XrayInitInv == XrayInit => XrayInv
<1> SUFFICES ASSUME XrayInit PROVE XrayInv
  OBVIOUS
<1>1. generateXrayConfig(Default) \in Config
  BY DEF generateXrayConfig, Default, Config, Outbounds, DefaultOutbound, TagsOf
<1>2. XrayTypeOK
  BY <1>1, DefaultTyped DEF XrayInit, XrayTypeOK
<1>3. MutexHeld /\ KindsOK /\ Written /\ Tested /\ NoStaleEdit /\ AppliedAsStored
  BY XrayAssumption
  DEF XrayInit, MutexHeld, Holding, KindsOK, Written, Tested, NoStaleEdit, AppliedAsStored
<1>4. QED
  BY <1>2, <1>3 DEF XrayInv, Guarded

LEMMA ConfigTyped == ASSUME NEW d \in AppData PROVE generateXrayConfig(d) \in Config
<1>1. DefaultOutbound(d) \in Tags \cup {Freedom}
  BY DEF DefaultOutbound, TagsOf, AppData, Nodes
<1>2. [default |-> DefaultOutbound(d), others |-> d.rules \cap TagsOf(d)] \in Outbounds
  BY <1>1 DEF Outbounds, AppData
<1>3. d.rules \in SUBSET Tags /\ d.rejected \in BOOLEAN
  BY DEF AppData
<1>4. QED
  BY <1>2, <1>3 DEF generateXrayConfig, Config

\* Parts that all come from d make the configuration of d.
LEMMA ConfigComplete ==
    ASSUME NEW c \in Config, NEW d, \A p \in Parts : c[p] = generateXrayConfig(d)[p]
    PROVE  c = generateXrayConfig(d)
<1>1. /\ c.routing = generateXrayConfig(d).routing
      /\ c.inbounds = generateXrayConfig(d).inbounds
      /\ c.outbounds = generateXrayConfig(d).outbounds
  BY DEF Parts
<1>2. QED
  BY <1>1 DEF generateXrayConfig, Config

-----------------------------------------------------------------------------
(***************************************************************************)
(* Types.                                                                  *)
(***************************************************************************)
LEMMA ReturnTyped ==
    ASSUME XrayTypeOK, NEW h \in Handlers, Return(h)
    PROVE  /\ pc' \in [Handlers -> {"idle", "ping", "save", "parts", "restart", "again"}]
           /\ op' \in [Handlers -> Edits \cup {"none", "ping", "apply"}]
           /\ data' \in [Handlers -> AppData]
           /\ todo' \in [Handlers -> SUBSET Parts]
BY DefaultTyped DEF XrayTypeOK, Return, Goto

LEMMA XrayTypeStep == XrayTypeOK /\ [XrayNext]_xrayVars => XrayTypeOK'
<1> SUFFICES ASSUME XrayTypeOK, [XrayNext]_xrayVars PROVE XrayTypeOK'
  OBVIOUS
<1>1. ASSUME NEW h \in Handlers, NEW o \in Edits, Edit(h, o) PROVE XrayTypeOK'
  <2>1. file \in AppData
    BY <1>1 DEF Edit, LockedLoad, XrayTypeOK
  <2>2. PICK d \in Results(o, file) : Begin(h, o, d, "save")
    BY <1>1 DEF Edit
  <2>3. d \in AppData
    BY <2>1, <2>2, ResultsKeep
  <2>4. QED
    BY <1>1, <2>2, <2>3 DEF Edit, Begin, Goto, Lock, XrayTypeOK
<1>2. ASSUME NEW h \in Handlers, PingLoad(h) PROVE XrayTypeOK'
  BY <1>2 DEF PingLoad, LockedLoad, Begin, Goto, XrayTypeOK
<1>3. ASSUME NEW h \in Handlers, PingLock(h) PROVE XrayTypeOK'
  BY <1>3 DEF PingLock, Goto, Lock, XrayTypeOK
<1>4. ASSUME NEW h \in Handlers, ApplyBegin(h) PROVE XrayTypeOK'
  BY <1>4 DEF ApplyBegin, LockedLoad, Begin, Goto, Lock, XrayTypeOK
<1>5. ASSUME NEW h \in Handlers, Save(h) PROVE XrayTypeOK'
  BY <1>5, ReturnTyped DEF Save, Unlock, XrayTypeOK
<1>6. ASSUME NEW h \in Handlers, NEW p \in Parts, WritePart(h, p) PROVE XrayTypeOK'
  <2>1. generateXrayConfig(data[h]) \in Config
    BY ConfigTyped DEF XrayTypeOK
  <2>2. files' \in Config
    BY <1>6, <2>1 DEF WritePart, Config, Parts, XrayTypeOK
  <2>3. todo' \in [Handlers -> SUBSET Parts]
    BY <1>6 DEF WritePart, XrayTypeOK
  <2>4. QED
    BY <1>6, <2>2, <2>3 DEF WritePart, XrayTypeOK
<1>7. ASSUME NEW h \in Handlers, NEW p \in Parts, PartFails(h, p) PROVE XrayTypeOK'
  <2>1. files' \in Config
    BY <1>7 DEF PartFails, Config, Parts, XrayTypeOK
  <2>2. QED
    BY <1>7, <2>1, ReturnTyped DEF PartFails, Unlock, XrayTypeOK
<1>8. ASSUME NEW h \in Handlers, PreflightPasses(h) PROVE XrayTypeOK'
  BY <1>8 DEF PreflightPasses, Goto, XrayTypeOK
<1>9. ASSUME NEW h \in Handlers, PreflightFails(h) PROVE XrayTypeOK'
  BY <1>9, ReturnTyped DEF PreflightFails, Unlock, XrayTypeOK
<1>10. Launch /\ files \in Config => running' \in Config \cup {Stopped}
  BY DEF Launch
<1>11. ASSUME NEW h \in Handlers, Restart(h) PROVE XrayTypeOK'
  BY <1>11, <1>10 DEF Restart, Goto, XrayTypeOK
<1>12. ASSUME NEW h \in Handlers, RestartAgain(h) PROVE XrayTypeOK'
  BY <1>12, <1>10, ReturnTyped DEF RestartAgain, Unlock, XrayTypeOK
<1>13. ASSUME ServiceStart \/ ServiceRestart \/ ServiceStop PROVE XrayTypeOK'
  BY <1>13, <1>10 DEF ServiceStart, ServiceRestart, ServiceStop, locals, XrayTypeOK
<1>14. ASSUME Crash PROVE XrayTypeOK'
  <2>1. files' \in Config
    <3>1. ASSUME NEW h \in Handlers, NEW p \in todo[h], files' = [files EXCEPT ![p] = Torn]
          PROVE files' \in Config
      <4>1. p \in Parts
        BY <3>1 DEF XrayTypeOK
      <4>2. QED
        BY <3>1, <4>1 DEF Config, Parts, XrayTypeOK
    <3>2. QED
      BY <1>14, <3>1 DEF Crash, XrayTypeOK
  <2>2. file' \in AppData \cup {Torn}
    BY <1>14 DEF Crash, XrayTypeOK
  <2>3. QED
    BY <1>14, <2>1, <2>2, DefaultTyped DEF Crash, XrayTypeOK
<1>15. CASE UNCHANGED xrayVars
  BY <1>15 DEF xrayVars, locals, XrayTypeOK
<1>16. QED
  BY <1>1, <1>2, <1>3, <1>4, <1>5, <1>6, <1>7, <1>8, <1>9, <1>11, <1>12, <1>13, <1>14, <1>15
  DEF XrayNext, Step

-----------------------------------------------------------------------------
(***************************************************************************)
(* The rest of the invariant.  Whoever holds mu is alone between its lock  *)
(* and its unlock, so the store and the files stand still for it.          *)
(***************************************************************************)
\* Only h was holding mu, and it returned and released it.
LEMMA UnlockGuarded ==
    ASSUME XrayTypeOK, Guarded, NEW h \in Handlers, pc[h] \in Holding,
           Return(h), Unlock
    PROVE  Guarded'
<1>1. \A i \in Handlers : pc'[i] \notin Holding /\ (pc'[i] = "ping" => op'[i] = "ping")
  BY DEF Guarded, MutexHeld, KindsOK, Holding, Return, Goto, XrayTypeOK
<1>2. mu' = NoOne
  BY DEF Unlock
<1>3. QED
  BY <1>1, <1>2, XrayAssumption
  DEF Guarded, MutexHeld, KindsOK, Holding, Written, Tested, NoStaleEdit, AppliedAsStored

\* Nobody held mu; h takes it for an edit, a ping's write-back or an apply.
LEMMA LockGuarded ==
    ASSUME XrayTypeOK, Guarded, NEW h \in Handlers, mu = NoOne, Lock(h),
           Goto(h, "save") \/ Goto(h, "parts"),
           UNCHANGED <<file, files>>,
           \A i \in Handlers \ {h} : op'[i] = op[i] /\ data'[i] = data[i] /\ todo'[i] = todo[i],
           pc'[h] = "save" => op'[h] \in Edits \cup {"ping"},
           pc'[h] = "save" /\ op'[h] # "ping" => file # Torn /\ data'[h] \in Results(op'[h], file),
           pc'[h] = "parts" => data'[h] = file /\ todo'[h] = Parts
    PROVE  Guarded'
<1>1. \A i \in Handlers : pc[i] \notin Holding
  BY XrayAssumption DEF Guarded, MutexHeld
<1>2. pc'[h] \in {"save", "parts"} /\ \A i \in Handlers \ {h} : pc'[i] = pc[i]
  BY DEF Goto, XrayTypeOK
<1>3. MutexHeld'
  BY <1>1, <1>2 DEF MutexHeld, Holding, Lock
<1>4. KindsOK'
  BY <1>1, <1>2 DEF Guarded, KindsOK, Holding
<1>5. Written'
  BY <1>1, <1>2 DEF Written, Holding
<1>6. Tested' /\ AppliedAsStored'
  BY <1>1, <1>2 DEF Tested, AppliedAsStored, Holding
<1>7. NoStaleEdit'
  BY <1>1, <1>2 DEF NoStaleEdit, Holding
<1>8. QED
  BY <1>3, <1>4, <1>5, <1>6, <1>7 DEF Guarded

LEMMA GuardedStep == XrayTypeOK /\ Guarded /\ [XrayNext]_xrayVars => Guarded'
<1> SUFFICES ASSUME XrayTypeOK, Guarded, [XrayNext]_xrayVars PROVE Guarded'
  OBVIOUS
<1>1. ASSUME NEW h \in Handlers, NEW o \in Edits, Edit(h, o) PROVE Guarded'
  <2>1. PICK d \in Results(o, file) : Begin(h, o, d, "save")
    BY <1>1 DEF Edit
  <2>2. op'[h] = o /\ data'[h] = d /\ pc'[h] = "save" /\ o # "ping"
    BY <2>1 DEF Begin, Goto, XrayTypeOK, Edits
  <2>3. \A i \in Handlers \ {h} : op'[i] = op[i] /\ data'[i] = data[i] /\ todo'[i] = todo[i]
    BY <1>1, <2>1 DEF Edit, Begin, XrayTypeOK
  <2>4. mu = NoOne /\ file # Torn /\ Lock(h) /\ Goto(h, "save") /\ UNCHANGED <<file, files>>
    BY <1>1, <2>1 DEF Edit, LockedLoad, Begin
  <2>5. QED
    BY <2>1, <2>2, <2>3, <2>4, LockGuarded
<1>2. ASSUME NEW h \in Handlers, PingLoad(h) PROVE Guarded'
  <2>1. pc[h] = "idle" /\ pc'[h] = "ping" /\ op'[h] = "ping"
    BY <1>2 DEF PingLoad, Begin, Goto, XrayTypeOK
  <2>2. \A i \in Handlers \ {h} :
          pc'[i] = pc[i] /\ op'[i] = op[i] /\ data'[i] = data[i] /\ todo'[i] = todo[i]
    BY <1>2 DEF PingLoad, Begin, Goto, XrayTypeOK
  <2>3. UNCHANGED <<file, files, mu>>
    BY <1>2 DEF PingLoad
  <2>4. QED
    BY <2>1, <2>2, <2>3 DEF Guarded, MutexHeld, KindsOK, Holding, Written, Tested,
      NoStaleEdit, AppliedAsStored
<1>3. ASSUME NEW h \in Handlers, PingLock(h) PROVE Guarded'
  <2>1. pc[h] = "ping" /\ pc'[h] = "save" /\ op'[h] = "ping"
    BY <1>3 DEF PingLock, Goto, XrayTypeOK, Guarded, KindsOK
  <2>2. QED
    BY <1>3, <2>1, LockGuarded DEF PingLock
<1>4. ASSUME NEW h \in Handlers, ApplyBegin(h) PROVE Guarded'
  <2>1. pc'[h] = "parts" /\ data'[h] = file /\ todo'[h] = Parts /\ Goto(h, "parts")
    BY <1>4 DEF ApplyBegin, Begin, Goto, XrayTypeOK
  <2>2. \A i \in Handlers \ {h} : op'[i] = op[i] /\ data'[i] = data[i] /\ todo'[i] = todo[i]
    BY <1>4 DEF ApplyBegin, Begin, XrayTypeOK
  <2>3. QED
    BY <1>4, <2>1, <2>2, LockGuarded DEF ApplyBegin, LockedLoad
<1>5. ASSUME NEW h \in Handlers, Save(h) PROVE Guarded'
  BY <1>5, UnlockGuarded DEF Save, Holding
<1>6. ASSUME NEW h \in Handlers, NEW p \in Parts, WritePart(h, p) PROVE Guarded'
  <2>1. pc[h] = "parts" /\ mu = h /\ data[h] = file
    BY <1>6 DEF WritePart, Guarded, MutexHeld, Holding, Written
  <2>2. \A i \in Handlers \ {h} : pc[i] \notin Holding
    BY <2>1 DEF Guarded, MutexHeld
  <2>3. UNCHANGED <<file, mu, pc, op, data>>
    BY <1>6 DEF WritePart
  <2>4. \A q \in Parts \ todo'[h] : files'[q] = generateXrayConfig(file)[q]
    <3>1. todo'[h] = todo[h] \ {p}
      BY <1>6 DEF WritePart, XrayTypeOK
    <3>2. files' = [files EXCEPT ![p] = generateXrayConfig(file)[p]]
      BY <1>6, <2>1 DEF WritePart
    <3>3. \A q \in Parts : files'[q] = IF q = p THEN generateXrayConfig(file)[p] ELSE files[q]
      BY <3>2 DEF XrayTypeOK, Config, Parts
    <3>4. \A q \in Parts \ todo[h] : files[q] = generateXrayConfig(file)[q]
      BY <2>1 DEF Guarded, Written
    <3>5. QED
      BY <3>1, <3>3, <3>4
  <2>5. QED
    BY <2>1, <2>2, <2>3, <2>4 DEF Guarded, MutexHeld, KindsOK, Holding, Written, Tested,
      NoStaleEdit, AppliedAsStored
<1>7. ASSUME NEW h \in Handlers, NEW p \in Parts, PartFails(h, p) PROVE Guarded'
  BY <1>7, UnlockGuarded DEF PartFails, Holding
<1>8. ASSUME NEW h \in Handlers, PreflightPasses(h) PROVE Guarded'
  <2>1. pc[h] = "parts" /\ mu = h /\ data[h] = file /\ Passes(files)
    BY <1>8 DEF PreflightPasses, Guarded, MutexHeld, Holding, Written
  <2>2. \A i \in Handlers \ {h} : pc[i] \notin Holding
    BY <2>1 DEF Guarded, MutexHeld
  <2>3. pc'[h] = "restart" /\ \A i \in Handlers \ {h} : pc'[i] = pc[i]
    BY <1>8 DEF PreflightPasses, Goto, XrayTypeOK
  <2>4. UNCHANGED <<file, files, mu, op, data, todo>>
    BY <1>8 DEF PreflightPasses
  <2>5. files = generateXrayConfig(file)
    <3>1. \A p \in Parts : files[p] = generateXrayConfig(file)[p]
      BY <1>8, <2>1 DEF PreflightPasses, Guarded, Written
    <3>2. QED
      BY <3>1, ConfigComplete DEF XrayTypeOK
  <2>6. Passes(files)'
    BY <2>1, <2>4 DEF Passes
  <2>7. MutexHeld' /\ KindsOK'
    BY <2>1, <2>2, <2>3, <2>4 DEF Guarded, MutexHeld, KindsOK, Holding
  <2>8. Written' /\ NoStaleEdit'
    BY <2>1, <2>2, <2>3, <2>4 DEF Guarded, Written, NoStaleEdit, Holding
  <2>9. Tested' /\ AppliedAsStored'
    BY <2>1, <2>2, <2>3, <2>4, <2>5, <2>6 DEF Guarded, Tested, AppliedAsStored, Holding
  <2>10. QED
    BY <2>7, <2>8, <2>9 DEF Guarded
<1>9. ASSUME NEW h \in Handlers, PreflightFails(h) PROVE Guarded'
  BY <1>9, UnlockGuarded DEF PreflightFails, Holding
<1>10. ASSUME NEW h \in Handlers, Restart(h) PROVE Guarded'
  <2>1. pc[h] = "restart" /\ pc'[h] = "again" /\ \A i \in Handlers \ {h} : pc'[i] = pc[i]
    BY <1>10 DEF Restart, Goto, XrayTypeOK
  <2>2. UNCHANGED <<file, files, mu, op, data, todo>>
    BY <1>10 DEF Restart
  <2>3. Passes(files)'
    BY <2>1, <2>2 DEF Passes, Guarded, Tested
  <2>4. MutexHeld' /\ KindsOK' /\ Written' /\ NoStaleEdit'
    BY <2>1, <2>2 DEF Guarded, MutexHeld, KindsOK, Holding, Written, NoStaleEdit
  <2>5. Tested' /\ AppliedAsStored'
    BY <2>1, <2>2, <2>3 DEF Guarded, Tested, AppliedAsStored
  <2>6. QED
    BY <2>4, <2>5 DEF Guarded
<1>11. ASSUME NEW h \in Handlers, RestartAgain(h) PROVE Guarded'
  BY <1>11, UnlockGuarded DEF RestartAgain, Holding
<1>12. ASSUME ServiceStart \/ ServiceRestart \/ ServiceStop \/ UNCHANGED xrayVars
       PROVE  Guarded'
  <2>1. UNCHANGED <<file, files, mu, pc, op, data, todo>>
    BY <1>12 DEF ServiceStart, ServiceRestart, ServiceStop, xrayVars, locals
  <2>2. Passes(files)' = Passes(files)
    BY <2>1 DEF Passes
  <2>3. QED
    BY <2>1, <2>2 DEF Guarded, MutexHeld, KindsOK, Written, Tested, NoStaleEdit, AppliedAsStored
<1>13. ASSUME Crash PROVE Guarded'
  <2>1. mu' = NoOne /\ \A i \in Handlers : pc'[i] = "idle"
    BY <1>13 DEF Crash
  <2>2. QED
    BY <2>1, XrayAssumption DEF Guarded, MutexHeld, KindsOK, Holding, Written, Tested,
      NoStaleEdit, AppliedAsStored
<1>14. QED
  BY <1>1, <1>2, <1>3, <1>4, <1>5, <1>6, <1>7, <1>8, <1>9, <1>10, <1>11, <1>12, <1>13
  DEF XrayNext, Step

-----------------------------------------------------------------------------
LEMMA XrayInvariant == XraySpec => []XrayInv
<1>1. XrayInv /\ [XrayNext]_xrayVars => XrayInv'
  BY XrayTypeStep, GuardedStep DEF XrayInv
<1>2. QED
  BY XrayInitInv, <1>1, PTL DEF XraySpec

(***************************************************************************)
(* Type correctness of the store, the files and the handlers' locals.      *)
(***************************************************************************)
THEOREM XrayTypeCorrect == XraySpec => []XrayTypeOK
BY XrayInvariant, PTL DEF XrayInv

(***************************************************************************)
(* No edit of main.go overwrites another one; only a ping's write-back     *)
(* saves data that is older than the file.                                 *)
(***************************************************************************)
THEOREM NoEditLost == XraySpec => []NoStaleEdit
<1>1. XrayInv => NoStaleEdit
  BY DEF XrayInv, Guarded
<1>2. QED
  BY <1>1, XrayInvariant, PTL

(***************************************************************************)
(* The active node comes to name nothing only through the three handlers   *)
(* that do not look at it, or through a ping.                              *)
(***************************************************************************)
THEOREM DanglesAccounted == XraySpec => []DanglesOnlyBy
<1>1. XrayInv => DanglesOnlyBy
  <2> SUFFICES ASSUME XrayTypeOK, Guarded, NEW h \in Handlers,
                      pc[h] = "save", file # Torn, Resolves(file), ~Resolves(data[h])
               PROVE  op[h] \in {"update", "delsub", "active", "ping"}
    BY DEF DanglesOnlyBy, XrayInv
  <2>1. CASE op[h] = "ping"
    BY <2>1
  <2>2. CASE op[h] # "ping"
    <3>1. op[h] \in Edits /\ data[h] \in Results(op[h], file) /\ file \in AppData
      BY <2>2 DEF Guarded, KindsOK, NoStaleEdit, XrayTypeOK
    <3>2. op[h] \in Dangling
      BY <3>1, ResultsKeep
    <3>3. QED
      BY <3>2 DEF Dangling
  <2>3. QED
    BY <2>1, <2>2
<1>2. QED
  BY <1>1, XrayInvariant, PTL

(***************************************************************************)
(* handleApplyConfig restarts Xray with files that were all generated from *)
(* the store that is on disk at that moment.                               *)
(***************************************************************************)
THEOREM AppliedFromStore == XraySpec => []AppliedAsStored
<1>1. XrayInv => AppliedAsStored
  BY DEF XrayInv, Guarded
<1>2. QED
  BY <1>1, XrayInvariant, PTL

(***************************************************************************)
(* A request changes what Xray runs only to the configuration of the store *)
(* on disk, or to nothing after the files of that store passed the test;   *)
(* whatever failed applies, kills and handleService did before.            *)
(***************************************************************************)
THEOREM RequestsRunStored == XraySpec => ApplyRunsStored
<1> DEFINE Stored == /\ Passes(files) /\ files = generateXrayConfig(file)
                     /\ running' \in {Stopped, files}
<1>1. XrayInv /\ [XrayNext]_xrayVars =>
        [running' # running => UNCHANGED <<mu, locals>> \/ Stored]_xrayVars
  <2> SUFFICES ASSUME Guarded, XrayNext, running' # running
               PROVE  UNCHANGED <<mu, locals>> \/ Stored
    BY DEF XrayInv, xrayVars
  <2>1. CASE ServiceStart \/ ServiceRestart \/ ServiceStop
    BY <2>1 DEF ServiceStart, ServiceRestart, ServiceStop
  <2>2. ASSUME NEW h \in Handlers, Restart(h) \/ RestartAgain(h) PROVE Stored
    <3>1. pc[h] \in {"restart", "again"} /\ Launch
      BY <2>2 DEF Restart, RestartAgain
    <3>2. Passes(files) /\ files = generateXrayConfig(file)
      BY <3>1 DEF Guarded, Tested, AppliedAsStored
    <3>3. QED
      BY <3>1, <3>2 DEF Launch
  <2>3. CASE running' = running
    BY <2>3
  <2>4. QED
    BY <2>1, <2>2, <2>3 DEF XrayNext, Step, Edit, PingLoad, PingLock, ApplyBegin, Save,
      WritePart, PartFails, PreflightPasses, PreflightFails, Crash
<1>2. QED
  BY <1>1, XrayInvariant, PTL DEF XraySpec, ApplyRunsStored
=============================================================================
