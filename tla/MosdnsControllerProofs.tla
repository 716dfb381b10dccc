------------------------ MODULE MosdnsControllerProofs ------------------------
(***************************************************************************)
(* Proofs about MosdnsController, for every number of handlers, scripts    *)
(* and domains and every settings and rules written.                       *)
(***************************************************************************)
EXTENDS MosdnsController, WellFoundedInduction, TLAPS

Tags == {"direct", "proxy", "block"}

-----------------------------------------------------------------------------
(***************************************************************************)
(* What the handlers and scripts carry at each point.                      *)
(***************************************************************************)
Carries ==
    /\ \A h \in Handlers :
         /\ pc[h] \notin {"cn", "gfw", "check"}
         /\ pc[h] \in {"lock", "save", "truncate"} => arg[h] \in Settings
         /\ pc[h] = "truncate" => settings = arg[h]
         /\ pc[h] = "write" =>
              /\ config = Torn /\ settings \in Settings
              /\ \E exist \in SUBSET there : arg[h] = Generated(settings, exist)
         /\ pc[h] = "rules" => arg[h] \in Drafts /\ arg[h].file \in there
    /\ \A p \in Scripts : pc[p] \in {"idle", "cn", "gfw", "check", "stop", "start"}
    /\ \A a \in Actors : pc[a] = "start" => left[a] > 0

\* ConfigFollowsSettings, with the mutex taken too.
Follows ==
    settings # Torn /\ config # Torn /\ "config" \notin owed /\ ~Someone("truncate") =>
        \/ settings = defaultSettings /\ config = Sample
        \/ \E exist \in SUBSET there : config = Generated(settings, exist)

\* The domain sets of a configuration name files that exist or will.
Named == config # Torn => \A t \in Tags : config.sets[t] \subseteq there \cup Touched

\* MosDNS has seen the files its start creates, and a file is empty until it
\* exists: the controller has nothing to put into a file MosDNS has read.
Created ==
    /\ proc # Down => Touched \subseteq there
    /\ \A f \in RuleFiles \ there : lines[f] = {}

MosdnsInv ==
    MosdnsTypeOK /\ Carries /\ MutexReturned /\ Follows /\ Named /\ Created
    /\ RunsLatest

-----------------------------------------------------------------------------
\* The defaults of the code are settings.
LEMMA DefaultIsSettings == defaultSettings \in Settings
BY DEF defaultSettings, Settings

\* A settings file that was decoded was not a damaged one.
LEMMA SettingsNotTorn == \A s \in Settings : s # Torn
BY MosdnsAssumption

\* A generated configuration names files that exist.
LEMMA GeneratedTyped ==
    ASSUME NEW s \in Settings, NEW exist \in SUBSET RuleFiles
    PROVE  /\ DOMAIN Generated(s, exist) = {"sets", "main"}
           /\ Generated(s, exist).sets \in [Tags -> SUBSET RuleFiles]
           /\ \A t \in Tags : Generated(s, exist).sets[t] \subseteq exist
<1>1. DomainSets(s, exist) \in [Tags -> SUBSET RuleFiles]
  BY DEF DomainSets, Tags, RuleFiles, Managed, Custom
<1>2. \A t \in Tags : DomainSets(s, exist)[t] \subseteq exist
  BY DEF DomainSets, Tags
<1>3. QED
  BY <1>1, <1>2 DEF Generated

\* The installed configuration names files rc.d/mosdns creates.
LEMMA SampleTyped ==
    /\ DOMAIN Sample = {"sets", "main"}
    /\ Sample.sets \in [Tags -> SUBSET RuleFiles]
    /\ \A t \in Tags : Sample.sets[t] \subseteq Touched
BY DEF Sample, Tags, RuleFiles, Managed, Custom, Touched

\* Every query goes one of four ways.
LEMMA PipelineTyped ==
    ASSUME NEW c, NEW L
    PROVE  Pipeline(c, L) \in [Domains -> {"block", "direct", "proxy", "astray"}]
BY DEF Pipeline, Route

-----------------------------------------------------------------------------
\* The package's files agree and nothing runs.
LEMMA MosdnsInitInv == MosdnsInit => MosdnsInv
<1> SUFFICES ASSUME MosdnsInit PROVE MosdnsInv
  OBVIOUS
<1> USE DEF MosdnsInit
<1>1. MosdnsTypeOK
  <2>1. settings \in Settings \cup {Torn} /\ DOMAIN config = {"sets", "main"}
    BY SampleTyped, DefaultIsSettings
  <2>2. config.sets \in [{"direct", "proxy", "block"} -> SUBSET RuleFiles]
    BY SampleTyped DEF Tags
  <2>3. there \subseteq RuleFiles /\ lines \in [RuleFiles -> SUBSET Lines]
    OBVIOUS
  <2>4. arg = [a \in Actors |-> arg[a]]
    OBVIOUS
  <2>5. /\ pc \in [Actors -> {"idle", "lock", "save", "truncate", "write", "rules",
                              "cn", "gfw", "check", "stop", "kill", "start"}]
        /\ left \in [Actors -> 0..2]
    OBVIOUS
  <2>6. QED
    BY <2>1, <2>2, <2>3, <2>4, <2>5 DEF MosdnsTypeOK
<1>2. Carries
  BY DEF Carries, Actors
<1>3. MutexReturned
  BY MosdnsAssumption DEF MutexReturned, Actors
<1>4. Follows /\ Named /\ Created /\ RunsLatest
  BY SampleTyped DEF Follows, Named, Created, RunsLatest
<1>5. QED
  BY <1>1, <1>2, <1>3, <1>4 DEF MosdnsInv

\* The mutex moves with the handler that is between its writes.
LEMMA MutexStep ==
    MosdnsTypeOK /\ Carries /\ MutexReturned /\ MosdnsNext => MutexReturned'
<1> SUFFICES ASSUME MosdnsTypeOK /\ Carries /\ MutexReturned, MosdnsNext
             PROVE MutexReturned'
  OBVIOUS
<1>1. ASSUME NEW h \in Handlers, PostConfig(h) PROVE MutexReturned'
  BY <1>1, MosdnsAssumption
     DEF PostConfig, Goto, At, Keep, Restarts, diskVars, MosdnsTypeOK, Carries,
        MutexReturned, Actors
<1>2. ASSUME NEW h \in Handlers, LockConfig(h) PROVE MutexReturned'
  BY <1>2, MosdnsAssumption
     DEF LockConfig, Goto, At, diskVars, MosdnsTypeOK, Carries, MutexReturned, Actors
<1>3. ASSUME NEW h \in Handlers, SaveSettings(h) PROVE MutexReturned'
  BY <1>3, MosdnsAssumption
     DEF SaveSettings, Goto, At, MosdnsTypeOK, Carries, MutexReturned, Actors
<1>4. ASSUME NEW h \in Handlers, SaveFails(h) PROVE MutexReturned'
  BY <1>4, MosdnsAssumption
     DEF SaveFails, Abort, Goto, Keep, Restarts, At, MosdnsTypeOK, Carries,
        MutexReturned, Actors
<1>5. ASSUME NEW h \in Handlers, Truncate(h) PROVE MutexReturned'
  BY <1>5, MosdnsAssumption
     DEF Truncate, Goto, Keep, At, MosdnsTypeOK, Carries, MutexReturned, Actors
<1>6. ASSUME NEW h \in Handlers, WriteConfig(h) PROVE MutexReturned'
  BY <1>6, MosdnsAssumption
     DEF WriteConfig, Finish, Goto, Keep, At, MosdnsTypeOK, Carries, MutexReturned,
        Actors
<1>7. ASSUME NEW h \in Handlers, WriteFails(h) PROVE MutexReturned'
  BY <1>7, MosdnsAssumption
     DEF WriteFails, Abort, Goto, Keep, Restarts, Owe, At, diskVars, MosdnsTypeOK,
        Carries, MutexReturned, Actors
<1>8. ASSUME NEW h \in Handlers, PostRules(h) PROVE MutexReturned'
  BY <1>8, MosdnsAssumption
     DEF PostRules, Goto, Keep, Restarts, At, MosdnsTypeOK, Carries, MutexReturned,
        Actors
<1>9. ASSUME NEW h \in Handlers, WriteRules(h) PROVE MutexReturned'
  BY <1>9, MosdnsAssumption
     DEF WriteRules, Finish, Goto, Keep, OweRestart, Owe, At, MosdnsTypeOK, Carries,
        MutexReturned, Actors
<1>10. ASSUME NEW h \in Handlers, WriteRulesFails(h) PROVE MutexReturned'
  BY <1>10, MosdnsAssumption
     DEF WriteRulesFails, Abort, Goto, Keep, Restarts, Owe, At, diskVars, MosdnsTypeOK,
        Carries, MutexReturned, Actors
<1>11. ASSUME NEW h \in Handlers, HandlerStop(h) PROVE MutexReturned'
  BY <1>11, MosdnsAssumption
     DEF HandlerStop, Goto, AfterStop, At, diskVars, MosdnsTypeOK, Carries,
        MutexReturned, Actors
<1>12. ASSUME NEW h \in Handlers, KillLeft(h) PROVE MutexReturned'
  BY <1>12, MosdnsAssumption
     DEF KillLeft, Abort, Goto, Keep, Restarts, At, diskVars, MosdnsTypeOK, Carries,
        MutexReturned, Actors
<1>13. ASSUME NEW p \in Scripts, BeginUpdate(p) PROVE MutexReturned'
  BY <1>13, MosdnsAssumption
     DEF BeginUpdate, Goto, Restarts, At, diskVars, MosdnsTypeOK, Carries,
        MutexReturned, Actors
<1>14. ASSUME NEW p \in Scripts, UpdateCn(p) PROVE MutexReturned'
  BY <1>14, MosdnsAssumption
     DEF UpdateCn, Download, Goto, At, MosdnsTypeOK, Carries, MutexReturned, Actors
<1>15. ASSUME NEW p \in Scripts, UpdateGfw(p) PROVE MutexReturned'
  BY <1>15, MosdnsAssumption
     DEF UpdateGfw, Download, Goto, At, MosdnsTypeOK, Carries, MutexReturned, Actors
<1>16. ASSUME NEW p \in Scripts, CheckRunning(p) PROVE MutexReturned'
  BY <1>16, MosdnsAssumption
     DEF CheckRunning, Abort, Goto, Keep, Restarts, OweRestart, Owe, At, diskVars,
        MosdnsTypeOK, Carries, MutexReturned, Actors
<1>17. ASSUME NEW p \in Scripts, ScriptStop(p) PROVE MutexReturned'
  BY <1>17, MosdnsAssumption
     DEF ScriptStop, KillController, Stopping, AfterStop, Orphan, OrphanLeft, Owe,
        At, Someone,
        MosdnsTypeOK, Carries, MutexReturned, Actors
<1>18. ASSUME NEW a \in Actors, Service(a) PROVE MutexReturned'
  BY <1>18, MosdnsAssumption
     DEF Service, Goto, Restarts, At, diskVars, MosdnsTypeOK, Carries,
        MutexReturned, Actors
<1>19. ASSUME NEW a \in Actors, Start(a) PROVE MutexReturned'
  BY <1>19, MosdnsAssumption
     DEF Start, AfterStart, Goto, Restarts, At, MosdnsTypeOK, Carries, MutexReturned,
        Actors
<1>20. ASSUME NEW a \in Actors, StartFails(a) PROVE MutexReturned'
  BY <1>20, MosdnsAssumption
     DEF StartFails, AfterStart, Goto, Restarts, At, MosdnsTypeOK, Carries,
        MutexReturned, Actors
<1>21. ASSUME NEW a \in Actors, AlreadyRunning(a) PROVE MutexReturned'
  BY <1>21, MosdnsAssumption
     DEF AlreadyRunning, AfterStart, Goto, Restarts, At, diskVars, MosdnsTypeOK,
        Carries, MutexReturned, Actors
<1>22. CASE ControllerStart
  BY <1>22, MosdnsAssumption
     DEF ControllerStart, locals, MosdnsTypeOK, Carries, MutexReturned, Actors
<1>23. CASE ControllerStop
  BY <1>23, MosdnsAssumption
     DEF ControllerStop, KillController, Stopping, Orphan, OrphanLeft, Owe, At, Someone,
        MosdnsTypeOK, Carries, MutexReturned, Actors
<1>24. QED
  BY <1>1, <1>2, <1>3, <1>4, <1>5, <1>6, <1>7, <1>8, <1>9, <1>10, <1>11, <1>12, <1>13,
     <1>14, <1>15, <1>16, <1>17, <1>18, <1>19, <1>20, <1>21, <1>22, <1>23
     DEF MosdnsNext, HandlerStep, ScriptStep, StartStep


\* MosdnsTypeOK in two parts: what is shared, and where the actors are.
Shared ==
    /\ settings \in Settings \cup {Torn}
    /\ config # Torn =>
         /\ DOMAIN config = {"sets", "main"}
         /\ config.sets \in [{"direct", "proxy", "block"} -> SUBSET RuleFiles]
    /\ there \subseteq RuleFiles
    /\ lines \in [RuleFiles -> SUBSET Lines]
    /\ proc \in [Domains -> {"block", "direct", "proxy", "astray"}] \cup {Down}
    /\ ctl \in BOOLEAN
    /\ mu \in Handlers \cup {NoOne}
    /\ owed \subseteq {"restart", "config"}

Places ==
    /\ pc \in [Actors -> {"idle", "lock", "save", "truncate", "write", "rules", "cn",
                          "gfw", "check", "stop", "kill", "start"}]
    /\ left \in [Actors -> 0..2]
    /\ arg = [a \in Actors |-> arg[a]]

\* The files any action names are rule files.
LEMMA FilesNamed ==
    /\ Managed \subseteq RuleFiles /\ Custom \subseteq RuleFiles
    /\ Touched \subseteq RuleFiles
    /\ \A x \in Drafts : x.file \in RuleFiles /\ x.text \in SUBSET Lines
BY MosdnsAssumption DEF RuleFiles, Managed, Custom, Touched

\* What a handler writes is what Carries says it carries.
LEMMA SharedStep == MosdnsTypeOK /\ Carries /\ MosdnsNext => Shared'
<1> SUFFICES ASSUME MosdnsTypeOK /\ Carries, MosdnsNext PROVE Shared'
  OBVIOUS
<1>1. ASSUME NEW h \in Handlers, PostConfig(h) PROVE Shared'
  BY <1>1, MosdnsAssumption
     DEF PostConfig, Goto, At, Keep, Restarts, diskVars, MosdnsTypeOK, Carries, Actors,
        Shared
<1>2. ASSUME NEW h \in Handlers, LockConfig(h) PROVE Shared'
  BY <1>2, MosdnsAssumption
     DEF LockConfig, Goto, At, diskVars, MosdnsTypeOK, Carries, Actors, Shared
<1>3. ASSUME NEW h \in Handlers, SaveSettings(h) PROVE Shared'
  BY <1>3, MosdnsAssumption
     DEF SaveSettings, Goto, At, MosdnsTypeOK, Carries, Actors, Shared
<1>4. ASSUME NEW h \in Handlers, SaveFails(h) PROVE Shared'
  BY <1>4, MosdnsAssumption
     DEF SaveFails, Abort, Goto, Keep, Restarts, At, MosdnsTypeOK, Carries, Actors,
        Shared
<1>5. ASSUME NEW h \in Handlers, Truncate(h) PROVE Shared'
  BY <1>5, MosdnsAssumption
     DEF Truncate, Goto, Keep, At, MosdnsTypeOK, Carries, Actors, Shared
<1>6. ASSUME NEW h \in Handlers, WriteConfig(h) PROVE Shared'
  <2>1. config' = arg[h]
    BY <1>6 DEF WriteConfig
  <2>2. PICK exist \in SUBSET there : arg[h] = Generated(settings, exist)
    BY <1>6 DEF WriteConfig, At, Carries
  <2>3. /\ DOMAIN arg[h] = {"sets", "main"}
        /\ arg[h].sets \in [{"direct", "proxy", "block"} -> SUBSET RuleFiles]
    BY <1>6, <2>2, GeneratedTyped DEF WriteConfig, At, Carries, MosdnsTypeOK, Tags
  <2>4. QED
    BY <1>6, <2>1, <2>3 DEF WriteConfig, MosdnsTypeOK, Shared
<1>7. ASSUME NEW h \in Handlers, WriteFails(h) PROVE Shared'
  BY <1>7, MosdnsAssumption
     DEF WriteFails, Abort, Goto, Keep, Restarts, Owe, At, diskVars, MosdnsTypeOK,
        Carries, Actors, Shared
<1>8. ASSUME NEW h \in Handlers, PostRules(h) PROVE Shared'
  BY <1>8, MosdnsAssumption
     DEF PostRules, Goto, Keep, Restarts, At, MosdnsTypeOK, Carries, Actors, Shared
<1>9. ASSUME NEW h \in Handlers, WriteRules(h) PROVE Shared'
  BY <1>9, MosdnsAssumption
     DEF WriteRules, Finish, Goto, Keep, OweRestart, Owe, At, MosdnsTypeOK, Carries,
        Actors, Shared
<1>10. ASSUME NEW h \in Handlers, WriteRulesFails(h) PROVE Shared'
  BY <1>10, MosdnsAssumption
     DEF WriteRulesFails, Abort, Goto, Keep, Restarts, Owe, At, diskVars, MosdnsTypeOK,
        Carries, Actors, Shared
<1>11. ASSUME NEW h \in Handlers, HandlerStop(h) PROVE Shared'
  BY <1>11, MosdnsAssumption
     DEF HandlerStop, Goto, AfterStop, At, diskVars, MosdnsTypeOK, Carries, Actors,
        Shared
<1>12. ASSUME NEW h \in Handlers, KillLeft(h) PROVE Shared'
  BY <1>12, MosdnsAssumption
     DEF KillLeft, Abort, Goto, Keep, Restarts, At, diskVars, MosdnsTypeOK, Carries,
        Actors, Shared
<1>13. ASSUME NEW p \in Scripts, BeginUpdate(p) PROVE Shared'
  BY <1>13, MosdnsAssumption
     DEF BeginUpdate, Goto, Restarts, At, diskVars, MosdnsTypeOK, Carries, Actors,
        Shared
<1>14. ASSUME NEW p \in Scripts, UpdateCn(p) PROVE Shared'
  BY <1>14, MosdnsAssumption, FilesNamed
     DEF UpdateCn, Download, Managed, Goto, At, MosdnsTypeOK, Carries, Actors, Shared
<1>15. ASSUME NEW p \in Scripts, UpdateGfw(p) PROVE Shared'
  BY <1>15, MosdnsAssumption, FilesNamed
     DEF UpdateGfw, Download, Managed, Custom, Goto, At, MosdnsTypeOK, Carries,
        Actors, Shared
<1>16. ASSUME NEW p \in Scripts, CheckRunning(p) PROVE Shared'
  BY <1>16, MosdnsAssumption
     DEF CheckRunning, Abort, Goto, Keep, Restarts, OweRestart, Owe, At, diskVars,
        MosdnsTypeOK, Carries, Actors, Shared
<1>17. ASSUME NEW p \in Scripts, ScriptStop(p) PROVE Shared'
  BY <1>17, MosdnsAssumption
     DEF ScriptStop, KillController, Stopping, AfterStop, Orphan, OrphanLeft, Owe,
        At, Someone,
        MosdnsTypeOK, Carries, Actors, Shared
<1>18. ASSUME NEW a \in Actors, Service(a) PROVE Shared'
  BY <1>18, MosdnsAssumption
     DEF Service, Goto, Restarts, At, diskVars, MosdnsTypeOK, Carries,
        Actors, Shared
<1>19. ASSUME NEW a \in Actors, Start(a) PROVE Shared'
  BY <1>19, MosdnsAssumption, FilesNamed, PipelineTyped
     DEF Start, AfterStart, Goto, Restarts, At, MosdnsTypeOK, Carries, Actors, Shared
<1>20. ASSUME NEW a \in Actors, StartFails(a) PROVE Shared'
  BY <1>20, MosdnsAssumption, FilesNamed
     DEF StartFails, AfterStart, Goto, Restarts, At, MosdnsTypeOK, Carries, Actors,
        Shared
<1>21. ASSUME NEW a \in Actors, AlreadyRunning(a) PROVE Shared'
  BY <1>21, MosdnsAssumption
     DEF AlreadyRunning, AfterStart, Goto, Restarts, At, diskVars, MosdnsTypeOK,
        Carries, Actors, Shared
<1>22. CASE ControllerStart
  BY <1>22, MosdnsAssumption, FilesNamed
     DEF ControllerStart, locals, MosdnsTypeOK, Carries, Actors, Shared
<1>23. CASE ControllerStop
  BY <1>23, MosdnsAssumption
     DEF ControllerStop, KillController, Stopping, Orphan, OrphanLeft, Owe, At, Someone,
        MosdnsTypeOK, Carries, Actors, Shared
<1>24. QED
  BY <1>1, <1>2, <1>3, <1>4, <1>5, <1>6, <1>7, <1>8, <1>9, <1>10, <1>11, <1>12, <1>13,
     <1>14, <1>15, <1>16, <1>17, <1>18, <1>19, <1>20, <1>21, <1>22, <1>23
     DEF MosdnsNext, HandlerStep, ScriptStep, StartStep

\* An actor that changes all three of its variables at once.
LEMMA Moves ==
    ASSUME Places, NEW a \in Actors, NEW next, NEW x, NEW n \in 0..2,
           next \in {"idle", "lock", "rules"},
           Goto(a, next), Keep(a, x), Restarts(a, n)
    PROVE  Places'
<1>1. arg' = [b \in Actors |-> arg'[b]]
  BY DEF Places, Keep
<1>2. QED
  BY <1>1 DEF Places, Goto, Restarts

\* The two parts are the type invariant.
LEMMA TypeParts == MosdnsTypeOK <=> Shared /\ Places
BY DEF MosdnsTypeOK, Shared, Places

\* Every actor stays at a point of the code, with at most two restarts to do.
LEMMA PlacesStep == MosdnsTypeOK /\ Carries /\ MosdnsNext => Places'
<1> SUFFICES ASSUME MosdnsTypeOK /\ Carries, MosdnsNext PROVE Places'
  OBVIOUS
<1>1. ASSUME NEW h \in Handlers, PostConfig(h) PROVE Places'
  BY <1>1, Moves, TypeParts DEF PostConfig, Actors
<1>2. ASSUME NEW h \in Handlers, LockConfig(h) PROVE Places'
  BY <1>2, MosdnsAssumption
     DEF LockConfig, Goto, At, diskVars, MosdnsTypeOK, Carries, Actors, Places
<1>3. ASSUME NEW h \in Handlers, SaveSettings(h) PROVE Places'
  BY <1>3, MosdnsAssumption
     DEF SaveSettings, Goto, At, MosdnsTypeOK, Carries, Actors, Places
<1>4. ASSUME NEW h \in Handlers, SaveFails(h) PROVE Places'
  BY <1>4, Moves, TypeParts DEF SaveFails, Abort, Actors
<1>5. ASSUME NEW h \in Handlers, Truncate(h) PROVE Places'
  BY <1>5, MosdnsAssumption
     DEF Truncate, Goto, Keep, At, MosdnsTypeOK, Carries, Actors, Places
<1>6. ASSUME NEW h \in Handlers, WriteConfig(h) PROVE Places'
  BY <1>6, MosdnsAssumption
     DEF WriteConfig, Finish, Goto, Keep, At, MosdnsTypeOK, Carries, Actors, Places
<1>7. ASSUME NEW h \in Handlers, WriteFails(h) PROVE Places'
  BY <1>7, Moves, TypeParts DEF WriteFails, Abort, Actors
<1>8. ASSUME NEW h \in Handlers, PostRules(h) PROVE Places'
  BY <1>8, Moves, TypeParts DEF PostRules, Actors
<1>9. ASSUME NEW h \in Handlers, WriteRules(h) PROVE Places'
  BY <1>9, MosdnsAssumption
     DEF WriteRules, Finish, Goto, Keep, OweRestart, Owe, At, MosdnsTypeOK, Carries,
        Actors, Places
<1>10. ASSUME NEW h \in Handlers, WriteRulesFails(h) PROVE Places'
  BY <1>10, Moves, TypeParts DEF WriteRulesFails, Abort, Actors
<1>11. ASSUME NEW h \in Handlers, HandlerStop(h) PROVE Places'
  BY <1>11, MosdnsAssumption
     DEF HandlerStop, Goto, AfterStop, At, diskVars, MosdnsTypeOK, Carries, Actors,
        Places
<1>12. ASSUME NEW h \in Handlers, KillLeft(h) PROVE Places'
  BY <1>12, Moves, TypeParts DEF KillLeft, Abort, Actors
<1>13. ASSUME NEW p \in Scripts, BeginUpdate(p) PROVE Places'
  BY <1>13, MosdnsAssumption
     DEF BeginUpdate, Goto, Restarts, At, diskVars, MosdnsTypeOK, Carries, Actors,
        Places
<1>14. ASSUME NEW p \in Scripts, UpdateCn(p) PROVE Places'
  BY <1>14, MosdnsAssumption
     DEF UpdateCn, Download, Goto, At, MosdnsTypeOK, Carries, Actors, Places
<1>15. ASSUME NEW p \in Scripts, UpdateGfw(p) PROVE Places'
  BY <1>15, MosdnsAssumption
     DEF UpdateGfw, Download, Goto, At, MosdnsTypeOK, Carries, Actors, Places
<1>16. ASSUME NEW p \in Scripts, CheckRunning(p) PROVE Places'
  BY <1>16, MosdnsAssumption
     DEF CheckRunning, Abort, Goto, Keep, Restarts, OweRestart, Owe, At, diskVars,
        MosdnsTypeOK, Carries, Actors, Places
<1>17. ASSUME NEW p \in Scripts, ScriptStop(p) PROVE Places'
  BY <1>17, MosdnsAssumption
     DEF ScriptStop, KillController, Stopping, AfterStop, Orphan, OrphanLeft, Owe,
        At, Someone,
        MosdnsTypeOK, Carries, Actors, Places
<1>18. ASSUME NEW a \in Actors, Service(a) PROVE Places'
  BY <1>18, MosdnsAssumption
     DEF Service, Goto, Restarts, At, diskVars, MosdnsTypeOK, Carries,
        Actors, Places
<1>19. ASSUME NEW a \in Actors, Start(a) PROVE Places'
  BY <1>19, MosdnsAssumption
     DEF Start, AfterStart, Goto, Restarts, At, MosdnsTypeOK, Carries, Actors, Places
<1>20. ASSUME NEW a \in Actors, StartFails(a) PROVE Places'
  BY <1>20, MosdnsAssumption
     DEF StartFails, AfterStart, Goto, Restarts, At, MosdnsTypeOK, Carries, Actors,
        Places
<1>21. ASSUME NEW a \in Actors, AlreadyRunning(a) PROVE Places'
  BY <1>21, MosdnsAssumption
     DEF AlreadyRunning, AfterStart, Goto, Restarts, At, diskVars, MosdnsTypeOK,
        Carries, Actors, Places
<1>22. CASE ControllerStart
  BY <1>22, MosdnsAssumption
     DEF ControllerStart, locals, MosdnsTypeOK, Carries, Actors, Places
<1>23. CASE ControllerStop
  BY <1>23, MosdnsAssumption
     DEF ControllerStop, KillController, Stopping, Orphan, OrphanLeft, Owe, At, Someone,
        MosdnsTypeOK, Carries, Actors, Places
<1>24. QED
  BY <1>1, <1>2, <1>3, <1>4, <1>5, <1>6, <1>7, <1>8, <1>9, <1>10, <1>11, <1>12, <1>13,
     <1>14, <1>15, <1>16, <1>17, <1>18, <1>19, <1>20, <1>21, <1>22, <1>23
     DEF MosdnsNext, HandlerStep, ScriptStep, StartStep

\* Nobody but the holder of the mutex touches the settings or the configuration,
\* so what it has read stays true until it writes.
LEMMA CarriesStep == MosdnsTypeOK /\ Carries /\ MutexReturned /\ MosdnsNext => Carries'
<1> SUFFICES ASSUME MosdnsTypeOK /\ Carries /\ MutexReturned, MosdnsNext PROVE Carries'
  OBVIOUS
<1>1. ASSUME NEW h \in Handlers, PostConfig(h) PROVE Carries'
  BY <1>1, MosdnsAssumption
     DEF PostConfig, Goto, At, Keep, Restarts, diskVars, MosdnsTypeOK, Carries, Actors,
        MutexReturned
<1>2. ASSUME NEW h \in Handlers, LockConfig(h) PROVE Carries'
  BY <1>2, MosdnsAssumption
     DEF LockConfig, Goto, At, diskVars, MosdnsTypeOK, Carries, Actors, MutexReturned
<1>3. ASSUME NEW h \in Handlers, SaveSettings(h) PROVE Carries'
  BY <1>3, MosdnsAssumption
     DEF SaveSettings, Goto, At, MosdnsTypeOK, Carries, Actors, MutexReturned
<1>4. ASSUME NEW h \in Handlers, SaveFails(h) PROVE Carries'
  BY <1>4, MosdnsAssumption
     DEF SaveFails, Abort, Goto, Keep, Restarts, At, MosdnsTypeOK, Carries, Actors,
        MutexReturned
<1>5. ASSUME NEW h \in Handlers, Truncate(h) PROVE Carries'
  BY <1>5, MosdnsAssumption
     DEF Truncate, Goto, Keep, At, MosdnsTypeOK, Carries, Actors, MutexReturned
<1>6. ASSUME NEW h \in Handlers, WriteConfig(h) PROVE Carries'
  BY <1>6, MosdnsAssumption
     DEF WriteConfig, Finish, Goto, Keep, At, MosdnsTypeOK, Carries, Actors,
        MutexReturned
<1>7. ASSUME NEW h \in Handlers, WriteFails(h) PROVE Carries'
  BY <1>7, MosdnsAssumption
     DEF WriteFails, Abort, Goto, Keep, Restarts, Owe, At, diskVars, MosdnsTypeOK,
        Carries, Actors, MutexReturned
<1>8. ASSUME NEW h \in Handlers, PostRules(h) PROVE Carries'
  BY <1>8, MosdnsAssumption
     DEF PostRules, Goto, Keep, Restarts, At, MosdnsTypeOK, Carries, Actors,
        MutexReturned
<1>9. ASSUME NEW h \in Handlers, WriteRules(h) PROVE Carries'
  BY <1>9, MosdnsAssumption
     DEF WriteRules, Finish, Goto, Keep, OweRestart, Owe, At, MosdnsTypeOK, Carries,
        Actors, MutexReturned
<1>10. ASSUME NEW h \in Handlers, WriteRulesFails(h) PROVE Carries'
  BY <1>10, MosdnsAssumption
     DEF WriteRulesFails, Abort, Goto, Keep, Restarts, Owe, At, diskVars, MosdnsTypeOK,
        Carries, Actors, MutexReturned
<1>11. ASSUME NEW h \in Handlers, HandlerStop(h) PROVE Carries'
  BY <1>11, MosdnsAssumption
     DEF HandlerStop, Goto, AfterStop, At, diskVars, MosdnsTypeOK, Carries, Actors,
        MutexReturned
<1>12. ASSUME NEW h \in Handlers, KillLeft(h) PROVE Carries'
  BY <1>12, MosdnsAssumption
     DEF KillLeft, Abort, Goto, Keep, Restarts, At, diskVars, MosdnsTypeOK, Carries,
        Actors, MutexReturned
<1>13. ASSUME NEW p \in Scripts, BeginUpdate(p) PROVE Carries'
  BY <1>13, MosdnsAssumption
     DEF BeginUpdate, Goto, Restarts, At, diskVars, MosdnsTypeOK, Carries, Actors,
        MutexReturned
<1>14. ASSUME NEW p \in Scripts, UpdateCn(p) PROVE Carries'
  BY <1>14, MosdnsAssumption
     DEF UpdateCn, Download, Goto, At, MosdnsTypeOK, Carries, Actors, MutexReturned
<1>15. ASSUME NEW p \in Scripts, UpdateGfw(p) PROVE Carries'
  BY <1>15, MosdnsAssumption
     DEF UpdateGfw, Download, Goto, At, MosdnsTypeOK, Carries, Actors, MutexReturned
<1>16. ASSUME NEW p \in Scripts, CheckRunning(p) PROVE Carries'
  <2>1. CASE left[p] > 0 /\ proc # Down
    <3>1. /\ pc' = [pc EXCEPT ![p] = "stop"]
          /\ UNCHANGED <<settings, config, there, arg, left>>
      BY <1>16, <2>1 DEF CheckRunning, Goto, diskVars
    <3>2. QED
      BY <1>16, <3>1, MosdnsAssumption DEF MosdnsTypeOK, Carries, Actors
  <2>2. CASE ~(left[p] > 0 /\ proc # Down)
    <3>1. /\ pc' = [pc EXCEPT ![p] = "idle"] /\ left' = [left EXCEPT ![p] = 0]
          /\ arg' = [arg EXCEPT ![p] = NoArg]
          /\ UNCHANGED <<settings, config, there>>
      BY <1>16, <2>2 DEF CheckRunning, Abort, Goto, Keep, Restarts, diskVars
    <3>2. QED
      BY <1>16, <3>1, MosdnsAssumption DEF MosdnsTypeOK, Carries, Actors
  <2>3. QED
    BY <2>1, <2>2
<1>17. ASSUME NEW p \in Scripts, ScriptStop(p) PROVE Carries'
  BY <1>17, MosdnsAssumption
     DEF ScriptStop, KillController, Stopping, AfterStop, Orphan, OrphanLeft, Owe,
        At, Someone,
        MosdnsTypeOK, Carries, Actors, MutexReturned
<1>18. ASSUME NEW a \in Actors, Service(a) PROVE Carries'
  BY <1>18, MosdnsAssumption
     DEF Service, Goto, Restarts, At, diskVars, MosdnsTypeOK, Carries,
        Actors, MutexReturned
<1>19. ASSUME NEW a \in Actors, Start(a) PROVE Carries'
  BY <1>19, MosdnsAssumption
     DEF Start, AfterStart, Goto, Restarts, At, MosdnsTypeOK, Carries, Actors,
        MutexReturned
<1>20. ASSUME NEW a \in Actors, StartFails(a) PROVE Carries'
  BY <1>20, MosdnsAssumption
     DEF StartFails, AfterStart, Goto, Restarts, At, MosdnsTypeOK, Carries, Actors,
        MutexReturned
<1>21. ASSUME NEW a \in Actors, AlreadyRunning(a) PROVE Carries'
  BY <1>21, MosdnsAssumption
     DEF AlreadyRunning, AfterStart, Goto, Restarts, At, diskVars, MosdnsTypeOK,
        Carries, Actors, MutexReturned
<1>22. CASE ControllerStart
  BY <1>22, MosdnsAssumption
     DEF ControllerStart, locals, MosdnsTypeOK, Carries, Actors, MutexReturned
<1>23. CASE ControllerStop
  BY <1>23, MosdnsAssumption
     DEF ControllerStop, KillController, Stopping, Orphan, OrphanLeft, Owe, At, Someone,
        MosdnsTypeOK, Carries, Actors, MutexReturned
<1>24. QED
  BY <1>1, <1>2, <1>3, <1>4, <1>5, <1>6, <1>7, <1>8, <1>9, <1>10, <1>11, <1>12, <1>13,
     <1>14, <1>15, <1>16, <1>17, <1>18, <1>19, <1>20, <1>21, <1>22, <1>23
     DEF MosdnsNext, HandlerStep, ScriptStep, StartStep

\* Rule files only appear, so what existed when a configuration was generated
\* exists later.
LEMMA FollowsStep ==
    MosdnsTypeOK /\ Carries /\ MutexReturned /\ Follows /\ MosdnsNext => Follows'
<1> SUFFICES ASSUME MosdnsTypeOK /\ Carries /\ MutexReturned /\ Follows, MosdnsNext
             PROVE Follows'
  OBVIOUS
<1>1. ASSUME NEW h \in Handlers, PostConfig(h) PROVE Follows'
  BY <1>1, MosdnsAssumption, SettingsNotTorn
     DEF PostConfig, Goto, At, Keep, Restarts, diskVars, MosdnsTypeOK, Carries, Actors,
        MutexReturned, Follows, Someone
<1>2. ASSUME NEW h \in Handlers, LockConfig(h) PROVE Follows'
  BY <1>2, MosdnsAssumption, SettingsNotTorn
     DEF LockConfig, Goto, At, diskVars, MosdnsTypeOK, Carries, Actors, MutexReturned,
        Follows, Someone
<1>3. ASSUME NEW h \in Handlers, SaveSettings(h) PROVE Follows'
  BY <1>3, MosdnsAssumption, SettingsNotTorn
     DEF SaveSettings, Goto, At, MosdnsTypeOK, Carries, Actors, MutexReturned, Follows,
        Someone
<1>4. ASSUME NEW h \in Handlers, SaveFails(h) PROVE Follows'
  BY <1>4, MosdnsAssumption, SettingsNotTorn
     DEF SaveFails, Abort, Goto, Keep, Restarts, At, MosdnsTypeOK, Carries, Actors,
        MutexReturned, Follows, Someone
<1>5. ASSUME NEW h \in Handlers, Truncate(h) PROVE Follows'
  BY <1>5, MosdnsAssumption, SettingsNotTorn
     DEF Truncate, Goto, Keep, At, MosdnsTypeOK, Carries, Actors, MutexReturned,
        Follows, Someone
<1>6. ASSUME NEW h \in Handlers, WriteConfig(h) PROVE Follows'
  BY <1>6, MosdnsAssumption, SettingsNotTorn
     DEF WriteConfig, Finish, Goto, Keep, At, MosdnsTypeOK, Carries, Actors,
        MutexReturned, Follows, Someone
<1>7. ASSUME NEW h \in Handlers, WriteFails(h) PROVE Follows'
  BY <1>7, MosdnsAssumption, SettingsNotTorn
     DEF WriteFails, Abort, Goto, Keep, Restarts, Owe, At, diskVars, MosdnsTypeOK,
        Carries, Actors, MutexReturned, Follows, Someone
<1>8. ASSUME NEW h \in Handlers, PostRules(h) PROVE Follows'
  BY <1>8, MosdnsAssumption, SettingsNotTorn
     DEF PostRules, Goto, Keep, Restarts, At, MosdnsTypeOK, Carries, Actors,
        MutexReturned, Follows, Someone
<1>9. ASSUME NEW h \in Handlers, WriteRules(h) PROVE Follows'
  BY <1>9, MosdnsAssumption, SettingsNotTorn
     DEF WriteRules, Finish, Goto, Keep, OweRestart, Owe, At, MosdnsTypeOK, Carries,
        Actors, MutexReturned, Follows, Someone
<1>10. ASSUME NEW h \in Handlers, WriteRulesFails(h) PROVE Follows'
  BY <1>10, MosdnsAssumption, SettingsNotTorn
     DEF WriteRulesFails, Abort, Goto, Keep, Restarts, Owe, At, diskVars, MosdnsTypeOK,
        Carries, Actors, MutexReturned, Follows, Someone
<1>11. ASSUME NEW h \in Handlers, HandlerStop(h) PROVE Follows'
  BY <1>11, MosdnsAssumption, SettingsNotTorn
     DEF HandlerStop, Goto, AfterStop, At, diskVars, MosdnsTypeOK, Carries, Actors,
        MutexReturned, Follows, Someone
<1>12. ASSUME NEW h \in Handlers, KillLeft(h) PROVE Follows'
  BY <1>12, MosdnsAssumption, SettingsNotTorn
     DEF KillLeft, Abort, Goto, Keep, Restarts, At, diskVars, MosdnsTypeOK, Carries,
        Actors, MutexReturned, Follows, Someone
<1>13. ASSUME NEW p \in Scripts, BeginUpdate(p) PROVE Follows'
  BY <1>13, MosdnsAssumption, SettingsNotTorn
     DEF BeginUpdate, Goto, Restarts, At, diskVars, MosdnsTypeOK, Carries, Actors,
        MutexReturned, Follows, Someone
<1>14. ASSUME NEW p \in Scripts, UpdateCn(p) PROVE Follows'
  BY <1>14, MosdnsAssumption, SettingsNotTorn
     DEF UpdateCn, Download, Goto, At, MosdnsTypeOK, Carries, Actors, MutexReturned,
        Follows, Someone
<1>15. ASSUME NEW p \in Scripts, UpdateGfw(p) PROVE Follows'
  BY <1>15, MosdnsAssumption, SettingsNotTorn
     DEF UpdateGfw, Download, Goto, At, MosdnsTypeOK, Carries, Actors, MutexReturned,
        Follows, Someone
<1>16. ASSUME NEW p \in Scripts, CheckRunning(p) PROVE Follows'
  BY <1>16, MosdnsAssumption, SettingsNotTorn
     DEF CheckRunning, Abort, Goto, Keep, Restarts, OweRestart, Owe, At, diskVars,
        MosdnsTypeOK, Carries, Actors, MutexReturned, Follows, Someone
<1>17. ASSUME NEW p \in Scripts, ScriptStop(p) PROVE Follows'
  BY <1>17, MosdnsAssumption, SettingsNotTorn
     DEF ScriptStop, KillController, Stopping, AfterStop, Orphan, OrphanLeft, Owe,
        At, Someone,
        MosdnsTypeOK, Carries, Actors, MutexReturned, Follows
<1>18. ASSUME NEW a \in Actors, Service(a) PROVE Follows'
  BY <1>18, MosdnsAssumption, SettingsNotTorn
     DEF Service, Goto, Restarts, At, diskVars, MosdnsTypeOK, Carries,
        Actors, MutexReturned, Follows, Someone
<1>19. ASSUME NEW a \in Actors, Start(a) PROVE Follows'
  BY <1>19, MosdnsAssumption, SettingsNotTorn
     DEF Start, AfterStart, Goto, Restarts, At, MosdnsTypeOK, Carries, Actors,
        MutexReturned, Follows, Someone
<1>20. ASSUME NEW a \in Actors, StartFails(a) PROVE Follows'
  BY <1>20, MosdnsAssumption, SettingsNotTorn
     DEF StartFails, AfterStart, Goto, Restarts, At, MosdnsTypeOK, Carries, Actors,
        MutexReturned, Follows, Someone
<1>21. ASSUME NEW a \in Actors, AlreadyRunning(a) PROVE Follows'
  BY <1>21, MosdnsAssumption, SettingsNotTorn
     DEF AlreadyRunning, AfterStart, Goto, Restarts, At, diskVars, MosdnsTypeOK,
        Carries, Actors, MutexReturned, Follows, Someone
<1>22. CASE ControllerStart
  BY <1>22, MosdnsAssumption, SettingsNotTorn
     DEF ControllerStart, locals, MosdnsTypeOK, Carries, Actors, MutexReturned, Follows,
        Someone, At
<1>23. CASE ControllerStop
  BY <1>23, MosdnsAssumption, SettingsNotTorn
     DEF ControllerStop, KillController, Stopping, Orphan, OrphanLeft, Owe, At, Someone,
        MosdnsTypeOK, Carries, Actors, MutexReturned, Follows
<1>24. QED
  BY <1>1, <1>2, <1>3, <1>4, <1>5, <1>6, <1>7, <1>8, <1>9, <1>10, <1>11, <1>12, <1>13,
     <1>14, <1>15, <1>16, <1>17, <1>18, <1>19, <1>20, <1>21, <1>22, <1>23
     DEF MosdnsNext, HandlerStep, ScriptStep, StartStep

\* Only WriteConfig and the installation decide what a configuration names.
LEMMA NamedStep == MosdnsTypeOK /\ Carries /\ Named /\ MosdnsNext => Named'
<1> SUFFICES ASSUME MosdnsTypeOK /\ Carries /\ Named, MosdnsNext PROVE Named'
  OBVIOUS
<1>1. ASSUME NEW h \in Handlers, PostConfig(h) PROVE Named'
  BY <1>1, MosdnsAssumption
     DEF PostConfig, Goto, At, Keep, Restarts, diskVars, MosdnsTypeOK, Carries, Named
<1>2. ASSUME NEW h \in Handlers, LockConfig(h) PROVE Named'
  BY <1>2, MosdnsAssumption
     DEF LockConfig, Goto, At, diskVars, MosdnsTypeOK, Carries, Named
<1>3. ASSUME NEW h \in Handlers, SaveSettings(h) PROVE Named'
  BY <1>3, MosdnsAssumption DEF SaveSettings, Goto, At, MosdnsTypeOK, Carries, Named
<1>4. ASSUME NEW h \in Handlers, SaveFails(h) PROVE Named'
  BY <1>4, MosdnsAssumption
     DEF SaveFails, Abort, Goto, Keep, Restarts, At, MosdnsTypeOK, Carries, Named
<1>5. ASSUME NEW h \in Handlers, Truncate(h) PROVE Named'
  BY <1>5, MosdnsAssumption DEF Truncate, Goto, Keep, At, MosdnsTypeOK, Carries, Named
<1>6. ASSUME NEW h \in Handlers, WriteConfig(h) PROVE Named'
  BY <1>6, MosdnsAssumption, GeneratedTyped
     DEF WriteConfig, Finish, Goto, Keep, At, MosdnsTypeOK, Carries, Named
<1>7. ASSUME NEW h \in Handlers, WriteFails(h) PROVE Named'
  BY <1>7, MosdnsAssumption
     DEF WriteFails, Abort, Goto, Keep, Restarts, Owe, At, diskVars, MosdnsTypeOK,
        Carries, Named
<1>8. ASSUME NEW h \in Handlers, PostRules(h) PROVE Named'
  BY <1>8, MosdnsAssumption
     DEF PostRules, Goto, Keep, Restarts, At, MosdnsTypeOK, Carries, Named
<1>9. ASSUME NEW h \in Handlers, WriteRules(h) PROVE Named'
  BY <1>9, MosdnsAssumption
     DEF WriteRules, Finish, Goto, Keep, OweRestart, Owe, At, MosdnsTypeOK, Carries,
        Named
<1>10. ASSUME NEW h \in Handlers, WriteRulesFails(h) PROVE Named'
  BY <1>10, MosdnsAssumption
     DEF WriteRulesFails, Abort, Goto, Keep, Restarts, Owe, At, diskVars, MosdnsTypeOK,
        Carries, Named
<1>11. ASSUME NEW h \in Handlers, HandlerStop(h) PROVE Named'
  BY <1>11, MosdnsAssumption
     DEF HandlerStop, Goto, AfterStop, At, diskVars, MosdnsTypeOK, Carries, Named
<1>12. ASSUME NEW h \in Handlers, KillLeft(h) PROVE Named'
  BY <1>12, MosdnsAssumption
     DEF KillLeft, Abort, Goto, Keep, Restarts, At, diskVars, MosdnsTypeOK, Carries,
        Named
<1>13. ASSUME NEW p \in Scripts, BeginUpdate(p) PROVE Named'
  BY <1>13, MosdnsAssumption
     DEF BeginUpdate, Goto, Restarts, At, diskVars, MosdnsTypeOK, Carries, Named
<1>14. ASSUME NEW p \in Scripts, UpdateCn(p) PROVE Named'
  BY <1>14, MosdnsAssumption
     DEF UpdateCn, Download, Goto, At, MosdnsTypeOK, Carries, Named
<1>15. ASSUME NEW p \in Scripts, UpdateGfw(p) PROVE Named'
  BY <1>15, MosdnsAssumption
     DEF UpdateGfw, Download, Goto, At, MosdnsTypeOK, Carries, Named
<1>16. ASSUME NEW p \in Scripts, CheckRunning(p) PROVE Named'
  BY <1>16, MosdnsAssumption
     DEF CheckRunning, Abort, Goto, Keep, Restarts, OweRestart, Owe, At, diskVars,
        MosdnsTypeOK, Carries, Named
<1>17. ASSUME NEW p \in Scripts, ScriptStop(p) PROVE Named'
  BY <1>17, MosdnsAssumption
     DEF ScriptStop, KillController, Stopping, AfterStop, Orphan, OrphanLeft, Owe,
        At, Someone,
        MosdnsTypeOK, Carries, Named
<1>18. ASSUME NEW a \in Actors, Service(a) PROVE Named'
  BY <1>18, MosdnsAssumption
     DEF Service, Goto, Restarts, At, diskVars, MosdnsTypeOK, Carries,
        Named
<1>19. ASSUME NEW a \in Actors, Start(a) PROVE Named'
  BY <1>19, MosdnsAssumption
     DEF Start, AfterStart, Goto, Restarts, At, MosdnsTypeOK, Carries, Named
<1>20. ASSUME NEW a \in Actors, StartFails(a) PROVE Named'
  BY <1>20, MosdnsAssumption
     DEF StartFails, AfterStart, Goto, Restarts, At, MosdnsTypeOK, Carries, Named
<1>21. ASSUME NEW a \in Actors, AlreadyRunning(a) PROVE Named'
  BY <1>21, MosdnsAssumption
     DEF AlreadyRunning, AfterStart, Goto, Restarts, At, diskVars, MosdnsTypeOK,
        Carries, Named
<1>22. CASE ControllerStart
  BY <1>22, MosdnsAssumption DEF ControllerStart, locals, MosdnsTypeOK, Carries, Named
<1>23. CASE ControllerStop
  BY <1>23, MosdnsAssumption
     DEF ControllerStop, KillController, Stopping, Orphan, OrphanLeft, Owe, At, Someone,
        MosdnsTypeOK, Carries, Named
<1>24. QED
  BY <1>1, <1>2, <1>3, <1>4, <1>5, <1>6, <1>7, <1>8, <1>9, <1>10, <1>11, <1>12, <1>13,
     <1>14, <1>15, <1>16, <1>17, <1>18, <1>19, <1>20, <1>21, <1>22, <1>23
     DEF MosdnsNext, HandlerStep, ScriptStep, StartStep

\* Files appear with the lines they are created with, and none goes away.
LEMMA CreatedStep == MosdnsTypeOK /\ Carries /\ Created /\ MosdnsNext => Created'
<1> SUFFICES ASSUME MosdnsTypeOK /\ Carries /\ Created, MosdnsNext PROVE Created'
  OBVIOUS
<1>1. ASSUME NEW h \in Handlers, PostConfig(h) PROVE Created'
  BY <1>1, FilesNamed, MosdnsAssumption
     DEF PostConfig, Goto, At, Keep, Restarts, diskVars, MosdnsTypeOK, Carries, Created,
        Actors, Touched
<1>2. ASSUME NEW h \in Handlers, LockConfig(h) PROVE Created'
  BY <1>2, FilesNamed, MosdnsAssumption
     DEF LockConfig, Goto, At, diskVars, MosdnsTypeOK, Carries, Created, Actors, Touched
<1>3. ASSUME NEW h \in Handlers, SaveSettings(h) PROVE Created'
  BY <1>3, FilesNamed, MosdnsAssumption
     DEF SaveSettings, Goto, At, MosdnsTypeOK, Carries, Created, Actors, Touched
<1>4. ASSUME NEW h \in Handlers, SaveFails(h) PROVE Created'
  BY <1>4, FilesNamed, MosdnsAssumption
     DEF SaveFails, Abort, Goto, Keep, Restarts, At, MosdnsTypeOK, Carries, Created,
        Actors, Touched
<1>5. ASSUME NEW h \in Handlers, Truncate(h) PROVE Created'
  BY <1>5, FilesNamed, MosdnsAssumption
     DEF Truncate, Goto, Keep, At, MosdnsTypeOK, Carries, Created, Actors, Touched
<1>6. ASSUME NEW h \in Handlers, WriteConfig(h) PROVE Created'
  BY <1>6, FilesNamed, MosdnsAssumption
     DEF WriteConfig, Finish, Goto, Keep, At, MosdnsTypeOK, Carries, Created, Actors,
        Touched
<1>7. ASSUME NEW h \in Handlers, WriteFails(h) PROVE Created'
  BY <1>7, FilesNamed, MosdnsAssumption
     DEF WriteFails, Abort, Goto, Keep, Restarts, Owe, At, diskVars, MosdnsTypeOK,
        Carries, Created, Actors, Touched
<1>8. ASSUME NEW h \in Handlers, PostRules(h) PROVE Created'
  BY <1>8, FilesNamed, MosdnsAssumption
     DEF PostRules, Goto, Keep, Restarts, At, MosdnsTypeOK, Carries, Created, Actors,
        Touched
<1>9. ASSUME NEW h \in Handlers, WriteRules(h) PROVE Created'
  BY <1>9, FilesNamed, MosdnsAssumption
     DEF WriteRules, Finish, Goto, Keep, OweRestart, Owe, At, MosdnsTypeOK, Carries,
        Created, Actors, Touched
<1>10. ASSUME NEW h \in Handlers, WriteRulesFails(h) PROVE Created'
  BY <1>10, FilesNamed, MosdnsAssumption
     DEF WriteRulesFails, Abort, Goto, Keep, Restarts, Owe, At, diskVars, MosdnsTypeOK,
        Carries, Created, Actors, Touched
<1>11. ASSUME NEW h \in Handlers, HandlerStop(h) PROVE Created'
  BY <1>11, FilesNamed, MosdnsAssumption
     DEF HandlerStop, Goto, AfterStop, At, diskVars, MosdnsTypeOK, Carries, Created,
        Actors, Touched
<1>12. ASSUME NEW h \in Handlers, KillLeft(h) PROVE Created'
  BY <1>12, FilesNamed, MosdnsAssumption
     DEF KillLeft, Abort, Goto, Keep, Restarts, At, diskVars, MosdnsTypeOK, Carries,
        Created, Actors, Touched
<1>13. ASSUME NEW p \in Scripts, BeginUpdate(p) PROVE Created'
  BY <1>13, FilesNamed, MosdnsAssumption
     DEF BeginUpdate, Goto, Restarts, At, diskVars, MosdnsTypeOK, Carries, Created,
        Actors, Touched
<1>14. ASSUME NEW p \in Scripts, UpdateCn(p) PROVE Created'
  BY <1>14, FilesNamed, MosdnsAssumption
     DEF UpdateCn, Download, Goto, At, MosdnsTypeOK, Carries, Created, Actors, Touched
<1>15. ASSUME NEW p \in Scripts, UpdateGfw(p) PROVE Created'
  BY <1>15, FilesNamed, MosdnsAssumption
     DEF UpdateGfw, Download, Goto, At, MosdnsTypeOK, Carries, Created, Actors, Touched
<1>16. ASSUME NEW p \in Scripts, CheckRunning(p) PROVE Created'
  BY <1>16, FilesNamed, MosdnsAssumption
     DEF CheckRunning, Abort, Goto, Keep, Restarts, OweRestart, Owe, At, diskVars,
        MosdnsTypeOK, Carries, Created, Actors, Touched
<1>17. ASSUME NEW p \in Scripts, ScriptStop(p) PROVE Created'
  BY <1>17, FilesNamed, MosdnsAssumption
     DEF ScriptStop, KillController, AfterStop, Orphan, OrphanLeft, Owe, At, Someone,
        MosdnsTypeOK, Carries, Created, Actors, Touched
<1>18. ASSUME NEW a \in Actors, Service(a) PROVE Created'
  BY <1>18, FilesNamed, MosdnsAssumption
     DEF Service, Goto, Restarts, At, diskVars, MosdnsTypeOK, Carries, Created, Actors,
        Touched
<1>19. ASSUME NEW a \in Actors, Start(a) PROVE Created'
  BY <1>19, FilesNamed, MosdnsAssumption
     DEF Start, AfterStart, Goto, Restarts, At, MosdnsTypeOK, Carries, Created, Actors,
        Touched
<1>20. ASSUME NEW a \in Actors, StartFails(a) PROVE Created'
  BY <1>20, FilesNamed, MosdnsAssumption
     DEF StartFails, AfterStart, Goto, Restarts, At, MosdnsTypeOK, Carries, Created,
        Actors, Touched
<1>21. ASSUME NEW a \in Actors, AlreadyRunning(a) PROVE Created'
  BY <1>21, FilesNamed, MosdnsAssumption
     DEF AlreadyRunning, AfterStart, Goto, Restarts, At, diskVars, MosdnsTypeOK,
        Carries, Created, Actors, Touched
<1>22. CASE ControllerStart
  BY <1>22, FilesNamed, MosdnsAssumption
     DEF ControllerStart, locals, MosdnsTypeOK, Carries, Created, Actors, Touched
<1>23. CASE ControllerStop
  BY <1>23, FilesNamed, MosdnsAssumption
     DEF ControllerStop, KillController, Orphan, OrphanLeft, Stopping, Owe, At, Someone,
        MosdnsTypeOK, Carries, Created, Actors, Touched
<1>24. QED
  BY <1>1, <1>2, <1>3, <1>4, <1>5, <1>6, <1>7, <1>8, <1>9, <1>10, <1>11, <1>12, <1>13,
     <1>14, <1>15, <1>16, <1>17, <1>18, <1>19, <1>20, <1>21, <1>22, <1>23
     DEF MosdnsNext, HandlerStep, ScriptStep, StartStep

\* A writer stays Dirty until its restart has stopped MosDNS, or it owes one.
LEMMA RunsStep ==
    MosdnsTypeOK /\ Carries /\ MutexReturned /\ Created /\ RunsLatest /\ MosdnsNext
        => RunsLatest'
<1> SUFFICES ASSUME MosdnsTypeOK /\ Carries /\ MutexReturned /\ Created /\ RunsLatest,
                    MosdnsNext
             PROVE RunsLatest'
  OBVIOUS
<1>1. ASSUME NEW h \in Handlers, PostConfig(h) PROVE RunsLatest'
  BY <1>1, MosdnsAssumption
     DEF PostConfig, Goto, At, Keep, Restarts, diskVars, MosdnsTypeOK, Carries, Actors,
        MutexReturned, RunsLatest, Dirty, Loads
<1>2. ASSUME NEW h \in Handlers, LockConfig(h) PROVE RunsLatest'
  BY <1>2, MosdnsAssumption
     DEF LockConfig, Goto, At, diskVars, MosdnsTypeOK, Carries, Actors, MutexReturned,
        RunsLatest, Dirty, Loads
<1>3. ASSUME NEW h \in Handlers, SaveSettings(h) PROVE RunsLatest'
  BY <1>3, MosdnsAssumption
     DEF SaveSettings, Goto, At, MosdnsTypeOK, Carries, Actors, MutexReturned,
        RunsLatest, Dirty, Loads
<1>4. ASSUME NEW h \in Handlers, SaveFails(h) PROVE RunsLatest'
  BY <1>4, MosdnsAssumption
     DEF SaveFails, Abort, Goto, Keep, Restarts, At, MosdnsTypeOK, Carries, Actors,
        MutexReturned, RunsLatest, Dirty, Loads
<1>5. ASSUME NEW h \in Handlers, Truncate(h) PROVE RunsLatest'
  BY <1>5, MosdnsAssumption
     DEF Truncate, Goto, Keep, At, MosdnsTypeOK, Carries, Actors, MutexReturned,
        RunsLatest, Dirty, Loads
<1>6. ASSUME NEW h \in Handlers, WriteConfig(h) PROVE RunsLatest'
  BY <1>6, MosdnsAssumption
     DEF WriteConfig, Finish, Goto, Keep, At, MosdnsTypeOK, Carries, Actors,
        MutexReturned, RunsLatest, Dirty, Loads
<1>7. ASSUME NEW h \in Handlers, WriteFails(h) PROVE RunsLatest'
  BY <1>7, MosdnsAssumption
     DEF WriteFails, Abort, Goto, Keep, Restarts, Owe, At, diskVars, MosdnsTypeOK,
        Carries, Actors, MutexReturned, RunsLatest, Dirty, Loads
<1>8. ASSUME NEW h \in Handlers, PostRules(h) PROVE RunsLatest'
  BY <1>8, MosdnsAssumption
     DEF PostRules, Goto, Keep, Restarts, At, MosdnsTypeOK, Carries, Actors,
        MutexReturned, RunsLatest, Dirty, Loads
<1>9. ASSUME NEW h \in Handlers, WriteRules(h) PROVE RunsLatest'
  BY <1>9, MosdnsAssumption
     DEF WriteRules, Finish, Goto, Keep, OweRestart, Owe, At, MosdnsTypeOK, Carries,
        Actors, MutexReturned, RunsLatest, Dirty, Loads
<1>10. ASSUME NEW h \in Handlers, WriteRulesFails(h) PROVE RunsLatest'
  BY <1>10, MosdnsAssumption
     DEF WriteRulesFails, Abort, Goto, Keep, Restarts, Owe, At, diskVars, MosdnsTypeOK,
        Carries, Actors, MutexReturned, RunsLatest, Dirty, Loads
<1>11. ASSUME NEW h \in Handlers, HandlerStop(h) PROVE RunsLatest'
  BY <1>11, MosdnsAssumption
     DEF HandlerStop, Goto, AfterStop, At, diskVars, MosdnsTypeOK, Carries, Actors,
        MutexReturned, RunsLatest, Dirty, Loads
<1>12. ASSUME NEW h \in Handlers, KillLeft(h) PROVE RunsLatest'
  BY <1>12, MosdnsAssumption
     DEF KillLeft, Abort, Goto, Keep, Restarts, At, diskVars, MosdnsTypeOK, Carries,
        Actors, MutexReturned, RunsLatest, Dirty, Loads
<1>13. ASSUME NEW p \in Scripts, BeginUpdate(p) PROVE RunsLatest'
  BY <1>13, MosdnsAssumption
     DEF BeginUpdate, Goto, Restarts, At, diskVars, MosdnsTypeOK, Carries, Actors,
        MutexReturned, RunsLatest, Dirty, Loads
<1>14. ASSUME NEW p \in Scripts, UpdateCn(p) PROVE RunsLatest'
  BY <1>14, MosdnsAssumption
     DEF UpdateCn, Download, Goto, At, MosdnsTypeOK, Carries, Actors, MutexReturned,
        RunsLatest, Dirty, Loads
<1>15. ASSUME NEW p \in Scripts, UpdateGfw(p) PROVE RunsLatest'
  BY <1>15, MosdnsAssumption
     DEF UpdateGfw, Download, Goto, At, MosdnsTypeOK, Carries, Actors, MutexReturned,
        RunsLatest, Dirty, Loads
<1>16. ASSUME NEW p \in Scripts, CheckRunning(p) PROVE RunsLatest'
  BY <1>16, MosdnsAssumption
     DEF CheckRunning, Abort, Goto, Keep, Restarts, OweRestart, Owe, At, diskVars,
        MosdnsTypeOK, Carries, Actors, MutexReturned, RunsLatest, Dirty, Loads
<1>17. ASSUME NEW p \in Scripts, ScriptStop(p) PROVE RunsLatest'
  BY <1>17, MosdnsAssumption
     DEF ScriptStop, KillController, Stopping, AfterStop, Orphan, OrphanLeft, Owe,
        At, Someone,
        MosdnsTypeOK, Carries, Actors, MutexReturned, RunsLatest, Dirty, Loads
<1>18. ASSUME NEW a \in Actors, Service(a) PROVE RunsLatest'
  BY <1>18, MosdnsAssumption
     DEF Service, Goto, Restarts, At, diskVars, MosdnsTypeOK, Carries,
        Actors, MutexReturned, RunsLatest, Dirty, Loads
<1>19. ASSUME NEW a \in Actors, Start(a) PROVE RunsLatest'
  BY <1>19, MosdnsAssumption
     DEF Start, AfterStart, Goto, Restarts, At, MosdnsTypeOK, Carries, Actors,
        MutexReturned, RunsLatest, Dirty, Loads
<1>20. ASSUME NEW a \in Actors, StartFails(a) PROVE RunsLatest'
  BY <1>20, MosdnsAssumption
     DEF StartFails, AfterStart, Goto, Restarts, At, MosdnsTypeOK, Carries, Actors,
        MutexReturned, RunsLatest, Dirty, Loads
<1>21. ASSUME NEW a \in Actors, AlreadyRunning(a) PROVE RunsLatest'
  BY <1>21, MosdnsAssumption
     DEF AlreadyRunning, AfterStart, Goto, Restarts, At, diskVars, MosdnsTypeOK,
        Carries, Actors, MutexReturned, RunsLatest, Dirty, Loads
<1>22. CASE ControllerStart
  <2>1. ASSUME proc # Down PROVE lines' = lines
    <3>1. Custom \ there \subseteq {"custom-block"}
      BY <2>1 DEF Created, Touched, Custom
    <3>2. \A f \in Custom \ there : Samples[f] = lines[f]
      BY <3>1, MosdnsAssumption, FilesNamed DEF Created
    <3>3. QED
      BY <1>22, <3>2 DEF ControllerStart, MosdnsTypeOK
  <2>2. QED
    BY <1>22, <2>1 DEF ControllerStart, locals, RunsLatest, Dirty
<1>23. CASE ControllerStop
  BY <1>23, MosdnsAssumption
     DEF ControllerStop, KillController, Stopping, Orphan, OrphanLeft, Owe, At, Someone,
        MosdnsTypeOK, Carries, Actors, MutexReturned, RunsLatest, Dirty, Loads
<1>24. QED
  BY <1>1, <1>2, <1>3, <1>4, <1>5, <1>6, <1>7, <1>8, <1>9, <1>10, <1>11, <1>12, <1>13,
     <1>14, <1>15, <1>16, <1>17, <1>18, <1>19, <1>20, <1>21, <1>22, <1>23
     DEF MosdnsNext, HandlerStep, ScriptStep, StartStep

-----------------------------------------------------------------------------
\* The step lemmas together.
LEMMA MosdnsNextInv == MosdnsInv /\ [MosdnsNext]_mosdnsVars => MosdnsInv'
<1> SUFFICES ASSUME MosdnsInv, [MosdnsNext]_mosdnsVars PROVE MosdnsInv'
  OBVIOUS
<1>1. CASE MosdnsNext
  <2>1. MosdnsTypeOK'
    BY <1>1, SharedStep, PlacesStep DEF MosdnsInv, MosdnsTypeOK, Shared, Places
  <2>2. Carries' /\ MutexReturned' /\ Follows'
    BY <1>1, CarriesStep, MutexStep, FollowsStep DEF MosdnsInv
  <2>3. Named' /\ Created' /\ RunsLatest'
    BY <1>1, NamedStep, CreatedStep, RunsStep DEF MosdnsInv
  <2>4. QED
    BY <2>1, <2>2, <2>3 DEF MosdnsInv
<1>2. CASE UNCHANGED mosdnsVars
  BY <1>2
     DEF MosdnsInv, MosdnsTypeOK, Carries, MutexReturned, Follows, Named, Created,
        RunsLatest, mosdnsVars, Someone, At, Dirty
<1>3. QED
  BY <1>1, <1>2

\* MosdnsInv is inductive.
LEMMA MosdnsInvariant == MosdnsSpec => []MosdnsInv
BY MosdnsInitInv, MosdnsNextInv, PTL DEF MosdnsSpec

-----------------------------------------------------------------------------
(***************************************************************************)
(* Every variable keeps its type.                                          *)
(***************************************************************************)
THEOREM MosdnsTypeCorrect == MosdnsSpec => []MosdnsTypeOK
<1>1. MosdnsInv => MosdnsTypeOK
  BY DEF MosdnsInv
<1>2. QED
  BY <1>1, MosdnsInvariant, PTL

(***************************************************************************)
(* However many requests, updates and restarts overlap, a running MosDNS   *)
(* has the configuration and rules on disk, unless a change is on its way, *)
(* or was left without its restart.                                        *)
(***************************************************************************)
THEOREM MosdnsRunsLatest == MosdnsSpec => []RunsLatest
<1>1. MosdnsInv => RunsLatest
  BY DEF MosdnsInv
<1>2. QED
  BY <1>1, MosdnsInvariant, PTL

(***************************************************************************)
(* Settings and configuration, when both are whole and nobody is writing   *)
(* them, come from one request or are the installed pair.                  *)
(***************************************************************************)
THEOREM MosdnsConfigFollows == MosdnsSpec => []ConfigFollowsSettings
<1>1. MosdnsInv => ConfigFollowsSettings
  <2> SUFFICES ASSUME MosdnsInv, mu = NoOne PROVE ConfigFollowsSettings
    BY DEF ConfigFollowsSettings
  <2>1. ~Someone("truncate")
    BY MosdnsAssumption DEF MosdnsInv, MutexReturned, Someone, At
  <2>2. QED
    BY <2>1 DEF MosdnsInv, Follows, ConfigFollowsSettings
<1>2. QED
  BY <1>1, MosdnsInvariant, PTL

(***************************************************************************)
(* A whole configuration never names a rule file that MosDNS would miss    *)
(* when rc.d/mosdns starts it.                                             *)
(***************************************************************************)
THEOREM MosdnsConfigLoads == MosdnsSpec => []WholeConfigLoads
<1>1. MosdnsInv => WholeConfigLoads
  <2> SUFFICES ASSUME MosdnsInv, config # Torn PROVE Loads
    BY DEF WholeConfigLoads
  <2>1. DOMAIN config.sets = Tags
    BY DEF MosdnsInv, MosdnsTypeOK, Tags
  <2>2. \A t \in Tags : config.sets[t] \subseteq there \cup Touched
    BY DEF MosdnsInv, Named
  <2>3. QED
    BY <2>1, <2>2 DEF Loads, Range
<1>2. QED
  BY <1>1, MosdnsInvariant, PTL

(***************************************************************************)
(* handleConfig never ends with the mutex, and nobody writes settings or   *)
(* configuration without it.                                               *)
(***************************************************************************)
THEOREM MosdnsMutexReturned == MosdnsSpec => []MutexReturned
<1>1. MosdnsInv => MutexReturned
  BY DEF MosdnsInv
<1>2. QED
  BY <1>1, MosdnsInvariant, PTL

-----------------------------------------------------------------------------
(***************************************************************************)
(* What a sequence of rules does with a query.  Run counts the rules it    *)
(* has obeyed; that it is defined for every sequence, and that a sequence  *)
(* in two parts is obeyed part by part, rests on least numbers.            *)
(***************************************************************************)
Below == {x \in Nat \X Nat : x[1] < x[2]}

\* Numbers have a least.
LEMMA LeastNumber ==
    ASSUME NEW S \in SUBSET Nat, S # {}
    PROVE  \E m \in S : \A k \in S : m <= k
<1>1. IsWellFoundedOn(Below, Nat)
  BY NatLessThanWellFounded DEF OpToRel, Below
<1>2. PICK m \in S : \A k \in S : <<k, m>> \notin Below
  BY <1>1, WFMin
<1>3. ASSUME NEW k \in S, ~(m <= k) PROVE FALSE
  <2>1. <<k, m>> \in Nat \X Nat /\ k < m
    BY <1>3
  <2>2. QED
    BY <1>2, <2>1 DEF Below
<1>4. QED
  BY <1>3

\* A property of the first number that holds of the next one, up to a bound.
LEMMA UpTo ==
    ASSUME NEW N \in Nat, NEW S \in SUBSET (0..N), 0 \in S,
           \A n \in 1..N : n - 1 \in S => n \in S
    PROVE  S = 0..N
<1> DEFINE M == (0..N) \ S
<1>1. CASE M # {}
  <2>1. PICK m \in M : \A k \in M : m <= k
    <3>1. M \in SUBSET Nat
      OBVIOUS
    <3> HIDE DEF M
    <3>2. QED
      BY <1>1, <3>1, LeastNumber
  <2>2. m \in 1..N /\ m - 1 \in 0..N
    BY <2>1
  <2>3. m - 1 \in S
    BY <2>1, <2>2
  <2>4. QED
    BY <2>1, <2>2, <2>3
<1>2. QED
  BY <1>1

\* The queries after each of the first k rules, as Run counts them.
Trace(k, rules, asked, c, L, d, after) ==
    after = [n \in 0..k |->
               IF n = 0 THEN asked ELSE Obey(after[n - 1], rules[n], c, L, d)]

\* Every number of rules can be obeyed.
LEMMA TraceExists ==
    ASSUME NEW N \in Nat, NEW rules, NEW asked, NEW c, NEW L, NEW d
    PROVE  \E after : Trace(N, rules, asked, c, L, d, after)
<1> DEFINE T(k, after) == Trace(k, rules, asked, c, L, d, after)
           S == {k \in 0..N : \E after : T(k, after)}
<1>1. 0 \in S
  <2>1. T(0, [n \in 0..0 |-> asked])
    BY DEF Trace
  <2>2. QED
    BY <2>1
<1>2. ASSUME NEW n \in 1..N, n - 1 \in S PROVE n \in S
  <2>1. PICK f : T(n - 1, f)
    BY <1>2
  <2> DEFINE g == [i \in 0..n |-> IF i = n THEN Obey(f[n - 1], rules[n], c, L, d)
                                  ELSE f[i]]
             F(i) == IF i = 0 THEN asked ELSE Obey(f[i - 1], rules[i], c, L, d)
             G(i) == IF i = 0 THEN asked ELSE Obey(g[i - 1], rules[i], c, L, d)
  <2>2. ASSUME NEW i \in 0..n PROVE g[i] = G(i)
    <3>1. CASE i = n
      <4>1. n # 0 /\ n - 1 \in 0..n /\ n - 1 # n
        OBVIOUS
      <4>2. g[n - 1] = f[n - 1]
        BY <4>1
      <4>3. QED
        BY <3>1, <4>1, <4>2
    <3>2. CASE i # n
      <4>1. i \in 0..(n - 1)
        BY <3>2
      <4>2. f[i] = F(i)
        BY <2>1, <4>1 DEF Trace
      <4>3. i # 0 => i - 1 \in 0..n /\ i - 1 # n
        OBVIOUS
      <4>4. i # 0 => g[i - 1] = f[i - 1]
        BY <4>3
      <4>5. QED
        BY <3>2, <4>2, <4>4
    <3>3. QED
      BY <3>1, <3>2
  <2>3. g = [i \in 0..n |-> G(i)]
    BY <2>2
  <2>4. T(n, g)
    BY <2>3 DEF Trace
  <2>5. QED
    BY <2>4
<1>3. S = 0..N
  <2> HIDE DEF S
  <2>1. S \in SUBSET (0..N)
    BY DEF S
  <2>2. QED
    BY <1>1, <1>2, <2>1, UpTo
<1>4. N \in S
  BY <1>3
<1>5. QED
  BY <1>4

\* Two counts agree.
LEMMA TraceUnique ==
    ASSUME NEW N \in Nat, NEW rules, NEW asked, NEW c, NEW L, NEW d, NEW f, NEW g,
           Trace(N, rules, asked, c, L, d, f), Trace(N, rules, asked, c, L, d, g)
    PROVE  f[N] = g[N]
<1> DEFINE S == {n \in 0..N : f[n] = g[n]}
<1>1. 0 \in S
  BY DEF Trace
<1>2. ASSUME NEW n \in 1..N, n - 1 \in S PROVE n \in S
  <2>1. /\ f[n] = Obey(f[n - 1], rules[n], c, L, d)
        /\ g[n] = Obey(g[n - 1], rules[n], c, L, d)
    BY DEF Trace
  <2>2. QED
    BY <1>2, <2>1
<1>3. S = 0..N
  <2> HIDE DEF S
  <2>1. S \in SUBSET (0..N)
    BY DEF S
  <2>2. QED
    BY <1>1, <1>2, <2>1, UpTo
<1>4. QED
  BY <1>3

\* Run is the last query of a count.
LEMMA RunTraced ==
    ASSUME NEW T, NEW rules \in Seq(T), NEW asked, NEW c, NEW L, NEW d
    PROVE  \E after : /\ Trace(Len(rules), rules, asked, c, L, d, after)
                      /\ Run(rules, asked, c, L, d) = after[Len(rules)]
<1> DEFINE N == Len(rules)
           chosen == CHOOSE after : Trace(N, rules, asked, c, L, d, after)
<1>1. N \in Nat
  OBVIOUS
<1>2. \E after : Trace(N, rules, asked, c, L, d, after)
  <2> HIDE DEF N
  <2>1. QED
    BY <1>1, TraceExists
<1>3. Trace(N, rules, asked, c, L, d, chosen)
  BY <1>2
<1>4. Run(rules, asked, c, L, d) = chosen[N]
  BY DEF Run, Trace
<1>5. QED
  BY <1>3, <1>4

\* An empty sequence leaves the query as it is.
LEMMA RunNothing ==
    ASSUME NEW asked, NEW c, NEW L, NEW d
    PROVE  Run(<<>>, asked, c, L, d) = asked
<1>1. PICK after : /\ Trace(0, <<>>, asked, c, L, d, after)
                   /\ Run(<<>>, asked, c, L, d) = after[0]
  <2>1. <<>> \in Seq({}) /\ Len(<<>>) = 0
    OBVIOUS
  <2>2. QED
    BY <2>1, RunTraced
<1>2. QED
  BY <1>1 DEF Trace

\* A sequence in two parts is obeyed part by part.
LEMMA RunJoined ==
    ASSUME NEW T, NEW s \in Seq(T), NEW t \in Seq(T), NEW asked, NEW c, NEW L, NEW d
    PROVE  Run(s \o t, asked, c, L, d) = Run(t, Run(s, asked, c, L, d), c, L, d)
<1> DEFINE M == Len(s)
           N == Len(t)
           K == Len(s \o t)
           rest == Run(s, asked, c, L, d)
           u == s \o t
<1>1. M \in Nat /\ N \in Nat /\ K = M + N /\ u \in Seq(T)
  OBVIOUS
<1>2. /\ \A i \in 1..M : u[i] = s[i]
      /\ \A i \in 1..N : u[M + i] = t[i]
  OBVIOUS
<1>3. PICK f : Trace(K, u, asked, c, L, d, f) /\ Run(u, asked, c, L, d) = f[K]
  BY <1>1, RunTraced
<1>4. PICK g : Trace(M, s, asked, c, L, d, g) /\ rest = g[M]
  BY RunTraced
<1>5. PICK h : Trace(N, t, rest, c, L, d, h) /\ Run(t, rest, c, L, d) = h[N]
  BY RunTraced
<1> HIDE DEF M, N, K, rest, u
<1>6. Trace(M, s, asked, c, L, d, [n \in 0..M |-> f[n]])
  <2> DEFINE e == [n \in 0..M |-> f[n]]
             E(n) == IF n = 0 THEN asked ELSE Obey(e[n - 1], s[n], c, L, d)
  <2>1. ASSUME NEW n \in 0..M PROVE e[n] = E(n)
    <3>1. n \in 0..K
      BY <1>1
    <3>2. f[n] = IF n = 0 THEN asked ELSE Obey(f[n - 1], u[n], c, L, d)
      BY <1>3, <3>1 DEF Trace
    <3>3. CASE n # 0
      <4>1. n \in 1..M /\ n - 1 \in 0..M
        BY <1>1, <3>3
      <4>2. u[n] = s[n] /\ e[n - 1] = f[n - 1]
        BY <1>2, <4>1
      <4>3. QED
        BY <3>2, <3>3, <4>2
    <3>4. QED
      BY <3>2, <3>3
  <2>2. e = [n \in 0..M |-> E(n)]
    BY <2>1
  <2>3. QED
    BY <2>2 DEF Trace
<1>7. f[M] = rest
  <2>1. [n \in 0..M |-> f[n]][M] = g[M]
    BY <1>1, <1>4, <1>6, TraceUnique
  <2>2. M \in 0..M
    BY <1>1
  <2>3. QED
    BY <1>4, <2>1, <2>2
<1>8. Trace(N, t, rest, c, L, d, [n \in 0..N |-> f[M + n]])
  <2> DEFINE e == [n \in 0..N |-> f[M + n]]
             E(n) == IF n = 0 THEN rest ELSE Obey(e[n - 1], t[n], c, L, d)
  <2>1. ASSUME NEW n \in 0..N PROVE e[n] = E(n)
    <3>1. CASE n # 0
      <4>1. /\ n \in 1..N
            /\ n - 1 \in 0..N
            /\ M + n \in 0..K
            /\ M + n # 0
            /\ (M + n) - 1 = M + (n - 1)
        BY <1>1, <3>1
      <4>2. f[M + n] = Obey(f[(M + n) - 1], u[M + n], c, L, d)
        BY <1>3, <4>1 DEF Trace
      <4>3. u[M + n] = t[n] /\ e[n - 1] = f[M + (n - 1)]
        BY <1>2, <4>1
      <4>4. QED
        BY <3>1, <4>1, <4>2, <4>3
    <3>2. CASE n = 0
      <4>1. M + n = M
        BY <1>1, <3>2
      <4>2. QED
        BY <1>7, <3>2, <4>1
    <3>3. QED
      BY <3>1, <3>2
  <2>2. e = [n \in 0..N |-> E(n)]
    BY <2>1
  <2>3. QED
    BY <2>2 DEF Trace
<1>9. f[K] = h[N]
  <2>1. [n \in 0..N |-> f[M + n]][N] = h[N]
    BY <1>1, <1>5, <1>8, TraceUnique
  <2>2. N \in 0..N
    BY <1>1
  <2>3. QED
    BY <1>1, <2>1, <2>2
<1>10. QED
  BY <1>3, <1>5, <1>9 DEF u, rest

\* One rule.
LEMMA RunOne ==
    ASSUME NEW rule, NEW asked, NEW c, NEW L, NEW d
    PROVE  Run(<<rule>>, asked, c, L, d) = Obey(asked, rule, c, L, d)
<1>1. <<rule>> \in Seq({rule}) /\ Len(<<rule>>) = 1 /\ <<rule>>[1] = rule
  OBVIOUS
<1>2. PICK after : /\ Trace(1, <<rule>>, asked, c, L, d, after)
                   /\ Run(<<rule>>, asked, c, L, d) = after[1]
  BY <1>1, RunTraced
<1>3. after[1] = Obey(after[0], rule, c, L, d) /\ after[0] = asked
  BY <1>1, <1>2 DEF Trace
<1>4. QED
  BY <1>2, <1>3

\* Two rules.
LEMMA RunTwo ==
    ASSUME NEW r1, NEW r2, NEW asked, NEW c, NEW L, NEW d
    PROVE  Run(<<r1, r2>>, asked, c, L, d)
             = Obey(Obey(asked, r1, c, L, d), r2, c, L, d)
<1> DEFINE first == <<r1>>
           others == <<r2>>
           u == <<r1, r2>>
<1>1. first \in Seq({r1, r2}) /\ others \in Seq({r1, r2})
  OBVIOUS
<1>2. u = first \o others
  <2>1. /\ Len(u) = 2 /\ u[1] = r1 /\ u[2] = r2
        /\ Len(first) = 1 /\ first[1] = r1 /\ Len(others) = 1 /\ others[1] = r2
        /\ u \in Seq({r1, r2})
    OBVIOUS
  <2> HIDE DEF u, first, others
  <2> DEFINE both == first \o others
  <2>2. /\ both \in Seq({r1, r2}) /\ Len(both) = 2
        /\ both[1] = first[1] /\ both[2] = others[1]
    BY <1>1, <2>1
  <2> HIDE DEF both
  <2>3. u = both
    BY <2>1, <2>2
  <2>4. QED
    BY <2>3 DEF both
<1>3. \A q : Run(others, q, c, L, d) = Obey(q, r2, c, L, d)
  BY RunOne
<1>4. Run(first, asked, c, L, d) = Obey(asked, r1, c, L, d)
  BY RunOne
<1> HIDE DEF first, others, u
<1>5. Run(first \o others, asked, c, L, d)
        = Run(others, Run(first, asked, c, L, d), c, L, d)
  BY <1>1, RunJoined
<1>6. Run(u, asked, c, L, d) = Obey(Obey(asked, r1, c, L, d), r2, c, L, d)
  BY <1>2, <1>3, <1>4, <1>5
<1>7. QED
  BY <1>6 DEF u

\* Three rules.
LEMMA RunThree ==
    ASSUME NEW r1, NEW r2, NEW r3, NEW asked, NEW c, NEW L, NEW d
    PROVE  Run(<<r1, r2, r3>>, asked, c, L, d)
             = Obey(Obey(Obey(asked, r1, c, L, d), r2, c, L, d), r3, c, L, d)
<1> DEFINE first == <<r1>>
           others == <<r2, r3>>
           u == <<r1, r2, r3>>
<1>1. first \in Seq({r1, r2, r3}) /\ others \in Seq({r1, r2, r3})
  OBVIOUS
<1>2. u = first \o others
  OBVIOUS
<1>3. \A q : Run(others, q, c, L, d) = Obey(Obey(q, r2, c, L, d), r3, c, L, d)
  BY RunTwo
<1>4. Run(first, asked, c, L, d) = Obey(asked, r1, c, L, d)
  BY RunOne
<1> HIDE DEF first, others, u
<1>5. Run(first \o others, asked, c, L, d)
        = Run(others, Run(first, asked, c, L, d), c, L, d)
  BY <1>1, RunJoined
<1>6. Run(u, asked, c, L, d) = Obey(Obey(Obey(asked, r1, c, L, d), r2, c, L, d), r3, c, L, d)
  BY <1>2, <1>3, <1>4, <1>5
<1>7. QED
  BY <1>6 DEF u

\* A query that is over stays as it is.
LEMMA OverStays ==
    ASSUME NEW T, NEW rules \in Seq(T), NEW asked, NEW c, NEW L, NEW d, asked.over
    PROVE  Run(rules, asked, c, L, d) = asked
<1> DEFINE N == Len(rules)
<1>1. N \in Nat
  OBVIOUS
<1>2. PICK f : Trace(N, rules, asked, c, L, d, f) /\ Run(rules, asked, c, L, d) = f[N]
  BY RunTraced
<1> HIDE DEF N
<1> DEFINE S == {n \in 0..N : f[n] = asked}
<1>3. 0 \in S
  BY <1>1, <1>2 DEF Trace
<1>4. ASSUME NEW n \in 1..N, n - 1 \in S PROVE n \in S
  <2>1. f[n] = Obey(f[n - 1], rules[n], c, L, d)
    BY <1>1, <1>2 DEF Trace
  <2>2. QED
    BY <1>4, <2>1 DEF Obey
<1>5. S = 0..N
  <2> HIDE DEF S
  <2>1. S \in SUBSET (0..N)
    BY DEF S
  <2>2. QED
    BY <1>1, <1>3, <1>4, <2>1, UpTo
<1>6. N \in S
  BY <1>1, <1>5
<1>7. QED
  BY <1>2, <1>6

-----------------------------------------------------------------------------
(***************************************************************************)
(* What each part of a generated sequence does with a query nobody has     *)
(* answered: it answers and ends it, or passes it on as it came.           *)
(***************************************************************************)
Query(by, synced, over) == [by |-> by, synced |-> synced, over |-> over]

Rejected == Query("reject", FALSE, TRUE)

Directly == Query("local", FALSE, FALSE)

DirectlyEnded == Query("local", FALSE, TRUE)

Proxied == Query("remote", TRUE, FALSE)

ProxiedEnded == Query("remote", TRUE, TRUE)

RuleSet == [on : {"block", "has_resp", "direct", "proxy", "any"},
            exec : {"reject", "return", "local", "remote", "sync"}]

\* The parts are sequences of rules.
LEMMA RulesTyped ==
    /\ BlockRules \in Seq(RuleSet) /\ DirectRules \in Seq(RuleSet)
    /\ ProxyRules \in Seq(RuleSet) /\ Remote \in Seq(RuleSet) /\ Local \in Seq(RuleSet)
    /\ <<>> \in Seq(RuleSet)
<1>1. \A on \in {"block", "has_resp", "direct", "proxy", "any"},
         exec \in {"reject", "return", "local", "remote", "sync"} :
            Rule(on, exec) \in RuleSet
  BY DEF Rule, RuleSet
<1>2. BlockRules \in Seq(RuleSet)
  BY <1>1 DEF BlockRules
<1>3. DirectRules \in Seq(RuleSet)
  BY <1>1 DEF DirectRules
<1>4. ProxyRules \in Seq(RuleSet)
  BY <1>1 DEF ProxyRules
<1>5. Remote \in Seq(RuleSet) /\ Local \in Seq(RuleSet)
  BY <1>1 DEF Remote, Local
<1>6. <<>> \in Seq(RuleSet)
  OBVIOUS
<1>7. QED
  BY <1>2, <1>3, <1>4, <1>5, <1>6

\* A rule on a domain set no listed file of which has the domain is skipped.
LEMMA NotListed ==
    ASSUME NEW c, NEW L, NEW d, NEW set, c.sets[set] = {}
    PROVE  ~Listed(c, L, set, d)
BY DEF Listed

\* The query as it comes.
LEMMA AskedQuery == Asked = Query("nobody", FALSE, FALSE)
BY DEF Query, Asked

\* return ends a query.
LEMMA Returns ==
    ASSUME NEW by, NEW synced, NEW over, NEW on
    PROVE  Exec(Rule(on, "return"), Query(by, synced, over)) = Query(by, synced, TRUE)
<1> DEFINE b == TRUE
           q == Query(by, synced, over)
<1>1. Exec(Rule(on, "return"), q) = [q EXCEPT !.over = b]
  BY DEF Exec, Rule
<1> HIDE DEF b
<1>2. [q EXCEPT !.over = b] = Query(by, synced, b)
  BY DEF Query
<1>3. QED
  BY <1>1, <1>2 DEF b

\* The plugin syncs what a query was answered.
LEMMA Syncs ==
    ASSUME NEW by, by # "nobody", NEW synced, NEW over, NEW on
    PROVE  Exec(Rule(on, "sync"), Query(by, synced, over)) = Query(by, TRUE, over)
<1> DEFINE q == Query(by, synced, over)
           b == q.by # "nobody"
<1>1. b = TRUE
  BY DEF Query
<1>2. Exec(Rule(on, "sync"), q) = [q EXCEPT !.synced = b]
  BY DEF Exec, Rule
<1> HIDE DEF b
<1>3. [q EXCEPT !.synced = b] = Query(by, b, over)
  BY DEF Query
<1>4. QED
  BY <1>1, <1>2, <1>3

\* reject answers a query and ends it.
LEMMA Rejects ==
    ASSUME NEW by, NEW synced, NEW over, NEW on
    PROVE  Exec(Rule(on, "reject"), Query(by, synced, over)) = Query("reject", synced, TRUE)
<1> DEFINE b == TRUE
           r == "reject"
           q == Query(by, synced, over)
<1>1. Exec(Rule(on, r), q) = [q EXCEPT !.by = r, !.over = b]
  BY DEF Exec, Rule
<1> HIDE DEF b, r
<1>2. [q EXCEPT !.by = r, !.over = b] = [[q EXCEPT !.by = r] EXCEPT !.over = b]
  OBVIOUS
<1>3. [q EXCEPT !.by = r] = Query(r, synced, over)
  BY DEF Query
<1>4. [Query(r, synced, over) EXCEPT !.over = b] = Query(r, synced, b)
  BY DEF Query
<1>5. [q EXCEPT !.by = r, !.over = b] = Query(r, synced, b)
  BY <1>2, <1>3, <1>4
<1>6. QED
  BY <1>1, <1>5 DEF b, r

\* A rule without a condition is obeyed by every query that is not over.
LEMMA ObeysAny ==
    ASSUME NEW q, ~q.over, NEW exec, NEW c, NEW L, NEW d
    PROVE  Obey(q, Rule("any", exec), c, L, d) = Exec(Rule("any", exec), q)
BY DEF Obey, Holds, Rule

\* A rule on has_resp, by one that has an answer.
LEMMA ObeysAnswered ==
    ASSUME NEW q, ~q.over, NEW exec, NEW c, NEW L, NEW d
    PROVE  Obey(q, Rule("has_resp", exec), c, L, d)
             = IF q.by # "nobody" THEN Exec(Rule("has_resp", exec), q) ELSE q
BY DEF Obey, Holds, Rule

\* A rule on a domain set, by one for a domain the set lists.
LEMMA ObeysListed ==
    ASSUME NEW q, ~q.over, NEW set \in Tags, NEW exec, NEW c, NEW L, NEW d
    PROVE  Obey(q, Rule(set, exec), c, L, d)
             = IF Listed(c, L, set, d) THEN Exec(Rule(set, exec), q) ELSE q
BY DEF Obey, Holds, Rule, Tags

\* A query that is over is not touched.
LEMMA ObeysNothing ==
    ASSUME NEW q, q.over, NEW rule, NEW c, NEW L, NEW d
    PROVE  Obey(q, rule, c, L, d) = q
BY DEF Obey

\* A query a forward has answered, and nothing else has seen.
Answered == Query("remote", FALSE, FALSE)

\* Where the queries on their way through the sequences are.
LEMMA QueryParts ==
    /\ ~Asked.over /\ Asked.by = "nobody"
    /\ ~Answered.over /\ Answered.by # "nobody"
    /\ ~Directly.over /\ Directly.by # "nobody"
    /\ ~Proxied.over /\ Proxied.by # "nobody"
    /\ Rejected.over /\ DirectlyEnded.over /\ ProxiedEnded.over
<1>1. ~Asked.over /\ Asked.by = "nobody"
  BY DEF Asked
<1>2. ~Answered.over /\ Answered.by # "nobody"
  BY DEF Answered, Query
<1>3. ~Directly.over /\ Directly.by # "nobody"
  BY DEF Directly, Query
<1>4. ~Proxied.over /\ Proxied.by # "nobody"
  BY DEF Proxied, Query
<1>5. Rejected.over /\ DirectlyEnded.over /\ ProxiedEnded.over
  BY DEF Rejected, DirectlyEnded, ProxiedEnded, Query
<1>6. QED
  BY <1>1, <1>2, <1>3, <1>4, <1>5

\* What an exec makes of them.
LEMMA Moved ==
    /\ Exec(Rule("block", "reject"), Asked) = Rejected
    /\ \A on : Exec(Rule(on, "local"), Asked) = Directly
    /\ \A on : Exec(Rule(on, "remote"), Asked) = Answered
    /\ \A on : Exec(Rule(on, "sync"), Answered) = Proxied
    /\ \A on : Exec(Rule(on, "return"), Directly) = DirectlyEnded
    /\ \A on : Exec(Rule(on, "return"), Proxied) = ProxiedEnded
<1>1. Exec(Rule("block", "reject"), Asked) = Rejected
  BY Rejects, AskedQuery DEF Rejected
<1>2. ASSUME NEW on PROVE Exec(Rule(on, "local"), Asked) = Directly
  BY DEF Exec, Rule, Asked, Query, Directly
<1>3. ASSUME NEW on PROVE Exec(Rule(on, "remote"), Asked) = Answered
  BY DEF Exec, Rule, Asked, Query, Answered
<1>4. ASSUME NEW on PROVE Exec(Rule(on, "sync"), Answered) = Proxied
  BY Syncs DEF Answered, Proxied
<1>5. ASSUME NEW on PROVE Exec(Rule(on, "return"), Directly) = DirectlyEnded
  BY Returns DEF Directly, DirectlyEnded
<1>6. ASSUME NEW on PROVE Exec(Rule(on, "return"), Proxied) = ProxiedEnded
  BY Returns DEF Proxied, ProxiedEnded
<1>7. QED
  BY <1>1, <1>2, <1>3, <1>4, <1>5, <1>6

\* The first part: what the block set lists is rejected.
LEMMA BlockPart ==
    ASSUME NEW c, NEW L, NEW d
    PROVE  Run(If(c.sets["block"], BlockRules), Asked, c, L, d)
             = IF Listed(c, L, "block", d) THEN Rejected ELSE Asked
<1>1. CASE c.sets["block"] = {}
  BY <1>1, NotListed, RunNothing DEF If
<1>2. CASE c.sets["block"] # {}
  <2> DEFINE r1 == Rule("block", "reject")
             r2 == Rule("has_resp", "return")
             q1 == IF Listed(c, L, "block", d) THEN Rejected ELSE Asked
  <2>1. Obey(Asked, r1, c, L, d) = q1
    BY ObeysListed, QueryParts, Moved DEF Tags
  <2>2. Obey(Asked, r2, c, L, d) = Asked
    BY ObeysAnswered, QueryParts
  <2>3. Obey(Rejected, r2, c, L, d) = Rejected
    BY ObeysNothing, QueryParts
  <2>4. Obey(q1, r2, c, L, d) = q1
    BY <2>2, <2>3
  <2> HIDE DEF r1, r2, q1
  <2>5. Run(<<r1, r2>>, Asked, c, L, d) = q1
    BY <2>1, <2>4, RunTwo
  <2>6. QED
    BY <1>2, <2>5 DEF If, BlockRules, r1, r2, q1
<1>3. QED
  BY <1>1, <1>2

\* The second part: what the direct set lists is asked of the local servers.
LEMMA DirectPart ==
    ASSUME NEW c, NEW L, NEW d
    PROVE  Run(If(c.sets["direct"], DirectRules), Asked, c, L, d)
             = IF Listed(c, L, "direct", d) THEN DirectlyEnded ELSE Asked
<1>1. CASE c.sets["direct"] = {}
  BY <1>1, NotListed, RunNothing DEF If
<1>2. CASE c.sets["direct"] # {}
  <2> DEFINE r1 == Rule("direct", "local")
             r2 == Rule("has_resp", "return")
             q1 == IF Listed(c, L, "direct", d) THEN Directly ELSE Asked
             q2 == IF Listed(c, L, "direct", d) THEN DirectlyEnded ELSE Asked
  <2>1. Obey(Asked, r1, c, L, d) = q1
    BY ObeysListed, QueryParts, Moved DEF Tags
  <2>2. Obey(Asked, r2, c, L, d) = Asked
    BY ObeysAnswered, QueryParts
  <2>3. Obey(Directly, r2, c, L, d) = DirectlyEnded
    BY ObeysAnswered, QueryParts, Moved
  <2>4. Obey(q1, r2, c, L, d) = q2
    BY <2>2, <2>3
  <2> HIDE DEF r1, r2, q1, q2
  <2>5. Run(<<r1, r2>>, Asked, c, L, d) = q2
    BY <2>1, <2>4, RunTwo
  <2>6. QED
    BY <1>2, <2>5 DEF If, DirectRules, r1, r2, q2
<1>3. QED
  BY <1>1, <1>2

\* The third part: what the proxy set lists is asked of the remote servers, and
\* the addresses go to the firewall.
LEMMA ProxyPart ==
    ASSUME NEW c, NEW L, NEW d
    PROVE  Run(If(c.sets["proxy"], ProxyRules), Asked, c, L, d)
             = IF Listed(c, L, "proxy", d) THEN ProxiedEnded ELSE Asked
<1>1. CASE c.sets["proxy"] = {}
  BY <1>1, NotListed, RunNothing DEF If
<1>2. CASE c.sets["proxy"] # {}
  <2> DEFINE r1 == Rule("proxy", "remote")
             r2 == Rule("proxy", "sync")
             r3 == Rule("has_resp", "return")
             q1 == IF Listed(c, L, "proxy", d) THEN Answered ELSE Asked
             q2 == IF Listed(c, L, "proxy", d) THEN Proxied ELSE Asked
             q3 == IF Listed(c, L, "proxy", d) THEN ProxiedEnded ELSE Asked
  <2>1. Obey(Asked, r1, c, L, d) = q1
    BY ObeysListed, QueryParts, Moved DEF Tags
  <2>2. Obey(q1, r2, c, L, d) = q2
    BY ObeysListed, QueryParts, Moved DEF Tags
  <2>3. Obey(Asked, r3, c, L, d) = Asked
    BY ObeysAnswered, QueryParts
  <2>4. Obey(Proxied, r3, c, L, d) = ProxiedEnded
    BY ObeysAnswered, QueryParts, Moved
  <2>5. Obey(q2, r3, c, L, d) = q3
    BY <2>3, <2>4
  <2> HIDE DEF r1, r2, r3, q1, q2, q3
  <2>6. Run(<<r1, r2, r3>>, Asked, c, L, d) = q3
    BY <2>1, <2>2, <2>5, RunThree
  <2>7. QED
    BY <1>2, <2>6 DEF If, ProxyRules, r1, r2, r3, q3
<1>3. QED
  BY <1>1, <1>2

\* The last part: every query that is left.
LEMMA LastPart ==
    ASSUME NEW c, NEW L, NEW d
    PROVE  /\ Run(Remote, Asked, c, L, d) = Proxied
           /\ Run(Local, Asked, c, L, d) = Directly
<1> DEFINE r1 == Rule("any", "remote")
           r2 == Rule("any", "sync")
           r3 == Rule("any", "local")
<1>1. Obey(Asked, r1, c, L, d) = Answered
  BY ObeysAny, QueryParts, Moved
<1>2. Obey(Answered, r2, c, L, d) = Proxied
  BY ObeysAny, QueryParts, Moved
<1>3. Obey(Asked, r3, c, L, d) = Directly
  BY ObeysAny, QueryParts, Moved
<1> HIDE DEF r1, r2, r3
<1>4. Run(<<r1, r2>>, Asked, c, L, d) = Proxied
  BY <1>1, <1>2, RunTwo
<1>5. Run(<<r3>>, Asked, c, L, d) = Directly
  BY <1>3, RunOne
<1>6. QED
  BY <1>4, <1>5 DEF Remote, Local, r1, r2, r3

\* The ways the queries go that the parts leave.
LEMMA Routes ==
    /\ Route(Rejected) = "block"
    /\ Route(Directly) = "direct" /\ Route(DirectlyEnded) = "direct"
    /\ Route(Proxied) = "proxy" /\ Route(ProxiedEnded) = "proxy"
<1>1. Route(Rejected) = "block"
  BY DEF Route, Rejected, Query
<1>2. Route(Directly) = "direct" /\ Route(DirectlyEnded) = "direct"
  BY DEF Route, Directly, DirectlyEnded, Query
<1>3. Route(Proxied) = "proxy" /\ Route(ProxiedEnded) = "proxy"
  BY DEF Route, Proxied, ProxiedEnded, Query
<1>4. QED
  BY <1>1, <1>2, <1>3

\* A part that may be left out is a sequence of rules.
LEMMA IfTyped ==
    ASSUME NEW set, NEW rules \in Seq(RuleSet)
    PROVE  If(set, rules) \in Seq(RuleSet)
BY RulesTyped DEF If

\* The way of a query by the mode's part of the sequence.
Way(s, c, L, d) ==
    LET isDirect == Listed(c, L, "direct", d)
        isProxy == Listed(c, L, "proxy", d)
        byList == IF isDirect THEN "direct" ELSE IF isProxy THEN "proxy"
                  ELSE IF s.route = "proxy" THEN "proxy" ELSE "direct"
    IN  CASE s.mode = "blacklist" -> IF isProxy THEN "proxy" ELSE "direct"
          [] s.mode = "custom"    -> byList
          [] OTHER                -> IF isDirect THEN "direct" ELSE "proxy"

\* Each mode's part answers every query, and sends it that way.
LEMMA BranchAnswers ==
    ASSUME NEW s \in Settings, NEW c, NEW L, NEW d
    PROVE  /\ Branch(s, c.sets) \in Seq(RuleSet)
           /\ Route(Run(Branch(s, c.sets), Asked, c, L, d)) = Way(s, c, L, d)
<1> DEFINE B == Branch(s, c.sets)
           D == If(c.sets["direct"], DirectRules)
           P == If(c.sets["proxy"], ProxyRules)
           E == IF s.route = "proxy" THEN Remote ELSE Local
           runD == Run(D, Asked, c, L, d)
           runP == Run(P, Asked, c, L, d)
<1>1. /\ D \in Seq(RuleSet) /\ P \in Seq(RuleSet)
      /\ E \in Seq(RuleSet) /\ Remote \in Seq(RuleSet) /\ Local \in Seq(RuleSet)
  BY RulesTyped, IfTyped
<1>2. runD = IF Listed(c, L, "direct", d) THEN DirectlyEnded ELSE Asked
  BY DirectPart
<1>3. runP = IF Listed(c, L, "proxy", d) THEN ProxiedEnded ELSE Asked
  BY ProxyPart
<1>4. Run(E, Asked, c, L, d) = IF s.route = "proxy" THEN Proxied ELSE Directly
  BY LastPart
<1>5. CASE s.mode = "blacklist"
  <2>1. B = P \o Local
    BY <1>5 DEF Branch
  <2> HIDE DEF B, P, runP
  <2>2. Run(P \o Local, Asked, c, L, d) = Run(Local, runP, c, L, d)
    BY <1>1, RunJoined DEF runP
  <2>3. Run(Local, ProxiedEnded, c, L, d) = ProxiedEnded
    BY <1>1, OverStays, QueryParts
  <2>4. Run(B, Asked, c, L, d)
          = IF Listed(c, L, "proxy", d) THEN ProxiedEnded ELSE Directly
    BY <1>3, <2>1, <2>2, <2>3, LastPart
  <2>5. B \in Seq(RuleSet)
    BY <1>1, <2>1
  <2>6. QED
    BY <1>5, <2>4, <2>5, Routes DEF B, Way
<1>6. CASE s.mode = "custom"
  <2>1. B = (D \o P) \o E
    BY <1>6 DEF Branch
  <2> HIDE DEF B, D, P, E, runD, runP
  <2>2. D \o P \in Seq(RuleSet)
    BY <1>1
  <2>3. Run((D \o P) \o E, Asked, c, L, d)
          = Run(E, Run(D \o P, Asked, c, L, d), c, L, d)
    <3> DEFINE front == D \o P
    <3>1. front \in Seq(RuleSet)
      BY <2>2
    <3> HIDE DEF front
    <3>2. Run(front \o E, Asked, c, L, d) = Run(E, Run(front, Asked, c, L, d), c, L, d)
      BY <1>1, <3>1, RunJoined
    <3>3. QED
      BY <3>2 DEF front
  <2>4. Run(D \o P, Asked, c, L, d) = Run(P, runD, c, L, d)
    BY <1>1, RunJoined DEF runD
  <2>5. /\ Run(P, DirectlyEnded, c, L, d) = DirectlyEnded
        /\ Run(E, DirectlyEnded, c, L, d) = DirectlyEnded
        /\ Run(E, ProxiedEnded, c, L, d) = ProxiedEnded
    BY <1>1, OverStays, QueryParts
  <2>6. B \in Seq(RuleSet)
    BY <1>1, <2>1, <2>2
  <2>7. CASE Listed(c, L, "direct", d)
    <3>1. Run(B, Asked, c, L, d) = DirectlyEnded
      BY <1>2, <2>1, <2>3, <2>4, <2>5, <2>7
    <3>2. Way(s, c, L, d) = "direct"
      BY <1>6, <2>7 DEF Way
    <3>3. QED
      BY <2>6, <3>1, <3>2, Routes DEF B
  <2>8. CASE ~Listed(c, L, "direct", d) /\ Listed(c, L, "proxy", d)
    <3>1. Run(B, Asked, c, L, d) = ProxiedEnded
      BY <1>2, <1>3, <2>1, <2>3, <2>4, <2>5, <2>8 DEF runP
    <3>2. Way(s, c, L, d) = "proxy"
      BY <1>6, <2>8 DEF Way
    <3>3. QED
      BY <2>6, <3>1, <3>2, Routes DEF B
  <2>9. CASE ~Listed(c, L, "direct", d) /\ ~Listed(c, L, "proxy", d)
    <3>1. Run(B, Asked, c, L, d) = IF s.route = "proxy" THEN Proxied ELSE Directly
      BY <1>2, <1>3, <1>4, <2>1, <2>3, <2>4, <2>9 DEF runP
    <3>2. Way(s, c, L, d) = IF s.route = "proxy" THEN "proxy" ELSE "direct"
      BY <1>6, <2>9 DEF Way
    <3>3. QED
      BY <2>6, <3>1, <3>2, Routes DEF B
  <2>10. QED
    BY <2>7, <2>8, <2>9
<1>7. CASE s.mode = "whitelist"
  <2>1. B = D \o Remote
    BY <1>7 DEF Branch
  <2> HIDE DEF B, D, runD
  <2>2. Run(D \o Remote, Asked, c, L, d) = Run(Remote, runD, c, L, d)
    BY <1>1, RunJoined DEF runD
  <2>3. Run(Remote, DirectlyEnded, c, L, d) = DirectlyEnded
    BY <1>1, OverStays, QueryParts
  <2>4. Run(B, Asked, c, L, d)
          = IF Listed(c, L, "direct", d) THEN DirectlyEnded ELSE Proxied
    BY <1>2, <2>1, <2>2, <2>3, LastPart
  <2>5. B \in Seq(RuleSet)
    BY <1>1, <2>1
  <2>6. QED
    BY <1>7, <2>4, <2>5, Routes DEF B, Way
<1>8. s.mode \in {"blacklist", "custom", "whitelist"}
  BY DEF Settings
<1>9. QED
  BY <1>5, <1>6, <1>7, <1>8

\* A configuration generated from s blocks first and then goes the mode's way.
LEMMA GeneratedAnswers ==
    ASSUME NEW s \in Settings, NEW c, NEW L, NEW d,
           c.main = If(c.sets["block"], BlockRules) \o Branch(s, c.sets)
    PROVE  Route(Answer(c, L, d))
             = IF Listed(c, L, "block", d) THEN "block" ELSE Way(s, c, L, d)
<1> DEFINE B == Branch(s, c.sets)
           K == If(c.sets["block"], BlockRules)
           runK == Run(K, Asked, c, L, d)
<1>1. K \in Seq(RuleSet) /\ B \in Seq(RuleSet)
  BY RulesTyped, IfTyped, BranchAnswers
<1>2. runK = IF Listed(c, L, "block", d) THEN Rejected ELSE Asked
  BY BlockPart
<1>3. Route(Run(B, Asked, c, L, d)) = Way(s, c, L, d)
  BY BranchAnswers
<1>4. c.main = K \o B
  OBVIOUS
<1> HIDE DEF B, K, runK
<1>5. Answer(c, L, d) = Run(B, runK, c, L, d)
  BY <1>1, <1>4, RunJoined DEF Answer, runK
<1>6. Run(B, Rejected, c, L, d) = Rejected
  BY <1>1, OverStays, QueryParts
<1>7. QED
  BY <1>2, <1>3, <1>5, <1>6, Routes

-----------------------------------------------------------------------------
\* A configuration on disk, with nothing in transit, is the one generated from
\* the settings on disk, if its domain sets are those of the files that exist.
LEMMA ConfigIsGenerated ==
    ASSUME MosdnsInv, ~InTransit, ReadBack, Current, config # Torn
    PROVE  /\ settings \in Settings
           /\ config.main = If(config.sets["block"], BlockRules)
                            \o Branch(settings, config.sets)
<1>1. settings \in Settings
  <2>1. ASSUME settings = Torn PROVE FALSE
    <3>1. Loaded(settings) = defaultSettings
      BY <2>1 DEF Loaded
    <3>2. QED
      BY <2>1, <3>1, DefaultIsSettings, MosdnsAssumption DEF ReadBack
  <2>2. QED
    BY <2>1 DEF MosdnsInv, MosdnsTypeOK
<1>2. settings # Torn
  BY <1>1, MosdnsAssumption
<1>3. ~Someone("truncate") /\ "config" \notin owed
  BY MosdnsAssumption DEF MosdnsInv, MutexReturned, Someone, At, InTransit
<1>4. config.sets = DomainSets(settings, there)
  BY DEF Current
<1>5. CASE settings = defaultSettings /\ config = Sample
  <2> DEFINE sets == config.sets
  <2>1. /\ sets["direct"] # {} /\ sets["block"] = {}
        /\ config.main = DirectRules \o Remote
    BY <1>5 DEF Sample
  <2>2. settings.mode = "whitelist"
    BY <1>5 DEF defaultSettings
  <2> HIDE DEF sets
  <2>3. If(sets["direct"], DirectRules) = DirectRules
    BY <2>1 DEF If
  <2>4. Branch(settings, sets) = DirectRules \o Remote
    BY <2>2, <2>3 DEF Branch
  <2>5. If(sets["block"], BlockRules) = <<>>
    BY <2>1 DEF If
  <2>6. <<>> \o (DirectRules \o Remote) = DirectRules \o Remote
    <3>1. DirectRules \o Remote \in Seq(RuleSet)
      BY RulesTyped
    <3>2. \A s \in Seq(RuleSet) : <<>> \o s = s
      OBVIOUS
    <3>3. QED
      BY <3>1, <3>2
  <2>7. QED
    BY <1>1, <2>1, <2>4, <2>5, <2>6 DEF sets
<1>6. ASSUME NEW exist \in SUBSET there, config = Generated(settings, exist)
      PROVE  config.main = If(config.sets["block"], BlockRules)
                           \o Branch(settings, config.sets)
  BY <1>6 DEF Generated
<1>7. \/ settings = defaultSettings /\ config = Sample
      \/ \E exist \in SUBSET there : config = Generated(settings, exist)
  BY <1>2, <1>3 DEF MosdnsInv, Follows
<1>8. QED
  BY <1>1, <1>5, <1>6, <1>7

\* A domain no keyword line names is listed where a file that exists has it.
LEMMA ListedMatches ==
    ASSUME MosdnsInv, Current, NEW d, ~ByKeyword(d), settings \in Settings
    PROVE  /\ Listed(config, lines, "direct", d)
                <=> \E f \in {"custom-direct", "cn"} : Matches(f, d)
           /\ Listed(config, lines, "proxy", d)
                <=> \E f \in {"custom-proxy", "gfw"} : Matches(f, d)
           /\ Listed(config, lines, "block", d)
                <=> settings.block /\ Matches("custom-block", d)
<1>1. config.sets = DomainSets(settings, there)
  BY DEF Current
<1>2. ASSUME NEW t \in Tags
      PROVE  Listed(config, lines, t, d) <=> \E f \in config.sets[t] : Matches(f, d)
  <2>1. config.sets[t] \subseteq there /\ there \subseteq RuleFiles
    BY <1>1 DEF DomainSets, Tags, MosdnsInv, MosdnsTypeOK
  <2>2. \A f \in config.sets[t] : <<d, "keyword">> \notin lines[f] /\ f \in there
    BY <2>1 DEF ByKeyword
  <2>3. QED
    BY <2>2 DEF Listed, Matches
<1>3. \A f : Matches(f, d) => f \in there
  BY DEF Matches
<1>4. config.sets["direct"] = {"cn", "custom-direct"} \cap there
  BY <1>1 DEF DomainSets
<1>5. config.sets["proxy"] = {"gfw", "custom-proxy"} \cap there
  BY <1>1 DEF DomainSets
<1>6. config.sets["block"] = IF settings.block THEN {"custom-block"} \cap there ELSE {}
  BY <1>1 DEF DomainSets
<1>7. Listed(config, lines, "direct", d)
        <=> \E f \in {"custom-direct", "cn"} : Matches(f, d)
  BY <1>2, <1>3, <1>4 DEF Tags
<1>8. Listed(config, lines, "proxy", d)
        <=> \E f \in {"custom-proxy", "gfw"} : Matches(f, d)
  BY <1>2, <1>3, <1>5 DEF Tags
<1>9. Listed(config, lines, "block", d)
        <=> settings.block /\ Matches("custom-block", d)
  BY <1>2, <1>3, <1>6 DEF Tags
<1>10. QED
  BY <1>7, <1>8, <1>9

(***************************************************************************)
(* Where the simulator and a running MosDNS disagree about a domain, one   *)
(* of the named causes is there: a change in transit, settings read back   *)
(* other than they were saved, a keyword line, or rule files that came or  *)
(* went since the configuration was generated.                             *)
(***************************************************************************)
THEOREM MosdnsSimulatorExplained == MosdnsSpec => []SimulatorExplained
<1>1. MosdnsInv => SimulatorExplained
  <2> SUFFICES ASSUME MosdnsInv, NEW d \in Domains, proc # Down,
                      ~InTransit, ReadBack, ~ByKeyword(d), Current
               PROVE  proc[d] = TestDomain(d)
    BY DEF SimulatorExplained
  <2>1. config # Torn /\ proc = Pipeline(config, lines)
    BY DEF MosdnsInv, RunsLatest, InTransit
  <2>2. /\ settings \in Settings
        /\ config.main = If(config.sets["block"], BlockRules)
                         \o Branch(settings, config.sets)
    BY <2>1, ConfigIsGenerated
  <2>3. proc[d] = IF Listed(config, lines, "block", d) THEN "block"
                  ELSE Way(settings, config, lines, d)
    BY <2>1, <2>2, GeneratedAnswers DEF Pipeline
  <2>4. Loaded(settings) = settings
    BY DEF ReadBack
  <2>5. QED
    BY <2>2, <2>3, <2>4, ListedMatches DEF TestDomain, Way
<1>2. QED
  BY <1>1, MosdnsInvariant, PTL

=============================================================================
