--------------------------- MODULE MosdnsController ---------------------------
(***************************************************************************)
(* The mosdns controller (cmd/mosdns-controller/main.go), the service it   *)
(* controls (rc.d/mosdns) and the rule update (scripts/update_rules.sh).   *)
(* They share four pieces of state on disk and one process: the settings,  *)
(* the configuration generated from them, the rule files, and MosDNS,      *)
(* which has read the last two when it started.                            *)
(*                                                                         *)
(* Handlers are the goroutines of the controller; scripts are processes of *)
(* configd, cron or an administrator.  Only handleConfig takes the mutex,  *)
(* and gives it up before it restarts MosDNS.                              *)
(***************************************************************************)
EXTENDS Integers, Sequences, FiniteSets, SequencesExt

CONSTANTS
    Handlers, Scripts,
    Domains,    \* the domain names asked for
    Posts,      \* the settings clients post
    Drafts,     \* the files and texts clients save and the update downloads
    Samples,    \* the lines of the user's files the controller creates
    Requests,   \* the service actions asked for
    Torn,       \* a file truncated and not written, or written in part
    Down,       \* no MosDNS process
    NoOne, NoArg

Actors == Handlers \cup Scripts

Managed == {"cn", "gfw"}

Custom == {"custom-direct", "custom-proxy", "custom-block"}

RuleFiles == Managed \cup Custom

\* A line names a domain, or with keyword: a part of it.
Lines == Domains \X {"domain", "keyword"}

Settings ==
    [mode : {"whitelist", "blacklist", "custom"}, route : {"proxy", "direct"},
     block : BOOLEAN]

defaultSettings == [mode |-> "whitelist", route |-> "proxy", block |-> TRUE]

ASSUME MosdnsAssumption ==
    /\ Handlers \cap Scripts = {} /\ NoOne \notin Handlers
    /\ Posts \subseteq Settings
    /\ Drafts \subseteq [file : RuleFiles, text : SUBSET Lines]
    /\ Samples \in [Custom -> SUBSET Lines] /\ Samples["custom-block"] = {}
    /\ Requests \subseteq {<<"start", 1>>, <<"stop", 0>>, <<"stop", 1>>}
    /\ Torn \notin Settings

VARIABLES
    settings,   \* controller_settings.json
    config,     \* config.yaml
    there,      \* the rule files that exist
    lines,      \* what is in them
    proc,       \* where the running MosDNS sends each domain, or Down
    ctl,        \* whether the controller runs
    mu,         \* who holds the mutex
    pc, arg,    \* where each actor is, and what it writes next
    left,       \* the restarts it still has to do
    owed        \* history: what a request or a kill has left undone

diskVars == <<settings, config, there, lines>>

locals == <<pc, arg, left>>

mosdnsVars == <<settings, config, there, lines, proc, ctl, mu, pc, arg, left, owed>>

-----------------------------------------------------------------------------
(***************************************************************************)
(* generateMosdnsConfig.  A domain set holds the rule files that exist; a  *)
(* rule of the sequence runs exec if its condition holds.                  *)
(***************************************************************************)
Rule(on, exec) == [on |-> on, exec |-> exec]

BlockRules == <<Rule("block", "reject"), Rule("has_resp", "return")>>

DirectRulesOpen == <<Rule("direct", "local")>>

DirectRules == <<Rule("direct", "local"), Rule("has_resp", "return")>>

ProxyRules ==
    <<Rule("proxy", "remote"), Rule("proxy", "sync"), Rule("has_resp", "return")>>

Remote == <<Rule("any", "remote"), Rule("any", "sync")>>

Local == <<Rule("any", "local")>>

If(set, rules) == IF set = {} THEN <<>> ELSE rules

DomainSets(s, exist) ==
    [direct |-> {"cn", "custom-direct"} \cap exist,
     proxy  |-> {"gfw", "custom-proxy"} \cap exist,
     block  |-> IF s.block THEN {"custom-block"} \cap exist ELSE {}]

Branch(s, sets) ==
    CASE s.mode = "blacklist" -> If(sets.proxy, ProxyRules) \o Local
      [] s.mode = "custom"    -> If(sets.direct, DirectRules)
                                 \o If(sets.proxy, ProxyRules)
                                 \o IF s.route = "proxy" THEN Remote ELSE Local
      [] OTHER                -> If(sets.direct, DirectRules) \o Remote

Generated(s, exist) ==
    LET sets == DomainSets(s, exist)
    IN  [sets |-> sets, main |-> If(sets.block, BlockRules) \o Branch(s, sets)]

\* The configuration the package installs, config.mosdns.example.yaml.
Sample ==
    [sets |-> [direct |-> {"cn", "custom-direct"}, proxy |-> {"gfw", "custom-proxy"},
               block |-> {}],
     main |-> DirectRules \o Remote]

-----------------------------------------------------------------------------
(***************************************************************************)
(* What a MosDNS that has read configuration c and rule files L does with  *)
(* a query for d.  A forward that fails ends the query.                    *)
(***************************************************************************)
Listed(c, L, set, d) ==
    \E f \in c.sets[set] : <<d, "domain">> \in L[f] \/ <<d, "keyword">> \in L[f]

Holds(rule, q, c, L, d) ==
    CASE rule.on = "any"      -> TRUE
      [] rule.on = "has_resp" -> q.by # "nobody"
      [] OTHER                -> Listed(c, L, rule.on, d)

Exec(rule, q) ==
    CASE rule.exec = "return" -> [q EXCEPT !.over = TRUE]
      [] rule.exec = "sync"   -> [q EXCEPT !.synced = q.by # "nobody"]
      [] rule.exec = "reject" -> [q EXCEPT !.by = "reject", !.over = TRUE]
      [] OTHER                -> [q EXCEPT !.by = rule.exec]

Obey(q, rule, c, L, d) ==
    IF q.over \/ ~Holds(rule, q, c, L, d) THEN q ELSE Exec(rule, q)

Run(rules, asked, c, L, d) ==
    LET after[n \in 0..Len(rules)] ==
            IF n = 0 THEN asked ELSE Obey(after[n - 1], rules[n], c, L, d)
    IN  after[Len(rules)]

Asked == [by |-> "nobody", synced |-> FALSE, over |-> FALSE]

Answer(c, L, d) == Run(c.main, Asked, c, L, d)

\* The three ways an answer is meant to go, and every other one.
Route(a) ==
    CASE a.by = "reject"              -> "block"
      [] a.by = "local" /\ ~a.synced  -> "direct"
      [] a.by = "remote" /\ a.synced  -> "proxy"
      [] OTHER                        -> "astray"

Pipeline(c, L) == [d \in Domains |-> Route(Answer(c, L, d))]

-----------------------------------------------------------------------------
(***************************************************************************)
(* loadSettings.  The file has the JSON names of the fields and is decoded *)
(* by their YAML names, the Go names in lower case: of the three fields    *)
(* only mode is found, the other two keep their defaults.                  *)
(***************************************************************************)
Loaded(file) ==
    IF file = Torn THEN defaultSettings
    ELSE [defaultSettings EXCEPT !.mode = file.mode]

\* matchDomainInFile: keyword: is no prefix it knows.
Matches(f, d) == f \in there /\ <<d, "domain">> \in lines[f]

\* handleTestDomain, the simulator.
TestDomain(d) ==
    LET s == Loaded(settings)
        isDirect == \E f \in {"custom-direct", "cn"} : Matches(f, d)
        isProxy == \E f \in {"custom-proxy", "gfw"} : Matches(f, d)
        byList == IF isDirect THEN "direct" ELSE IF isProxy THEN "proxy"
                  ELSE IF s.route = "proxy" THEN "proxy" ELSE "direct"
    IN  IF s.block /\ Matches("custom-block", d) THEN "block"
        ELSE CASE s.mode = "blacklist" -> IF isProxy THEN "proxy" ELSE "direct"
               [] s.mode = "custom"    -> byList
               [] OTHER                -> IF isDirect THEN "direct" ELSE "proxy"

-----------------------------------------------------------------------------
MosdnsTypeOK ==
    /\ settings \in Settings \cup {Torn}
    /\ config # Torn =>
         /\ DOMAIN config = {"sets", "main"}
         /\ config.sets \in [{"direct", "proxy", "block"} -> SUBSET RuleFiles]
    /\ there \subseteq RuleFiles
    /\ lines \in [RuleFiles -> SUBSET Lines]
    /\ proc \in [Domains -> {"block", "direct", "proxy", "astray"}] \cup {Down}
    /\ ctl \in BOOLEAN
    /\ mu \in Handlers \cup {NoOne}
    /\ pc \in [Actors -> {"idle", "lock", "save", "truncate", "write", "rules",
                          "cn", "gfw", "check", "stop", "kill", "start"}]
    /\ left \in [Actors -> 0..2]
    /\ arg = [a \in Actors |-> arg[a]]
    /\ owed \subseteq {"restart", "config"}

\* The package has been installed and nothing started yet.  It creates four
\* rule files; without it mosdns does, when it starts.
MosdnsInit ==
    /\ settings = defaultSettings /\ config = Sample
    /\ there \in {{}, RuleFiles \ {"custom-block"}}
    /\ lines = [f \in RuleFiles |-> {}]
    /\ proc = Down /\ ctl = FALSE /\ mu = NoOne
    /\ pc = [a \in Actors |-> "idle"]
    /\ arg = [a \in Actors |-> NoArg]
    /\ left = [a \in Actors |-> 0]
    /\ owed = {}

-----------------------------------------------------------------------------
At(a, here) == pc[a] = here

Goto(a, next) == pc' = [pc EXCEPT ![a] = next]

Keep(a, x) == arg' = [arg EXCEPT ![a] = x]

Restarts(a, n) == left' = [left EXCEPT ![a] = n]

FinishStart(a) ==
    /\ Goto(a, IF left[a] = 0 THEN "idle" ELSE "start")
    /\ Keep(a, NoArg)
    /\ UNCHANGED left

\* The request is answered, without or before the restart.
Finish(a) ==
    /\ Goto(a, IF left[a] = 0 THEN "idle" ELSE "stop")
    /\ Keep(a, NoArg)
    /\ UNCHANGED left

Abort(a) == Goto(a, "idle") /\ Keep(a, NoArg) /\ Restarts(a, 0)

Owe(what) == owed' = owed \cup what

OweRestart(a) == Owe(IF left[a] = 0 THEN {"restart"} ELSE {})

(***************************************************************************)
(* handleConfig, POST: both files under the mutex, the restart after it.   *)
(***************************************************************************)
PostConfig(h) ==
    /\ ctl /\ At(h, "idle")
    /\ \E s \in Posts, n \in {0, 2} : Keep(h, s) /\ Restarts(h, n)
    /\ Goto(h, "lock")
    /\ UNCHANGED <<diskVars, proc, ctl, mu, owed>>

LockNothing(h) ==
    /\ At(h, "lock")
    /\ mu' = h
    /\ Goto(h, "save")
    /\ UNCHANGED <<diskVars, proc, ctl, arg, left, owed>>

LockConfig(h) ==
    /\ At(h, "lock") /\ mu = NoOne
    /\ mu' = h
    /\ Goto(h, "save")
    /\ UNCHANGED <<diskVars, proc, ctl, arg, left, owed>>

SaveSettings(h) ==
    /\ At(h, "save")
    /\ settings' = arg[h]
    /\ Goto(h, "truncate")
    /\ UNCHANGED <<config, there, lines, proc, ctl, mu, arg, left, owed>>

SaveFailsLocked(h) ==
    /\ At(h, "save")
    /\ settings' \in {settings, Torn}
    /\ Abort(h) /\ UNCHANGED mu
    /\ UNCHANGED <<config, there, lines, proc, ctl, owed>>

SaveFails(h) ==
    /\ At(h, "save")
    /\ settings' \in {settings, Torn}
    /\ Abort(h) /\ mu' = NoOne
    /\ UNCHANGED <<config, there, lines, proc, ctl, owed>>

\* The configuration is put together, then WriteFile empties the file first.
Truncate(h) ==
    /\ At(h, "truncate")
    /\ Keep(h, Generated(arg[h], there))
    /\ config' = Torn
    /\ Goto(h, "write")
    /\ UNCHANGED <<settings, there, lines, proc, ctl, mu, left, owed>>

WriteConfig(h) ==
    /\ At(h, "write")
    /\ config' = arg[h] /\ mu' = NoOne
    /\ owed' = (owed \ {"config"}) \cup IF left[h] = 0 THEN {"restart"} ELSE {}
    /\ Finish(h)
    /\ UNCHANGED <<settings, there, lines, proc, ctl>>

\* The file cannot be opened, or not be written after it was emptied.
WriteFails(h) ==
    /\ At(h, "truncate") \/ At(h, "write")
    /\ mu' = NoOne
    /\ Owe(IF At(h, "truncate") THEN {"config"} ELSE {"restart"})
    /\ Abort(h)
    /\ UNCHANGED <<diskVars, proc, ctl>>

(***************************************************************************)
(* handleRules, POST: one of the user's files, without the mutex.          *)
(***************************************************************************)
PostRules(h) ==
    /\ ctl /\ At(h, "idle")
    /\ \E x \in Drafts, n \in {0, 2} :
         /\ x.file \in Custom
         /\ Keep(h, x) /\ Restarts(h, n)
         /\ there' = there \cup {x.file}
         /\ lines' = [lines EXCEPT ![x.file] = {}]
    /\ Goto(h, "rules")
    /\ UNCHANGED <<settings, config, proc, ctl, mu, owed>>

WriteRules(h) ==
    /\ At(h, "rules")
    /\ lines' = [lines EXCEPT ![arg[h].file] = arg[h].text]
    /\ OweRestart(h)
    /\ Finish(h)
    /\ UNCHANGED <<settings, config, there, proc, ctl, mu>>

WriteRulesFails(h) ==
    /\ At(h, "rules")
    /\ Owe({"restart"})
    /\ Abort(h)
    /\ UNCHANGED <<diskVars, proc, ctl, mu>>

(***************************************************************************)
(* update_rules.sh.  A download replaces a file at once, one that fails    *)
(* leaves it.  Files still absent after both are made, the managed ones    *)
(* with a line about no domain asked for.                                  *)
(***************************************************************************)
BeginUpdate(p) ==
    /\ At(p, "idle")
    /\ Goto(p, "cn")
    /\ \E n \in {0, 1} : Restarts(p, n)
    /\ UNCHANGED <<diskVars, proc, ctl, mu, arg, owed>>

Download(f, made) ==
    \/ there' = there \cup made /\ UNCHANGED lines
    \/ \E x \in Drafts :
         /\ x.file = f
         /\ there' = there \cup made \cup {f}
         /\ lines' = [lines EXCEPT ![f] = x.text]

UpdateCn(p) ==
    /\ At(p, "cn")
    /\ Download("cn", {})
    /\ Goto(p, "gfw")
    /\ UNCHANGED <<settings, config, proc, ctl, mu, arg, left, owed>>

UpdateGfw(p) ==
    /\ At(p, "gfw")
    /\ Download("gfw", {"cn", "gfw", "custom-direct", "custom-proxy"})
    /\ Goto(p, "check")
    /\ UNCHANGED <<settings, config, proc, ctl, mu, arg, left, owed>>

\* MosDNS is restarted if it runs and --no-restart was not given.
CheckRunning(p) ==
    /\ At(p, "check")
    /\ IF left[p] > 0 /\ proc # Down
       THEN Goto(p, "stop") /\ UNCHANGED <<arg, left>>
       ELSE Abort(p)
    /\ OweRestart(p)
    /\ UNCHANGED <<diskVars, proc, ctl, mu>>

-----------------------------------------------------------------------------
(***************************************************************************)
(* handleService and the same actions from outside: what is to be done     *)
(* first, and how many starts follow.  A start refused because MosDNS runs *)
(* is tried again by the code, which here is one more request.             *)
(***************************************************************************)
Service(a) ==
    /\ At(a, "idle") /\ (a \in Handlers => ctl)
    /\ \E x \in Requests : Goto(a, x[1]) /\ Restarts(a, x[2])
    /\ UNCHANGED <<diskVars, proc, ctl, mu, arg, owed>>

\* After a stop on its own, handleService kills what is running.
AfterStop(a) ==
    IF left[a] > 0 THEN "start" ELSE IF a \in Handlers THEN "kill" ELSE "idle"

\* A handler that has written something MosDNS is still to read.
Dirty(a) == pc[a] \in {"write", "rules", "gfw", "check", "stop"}

Someone(here) == \E h \in Handlers : At(h, here)

\* The controller is killed.  What a handler was writing stays as it is.
KillController ==
    /\ ctl' = FALSE /\ mu' = NoOne
    /\ arg' = [a \in Actors |-> IF a \in Handlers THEN NoArg ELSE arg[a]]
    /\ settings' \in {settings} \cup IF Someone("save") THEN {Torn} ELSE {}
    /\ Owe((IF Someone("truncate") THEN {"config"} ELSE {})
           \cup IF \E h \in Handlers : Dirty(h) THEN {"restart"} ELSE {})
    /\ UNCHANGED <<config, there, lines>>

\* A restart that a handler has under way goes on without it.  Of those about to
\* stop, the ones in ran had called service, whose stop is done here.
Orphan(h, ran) ==
    IF At(h, "start") \/ (h \in ran /\ left[h] > 0) THEN "start" ELSE "idle"

OrphanLeft(h, ran) == IF Orphan(h, ran) = "start" THEN 1 ELSE 0

Stopping == {h \in Handlers : At(h, "stop")}

\* The stop of rc.d/mosdns, called by a handler.
HandlerStop(h) ==
    /\ At(h, "stop")
    /\ proc' = Down
    /\ Goto(h, AfterStop(h))
    /\ UNCHANGED <<diskVars, ctl, mu, arg, left, owed>>

\* Its pkill -f matches the controller as well, whose path begins like that of
\* mosdns; it spares its own ancestors, the controller in the case above.
ScriptStop(p) ==
    /\ At(p, "stop")
    /\ proc' = Down
    /\ KillController
    /\ \E ran \in SUBSET Stopping :
         /\ pc' = [a \in Actors |-> IF a = p THEN AfterStop(p)
                                    ELSE IF a \in Handlers THEN Orphan(a, ran) ELSE pc[a]]
         /\ left' = [a \in Actors |-> IF a \in Handlers THEN OrphanLeft(a, ran)
                                      ELSE left[a]]

KillLeft(h) ==
    /\ At(h, "kill")
    /\ proc' = Down
    /\ Abort(h)
    /\ UNCHANGED <<diskVars, ctl, mu, owed>>

TouchedManaged == Managed

\* The start of rc.d/mosdns, which creates the rule files named here.
Touched == {"cn", "gfw", "custom-direct", "custom-proxy"}

Loads == config # Torn /\ UNION Range(config.sets) \subseteq there \cup Touched

AfterStart(a) ==
    /\ Goto(a, IF left[a] > 1 THEN "stop" ELSE "idle")
    /\ Restarts(a, left[a] - 1)

Start(a) ==
    /\ At(a, "start") /\ proc = Down /\ Loads
    /\ there' = there \cup Touched
    /\ proc' = Pipeline(config, lines)
    /\ owed' = owed \ {"restart"}
    /\ AfterStart(a)
    /\ UNCHANGED <<settings, config, lines, ctl, mu, arg>>

StartFails(a) ==
    /\ At(a, "start") /\ proc = Down /\ ~Loads
    /\ there' = there \cup Touched
    /\ AfterStart(a)
    /\ UNCHANGED <<settings, config, lines, proc, ctl, mu, arg, owed>>

AlreadyRunning(a) ==
    /\ At(a, "start") /\ proc # Down
    /\ AfterStart(a)
    /\ UNCHANGED <<diskVars, proc, ctl, mu, arg, owed>>

\* main: initDirectories creates the user's files; the configuration exists.
ControllerStart ==
    /\ ~ctl
    /\ ctl' = TRUE
    /\ there' = there \cup Custom
    /\ lines' =
         [f \in RuleFiles |-> IF f \in Custom \ there THEN Samples[f] ELSE lines[f]]
    /\ UNCHANGED <<settings, config, proc, mu, locals, owed>>

ControllerStop ==
    /\ ctl
    /\ KillController
    /\ \E ran \in SUBSET Stopping :
         /\ proc' = IF ran = {} THEN proc ELSE Down
         /\ pc' = [a \in Actors |-> IF a \in Handlers THEN Orphan(a, ran) ELSE pc[a]]
         /\ left' = [a \in Actors |-> IF a \in Handlers THEN OrphanLeft(a, ran)
                                      ELSE left[a]]

HandlerStep(h) ==
    \/ SaveSettings(h) \/ SaveFails(h) \/ Truncate(h)
    \/ WriteConfig(h) \/ WriteFails(h)
    \/ WriteRules(h) \/ WriteRulesFails(h)
    \/ HandlerStop(h) \/ KillLeft(h)

ScriptStep(p) ==
    UpdateCn(p) \/ UpdateGfw(p) \/ CheckRunning(p) \/ ScriptStop(p)

StartStep(a) == Start(a) \/ StartFails(a) \/ AlreadyRunning(a)

MosdnsNext ==
    \/ \E h \in Handlers :
         PostConfig(h) \/ LockConfig(h) \/ PostRules(h) \/ HandlerStep(h)
    \/ \E p \in Scripts : BeginUpdate(p) \/ ScriptStep(p)
    \/ \E a \in Actors : Service(a) \/ StartStep(a)
    \/ ControllerStart \/ ControllerStop

MosdnsSpec == MosdnsInit /\ [][MosdnsNext]_mosdnsVars

-----------------------------------------------------------------------------
(***************************************************************************)
(* A running MosDNS answers by the configuration and the rules on disk,    *)
(* unless a change is on its way to it, or was saved without a restart,    *)
(* failed or was cut off since it started.  No interleaving of restarts    *)
(* that are under way, of handlers and scripts, leaves it on old files.    *)
(***************************************************************************)
RunsLatest ==
    proc # Down /\ "restart" \notin owed /\ (\A a \in Actors : ~Dirty(a))
        => config # Torn /\ proc = Pipeline(config, lines)

(***************************************************************************)
(* With the mutex free, configuration and settings come from one request,  *)
(* unless one of the files was damaged, or the controller failed or was    *)
(* killed between the two.                                                 *)
(***************************************************************************)
ConfigFollowsSettings ==
    mu = NoOne /\ settings # Torn /\ config # Torn /\ "config" \notin owed =>
        \/ settings = defaultSettings /\ config = Sample
        \/ \E exist \in SUBSET there : config = Generated(settings, exist)

(***************************************************************************)
(* A configuration that is whole names no rule file that would keep MosDNS *)
(* from starting.                                                          *)
(***************************************************************************)
WholeConfigLoads == config # Torn => Loads

(***************************************************************************)
(* The simulator tells the truth about a running MosDNS, up to the named   *)
(* causes: a change that has not reached MosDNS, settings that are not     *)
(* read back as saved, keyword lines, a rule file created after the        *)
(* configuration was generated, and the installed configuration, which     *)
(* blocks nothing.                                                         *)
(***************************************************************************)
InTransit ==
    \/ owed # {} \/ mu # NoOne
    \/ \E a \in Actors : Dirty(a)

ReadBack == Loaded(settings) = settings

Current == config.sets = DomainSets(settings, there)

ByKeyword(d) == \E f \in RuleFiles : <<d, "keyword">> \in lines[f]

SimulatorExplained ==
    \A d \in Domains :
        proc # Down /\ proc[d] # TestDomain(d) =>
            InTransit \/ ~ReadBack \/ ByKeyword(d) \/ ~Current

(***************************************************************************)
(* Whoever has the mutex is between its two writes: no way out of          *)
(* handleConfig, which unlocks by hand in three places, takes it along.    *)
(***************************************************************************)
MutexReturned == \A h \in Handlers : mu = h <=> pc[h] \in {"save", "truncate", "write"}
===============================================================================
