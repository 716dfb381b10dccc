---------------------------- MODULE ServiceControl ----------------------------
(***************************************************************************)
(* Starting and stopping hev-socks5-tunnel: rc.d/hev_socks5_tunnel, the    *)
(* control script around it and the requests of hev-controller, run at the *)
(* same time by several callers.  What they share is the pid file, the     *)
(* processes and the configuration file.                                   *)
(*                                                                         *)
(* A command is the sequence of the steps its script takes; each step      *)
(* reads or changes what is shared once.  The instance that runs as p is   *)
(* watched by a daemon(8) that keeps the pid file locked.                  *)
(***************************************************************************)
EXTENDS Integers, FiniteSets, Sequences, SequencesExt

CONSTANTS
    Callers,    \* shells and HTTP requests
    NoCaller,
    Pids,       \* process numbers, used again after a while
    NoPid,
    Commands    \* the commands that are run

ASSUME ServiceAssumption ==
    /\ NoCaller \notin Callers
    /\ IsFiniteSet(Pids) /\ Pids # {} /\ NoPid \notin Pids
    /\ Commands \subseteq {"control-start", "control-stop", "control-restart",
                           "service-start", "service-stop", "service-restart",
                           "save", "save-and-restart"}

VARIABLES
    up,         \* the pids of the instances that run
    fresh,      \* those that have read the configuration as it is now
    file,       \* the pid in the pid file
    whole,      \* the configuration file is not half written
    web,        \* hev-controller runs
    mu,         \* who holds its mutex
    cmd, todo,  \* each caller's command and the steps it has left
    seen,       \* the pid a caller has read
    alone,      \* history: no other command has run since it began
    tame,       \* history: nothing but POSTs of a configuration has overlapped
    last        \* history: the command that ended last, or that an instance crashed

serviceVars == <<up, fresh, file, whole, web, mu, cmd, todo, seen, alone, tame, last>>

-----------------------------------------------------------------------------
(***************************************************************************)
(* The scripts                                                             *)
(***************************************************************************)
\* rc.subr looks for the process of the pid file before it calls prestart.
RcStart == <<"check", "peek", "clean", "daemon">>

RcStopKeepsFile == <<"peek", "term", "kill", "pkill-f">>

RcStop == <<"peek", "term", "kill", "remove", "pkill-f">>

RcRestart == RcStop \o RcStart

ControlStart == <<"peek", "clean">> \o RcStart \o <<"web">>

\* hev-controller is stopped first and started last.
ControlStop == <<"no-web">> \o RcStop \o <<"pkill-x", "rm">>

\* A request tries a command that fails once more.
ServiceStart == RcStart \o <<"else">> \o RcStart

ServiceRestart == RcRestart \o <<"else">> \o RcRestart

ServiceStop == RcStop \o <<"look", "look", "pkill-x">>

SaveOnly == <<"lock", "truncate", "write">>

SaveRestart == SaveOnly \o RcRestart

Script(command) ==
    CASE command = "control-start" -> ControlStart
      [] command = "control-stop" -> ControlStop
      [] command = "control-restart" -> ControlStop \o ControlStart
      [] command = "service-start" -> ServiceStart
      [] command = "service-stop" -> ServiceStop
      [] command = "service-restart" -> ServiceRestart
      [] command = "save" -> SaveOnly
      [] command = "save-and-restart" -> SaveRestart

Stops == {"control-stop", "service-stop"}

Restarts == {"control-restart", "service-restart", "save-and-restart"}

Starts == Restarts \cup {"control-start", "service-start"}

\* Of a configuration.  One that could not write it goes on as failed-save, which has
\* only its answer left.
Posts == {"save", "save-and-restart", "failed-save"}

Requests == Posts \cup {"service-start", "service-stop", "service-restart"}

-----------------------------------------------------------------------------
ServiceTypeOK ==
    /\ fresh \subseteq up /\ up \subseteq Pids
    /\ file \in Pids \cup {NoPid} /\ whole \in BOOLEAN /\ web \in BOOLEAN
    /\ mu \in {c \in Callers : cmd[c] \in Posts} \cup {NoCaller}
    /\ cmd \in [Callers -> Commands \cup {"none", "orphan", "failed-save"}]
    /\ \A c \in Callers : cmd[c] \in Commands => IsSuffix(todo[c], Script(cmd[c]))
    /\ seen \in [Callers -> Pids \cup {NoPid}]
    /\ alone \in [Callers -> BOOLEAN] /\ tame \in BOOLEAN
    /\ last \in Commands \cup {"none", "orphan", "failed-save", "crash"}

\* The machine has just come up; no instance runs, hev-controller if it is enabled.
ServiceInit ==
    /\ up = {} /\ fresh = {} /\ file = NoPid /\ whole = TRUE
    /\ web \in BOOLEAN /\ mu = NoCaller
    /\ cmd = [c \in Callers |-> "none"] /\ todo = [c \in Callers |-> <<>>]
    /\ seen = [c \in Callers |-> NoPid]
    /\ alone = [c \in Callers |-> FALSE] /\ tame = TRUE /\ last = "none"

Running == {c \in Callers : cmd[c] # "none"}

Begin(c) ==
    /\ cmd[c] = "none"
    /\ \E command \in IF web THEN Commands ELSE Commands \ Requests :
         /\ cmd' = [cmd EXCEPT ![c] = command]
         /\ todo' = [todo EXCEPT ![c] = Script(command)]
         /\ tame' = (tame /\ (Running = {} \/ {cmd[d] : d \in Running} \cup {command} \subseteq Posts))
    /\ alone' = [d \in Callers |-> d = c /\ Running = {}]
    /\ last' = IF Running = {} THEN "none" ELSE last
    /\ UNCHANGED <<up, fresh, file, whole, web, mu, seen>>

EndLocked(c) ==
    /\ cmd[c] # "none" /\ todo[c] = <<>>
    /\ cmd' = [cmd EXCEPT ![c] = "none"]
    /\ seen' = [seen EXCEPT ![c] = NoPid]
    /\ alone' = [alone EXCEPT ![c] = FALSE]
    /\ last' = IF last = "crash" THEN last ELSE cmd[c]
    /\ UNCHANGED <<up, fresh, file, whole, web, mu, todo, tame>>

\* A request gives the mutex back when its handler returns.  A stop nothing disturbed
\* clears up what overlapping commands have left.
End(c) ==
    /\ cmd[c] # "none" /\ todo[c] = <<>>
    /\ cmd' = [cmd EXCEPT ![c] = "none"]
    /\ seen' = [seen EXCEPT ![c] = NoPid]
    /\ alone' = [alone EXCEPT ![c] = FALSE]
    /\ tame' = (tame \/ (cmd[c] \in Stops /\ alone[c]))
    /\ last' = IF last = "crash" THEN last ELSE cmd[c]
    /\ mu' = IF mu = c THEN NoCaller ELSE mu
    /\ UNCHANGED <<up, fresh, file, whole, web, todo>>

-----------------------------------------------------------------------------
(***************************************************************************)
(* The steps                                                               *)
(***************************************************************************)
Now(c, step) == cmd[c] # "none" /\ todo[c] # <<>> /\ Head(todo[c]) = step

Step(c, step) == Now(c, step) /\ UNCHANGED <<cmd, alone, tame, last>>

Continue(c) == todo' = [todo EXCEPT ![c] = Tail(@)]

\* The steps before the first of some.
Before(steps, ends) ==
    LET end == SelectInSeq(steps, LAMBDA step : step \in ends)
    IN  IF end = 0 THEN steps ELSE SubSeq(steps, 1, end - 1)

\* A start that fails goes on after its last step, with the second attempt if there
\* is one.
Fail(c) ==
    LET failed == Len(Before(todo[c], {"daemon"})) + 1
        rest == SubSeq(todo[c], failed + 1, Len(todo[c]))
    IN  todo' = [todo EXCEPT ![c] =
                    IF rest # <<>> /\ Head(rest) = "else" THEN Tail(rest) ELSE rest]

\* What is left of the file when instances end: their daemon(8) removes it.
FileWithout(gone) == IF file \in gone THEN NoPid ELSE file

Ends(gone) ==
    /\ up' = up \ gone /\ fresh' = fresh \ gone
    /\ file' = FileWithout(gone)

Check(c) ==
    /\ Step(c, "check")
    /\ IF file \in up THEN Fail(c) ELSE Continue(c)
    /\ UNCHANGED <<up, fresh, file, whole, web, mu, seen>>

Peek(c) ==
    /\ Step(c, "peek") /\ Continue(c)
    /\ seen' = [seen EXCEPT ![c] = file]
    /\ UNCHANGED <<up, fresh, file, whole, web, mu>>

CleanAlways(c) ==
    /\ Step(c, "clean") /\ Continue(c)
    /\ file' = NoPid
    /\ UNCHANGED <<up, fresh, whole, web, mu, seen>>

\* The pid it has read is dead; the file may be another by now.
Clean(c) ==
    /\ Step(c, "clean") /\ Continue(c)
    /\ file' = IF seen[c] \in Pids \ up THEN NoPid ELSE file
    /\ UNCHANGED <<up, fresh, whole, web, mu, seen>>

\* daemon(8) fails when the pid file is locked.  The program does not come up with half
\* a configuration; its daemon(8) takes the file away again.
Daemon(c) ==
    /\ Step(c, "daemon")
    /\ IF file \in up \/ up = Pids
       THEN Fail(c) /\ UNCHANGED <<up, fresh, file>>
       ELSE /\ Continue(c)
            /\ \E p \in Pids \ up :
                 IF whole
                 THEN up' = up \cup {p} /\ fresh' = fresh \cup {p} /\ file' = p
                 ELSE file' = NoPid /\ UNCHANGED <<up, fresh>>
    /\ UNCHANGED <<whole, web, mu, seen>>

\* The first attempt has gone well.
SkipElse(c) ==
    /\ Step(c, "else")
    /\ todo' = [todo EXCEPT ![c] = <<>>]
    /\ UNCHANGED <<up, fresh, file, whole, web, mu, seen>>

\* The instance may take longer than the script waits.
Term(c) ==
    /\ Step(c, "term") /\ Continue(c)
    /\ \/ Ends(up \cap {seen[c]})
       \/ UNCHANGED <<up, fresh, file>>
    /\ UNCHANGED <<whole, web, mu, seen>>

Kill(c) ==
    /\ Step(c, "kill") /\ Continue(c)
    /\ Ends(up \cap {seen[c]})
    /\ UNCHANGED <<whole, web, mu, seen>>

\* Only if there was a file to read.
RemoveSeen(c) ==
    /\ Step(c, "remove") /\ Continue(c)
    /\ file' = IF seen[c] = NoPid THEN file ELSE NoPid
    /\ UNCHANGED <<up, fresh, whole, web, mu, seen>>

\* By the command line: the instances and their daemon(8), which leave a file behind.
KillByLine(c) ==
    /\ Step(c, "pkill-f") /\ Continue(c)
    /\ up' = {} /\ fresh' = {}
    /\ UNCHANGED <<file, whole, web, mu, seen>>

\* By the name of the program, which a daemon(8) does not have.
KillByName(c) ==
    /\ Step(c, "pkill-x") /\ Continue(c)
    /\ Ends(up)
    /\ UNCHANGED <<whole, web, mu, seen>>

RemoveAll(c) ==
    /\ Step(c, "rm") /\ Continue(c)
    /\ file' = NoPid
    /\ UNCHANGED <<up, fresh, whole, web, mu, seen>>

\* getPID: pgrep, and the file when it finds nothing.
Look(c) ==
    /\ Step(c, "look")
    /\ IF up = {} /\ file = NoPid THEN todo' = [todo EXCEPT ![c] = <<>>] ELSE Continue(c)
    /\ UNCHANGED <<up, fresh, file, whole, web, mu, seen>>

LockNothing(c) ==
    /\ Step(c, "lock") /\ Continue(c)
    /\ UNCHANGED <<up, fresh, file, whole, web, mu, seen>>

Lock(c) ==
    /\ Step(c, "lock") /\ Continue(c)
    /\ mu = NoCaller /\ mu' = c
    /\ UNCHANGED <<up, fresh, file, whole, web, seen>>

\* os.WriteFile empties the file and fills it.
Truncate(c) ==
    /\ Step(c, "truncate") /\ Continue(c)
    /\ whole' = FALSE /\ fresh' = {}
    /\ UNCHANGED <<up, file, web, mu, seen>>

Write(c) ==
    /\ Step(c, "write") /\ Continue(c)
    /\ whole' = TRUE
    /\ UNCHANGED <<up, fresh, file, web, mu, seen>>

\* saveConfig fails: the file cannot be opened and stays as it was, or it cannot be
\* filled, or it is complete and cannot be closed.  The answer is 500, and nothing is
\* restarted.
SaveFails(c) ==
    /\ cmd[c] \in Posts
    /\ \/ Now(c, "truncate") /\ UNCHANGED whole
       \/ Now(c, "write") /\ whole' \in BOOLEAN
    /\ cmd' = [cmd EXCEPT ![c] = "failed-save"]
    /\ todo' = [todo EXCEPT ![c] = <<>>]
    /\ UNCHANGED <<up, fresh, file, web, mu, seen, alone, tame, last>>

\* A script that a killed request has started goes on without it. The restart after a
\* save writes to /dev/null; that of a service action to a pipe with no reader, and it
\* ends at its next message, before it signals an instance or starts one.
Left(d) ==
    CASE cmd[d] \in {"save", "failed-save"} -> {<<>>}
      [] cmd[d] = "save-and-restart" -> {IF IsSuffix(todo[d], RcRestart) THEN todo[d] ELSE <<>>}
      [] OTHER -> {Before(todo[d], {"daemon", "else", "look"}),
                   Before(todo[d], {"term", "daemon", "else", "look"})}

\* The stop of hev-controller, which kills the requests wherever they are.
StopWeb(c) ==
    LET killed == {d \in Callers : cmd[d] \in Requests}
    IN  /\ Now(c, "no-web")
        /\ web' = FALSE /\ mu' = NoCaller
        /\ cmd' = [d \in Callers |-> IF d \in killed THEN "orphan" ELSE cmd[d]]
        /\ \E left \in [killed -> UNION {Left(d) : d \in killed}] :
             /\ \A d \in killed : left[d] \in Left(d)
             /\ todo' = [d \in Callers |-> IF d \in killed THEN left[d]
                                          ELSE IF d = c THEN Tail(todo[c]) ELSE todo[d]]
        /\ UNCHANGED <<up, fresh, file, whole, seen, alone, tame, last>>

StartWeb(c) ==
    /\ Step(c, "web") /\ Continue(c)
    /\ web' = TRUE
    /\ UNCHANGED <<up, fresh, file, whole, mu, seen>>

\* An instance ends by itself, right after its start too.
Crash(p) ==
    /\ p \in up /\ Ends({p})
    /\ last' = "crash"
    /\ UNCHANGED <<whole, web, mu, cmd, todo, seen, alone, tame>>

-----------------------------------------------------------------------------
Proceed(c) ==
    \/ Check(c) \/ Peek(c) \/ Clean(c) \/ Daemon(c) \/ SkipElse(c)
    \/ Term(c) \/ Kill(c) \/ RemoveSeen(c) \/ KillByLine(c) \/ KillByName(c) \/ RemoveAll(c)
    \/ Look(c)
    \/ Lock(c) \/ Truncate(c) \/ Write(c)
    \/ StopWeb(c) \/ StartWeb(c)
    \/ End(c)

ServiceNext ==
    \/ \E c \in Callers : Begin(c) \/ Proceed(c) \/ SaveFails(c)
    \/ \E p \in Pids : Crash(p)

ServiceSpec == ServiceInit /\ [][ServiceNext]_serviceVars

-----------------------------------------------------------------------------
\* As long as nothing but POSTs of a configuration overlaps, one instance runs at most and
\* the pid file names it, also between the steps of a command and after crashes.
OneInstance == tame => Cardinality(up) <= 1 /\ up \subseteq {file}

\* As long as nothing but POSTs of a configuration overlaps: when all is quiet, and no
\* instance has crashed since, a start or restart that came last has left an instance,
\* unless the configuration file is half written, by a write that failed or a controller
\* that was killed.  If it was a POST whose write went well, the instance runs with the
\* configuration saved last.
Started ==
    tame /\ Running = {} /\ last \in Starts =>
        /\ up # {} \/ ~whole
        /\ last = "save-and-restart" => up # {} /\ up = fresh

\* A stop nothing disturbs leaves no instance and no pid file, whatever state overlapping
\* commands had left the two in.
StopLeavesNothing ==
    [][\A c \in Callers : End(c) /\ cmd[c] \in Stops /\ alone[c] =>
           up = {} /\ file = NoPid]_serviceVars
=============================================================================
