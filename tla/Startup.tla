------------------------------ MODULE Startup ------------------------------
(***************************************************************************)
(* main.rs and logfiles.rs: from the command that was typed to a monitor     *)
(* that runs, its log, its PID file and the heartbeat that keeps the file    *)
(* fresh, and every way it ends.                                            *)
(*                                                                          *)
(* Several commands may be typed, one after the other or over one another;   *)
(* they share ~/logs and nothing else.  A process is told from its parent,   *)
(* because a PID file has to name the one that survives the fork.           *)
(***************************************************************************)
EXTENDS Config, FiniteSets

CONSTANTS
  Instances,     \* the commands typed
  Commands,      \* their arguments: [config, nofork, check, deadline]
  Disks,         \* what the settings files may be: path -> file
  Host,          \* the interfaces this host has
  LogsStates,    \* what ~/logs may be when the story begins
  Heartbeat,     \* HEARTBEAT, in units of a tick
  MaxClock,      \* bound: the last moment of a behaviour
  NoConfig, NoFile, Empty, NoBeat

ASSUME StartupAssumption ==
  /\ LogsStates \subseteq {"absent", "good", "unwritable", "pidless"}
  /\ Heartbeat \in Nat \ {0} /\ MaxClock \in Nat
  /\ NoBeat \notin Nat
  /\ Empty \notin Instances \X BOOLEAN
  /\ NoFile \notin [pid : (Instances \X BOOLEAN) \cup {Empty}, stamp : Nat]

VARIABLES
  cli,         \* the arguments
  life,        \* not typed yet, alive, or how it came to an end
  at,          \* the place in Order of the living
  cfg,         \* the configuration main holds
  forked,      \* whether it is the process the fork left
  out,         \* where descriptors 1 and 2 lead
  told,        \* what the command returned to the terminal
  guard,       \* whether main holds a PidFile
  beat,        \* when its heartbeat thread wakes
  logs,        \* ~/logs: none, usable, nothing can be opened, or no PID file can
  pidFile,     \* the PID file: a pid and the time of its last stamp
  able,        \* whether a capture can be opened
  clock,
  changed,     \* what changed under the program, if anything did
  disturbed    \* whether two instances or somebody else had a hand in the PID file

process == <<cli, life, at, cfg, forked, out, told, guard, beat>>
host == <<logs, pidFile, able, clock, changed, disturbed>>
vars == <<process, host>>

Pid(i) == <<i, forked[i]>>
Alive(i) == life[i] = "alive"

(***************************************************************************)
(* main, in order                                                           *)
(***************************************************************************)
\* Slips: the fork before the trial of the capture; the log before the fork.
OrderForkFirst == <<"load", "find", "detach", "probe", "logs", "open", "run">>
OrderLogsFirst == <<"load", "find", "probe", "logs", "detach", "open", "run">>

Order == <<"load", "find", "probe", "detach", "logs", "open", "run">>

Doing(i, step) == Alive(i) /\ Order[at[i]] = step
GoOn(i) == at' = [at EXCEPT ![i] = @ + 1] /\ UNCHANGED life

\* Dropping the guard removes the file, whoever wrote it.
\* Slip: exit(), which drops nothing.
DropNothing(i) ==
  guard' = [guard EXCEPT ![i] = FALSE] /\ UNCHANGED pidFile

Drop(i) ==
  /\ guard' = [guard EXCEPT ![i] = FALSE]
  /\ pidFile' = IF guard[i] THEN NoFile ELSE pidFile

\* main returns: what the command says, if anybody still waits to be told.
Leave(i, how, code) ==
  /\ life' = [life EXCEPT ![i] = how]
  /\ told' = [told EXCEPT ![i] = IF @ = "nothing" THEN code ELSE @]
  /\ beat' = [beat EXCEPT ![i] = NoBeat]
  /\ Drop(i)
  /\ UNCHANGED at

Fail(i) == Leave(i, "failed", "error")

Launch(i) ==
  /\ life[i] = "none"
  /\ life' = [life EXCEPT ![i] = "alive"]
  /\ \E c \in Commands : cli' = [cli EXCEPT ![i] = c]
  /\ UNCHANGED <<at, cfg, forked, out, told, guard, beat, host>>

LoadConfig(i) ==
  /\ Doing(i, "load")
  /\ \E disk \in Disks :
       LET loaded == Load(disk, cli[i].config) IN
       \/ \E c \in loaded :
            /\ cfg' = [cfg EXCEPT ![i] = c]
            /\ GoOn(i) /\ UNCHANGED <<told, guard, beat, pidFile>>
       \/ loaded = {} /\ Fail(i) /\ UNCHANGED cfg
  /\ UNCHANGED <<cli, forked, out, logs, able, clock, changed, disturbed>>

\* capture::find
Find(i) ==
  /\ Doing(i, "find")
  /\ IF cfg[i].interface \in Host
     THEN GoOn(i) /\ UNCHANGED <<told, guard, beat, pidFile>>
     ELSE Fail(i)
  /\ UNCHANGED <<cli, cfg, forked, out, logs, able, clock, changed, disturbed>>

\* capture::open, tried while somebody is looking; --check ends here.
Probe(i) ==
  /\ Doing(i, "probe")
  /\ CASE ~able -> Fail(i)
       [] able /\ cli[i].check -> Leave(i, "ended", "ok")
       [] able /\ ~cli[i].check -> GoOn(i) /\ UNCHANGED <<told, guard, beat, pidFile>>
  /\ UNCHANGED <<cli, cfg, forked, out, logs, able, clock, changed, disturbed>>

\* daemonize: the parent leaves at once and well, dropping nothing; the child
\* has a pid of its own, nothing to write to, and no threads.
Daemonize(i) ==
  /\ forked' = [forked EXCEPT ![i] = TRUE]
  /\ out' = [out EXCEPT ![i] = "nowhere"]
  /\ told' = [told EXCEPT ![i] = "ok"]
  /\ beat' = [beat EXCEPT ![i] = NoBeat]
  /\ GoOn(i) /\ UNCHANGED <<guard, pidFile>>

\* go_to_background, unless it is to stay in the foreground.
\* Slip: no look at ~/logs.
DetachAnyway(i) ==
  /\ Doing(i, "detach")
  /\ IF cli[i].nofork \/ cfg[i].nofork
     THEN GoOn(i) /\ UNCHANGED <<forked, out, told, guard, beat, pidFile>>
     ELSE Daemonize(i) \/ (Fail(i) /\ UNCHANGED <<forked, out>>)
  /\ UNCHANGED <<cli, cfg, logs, able, clock, changed, disturbed>>

Detach(i) ==
  /\ Doing(i, "detach")
  /\ IF cli[i].nofork \/ cfg[i].nofork
     THEN GoOn(i) /\ UNCHANGED <<forked, out, told, guard, beat, pidFile>>
     ELSE \/ logs # "absent" /\ Daemonize(i)
          \/ Fail(i) /\ UNCHANGED <<forked, out>>
  /\ UNCHANGED <<cli, cfg, logs, able, clock, changed, disturbed>>

(***************************************************************************)
(* logfiles                                                                 *)
(***************************************************************************)
Rivals(i) == {j \in Instances \ {i} : guard[j]}

\* write_pid: File::create empties whatever was there.
\* Slip: a file that is there is left alone.
WritePidIfNone(i) ==
  pidFile' = IF pidFile = NoFile THEN [pid |-> Pid(i), stamp |-> clock] ELSE pidFile

WritePid(i) == pidFile' = [pid |-> Pid(i), stamp |-> clock]

\* capture_in: the log, both descriptors, the PID file and the heartbeat.  The
\* disk may be full when the pid is written; the file is then there and empty.
StartLogs(i) ==
  /\ Doing(i, "logs")
  /\ \/ /\ logs = "absent"
        /\ GoOn(i) /\ UNCHANGED <<out, told, guard, beat, pidFile, disturbed>>
     \/ /\ logs = "unwritable"
        /\ Fail(i) /\ UNCHANGED <<out, disturbed>>
     \/ /\ logs = "pidless"
        /\ out' = [out EXCEPT ![i] = "log"]
        /\ Fail(i) /\ UNCHANGED disturbed
     \/ /\ logs = "good"
        /\ out' = [out EXCEPT ![i] = "log"]
        /\ disturbed' = (disturbed \/ Rivals(i) # {})
        /\ \/ /\ WritePid(i)
              /\ guard' = [guard EXCEPT ![i] = TRUE]
              /\ beat' = [beat EXCEPT ![i] = clock + Heartbeat]
              /\ GoOn(i) /\ UNCHANGED told
           \/ /\ pidFile' = [pid |-> Empty, stamp |-> clock]
              /\ life' = [life EXCEPT ![i] = "failed"]
              /\ told' = [told EXCEPT ![i] = IF @ = "nothing" THEN "error" ELSE @]
              /\ UNCHANGED <<at, guard, beat>>
  /\ UNCHANGED <<cli, cfg, forked, logs, able, clock, changed>>

\* capture::open again, in the process that stays.
OpenCapture(i) ==
  /\ Doing(i, "open")
  /\ IF able THEN GoOn(i) /\ UNCHANGED <<told, guard, beat, pidFile>> ELSE Fail(i)
  /\ UNCHANGED <<cli, cfg, forked, out, logs, able, clock, changed, disturbed>>

\* capture::run returns, at its deadline and only then.
End(i) ==
  /\ Doing(i, "run") /\ cli[i].deadline
  /\ Leave(i, "ended", "ok")
  /\ UNCHANGED <<cli, cfg, forked, out, logs, able, clock, changed, disturbed>>

\* The heartbeat thread: touch stamps the file there is, or nothing.
Beat(i) ==
  /\ Alive(i) /\ beat[i] # NoBeat /\ clock >= beat[i]
  /\ beat' = [beat EXCEPT ![i] = clock + Heartbeat]
  /\ pidFile' = IF pidFile = NoFile THEN NoFile ELSE [pidFile EXCEPT !.stamp = clock]
  /\ UNCHANGED <<cli, life, at, cfg, forked, out, told, guard>>
  /\ UNCHANGED <<logs, able, clock, changed, disturbed>>

(***************************************************************************)
(* The host                                                                 *)
(***************************************************************************)
\* No signal is handled: ^C and SIGTERM end the process as SIGKILL does.
Kill(i) ==
  /\ Alive(i)
  /\ life' = [life EXCEPT ![i] = "killed"]
  /\ told' = [told EXCEPT ![i] = IF @ = "nothing" THEN "error" ELSE @]
  /\ beat' = [beat EXCEPT ![i] = NoBeat]
  /\ guard' = [guard EXCEPT ![i] = FALSE]
  /\ UNCHANGED <<cli, at, cfg, forked, out, host>>

\* A thread whose time has come runs before time goes on.
Tick ==
  /\ clock < MaxClock
  /\ \A i \in Instances : beat[i] # NoBeat => clock < beat[i]
  /\ clock' = clock + 1
  /\ UNCHANGED <<process, logs, pidFile, able, changed, disturbed>>

\* Once, something changes: the right to capture or the interface, the PID file
\* is deleted, or ~/logs is, with the log that words are going to.
Change ==
  /\ changed = "nothing"
  /\ \/ able' = ~able /\ changed' = "able" /\ UNCHANGED <<out, logs, pidFile, disturbed>>
     \/ /\ pidFile # NoFile /\ pidFile' = NoFile /\ disturbed' = TRUE
        /\ changed' = "pidFile" /\ UNCHANGED <<out, logs, able>>
     \/ /\ logs = "good" /\ logs' = "absent" /\ changed' = "logs"
        /\ pidFile' = NoFile /\ disturbed' = TRUE
        /\ out' = [i \in Instances |-> IF out[i] = "log" THEN "nowhere" ELSE out[i]]
        /\ UNCHANGED able
  /\ UNCHANGED <<cli, life, at, cfg, forked, told, guard, beat, clock>>

-----------------------------------------------------------------------------
Init ==
  /\ cli = [i \in Instances |-> NoConfig]
  /\ life = [i \in Instances |-> "none"]
  /\ at = [i \in Instances |-> 1]
  /\ cfg = [i \in Instances |-> NoConfig]
  /\ forked = [i \in Instances |-> FALSE]
  /\ out = [i \in Instances |-> "terminal"]
  /\ told = [i \in Instances |-> "nothing"]
  /\ guard = [i \in Instances |-> FALSE]
  /\ beat = [i \in Instances |-> NoBeat]
  /\ logs \in LogsStates
  /\ pidFile = NoFile
  /\ able \in BOOLEAN
  /\ clock = 0 /\ changed = "nothing" /\ disturbed = FALSE

Main(i) ==
  LoadConfig(i) \/ Find(i) \/ Probe(i) \/ Detach(i) \/ StartLogs(i) \/ OpenCapture(i) \/ End(i)

Next ==
  \/ \E i \in Instances : Launch(i) \/ Main(i) \/ Beat(i) \/ Kill(i)
  \/ Tick \/ Change

Spec == Init /\ [][Next]_vars

-----------------------------------------------------------------------------
(***************************************************************************)
(* Properties                                                               *)
(***************************************************************************)

\* Every variable has its shape; a guard and a heartbeat thread go together, and
\* only the living have them.
TypeOK ==
  /\ life \in [Instances -> {"none", "alive", "ended", "failed", "killed"}]
  /\ at \in [Instances -> DOMAIN Order]
  /\ forked \in [Instances -> BOOLEAN]
  /\ out \in [Instances -> {"terminal", "nowhere", "log"}]
  /\ told \in [Instances -> {"nothing", "ok", "error"}]
  /\ guard \in [Instances -> BOOLEAN]
  /\ beat \in [Instances -> Nat \cup {NoBeat}]
  /\ \A i \in Instances :
       /\ guard[i] => Alive(i) /\ beat[i] \in clock .. clock + Heartbeat
       /\ beat[i] # NoBeat => guard[i]
  /\ logs \in {"absent", "good", "unwritable", "pidless"}
  /\ able \in BOOLEAN /\ disturbed \in BOOLEAN
  /\ changed \in {"nothing", "able", "pidFile", "logs"}
  /\ clock \in 0 .. MaxClock
  /\ pidFile \in {NoFile} \cup
       [pid : (Instances \X BOOLEAN) \cup {Empty}, stamp : 0 .. clock]

\* "A PID file that removes itself" (logfiles.rs:52-55): whatever way a process
\* leaves main, and whoever else uses the file, no PID file names it afterwards.
\* Only a process that was killed outright stays named.
Named(i) == pidFile # NoFile /\ pidFile.pid # Empty /\ pidFile.pid[1] = i
OnlyTheKilledStayNamed ==
  \A i \in Instances : Named(i) => life[i] \in {"alive", "killed"}

\* While nobody else has a hand in the file, a monitor that has started its log
\* is named by the pid that survived the fork and was stamped within HEARTBEAT
\* (main.rs:153-156, logfiles.rs:164-170); so too the one started after another
\* was killed and left its file behind.
RunnerIsNamed ==
  \A i \in Instances :
    ~disturbed /\ guard[i] =>
      pidFile # NoFile /\ pidFile.pid = Pid(i) /\ clock - pidFile.stamp <= Heartbeat

\* "What a fresh timestamp proves is that the process exists" (logfiles.rs:172):
\* while nobody else has a hand in the file, a stamp is never renewed in the
\* name of a process that is gone.
FreshMeansAlive ==
  [][ pidFile # NoFile /\ pidFile' # NoFile /\ pidFile'.pid = pidFile.pid
        /\ pidFile'.stamp # pidFile.stamp /\ ~disturbed'
        => \/ pidFile.pid = Empty
           \/ Alive(pidFile.pid[1]) /\ Pid(pidFile.pid[1]) = pidFile.pid ]_vars

\* Not having permission to capture is answered on the terminal
\* (main.rs:130-135): no command returns 0, whether it detaches, stays or only
\* checks, on a host where it never could capture.
InabilityIsTold == \A i \in Instances : told[i] = "ok" /\ changed # "able" => able

\* "A monitor nobody can read is worse than no monitor at all" (main.rs:166-168):
\* once a process is past its log, or has ended, its words do not go nowhere.
\* There are two exceptions, and only these: ~/logs was deleted, before the
\* process opened its log or after; and a process that failed because nothing can
\* be opened in ~/logs, which says so after the fork, to nobody
\* (logfiles.rs:76-83).
SomebodyCanRead ==
  \A i \in Instances :
    life[i] \in {"failed", "ended"} \/ Doing(i, "open") \/ Doing(i, "run")
      => \/ out[i] # "nowhere"
         \/ changed = "logs"
         \/ life[i] = "failed" /\ logs = "unwritable"

\* "A half-filled mail section is refused rather than ignored" (config.rs:329-332):
\* check and usable, written apart, agree: in a monitor that runs, a section
\* that names a server is one that mails.
MailIsWhole ==
  \A i \in Instances :
    Alive(i) /\ cfg[i] # NoConfig =>
      \A m \in cfg[i].smtp : m.server # Blank => m \in Mail(cfg[i])
=============================================================================
