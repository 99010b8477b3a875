--------------------------- MODULE StartupProofs ---------------------------
(***************************************************************************)
(* Theorems about Startup, for any number of commands over one ~/logs, any   *)
(* settings, and any HEARTBEAT.                                             *)
(***************************************************************************)
EXTENDS Startup, TLAPS

-----------------------------------------------------------------------------
(***************************************************************************)
(* The invariant: beside the shapes, one part for each promise.              *)
(***************************************************************************)
\* Only a process past its log has a guard, and a process that is named by the
\* file and alive holds the guard that will remove it.
Owned ==
  \A i \in Instances :
    /\ guard[i] => at[i] > 5
    /\ Named(i) => (Alive(i) /\ guard[i]) \/ life[i] = "killed"

\* Undisturbed, there is one guard, and its heartbeat and the file's stamp are
\* HEARTBEAT apart.
Sole ==
  ~disturbed =>
    \A i \in Instances : guard[i] =>
      /\ \A j \in Instances : guard[j] => j = i
      /\ pidFile # NoFile /\ pidFile.pid = Pid(i) /\ pidFile.stamp + Heartbeat = beat[i]

\* Unless the host took the right to capture away, whoever is past the probe has
\* it.
Tried ==
  \A i \in Instances : (at[i] > 3 \/ told[i] = "ok") /\ changed # "able" => able

\* Words go nowhere between the fork and the log, and when the log cannot be
\* opened; or else because ~/logs was deleted.
Between(i) == life[i] \in {"alive", "killed"} /\ at[i] = 5 /\ logs # "absent"
LogRefused(i) == life[i] = "failed" /\ logs = "unwritable"
Readable ==
  \A i \in Instances :
    out[i] = "nowhere" /\ changed # "logs" => Between(i) \/ LogRefused(i)

Checked == \A i \in Instances : cfg[i] = NoConfig \/ Check(cfg[i])

Typed == TypeOK /\ cfg = [i \in Instances |-> cfg[i]]

IInv == Typed /\ Owned /\ Sole /\ Tried /\ Readable /\ Checked

-----------------------------------------------------------------------------
\* Where main is when it does what: the order of main.rs:100-162.
LEMMA Places ==
  /\ DOMAIN Order = 1 .. 7
  /\ \A n \in DOMAIN Order :
       /\ Order[n] = "load" <=> n = 1
       /\ Order[n] = "find" <=> n = 2
       /\ Order[n] = "probe" <=> n = 3
       /\ Order[n] = "detach" <=> n = 4
       /\ Order[n] = "logs" <=> n = 5
       /\ Order[n] = "open" <=> n = 6
       /\ Order[n] = "run" <=> n = 7
<1>1. DOMAIN Order = 1 .. 7
  BY DEF Order
<1>2. ASSUME NEW n \in 1 .. 7
      PROVE  n = 1 \/ n = 2 \/ n = 3 \/ n = 4 \/ n = 5 \/ n = 6 \/ n = 7
  OBVIOUS
<1>3. /\ Order[1] = "load" /\ Order[2] = "find" /\ Order[3] = "probe" /\ Order[4] = "detach"
      /\ Order[5] = "logs" /\ Order[6] = "open" /\ Order[7] = "run"
  BY DEF Order
<1>. QED  BY <1>1, <1>2, <1>3

LEMMA InitHolds == Init => IInv
<1>. SUFFICES ASSUME Init PROVE IInv
  OBVIOUS
<1>1. Typed
  <2>1. cfg = [i \in Instances |-> cfg[i]]
    BY Zenon DEF Init
  <2>2. pidFile = NoFile /\ clock \in 0 .. MaxClock /\ beat \in [Instances -> Nat \cup {NoBeat}]
    BY StartupAssumption DEF Init
  <2>3. logs \in {"absent", "good", "unwritable", "pidless"}
    BY StartupAssumption DEF Init
  <2>4. \A i \in Instances : guard[i] = FALSE /\ beat[i] = NoBeat
    BY DEF Init
  <2>5. /\ life \in [Instances -> {"none", "alive", "ended", "failed", "killed"}]
        /\ at \in [Instances -> DOMAIN Order]
        /\ forked \in [Instances -> BOOLEAN]
        /\ out \in [Instances -> {"terminal", "nowhere", "log"}]
        /\ told \in [Instances -> {"nothing", "ok", "error"}]
        /\ guard \in [Instances -> BOOLEAN]
    BY Places DEF Init
  <2>6. /\ able \in BOOLEAN /\ disturbed \in BOOLEAN
        /\ changed \in {"nothing", "able", "pidFile", "logs"}
    BY DEF Init
  <2>7. TypeOK
    BY <2>2, <2>3, <2>4, <2>5, <2>6 DEF TypeOK
  <2>. QED  BY <2>1, <2>7 DEF Typed
<1>2. Owned /\ Sole /\ Tried /\ Readable /\ Checked
  BY DEF Init, Owned, Sole, Tried, Readable, Checked, Named
<1>. QED  BY <1>1, <1>2 DEF IInv

\* A step of main that goes on, with nothing else changed but the configuration.
LEMMA GoingOnKeeps ==
  ASSUME IInv, NEW i \in Instances, Alive(i), GoOn(i),
         at[i] \in {1, 2, 3, 4, 5, 6},
         at[i] = 3 /\ changed # "able" => able,
         at[i] = 5 => logs = "absent",
         Checked', cfg' = [j \in Instances |-> cfg'[j]],
         UNCHANGED <<forked, out, told, guard, beat, host>>
  PROVE  IInv'
<1>. USE Places DEF IInv, GoOn, host
<1>1. at' \in [Instances -> DOMAIN Order] /\ \A j \in Instances : at'[j] = IF j = i THEN at[i] + 1 ELSE at[j]
  BY DEF Typed, TypeOK
<1>2. Typed'
  BY <1>1 DEF Typed, TypeOK, Alive
<1>3. Owned' /\ Sole'
  BY <1>1 DEF Owned, Sole, Named, Alive, Pid, Typed, TypeOK
<1>4. Tried'
  BY <1>1 DEF Tried, Typed, TypeOK
<1>5. Readable'
  BY <1>1 DEF Readable, Between, LogRefused, Typed, TypeOK
<1>. QED  BY <1>2, <1>3, <1>4, <1>5

\* A process that leaves main, well or with an error, takes the file it guards
\* with it.
LEMMA LeavingKeeps ==
  ASSUME IInv, NEW i \in Instances, Alive(i),
         NEW how \in {"ended", "failed"}, NEW code \in {"ok", "error"}, Leave(i, how, code),
         code = "ok" /\ changed # "able" => able,
         out' \in [Instances -> {"terminal", "nowhere", "log"}],
         \A j \in Instances \ {i} : out'[j] = out[j],
         out'[i] = "nowhere" /\ changed # "logs" => how = "failed" /\ logs = "unwritable",
         Checked', cfg' = [j \in Instances |-> cfg'[j]],
         UNCHANGED <<forked, logs, able, clock, changed, disturbed>>
  PROVE  IInv'
<1>. USE DEF IInv, Leave, Drop
<1>1. /\ life' = [life EXCEPT ![i] = how] /\ at' = at
      /\ guard' = [guard EXCEPT ![i] = FALSE] /\ beat' = [beat EXCEPT ![i] = NoBeat]
      /\ pidFile' = IF guard[i] THEN NoFile ELSE pidFile
  OBVIOUS
<1>2. \A j \in Instances :
        /\ life'[j] = IF j = i THEN how ELSE life[j]
        /\ guard'[j] = IF j = i THEN FALSE ELSE guard[j]
        /\ beat'[j] = IF j = i THEN NoBeat ELSE beat[j]
        /\ told'[j] = IF j = i /\ told[i] = "nothing" THEN code ELSE told[j]
  BY <1>1 DEF Typed, TypeOK
<1>3. Typed'
  <2>1. /\ life' \in [Instances -> {"none", "alive", "ended", "failed", "killed"}]
        /\ told' \in [Instances -> {"nothing", "ok", "error"}]
        /\ guard' \in [Instances -> BOOLEAN] /\ beat' \in [Instances -> Nat \cup {NoBeat}]
    BY <1>1 DEF Typed, TypeOK
  <2>2. \A j \in Instances :
          /\ guard'[j] => Alive(j)' /\ beat'[j] \in clock' .. clock' + Heartbeat
          /\ beat'[j] # NoBeat => guard'[j]
    BY <1>2 DEF Typed, TypeOK, Alive
  <2>. QED  BY <1>1, <2>1, <2>2 DEF Typed, TypeOK
<1>4. Owned'
  BY <1>1, <1>2 DEF Owned, Named, Alive, Typed, TypeOK
<1>5. Sole'
  BY <1>1, <1>2 DEF Sole, Pid, Typed, TypeOK
<1>6. Tried'
  BY <1>1, <1>2 DEF Tried
<1>7. Readable'
  BY <1>1, <1>2 DEF Readable, Between, LogRefused
<1>. QED  BY <1>3, <1>4, <1>5, <1>6, <1>7

-----------------------------------------------------------------------------
(***************************************************************************)
(* The steps of main.                                                       *)
(***************************************************************************)
LEMMA LoadedIsChecked ==
  ASSUME NEW disk, NEW path, NEW c \in Load(disk, path)
  PROVE  Check(c)
  BY DEF Load

\* How a step of main that is no other's fails, or the deadline is reached.
LEMMA FailingKeeps ==
  ASSUME IInv, NEW i \in Instances, Alive(i), Fail(i), at[i] # 5,
         UNCHANGED <<cfg, forked, out, logs, able, clock, changed, disturbed>>
  PROVE  IInv'
<1>1. Checked' /\ cfg' = [j \in Instances |-> cfg'[j]]
  BY DEF IInv, Checked, Typed, Check
<1>2. out' \in [Instances -> {"terminal", "nowhere", "log"}] /\ out' = out
  BY DEF IInv, Typed, TypeOK
<1>3. out'[i] # "nowhere" \/ changed = "logs"
  BY <1>2 DEF IInv, Readable, Between, LogRefused, Alive
<1>. QED  BY <1>1, <1>2, <1>3, LeavingKeeps DEF Fail

LEMMA LoadConfigKeeps ==
  ASSUME IInv, NEW i \in Instances, LoadConfig(i)
  PROVE  IInv'
<1>1. Alive(i) /\ at[i] = 1
  BY Places DEF LoadConfig, Doing, IInv, Typed, TypeOK
<1>2. PICK disk \in Disks :
        LET loaded == Load(disk, cli[i].config) IN
        \/ \E c \in loaded :
             /\ cfg' = [cfg EXCEPT ![i] = c]
             /\ GoOn(i) /\ UNCHANGED <<told, guard, beat, pidFile>>
        \/ loaded = {} /\ Fail(i) /\ UNCHANGED cfg
  BY DEF LoadConfig
<1>3. UNCHANGED <<cli, forked, out, logs, able, clock, changed, disturbed>>
  BY DEF LoadConfig
<1>4. ASSUME NEW c \in Load(disk, cli[i].config), cfg' = [cfg EXCEPT ![i] = c],
             GoOn(i), UNCHANGED <<told, guard, beat, pidFile>>
      PROVE  IInv'
  <2>1. cfg' = [j \in Instances |-> IF j = i THEN c ELSE cfg[j]]
    BY <1>4 DEF IInv, Typed
  <2>2. cfg' = [j \in Instances |-> cfg'[j]]
    BY <2>1, Zenon
  <2>3. Checked'
    BY <2>1, LoadedIsChecked DEF IInv, Checked, Check
  <2>4. UNCHANGED <<forked, out, told, guard, beat, host>>
    BY <1>3, <1>4 DEF host
  <2>5. at[i] \in {1, 2, 3, 4, 5, 6} /\ (at[i] = 3 /\ changed # "able" => able) /\ (at[i] = 5 => logs = "absent")
    BY <1>1
  <2>6. Alive(i) /\ GoOn(i)
    BY <1>1, <1>4
  <2>. QED  BY <2>2, <2>3, <2>4, <2>5, <2>6, GoingOnKeeps
<1>5. CASE Fail(i) /\ UNCHANGED cfg
  BY <1>1, <1>3, <1>5, FailingKeeps
<1>. QED  BY <1>2, <1>4, <1>5

\* A step of main that either goes on or fails, and changes nothing else.
LEMMA GoingOnOrFailing ==
  ASSUME IInv, NEW i \in Instances, Alive(i), at[i] \in {1, 2, 3, 4, 6},
         \/ GoOn(i) /\ (at[i] = 3 => able) /\ UNCHANGED <<told, guard, beat, pidFile>>
         \/ Fail(i),
         UNCHANGED <<cli, cfg, forked, out, logs, able, clock, changed, disturbed>>
  PROVE  IInv'
<1>1. Checked' /\ cfg' = [j \in Instances |-> cfg'[j]]
  BY DEF IInv, Checked, Typed, Check
<1>2. CASE GoOn(i) /\ (at[i] = 3 => able) /\ UNCHANGED <<told, guard, beat, pidFile>>
  BY <1>1, <1>2, GoingOnKeeps DEF host
<1>3. CASE Fail(i)
  BY <1>3, FailingKeeps
<1>. QED  BY <1>2, <1>3

LEMMA FindKeeps ==
  ASSUME IInv, NEW i \in Instances, Find(i)
  PROVE  IInv'
<1>1. Alive(i) /\ at[i] = 2
  BY Places DEF Find, Doing, IInv, Typed, TypeOK
<1>. QED  BY <1>1, GoingOnOrFailing DEF Find

LEMMA OpenCaptureKeeps ==
  ASSUME IInv, NEW i \in Instances, OpenCapture(i)
  PROVE  IInv'
<1>1. Alive(i) /\ at[i] = 6
  BY Places DEF OpenCapture, Doing, IInv, Typed, TypeOK
<1>. QED  BY <1>1, GoingOnOrFailing DEF OpenCapture

\* main returns well, from --check or at its deadline.
LEMMA EndingKeeps ==
  ASSUME IInv, NEW i \in Instances, Alive(i), Leave(i, "ended", "ok"),
         changed # "able" => able, at[i] # 5,
         UNCHANGED <<cfg, forked, out, logs, able, clock, changed, disturbed>>
  PROVE  IInv'
<1>1. Checked' /\ cfg' = [j \in Instances |-> cfg'[j]]
  BY DEF IInv, Checked, Typed, Check
<1>2. out' \in [Instances -> {"terminal", "nowhere", "log"}] /\ out' = out
  BY DEF IInv, Typed, TypeOK
<1>3. out'[i] # "nowhere" \/ changed = "logs"
  BY <1>2 DEF IInv, Readable, Between, LogRefused, Alive
<1>. QED  BY <1>1, <1>2, <1>3, LeavingKeeps

LEMMA ProbeKeeps ==
  ASSUME IInv, NEW i \in Instances, Probe(i)
  PROVE  IInv'
<1>1. Alive(i) /\ at[i] = 3
  BY Places DEF Probe, Doing, IInv, Typed, TypeOK
<1>2. UNCHANGED <<cli, cfg, forked, out, logs, able, clock, changed, disturbed>>
  BY DEF Probe
<1>3. CASE ~able
  BY <1>1, <1>2, <1>3, GoingOnOrFailing DEF Probe
<1>4. CASE able /\ cli[i].check
  BY <1>1, <1>2, <1>4, EndingKeeps DEF Probe
<1>5. CASE able /\ ~cli[i].check
  BY <1>1, <1>2, <1>5, GoingOnOrFailing DEF Probe
<1>. QED  BY <1>3, <1>4, <1>5

LEMMA EndKeeps ==
  ASSUME IInv, NEW i \in Instances, End(i)
  PROVE  IInv'
<1>1. Alive(i) /\ at[i] = 7
  BY Places DEF End, Doing, IInv, Typed, TypeOK
<1>2. changed # "able" => able
  BY <1>1 DEF IInv, Tried
<1>. QED  BY <1>1, <1>2, EndingKeeps DEF End

\* The fork comes before the log, so the guard names the process that stays.
LEMMA DaemonizeKeeps ==
  ASSUME IInv, NEW i \in Instances, Alive(i), at[i] = 4, logs # "absent", Daemonize(i),
         UNCHANGED <<cli, cfg, logs, able, clock, changed, disturbed>>
  PROVE  IInv'
<1>. USE DEF IInv
<1>1. ~guard[i] /\ beat[i] = NoBeat
  BY DEF Owned, Typed, TypeOK
<1>2. /\ at' = [at EXCEPT ![i] = @ + 1] /\ forked' = [forked EXCEPT ![i] = TRUE]
      /\ out' = [out EXCEPT ![i] = "nowhere"] /\ told' = [told EXCEPT ![i] = "ok"]
      /\ beat' = [beat EXCEPT ![i] = NoBeat] /\ UNCHANGED <<life, guard, pidFile>>
  BY DEF Daemonize, GoOn
<1>3. \A j \in Instances :
        /\ at'[j] = IF j = i THEN 5 ELSE at[j]
        /\ forked'[j] = IF j = i THEN TRUE ELSE forked[j]
        /\ out'[j] = IF j = i THEN "nowhere" ELSE out[j]
        /\ told'[j] = IF j = i THEN "ok" ELSE told[j]
        /\ beat'[j] = beat[j]
  BY <1>1, <1>2 DEF Typed, TypeOK
<1>4. Typed'
  <2>1. /\ at' \in [Instances -> DOMAIN Order] /\ forked' \in [Instances -> BOOLEAN]
        /\ out' \in [Instances -> {"terminal", "nowhere", "log"}]
        /\ told' \in [Instances -> {"nothing", "ok", "error"}]
        /\ beat' \in [Instances -> Nat \cup {NoBeat}]
    BY <1>2, Places DEF Typed, TypeOK
  <2>2. \A j \in Instances :
          /\ guard'[j] => Alive(j)' /\ beat'[j] \in clock' .. clock' + Heartbeat
          /\ beat'[j] # NoBeat => guard'[j]
    BY <1>2, <1>3 DEF Typed, TypeOK, Alive
  <2>. QED  BY <1>2, <2>1, <2>2 DEF Typed, TypeOK
<1>5. Owned'
  BY <1>1, <1>2, <1>3 DEF Owned, Named, Alive
<1>6. Sole'
  <2>1. \A j \in Instances : guard[j] => Pid(j)' = Pid(j) /\ beat'[j] = beat[j]
    BY <1>1, <1>3 DEF Pid
  <2>2. UNCHANGED <<guard, pidFile, disturbed>>
    BY <1>2
  <2>. QED  BY <2>1, <2>2 DEF Sole
<1>7. Tried'
  BY <1>2, <1>3 DEF Tried
<1>8. Readable'
  <2>1. \A j \in Instances \ {i} : /\ out'[j] = out[j] /\ (Between(j) => Between(j)')
                                   /\ LogRefused(j) => LogRefused(j)'
    BY <1>2, <1>3 DEF Between, LogRefused
  <2>2. Between(i)'
    BY <1>2, <1>3 DEF Between, Alive
  <2>. QED  BY <2>1, <2>2 DEF Readable
<1>9. Checked'
  BY DEF Checked, Check
<1>. QED  BY <1>4, <1>5, <1>6, <1>7, <1>8, <1>9

LEMMA DetachKeeps ==
  ASSUME IInv, NEW i \in Instances, Detach(i)
  PROVE  IInv'
<1>1. Alive(i) /\ at[i] = 4
  BY Places DEF Detach, Doing, IInv, Typed, TypeOK
<1>2. UNCHANGED <<cli, cfg, logs, able, clock, changed, disturbed>>
  BY DEF Detach
<1>3. CASE logs # "absent" /\ Daemonize(i)
  BY <1>1, <1>2, <1>3, DaemonizeKeeps
<1>4. CASE Fail(i) /\ UNCHANGED <<forked, out>>
  BY <1>1, <1>2, <1>4, GoingOnOrFailing
<1>5. CASE GoOn(i) /\ UNCHANGED <<forked, out, told, guard, beat, pidFile>>
  BY <1>1, <1>2, <1>5, GoingOnOrFailing
<1>. QED  BY <1>3, <1>4, <1>5 DEF Detach

\* The pid is written: whoever held the guard of this file before is a rival,
\* and with no rival the file names the only guard and is stamped now.
LEMMA PidWritten ==
  ASSUME IInv, NEW i \in Instances, Alive(i), at[i] = 5, logs = "good",
         out' = [out EXCEPT ![i] = "log"], disturbed' = (disturbed \/ Rivals(i) # {}),
         WritePid(i), guard' = [guard EXCEPT ![i] = TRUE],
         beat' = [beat EXCEPT ![i] = clock + Heartbeat], GoOn(i),
         UNCHANGED <<told, cli, cfg, forked, logs, able, clock, changed>>
  PROVE  IInv'
<1>. USE DEF IInv
<1>1. \A j \in Instances :
        /\ out'[j] = IF j = i THEN "log" ELSE out[j]
        /\ guard'[j] = IF j = i THEN TRUE ELSE guard[j]
        /\ beat'[j] = IF j = i THEN clock + Heartbeat ELSE beat[j]
        /\ at'[j] = IF j = i THEN 6 ELSE at[j]
  BY DEF Typed, TypeOK, GoOn
<1>11. at'[i] = 6 /\ out'[i] = "log" /\ \A j \in Instances \ {i} :
         at'[j] = at[j] /\ out'[j] = out[j] /\ guard'[j] = guard[j]
  BY DEF Typed, TypeOK, GoOn
<1>2. pidFile' = [pid |-> Pid(i), stamp |-> clock] /\ Pid(i) \in Instances \X BOOLEAN
  BY DEF WritePid, Pid, Typed, TypeOK
<1>3. pidFile' # NoFile /\ pidFile'.pid # Empty /\ pidFile'.pid = Pid(i) /\ pidFile'.stamp = clock
  <2>1. clock \in Nat
    BY StartupAssumption DEF Typed, TypeOK
  <2>. QED  BY <1>2, <2>1, StartupAssumption
<1>4. UNCHANGED <<life, told, cfg, forked, logs, able, clock, changed>>
  BY DEF GoOn
<1>5. Typed'
  <2>1. /\ at' \in [Instances -> DOMAIN Order] /\ guard' \in [Instances -> BOOLEAN]
        /\ out' \in [Instances -> {"terminal", "nowhere", "log"}]
        /\ beat' \in [Instances -> Nat \cup {NoBeat}] /\ disturbed' \in BOOLEAN
    BY Places, StartupAssumption DEF Typed, TypeOK, GoOn
  <2>2. \A j \in Instances :
          /\ guard'[j] => Alive(j)' /\ beat'[j] \in clock' .. clock' + Heartbeat
          /\ beat'[j] # NoBeat => guard'[j]
    BY <1>1, <1>4, StartupAssumption DEF Typed, TypeOK, Alive
  <2>3. pidFile' \in [pid : (Instances \X BOOLEAN) \cup {Empty}, stamp : 0 .. clock']
    BY <1>2, <1>4 DEF Typed, TypeOK
  <2>. QED  BY <1>4, <2>1, <2>2, <2>3 DEF Typed, TypeOK
<1>6. Owned'
  <2>1. \A j \in Instances : guard'[j] => at'[j] > 5
    <3>1. ASSUME NEW j \in Instances, j # i, guard[j] PROVE at[j] > 5
      BY <3>1 DEF Owned
    <3>. QED  BY <1>11, <3>1
  <2>2. \A j \in Instances : Named(j)' => j = i
    BY <1>3 DEF Named, Pid
  <2>3. Alive(i)' /\ guard'[i]
    BY <1>1, <1>4 DEF Alive
  <2>. QED  BY <2>1, <2>2, <2>3 DEF Owned
<1>7. Sole'
  <2>1. ASSUME ~disturbed'
        PROVE  \A j \in Instances : guard'[j] => j = i
    BY <1>1, <2>1 DEF Rivals
  <2>2. Pid(i)' = Pid(i) /\ pidFile'.stamp + Heartbeat = beat'[i]
    BY <1>1, <1>3, <1>4 DEF Pid
  <2>. QED  BY <2>1, <2>2, <1>3 DEF Sole
<1>8. Tried'
  BY <1>1, <1>4 DEF Tried
<1>9. Readable'
  <2>1. ASSUME NEW j \in Instances, out'[j] = "nowhere", changed' # "logs"
        PROVE  Between(j)' \/ LogRefused(j)'
    <3>1. j # i /\ out[j] = "nowhere" /\ at'[j] = at[j]
      BY <1>11, <2>1
    <3>2. Between(j) \/ LogRefused(j)
      BY <1>4, <2>1, <3>1 DEF Readable
    <3>. QED  BY <1>4, <3>1, <3>2 DEF Between, LogRefused
  <2>. QED  BY <2>1 DEF Readable
<1>10. Checked'
  BY <1>4 DEF Checked, Check
<1>. QED  BY <1>5, <1>6, <1>7, <1>8, <1>9, <1>10

\* The disk is full: the file is there, empty, and names nobody.
LEMMA PidNotWritten ==
  ASSUME IInv, NEW i \in Instances, Alive(i), at[i] = 5, logs = "good",
         out' = [out EXCEPT ![i] = "log"], disturbed' = (disturbed \/ Rivals(i) # {}),
         pidFile' = [pid |-> Empty, stamp |-> clock],
         life' = [life EXCEPT ![i] = "failed"],
         told' = [told EXCEPT ![i] = IF @ = "nothing" THEN "error" ELSE @],
         UNCHANGED <<at, guard, beat, cli, cfg, forked, logs, able, clock, changed>>
  PROVE  IInv'
<1>. USE DEF IInv
<1>1. ~guard[i] /\ beat[i] = NoBeat
  BY DEF Owned, Typed, TypeOK
<1>2. \A j \in Instances :
        /\ out'[j] = IF j = i THEN "log" ELSE out[j]
        /\ life'[j] = IF j = i THEN "failed" ELSE life[j]
        /\ told'[j] = "ok" => told[j] = "ok"
  BY DEF Typed, TypeOK
<1>3. Typed'
  <2>1. /\ life' \in [Instances -> {"none", "alive", "ended", "failed", "killed"}]
        /\ told' \in [Instances -> {"nothing", "ok", "error"}]
        /\ out' \in [Instances -> {"terminal", "nowhere", "log"}] /\ disturbed' \in BOOLEAN
    BY DEF Typed, TypeOK
  <2>2. \A j \in Instances :
          /\ guard'[j] => Alive(j)' /\ beat'[j] \in clock' .. clock' + Heartbeat
          /\ beat'[j] # NoBeat => guard'[j]
    BY <1>1, <1>2 DEF Typed, TypeOK, Alive
  <2>3. pidFile' \in [pid : (Instances \X BOOLEAN) \cup {Empty}, stamp : 0 .. clock']
    BY StartupAssumption DEF Typed, TypeOK
  <2>. QED  BY <2>1, <2>2, <2>3 DEF Typed, TypeOK
<1>4. Owned'
  BY DEF Owned, Named
<1>5. Sole'
  <2>1. ASSUME ~disturbed', NEW j \in Instances PROVE ~guard'[j]
    BY <1>1, <2>1 DEF Rivals
  <2>. QED  BY <2>1 DEF Sole
<1>6. Tried'
  BY <1>2 DEF Tried
<1>7. Readable'
  BY <1>2 DEF Readable, Between, LogRefused
<1>8. Checked'
  BY DEF Checked, Check
<1>. QED  BY <1>3, <1>4, <1>5, <1>6, <1>7, <1>8

LEMMA StartLogsKeeps ==
  ASSUME IInv, NEW i \in Instances, StartLogs(i)
  PROVE  IInv'
<1>1. Alive(i) /\ at[i] = 5
  BY Places DEF StartLogs, Doing, IInv, Typed, TypeOK
<1>2. UNCHANGED <<cli, cfg, forked, logs, able, clock, changed>>
  BY DEF StartLogs
<1>3. Checked' /\ cfg' = [j \in Instances |-> cfg'[j]]
  BY <1>2 DEF IInv, Checked, Typed, Check
<1>4. CASE logs = "absent" /\ GoOn(i) /\ UNCHANGED <<out, told, guard, beat, pidFile, disturbed>>
  BY <1>1, <1>2, <1>3, <1>4, GoingOnKeeps DEF host
<1>5. CASE logs = "unwritable" /\ Fail(i) /\ UNCHANGED <<out, disturbed>>
  <2>1. out' = out /\ out' \in [Instances -> {"terminal", "nowhere", "log"}]
    BY <1>5 DEF IInv, Typed, TypeOK
  <2>. QED  BY <1>1, <1>2, <1>3, <1>5, <2>1, LeavingKeeps DEF Fail
<1>6. CASE logs = "pidless" /\ out' = [out EXCEPT ![i] = "log"] /\ Fail(i) /\ UNCHANGED disturbed
  <2>1. /\ out' \in [Instances -> {"terminal", "nowhere", "log"}]
        /\ out'[i] = "log" /\ \A j \in Instances \ {i} : out'[j] = out[j]
    BY <1>6 DEF IInv, Typed, TypeOK
  <2>. QED  BY <1>1, <1>2, <1>3, <1>6, <2>1, LeavingKeeps DEF Fail
<1>7. CASE logs = "good" /\ out' = [out EXCEPT ![i] = "log"]
           /\ disturbed' = (disturbed \/ Rivals(i) # {})
  <2>1. CASE /\ WritePid(i) /\ guard' = [guard EXCEPT ![i] = TRUE]
             /\ beat' = [beat EXCEPT ![i] = clock + Heartbeat]
             /\ GoOn(i) /\ UNCHANGED told
    BY <1>1, <1>2, <1>7, <2>1, PidWritten
  <2>2. CASE /\ pidFile' = [pid |-> Empty, stamp |-> clock]
             /\ life' = [life EXCEPT ![i] = "failed"]
             /\ told' = [told EXCEPT ![i] = IF @ = "nothing" THEN "error" ELSE @]
             /\ UNCHANGED <<at, guard, beat>>
    BY <1>1, <1>2, <1>7, <2>2, PidNotWritten
  <2>. QED  BY <1>7, <2>1, <2>2 DEF StartLogs
<1>. QED  BY <1>4, <1>5, <1>6, <1>7 DEF StartLogs

-----------------------------------------------------------------------------
(***************************************************************************)
(* The other steps.                                                         *)
(***************************************************************************)
\* A stamp keeps the pid there is, and only the guard's own thread gives one.
LEMMA BeatKeeps ==
  ASSUME IInv, NEW i \in Instances, Beat(i)
  PROVE  IInv'
<1>. USE DEF IInv
<1>1. /\ Alive(i) /\ guard[i] /\ beat' = [beat EXCEPT ![i] = clock + Heartbeat]
      /\ pidFile' = IF pidFile = NoFile THEN NoFile ELSE [pidFile EXCEPT !.stamp = clock]
      /\ UNCHANGED <<cli, life, at, cfg, forked, out, told, guard>>
      /\ UNCHANGED <<logs, able, clock, changed, disturbed>>
  BY DEF Beat, Typed, TypeOK
<1>2. clock \in Nat /\ Heartbeat \in Nat
  BY StartupAssumption DEF Typed, TypeOK
<1>3. pidFile # NoFile =>
        /\ pidFile' \in [pid : (Instances \X BOOLEAN) \cup {Empty}, stamp : 0 .. clock]
        /\ pidFile' # NoFile /\ pidFile'.pid = pidFile.pid /\ pidFile'.stamp = clock
  <2>1. ASSUME pidFile # NoFile
        PROVE  /\ pidFile' \in [pid : (Instances \X BOOLEAN) \cup {Empty}, stamp : 0 .. clock]
               /\ pidFile' \in [pid : (Instances \X BOOLEAN) \cup {Empty}, stamp : Nat]
               /\ pidFile'.pid = pidFile.pid /\ pidFile'.stamp = clock
    BY <1>1, <1>2, <2>1 DEF Typed, TypeOK
  <2>. QED  BY <2>1, StartupAssumption
<1>4. \A j \in Instances \ {i} : beat'[j] = beat[j]
  BY <1>1
<1>5. beat'[i] = clock + Heartbeat
  BY <1>1 DEF Typed, TypeOK
<1>6. Typed'
  <2>1. beat' \in [Instances -> Nat \cup {NoBeat}]
    BY <1>1, <1>2 DEF Typed, TypeOK
  <2>2. \A j \in Instances :
          /\ guard'[j] => Alive(j)' /\ beat'[j] \in clock' .. clock' + Heartbeat
          /\ beat'[j] # NoBeat => guard'[j]
    BY <1>1, <1>2, <1>4, <1>5 DEF Typed, TypeOK, Alive
  <2>3. pidFile' \in {NoFile} \cup
          [pid : (Instances \X BOOLEAN) \cup {Empty}, stamp : 0 .. clock']
    BY <1>1, <1>3
  <2>. QED  BY <1>1, <2>1, <2>2, <2>3 DEF Typed, TypeOK
<1>7. Owned'
  <2>1. \A j \in Instances : Named(j)' => Named(j)
    BY <1>1, <1>3 DEF Named
  <2>. QED  BY <1>1, <2>1 DEF Owned, Alive
<1>8. Sole'
  <2>1. Pid(i)' = Pid(i)
    BY <1>1 DEF Pid
  <2>2. ASSUME ~disturbed
        PROVE  \A j \in Instances : guard'[j] =>
                 /\ \A k \in Instances : guard'[k] => k = j
                 /\ pidFile' # NoFile /\ pidFile'.pid = Pid(j)' /\ pidFile'.stamp + Heartbeat = beat'[j]
    <3>1. /\ \A j \in Instances : guard[j] => j = i
          /\ pidFile # NoFile /\ pidFile.pid = Pid(i)
      BY <1>1, <2>2 DEF Sole
    <3>. QED  BY <1>1, <1>3, <1>5, <2>1, <3>1
  <2>. QED  BY <1>1, <2>2 DEF Sole
<1>9. Tried' /\ Readable'
  BY <1>1 DEF Tried, Readable, Between, LogRefused
<1>10. Checked'
  BY <1>1 DEF Checked, Check
<1>. QED  BY <1>6, <1>7, <1>8, <1>9, <1>10

LEMMA KillKeeps ==
  ASSUME IInv, NEW i \in Instances, Kill(i)
  PROVE  IInv'
<1>. USE DEF IInv
<1>1. /\ Alive(i) /\ life' = [life EXCEPT ![i] = "killed"]
      /\ told' = [told EXCEPT ![i] = IF @ = "nothing" THEN "error" ELSE @]
      /\ beat' = [beat EXCEPT ![i] = NoBeat] /\ guard' = [guard EXCEPT ![i] = FALSE]
      /\ UNCHANGED <<cli, at, cfg, forked, out>>
      /\ UNCHANGED <<logs, pidFile, able, clock, changed, disturbed>>
  BY DEF Kill, host
<1>2. \A j \in Instances :
        /\ life'[j] = IF j = i THEN "killed" ELSE life[j]
        /\ guard'[j] = IF j = i THEN FALSE ELSE guard[j]
        /\ beat'[j] = IF j = i THEN NoBeat ELSE beat[j]
        /\ told'[j] = "ok" => told[j] = "ok"
  BY <1>1 DEF Typed, TypeOK
<1>3. Typed'
  <2>1. /\ life' \in [Instances -> {"none", "alive", "ended", "failed", "killed"}]
        /\ told' \in [Instances -> {"nothing", "ok", "error"}]
        /\ guard' \in [Instances -> BOOLEAN] /\ beat' \in [Instances -> Nat \cup {NoBeat}]
    BY <1>1 DEF Typed, TypeOK
  <2>2. \A j \in Instances :
          /\ guard'[j] => Alive(j)' /\ beat'[j] \in clock' .. clock' + Heartbeat
          /\ beat'[j] # NoBeat => guard'[j]
    BY <1>1, <1>2 DEF Typed, TypeOK, Alive
  <2>. QED  BY <1>1, <2>1, <2>2 DEF Typed, TypeOK
<1>4. Owned'
  <2>1. \A j \in Instances : (Named(j)' => Named(j)) /\ (guard'[j] => guard[j]) /\ at'[j] = at[j]
    BY <1>1, <1>2 DEF Named
  <2>2. ASSUME NEW j \in Instances, Named(j)'
        PROVE  (Alive(j)' /\ guard'[j]) \/ life'[j] = "killed"
    <3>1. CASE j = i
      BY <1>2, <3>1
    <3>2. CASE j # i
      BY <1>2, <2>1, <2>2, <3>2 DEF Owned, Alive
    <3>. QED  BY <3>1, <3>2
  <2>. QED  BY <2>1, <2>2 DEF Owned
<1>5. Sole'
  BY <1>1, <1>2 DEF Sole, Pid
<1>6. Tried'
  BY <1>1, <1>2 DEF Tried
<1>7. Readable'
  <2>1. \A j \in Instances \ {i} : /\ Between(j) => Between(j)'
                                   /\ LogRefused(j) => LogRefused(j)'
    BY <1>1, <1>2 DEF Between, LogRefused
  <2>2. ~LogRefused(i) /\ (Between(i) => Between(i)')
    BY <1>1, <1>2 DEF Between, LogRefused, Alive
  <2>. QED  BY <1>1, <1>2, <2>1, <2>2 DEF Readable
<1>8. Checked'
  BY <1>1 DEF Checked, Check
<1>. QED  BY <1>3, <1>4, <1>5, <1>6, <1>7, <1>8

LEMMA LaunchKeeps ==
  ASSUME IInv, NEW i \in Instances, Launch(i)
  PROVE  IInv'
<1>. USE DEF IInv
<1>1. /\ life[i] = "none" /\ life' = [life EXCEPT ![i] = "alive"]
      /\ UNCHANGED <<at, cfg, forked, out, told, guard, beat>>
      /\ UNCHANGED <<logs, pidFile, able, clock, changed, disturbed>>
  BY DEF Launch, host
<1>2. \A j \in Instances : life'[j] = IF j = i THEN "alive" ELSE life[j]
  BY <1>1 DEF Typed, TypeOK
<1>3. ~guard[i] /\ ~Named(i)
  BY <1>1 DEF Typed, TypeOK, Alive, Owned
<1>4. Typed'
  <2>1. life' \in [Instances -> {"none", "alive", "ended", "failed", "killed"}]
    BY <1>1 DEF Typed, TypeOK
  <2>2. \A j \in Instances :
          /\ guard'[j] => Alive(j)' /\ beat'[j] \in clock' .. clock' + Heartbeat
          /\ beat'[j] # NoBeat => guard'[j]
    BY <1>1, <1>2 DEF Typed, TypeOK, Alive
  <2>. QED  BY <1>1, <2>1, <2>2 DEF Typed, TypeOK
<1>5. Owned'
  BY <1>1, <1>2, <1>3 DEF Owned, Named, Alive
<1>6. Sole'
  BY <1>1 DEF Sole, Pid
<1>7. Tried' /\ Readable'
  BY <1>1, <1>2 DEF Tried, Readable, Between, LogRefused
<1>8. Checked'
  BY <1>1 DEF Checked, Check
<1>. QED  BY <1>4, <1>5, <1>6, <1>7, <1>8

LEMMA TickKeeps ==
  ASSUME IInv, Tick
  PROVE  IInv'
<1>. USE DEF IInv
<1>1. /\ clock < MaxClock /\ clock' = clock + 1
      /\ \A i \in Instances : beat[i] # NoBeat => clock < beat[i]
      /\ UNCHANGED <<cli, life, at, cfg, forked, out, told, guard, beat>>
      /\ UNCHANGED <<logs, pidFile, able, changed, disturbed>>
  BY DEF Tick, process
<1>2. clock \in Nat /\ MaxClock \in Nat /\ Heartbeat \in Nat /\ NoBeat \notin Nat
  BY StartupAssumption DEF Typed, TypeOK
<1>3. Typed'
  <2>1. \A i \in Instances :
          /\ guard'[i] => Alive(i)' /\ beat'[i] \in clock' .. clock' + Heartbeat
          /\ beat'[i] # NoBeat => guard'[i]
    BY <1>1, <1>2 DEF Typed, TypeOK, Alive
  <2>2. clock' \in 0 .. MaxClock
    BY <1>1, <1>2
  <2>3. pidFile' \in {NoFile} \cup
          [pid : (Instances \X BOOLEAN) \cup {Empty}, stamp : 0 .. clock']
    BY <1>1, <1>2 DEF Typed, TypeOK
  <2>. QED  BY <1>1, <2>1, <2>2, <2>3 DEF Typed, TypeOK
<1>4. Owned' /\ Sole' /\ Tried' /\ Readable'
  BY <1>1 DEF Owned, Named, Alive, Sole, Pid, Tried, Readable, Between, LogRefused
<1>5. Checked'
  BY <1>1 DEF Checked, Check
<1>. QED  BY <1>3, <1>4, <1>5

\* What the host does to the file is a disturbance, and to the rest a change.
LEMMA ChangeKeeps ==
  ASSUME IInv, Change
  PROVE  IInv'
<1>. USE DEF IInv
<1>1. changed = "nothing" /\ UNCHANGED <<cli, life, at, cfg, forked, told, guard, beat, clock>>
  BY DEF Change
<1>2. \/ pidFile' = pidFile /\ disturbed' = disturbed
      \/ pidFile' = NoFile /\ disturbed' = TRUE
  BY DEF Change
<1>3. /\ out' \in [Instances -> {"terminal", "nowhere", "log"}]
      /\ logs' \in {"absent", "good", "unwritable", "pidless"} /\ able' \in BOOLEAN
      /\ changed' \in {"nothing", "able", "pidFile", "logs"}
      /\ changed' # "able" => able' = able
      /\ changed' # "logs" => out' = out /\ logs' = logs
  BY DEF Change, Typed, TypeOK
<1>4. Typed'
  BY <1>1, <1>2, <1>3 DEF Typed, TypeOK, Alive
<1>5. Owned' /\ Sole'
  BY <1>1, <1>2 DEF Owned, Named, Alive, Sole, Pid
<1>6. Tried' /\ Readable'
  BY <1>1, <1>3 DEF Tried, Readable, Between, LogRefused
<1>7. Checked'
  BY <1>1 DEF Checked, Check
<1>. QED  BY <1>4, <1>5, <1>6, <1>7

LEMMA StepHolds == IInv /\ [Next]_vars => IInv'
<1>. SUFFICES ASSUME IInv, [Next]_vars PROVE IInv'
  OBVIOUS
<1>1. ASSUME NEW i \in Instances, Main(i) PROVE IInv'
  BY <1>1, LoadConfigKeeps, FindKeeps, ProbeKeeps, DetachKeeps, StartLogsKeeps,
     OpenCaptureKeeps, EndKeeps DEF Main
<1>2. ASSUME NEW i \in Instances, Launch(i) \/ Beat(i) \/ Kill(i) PROVE IInv'
  BY <1>2, LaunchKeeps, BeatKeeps, KillKeeps
<1>3. CASE Tick \/ Change
  BY <1>3, TickKeeps, ChangeKeeps
<1>4. CASE UNCHANGED vars
  BY <1>4 DEF vars, process, host, IInv, Typed, TypeOK, Alive, Owned, Named, Sole, Pid, Tried,
     Readable, Between, LogRefused, Checked, Check
<1>. QED  BY <1>1, <1>2, <1>3, <1>4 DEF Next

LEMMA Invariance == Spec => []IInv
  BY InitHolds, StepHolds, PTL DEF Spec

-----------------------------------------------------------------------------
(***************************************************************************)
(* The theorems.                                                            *)
(***************************************************************************)
\* Every variable keeps its shape, and a guard and its heartbeat thread come and
\* go together (logfiles.rs:52-66, 178-190).
THEOREM TypeCorrect == Spec => []TypeOK
<1>1. IInv => TypeOK
  BY DEF IInv, Typed
<1>. QED  BY Invariance, <1>1, PTL

\* The PID file that removes itself (logfiles.rs:52-66): whoever is named by the
\* file is alive or was killed outright.
THEOREM NamesTheLiving == Spec => []OnlyTheKilledStayNamed
<1>1. IInv => OnlyTheKilledStayNamed
  BY DEF IInv, Owned, OnlyTheKilledStayNamed, Alive
<1>. QED  BY Invariance, <1>1, PTL

\* A running monitor that nobody disturbs is named by the pid the fork left, with
\* a stamp no older than HEARTBEAT (main.rs:153-156, logfiles.rs:164-190).
THEOREM NamesTheRunner == Spec => []RunnerIsNamed
<1>1. IInv => RunnerIsNamed
  <2>. SUFFICES ASSUME IInv, ~disturbed, NEW i \in Instances, guard[i]
                PROVE  pidFile # NoFile /\ pidFile.pid = Pid(i) /\ clock - pidFile.stamp <= Heartbeat
    BY DEF RunnerIsNamed
  <2>1. pidFile # NoFile /\ pidFile.pid = Pid(i) /\ pidFile.stamp + Heartbeat = beat[i]
    BY DEF IInv, Sole
  <2>2. beat[i] \in clock .. clock + Heartbeat /\ clock \in Nat /\ Heartbeat \in Nat
    BY StartupAssumption DEF IInv, Typed, TypeOK
  <2>3. pidFile.stamp \in Nat
    BY <2>1, <2>2 DEF IInv, Typed, TypeOK
  <2>. QED  BY <2>1, <2>2, <2>3
<1>. QED  BY Invariance, <1>1, PTL

\* That the capture cannot be opened is said on the terminal, not found in a log
\* (main.rs:130-135); unless it could when the command was tried, and the host
\* then took that away.
THEOREM TellsInability == Spec => []InabilityIsTold
<1>1. IInv => InabilityIsTold
  BY DEF IInv, Tried, InabilityIsTold
<1>. QED  BY Invariance, <1>1, PTL

\* A monitor that has left its terminal has a log (main.rs:166-176), unless
\* somebody deleted ~/logs while it started or ran.  One that fails can be read as
\* well, unless that or this: nothing can be opened in ~/logs, and what it says of
\* that after the fork goes nowhere (logfiles.rs:76-83).
THEOREM IsReadable == Spec => []SomebodyCanRead
<1>1. IInv => SomebodyCanRead
  BY Places DEF IInv, Readable, Between, LogRefused, SomebodyCanRead, Doing, Typed, TypeOK
<1>. QED  BY Invariance, <1>1, PTL

\* A mail section that names a server is one that mails, for every settings file
\* there may be (config.rs:329-346, 424-428).
THEOREM MailsInWhole == Spec => []MailIsWhole
<1>1. IInv => MailIsWhole
  BY DEF IInv, Checked, MailIsWhole, Check, Mail, Usable
<1>. QED  BY Invariance, <1>1, PTL

\* Where a stamp comes from: the log's start or the heartbeat.
LEMMA WhoStamps ==
  ASSUME [Next]_vars
  PROVE  \/ pidFile' \in {pidFile, NoFile}
         \/ \E i \in Instances : Beat(i)
         \/ \E i \in Instances : Alive(i) /\ pidFile' = [pid |-> Pid(i), stamp |-> clock]
         \/ pidFile' = [pid |-> Empty, stamp |-> clock]
<1>1. ASSUME NEW i \in Instances, NEW how, NEW code, Leave(i, how, code)
      PROVE  pidFile' \in {pidFile, NoFile}
  BY <1>1 DEF Leave, Drop
<1>2. ASSUME NEW i \in Instances, Fail(i) PROVE pidFile' \in {pidFile, NoFile}
  BY <1>1, <1>2 DEF Fail
<1>3. ASSUME NEW i \in Instances,
             LoadConfig(i) \/ Find(i) \/ Probe(i) \/ Detach(i) \/ OpenCapture(i) \/ End(i)
      PROVE  pidFile' \in {pidFile, NoFile}
  <2>1. CASE LoadConfig(i)
    BY <2>1, <1>2 DEF LoadConfig
  <2>2. CASE Find(i)
    BY <2>2, <1>2 DEF Find
  <2>3. CASE Probe(i)
    BY <2>3, <1>1, <1>2 DEF Probe
  <2>4. CASE Detach(i)
    BY <2>4, <1>2 DEF Detach, Daemonize
  <2>5. CASE OpenCapture(i)
    BY <2>5, <1>2 DEF OpenCapture
  <2>6. CASE End(i)
    BY <2>6, <1>1 DEF End
  <2>. QED  BY <1>3, <2>1, <2>2, <2>3, <2>4, <2>5, <2>6
<1>4. ASSUME NEW i \in Instances, StartLogs(i)
      PROVE  \/ pidFile' \in {pidFile, NoFile}
             \/ Alive(i) /\ pidFile' = [pid |-> Pid(i), stamp |-> clock]
             \/ pidFile' = [pid |-> Empty, stamp |-> clock]
  BY <1>2, <1>4 DEF StartLogs, WritePid, Doing
<1>5. ASSUME NEW i \in Instances, Launch(i) \/ Kill(i) PROVE pidFile' = pidFile
  BY <1>5 DEF Launch, Kill, host
<1>6. CASE Tick \/ Change \/ UNCHANGED vars
  BY <1>6 DEF Tick, Change, vars, host
<1>. QED  BY <1>3, <1>4, <1>5, <1>6 DEF Next, Main

\* "What a fresh timestamp proves is that the process exists" (logfiles.rs:172):
\* undisturbed, no stamp is renewed in the name of a process that is gone.
THEOREM FreshnessIsLife == Spec => FreshMeansAlive
<1>. DEFINE Same == /\ pidFile # NoFile /\ pidFile' # NoFile /\ pidFile'.pid = pidFile.pid
                    /\ pidFile'.stamp # pidFile.stamp /\ ~disturbed'
            Lives == \/ pidFile.pid = Empty
                     \/ Alive(pidFile.pid[1]) /\ Pid(pidFile.pid[1]) = pidFile.pid
<1>1. ASSUME IInv, [Next]_vars, Same
      PROVE  Lives
  <2>1. CASE pidFile' \in {pidFile, NoFile}
    BY <1>1, <2>1
  <2>2. ASSUME NEW i \in Instances, Beat(i) PROVE Lives
    <3>1. guard[i] /\ ~disturbed /\ Alive(i)
      BY <1>1, <2>2 DEF Beat, IInv, Typed, TypeOK
    <3>2. pidFile.pid = Pid(i)
      BY <1>1, <3>1 DEF IInv, Sole
    <3>. QED  BY <3>1, <3>2 DEF Pid
  <2>3. ASSUME NEW i \in Instances, Alive(i), pidFile' = [pid |-> Pid(i), stamp |-> clock]
        PROVE  Lives
    <3>1. pidFile.pid = Pid(i)
      BY <1>1, <2>3
    <3>. QED  BY <2>3, <3>1 DEF Pid
  <2>4. CASE pidFile' = [pid |-> Empty, stamp |-> clock]
    BY <1>1, <2>4
  <2>. QED  BY <1>1, <2>1, <2>2, <2>3, <2>4, WhoStamps
<1>2. IInv /\ [Next]_vars => [Same => Lives]_vars
  BY <1>1
<1>. QED  BY Invariance, <1>2, PTL DEF Spec, FreshMeansAlive
=============================================================================
