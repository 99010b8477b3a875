------------------------------- MODULE Config -------------------------------
(***************************************************************************)
(* config.rs: what is in the settings file, what is filled in, and what is   *)
(* refused before anything starts.                                          *)
(*                                                                          *)
(* A JSON object is a function on the keys it has; a key the program knows   *)
(* and the file has not is filled in with @@.  An Option is a set of at most *)
(* one.  Settings no decision is made on (ports, names, passwords) are left  *)
(* out.                                                                     *)
(***************************************************************************)
EXTENDS Integers, Sequences, TLC

CONSTANTS
  Blank,    \* any text of nothing but white space, which is what trim() tells
  NoPath    \* no --config

(***************************************************************************)
(* serde: what each section holds when the file does not say                *)
(***************************************************************************)
\* Default for Thresholds.  min_answered is in hundredths.
ThresholdDefaults ==
  [min_answered |-> 75, idle_seconds |-> 3600, resend_after |-> 900]

SnmpDefaults == [targets |-> <<>>]
SmtpDefaults == [to |-> <<>>]

Defaults ==
  [nofork |-> FALSE, window |-> 300, report_every |-> 300,
   thresholds |-> ThresholdDefaults, snmp |-> SnmpDefaults,
   per_relay |-> <<>>, smtp |-> {}]

\* A key serde has no default for must be there, in the file and in each
\* section that is; a key nobody knows may.
Parses(file) ==
  /\ "interface" \in DOMAIN file
  /\ "smtp" \in DOMAIN file => \A m \in file.smtp : {"server", "from"} \subseteq DOMAIN m
  /\ "snmp" \in DOMAIN file /\ "targets" \in DOMAIN file.snmp =>
       \A i \in DOMAIN file.snmp.targets : "host" \in DOMAIN file.snmp.targets[i]
  /\ "per_relay" \in DOMAIN file =>
       \A g \in DOMAIN file.per_relay : "idle_seconds" \in DOMAIN file.per_relay[g]

Parsed(file) ==
  LET filled == file @@ Defaults
  IN  [filled EXCEPT !.thresholds = @ @@ ThresholdDefaults,
                     !.snmp = @ @@ SnmpDefaults,
                     !.smtp = {m @@ SmtpDefaults : m \in @}]

(***************************************************************************)
(* Smtp::usable and Config::mail: what the loop asks before it mails.       *)
(***************************************************************************)
Usable(m) == m.server # Blank /\ m.to # <<>> /\ m.from # Blank

Mail(cfg) == {m \in cfg.smtp : Usable(m)}

(***************************************************************************)
(* Config::check                                                            *)
(***************************************************************************)
\* Slip: the recipients not looked at.
CheckSenderOnly(cfg) ==
  /\ cfg.interface \notin {Blank, "any"}
  /\ cfg.window # 0
  /\ \A m \in cfg.smtp : m.server # Blank => m.from # Blank
  /\ cfg.thresholds.min_answered \in 0 .. 100

Check(cfg) ==
  /\ cfg.interface \notin {Blank, "any"}
  /\ cfg.window # 0
  /\ \A m \in cfg.smtp : m.server # Blank => m.to # <<>> /\ m.from # Blank
  /\ cfg.thresholds.min_answered \in 0 .. 100

(***************************************************************************)
(* load: the first file there is, read, parsed and checked; the one          *)
(* configuration that results, or none.  A file that is there and refused is *)
(* not passed over for the next one.                                        *)
(***************************************************************************)
SearchPaths == <<"home", "etc">>

Load(disk, explicit) ==
  LET tried == IF explicit = NoPath THEN SearchPaths ELSE <<explicit>>
      found == SelectSeq(tried, LAMBDA p : p \in DOMAIN disk)
  IN  IF found = <<>> \/ ~Parses(disk[Head(found)]) THEN {}
      ELSE {cfg \in {Parsed(disk[Head(found)])} : Check(cfg)}
=============================================================================
