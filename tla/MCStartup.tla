----------------------------- MODULE MCStartup -----------------------------
(* Two commands and a handful of settings files for Startup. *)
EXTENDS Startup

\* The shortest file there is, and what is wrong with others.
Plain == [interface |-> "eth0"]
Section(server, from, to) == [server |-> server, from |-> from, to |-> to]
Mailing(section) == Plain @@ [smtp |-> {section}]

GoodFiles ==
  {Plain,
   [interface |-> "eth0", nofork |-> TRUE, misspelt |-> 1,
    snmp |-> [targets |-> <<[host |-> "nms"]>>]],
   Mailing(Section("relay", "monitor", <<"noc">>)),
   Mailing([server |-> Blank, from |-> Blank])}

BadFiles ==
  {[window |-> 300],
   [interface |-> Blank], [interface |-> "any"], [interface |-> "eth9"],
   Plain @@ [snmp |-> [targets |-> <<[port |-> 162]>>]],
   Plain @@ [per_relay |-> [cmts |-> [warn |-> 1]]],
   Plain @@ [window |-> 0],
   Plain @@ [thresholds |-> [min_answered |-> 7500]],
   Mailing([server |-> "relay", to |-> <<"noc">>]),
   Mailing([server |-> "relay", from |-> "monitor"]),
   Mailing(Section("relay", Blank, <<"noc">>))}

At(path, file) == [p \in {path} |-> file]

\* No file at all, one file, and a bad one in front of a good one.
MCDisks ==
  {<<>>, [home |-> [interface |-> Blank], etc |-> Plain]}
    \cup {At("home", f) : f \in GoodFiles \cup BadFiles}
    \cup {At("etc", Plain)}

Arguments(nofork, check, deadline) ==
  [config |-> NoPath, nofork |-> nofork, check |-> check, deadline |-> deadline]

MCCommands ==
  {Arguments(FALSE, FALSE, TRUE), Arguments(TRUE, FALSE, TRUE), Arguments(FALSE, TRUE, FALSE),
   [Arguments(FALSE, FALSE, FALSE) EXCEPT !.config = "etc"]}
=============================================================================
