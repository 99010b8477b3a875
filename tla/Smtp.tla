-------------------------------- MODULE Smtp --------------------------------
(***************************************************************************)
(* email.rs: one message to every configured recipient, in one conversation. *)
(*                                                                          *)
(* The client runs in the thread that does the watching, and gives up at the *)
(* first reply it does not want.  The relay is outside src/: it may refuse   *)
(* any command, answer in several lines, send them bit by bit, be silent,    *)
(* and hang up, with what it had said lost or not.  It may take the message  *)
(* although the client is no longer there to be told.                       *)
(***************************************************************************)
EXTENDS Naturals, Sequences, SequencesExt

CONSTANTS
  To,         \* cfg.to, which cfg.mail() has found not to be empty
  Auth,       \* whether there are a username and a password
  NoOne,      \* a command that names no recipient
  Step,       \* STEP, in units of a tick: how long one read may wait
  MaxPieces   \* bound: the pieces a relay breaks its replies into

ASSUME SmtpAssumption ==
  /\ To \in Seq(ToSet(To)) /\ IsInjective(To) /\ To # <<>>
  /\ NoOne \notin ToSet(To)
  /\ Auth \in BOOLEAN
  /\ Step \in Nat \ {0} /\ MaxPieces \in Nat

VARIABLES
  at,        \* the client's place in Script; 0 while it connects
  waiting,   \* whether it is in expect
  idle,      \* how long its read has waited for the next byte
  result,    \* what send returned
  lines,     \* what the relay said and the client has not read
  up,        \* whether the relay is still there
  heard,     \* the place of the command the relay has not answered; 0 for none
  replying,  \* the digit of a reply whose last line is yet to come; 0 for none
  envelope,  \* the recipients the relay has accepted
  taken,     \* the recipients it has taken the message for
  pieces     \* the pieces it has sent

client == <<at, waiting, result>>
relay == <<up, heard, replying, envelope, taken, pieces>>
vars == <<client, idle, lines, relay>>

(***************************************************************************)
(* send: what the client says, and the digit it wants to hear.  QUIT is said *)
(* and not waited for, so it is no part of the conversation.                *)
(***************************************************************************)
Command(verb, rcpt, want) == [verb |-> verb, rcpt |-> rcpt, want |-> want]

Opening ==
  <<Command("connect", NoOne, 2), Command("EHLO", NoOne, 2)>>
    \o (IF Auth THEN <<Command("AUTH", NoOne, 2)>> ELSE <<>>)

Envelope ==
  <<Command("MAIL", NoOne, 2)>> \o [i \in DOMAIN To |-> Command("RCPT", To[i], 2)]

\* Slip: QUIT's answer waited for.
TransferThenQuit ==
  <<Command("DATA", NoOne, 3), Command("message", NoOne, 2), Command("QUIT", NoOne, 2)>>

Transfer == <<Command("DATA", NoOne, 3), Command("message", NoOne, 2)>>

Script == Opening \o Envelope \o Transfer

(***************************************************************************)
(* The client                                                               *)
(***************************************************************************)
Fail == result' = "failed" /\ waiting' = FALSE /\ UNCHANGED at

Connect ==
  /\ result = "none" /\ at = 0
  /\ \/ at' = 1 /\ waiting' = TRUE /\ heard' = 1 /\ UNCHANGED result
     \/ Fail /\ UNCHANGED heard
  /\ UNCHANGED <<idle, lines, up, replying, envelope, taken, pieces>>

\* A write fails, when the relay is gone or does not read, or disappears.
Say ==
  /\ result = "none" /\ at > 0 /\ ~waiting
  /\ \/ up /\ heard' = at /\ waiting' = TRUE /\ UNCHANGED <<at, result>>
     \/ ~up /\ waiting' = TRUE /\ UNCHANGED <<at, result, heard>>
     \/ Fail /\ UNCHANGED heard
  /\ idle' = 0
  /\ UNCHANGED <<lines, up, replying, envelope, taken, pieces>>

\* expect, one line of it.
Answered ==
  IF at = Len(Script)
  THEN result' = "ok" /\ waiting' = FALSE /\ UNCHANGED at
  ELSE at' = at + 1 /\ waiting' = FALSE /\ UNCHANGED result

\* Slips: a refused recipient is passed over; the step after the last one.
HearRefusedRecipient(line) ==
  IF line.digit # Script[at].want /\ Script[at].verb # "RCPT" THEN Fail
  ELSE IF line.more THEN UNCHANGED client ELSE Answered
HearPastTheEnd(line) ==
  IF line.digit # Script[at].want THEN Fail
  ELSE IF line.more THEN UNCHANGED client
  ELSE at' = at + 1 /\ waiting' = FALSE
       /\ result' = IF at > Len(Script) THEN "ok" ELSE result

Hear(line) ==
  IF line.digit # Script[at].want THEN Fail
  ELSE IF line.more THEN UNCHANGED client ELSE Answered

ReadLine ==
  /\ result = "none" /\ waiting /\ lines # <<>>
  /\ Hear(Head(lines))
  /\ lines' = Tail(lines)
  /\ idle' = 0
  /\ UNCHANGED relay

\* The relay hung up, or a read has waited for as long as it may.
\* Slip: reads that may wait for ever.
GiveUpOnHangUp ==
  /\ result = "none" /\ waiting /\ lines = <<>>
  /\ ~up
  /\ Fail
  /\ UNCHANGED <<idle, lines, relay>>

GiveUp ==
  /\ result = "none" /\ waiting /\ lines = <<>>
  /\ ~up \/ idle = Step
  /\ Fail
  /\ UNCHANGED <<idle, lines, relay>>

Client == Connect \/ Say \/ ReadLine \/ GiveUp

\* Time passes while a read waits, for each read anew.
Tick ==
  /\ result = "none" /\ waiting /\ lines = <<>>
  /\ idle < Step /\ idle' = idle + 1
  /\ UNCHANGED <<client, lines, relay>>

(***************************************************************************)
(* The relay                                                                *)
(***************************************************************************)
Line(digit, more) == [digit |-> digit, more |-> more]

Replies(digit) ==
  \E more \in BOOLEAN :
    /\ lines' = Append(lines, Line(digit, more))
    /\ replying' = IF more THEN digit ELSE 0
    /\ more => pieces < MaxPieces
    /\ idle' = 0
    /\ UNCHANGED <<client, up>>

Accept ==
  /\ up /\ heard > 0
  /\ heard' = 0
  /\ LET command == Script[heard] IN
     /\ Replies(command.want)
     /\ envelope' = IF command.verb = "RCPT" THEN envelope \cup {command.rcpt} ELSE envelope
     /\ taken' = IF command.verb = "message" THEN envelope ELSE taken
  /\ UNCHANGED pieces

Refuse ==
  /\ up /\ heard > 0
  /\ heard' = 0
  /\ Replies(5)
  /\ UNCHANGED <<envelope, taken, pieces>>

GoOn ==
  /\ up /\ replying > 0 /\ pieces < MaxPieces
  /\ pieces' = pieces + 1
  /\ \/ \E more \in BOOLEAN :
          /\ lines' = Append(lines, Line(replying, more))
          /\ replying' = IF more THEN replying ELSE 0
     \/ UNCHANGED <<lines, replying>>     \* part of a line
  /\ idle' = 0
  /\ UNCHANGED <<client, up, heard, envelope, taken>>

\* What it had said may be lost; a line it was in the middle of is read as it
\* is, and taken for the last one.
HangUp ==
  /\ up /\ at > 0
  /\ up' = FALSE
  /\ \/ lines' \in {lines, <<>>}
     \/ replying > 0 /\ lines' = Append(lines, Line(replying, FALSE))
  /\ UNCHANGED <<client, idle, heard, replying, envelope, taken, pieces>>

Relay == Accept \/ Refuse \/ GoOn \/ HangUp

-----------------------------------------------------------------------------
Init ==
  /\ at = 0 /\ waiting = FALSE /\ idle = 0 /\ result = "none"
  /\ lines = <<>> /\ up = TRUE /\ heard = 0 /\ replying = 0
  /\ envelope = {} /\ taken = {} /\ pieces = 0

Next == Client \/ Tick \/ Relay

\* The client's calls return; the relay owes nothing, not even an answer.
Spec == Init /\ [][Next]_vars /\ WF_vars(Client) /\ WF_vars(Tick)

-----------------------------------------------------------------------------
(***************************************************************************)
(* Properties                                                               *)
(***************************************************************************)

\* Every variable has its shape.
TypeOK ==
  /\ at \in 0 .. Len(Script) /\ heard \in 0 .. Len(Script)
  /\ waiting \in BOOLEAN /\ up \in BOOLEAN
  /\ idle \in 0 .. Step /\ pieces \in 0 .. MaxPieces
  /\ result \in {"none", "ok", "failed"}
  /\ replying \in {0, 2, 3, 5}
  /\ lines \in Seq([digit : {2, 3, 5}, more : BOOLEAN])
  /\ envelope \subseteq ToSet(To) /\ taken \subseteq ToSet(To)

\* A failure is a failure: only when the conversation breaks after the message
\* itself was said can it have been taken nevertheless (email.rs:133-138).
DoubtOnlyAtTheEnd ==
  result = "failed" /\ taken # {} => Script[at].verb = "message"

\* "A relay that accepts the connection and then says nothing would otherwise
\* hold this thread for ever" (email.rs:38-40): whatever the relay does, as long
\* as it sends finitely many pieces, the watching thread is let go.
SendEnds == <>(result # "none")
=============================================================================
