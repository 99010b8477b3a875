------------------------------ MODULE Message ------------------------------
(***************************************************************************)
(* What email::send promises the loop: one message, for everybody at once.   *)
(* When it returns ok the message has been taken; when it returns an error   *)
(* the message has been taken, is still to be taken or never will be.        *)
(***************************************************************************)
CONSTANT Everybody

VARIABLES
  result,   \* what send returned
  taken     \* who the relay has taken the message for

Init == result = "none" /\ taken = {}

Take == result # "ok" /\ taken = {} /\ taken' = Everybody /\ UNCHANGED result

Return ==
  /\ result = "none"
  /\ result' = "failed" \/ (result' = "ok" /\ taken = Everybody)
  /\ UNCHANGED taken

Next == Take \/ Return

Spec == Init /\ [][Next]_<<result, taken>>
=============================================================================
