-------------------------- MODULE ConnectionAttempt --------------------------
(***************************************************************************)
(* What the connection screen promises: it follows one attempt at a time,  *)
(* moves on a verdict about that attempt and on no other, and an attempt   *)
(* that was given up is never taken up again, however late its verdicts.   *)
(***************************************************************************)
EXTENDS Naturals

VARIABLES
  stage,     \* "form", "probe", "load", "failed", "fading", "connected"
  attempt,   \* the attempt it follows, or NoAttempt
  tried,     \* the attempts there ever were
  verdicts   \* the verdicts there ever were: <<attempt, "good" or "bad">>

attemptVars == <<stage, attempt, tried, verdicts>>

NoAttempt == <<"none", 0>>
Probes    == {"probe"} \X Nat
Loads     == {"load"} \X Nat
Attempts  == Probes \cup Loads
Verdicts  == Attempts \X {"good", "bad"}

(* A fresh attempt of a kind is followed from here on. *)
Follow(kind, s) ==
  /\ attempt' \in kind \ tried /\ stage' = s
  /\ tried \cup {attempt'} \subseteq tried'
  /\ UNCHANGED verdicts

AttemptInit ==
  /\ verdicts = {}
  /\ \/ stage = "form" /\ attempt = NoAttempt /\ tried = {}
     \/ stage = "probe" /\ attempt \in Probes /\ tried = {attempt}

Begin    == Follow(Probes, "probe")
Resolve  == /\ stage = "probe" /\ <<attempt, "good">> \in verdicts
            /\ Follow(Loads, "load")
Refuse   == /\ stage \in {"probe", "load"} /\ stage' = "failed" /\ attempt' = NoAttempt
            /\ verdicts' \in {verdicts, verdicts \cup {<<attempt, "bad">>}}
            /\ <<attempt, "bad">> \in verdicts'
            /\ tried \subseteq tried'
Show     == /\ stage = "load" /\ <<attempt, "good">> \in verdicts
            /\ stage' = "fading" /\ UNCHANGED <<attempt, tried, verdicts>>
Finish   == /\ stage = "fading"
            /\ stage' = "connected" /\ UNCHANGED <<attempt, tried, verdicts>>
GiveUp   == /\ stage' = "form" /\ attempt' = NoAttempt
            /\ tried \subseteq tried' /\ UNCHANGED verdicts
Judge    == /\ \E a \in tried, v \in {"good", "bad"} : verdicts' = verdicts \cup {<<a, v>>}
            /\ UNCHANGED <<stage, attempt, tried>>

AttemptNext ==
  \/ Begin \/ Resolve \/ Refuse \/ Show \/ Finish \/ GiveUp \/ Judge

AttemptSpec == AttemptInit /\ [][AttemptNext]_attemptVars
=============================================================================
