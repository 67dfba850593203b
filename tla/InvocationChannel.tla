------------------------- MODULE InvocationChannel -------------------------
(***************************************************************************)
(* What a backwards invocation promises its caller, without readers,       *)
(* queues, locks or timers: the caller takes the daemon's answers to its   *)
(* own call, each once and in the order they were given, up to the one     *)
(* that ends the call, and nothing after that.                             *)
(***************************************************************************)
EXTENDS Naturals, Sequences

CONSTANTS Invocations

(***************************************************************************)
(* BackwardsInvocationResponseEvent.Event; "empty" is a response that      *)
(* carries no data.                                                        *)
(***************************************************************************)
Events == {"response", "empty", "end", "error"}

(***************************************************************************)
(* How a call is over: with the daemon's last word ("complete", "failed"), *)
(* without one because the connection is gone, quietly ("cut") or with an  *)
(* error ("lost"), because nothing came for too long ("timeout"), because  *)
(* the request could not be written ("unsent"), or because the caller      *)
(* wants no more ("abandoned").                                            *)
(***************************************************************************)
Outcomes == {"complete", "failed", "cut", "lost", "timeout", "unsent",
             "abandoned"}

VARIABLES
  answers,  \* what the daemon has answered to each call
  taken,    \* how many of the answers the call has looked at
  outcome,  \* how the call is over, or "open"
  alive     \* the calls whose connection is still there

vars == <<answers, taken, outcome, alive>>

Init ==
  /\ answers = [i \in Invocations |-> <<>>]
  /\ taken = [i \in Invocations |-> 0]
  /\ outcome = [i \in Invocations |-> "open"]
  /\ alive = Invocations

Answer(i, e) ==
  /\ answers' = [answers EXCEPT ![i] = Append(@, e)]
  /\ UNCHANGED <<taken, outcome, alive>>

OutcomeOf(e) == CASE e = "response" -> "open"
                  [] e \in {"empty", "end"} -> "complete"
                  [] e = "error" -> "failed"

Take(i) ==
  /\ outcome[i] = "open"
  /\ taken[i] < Len(answers[i])
  /\ taken' = [taken EXCEPT ![i] = @ + 1]
  /\ outcome' = [outcome EXCEPT ![i] = OutcomeOf(answers[i][taken[i] + 1])]
  /\ UNCHANGED <<answers, alive>>

(***************************************************************************)
(* A call is cut off only once the connection is gone, and is never        *)
(* abandoned by its caller or timed out while "unsent".                    *)
(***************************************************************************)
GiveUp(i, o) ==
  /\ outcome[i] = "open"
  /\ o \in {"cut", "lost", "timeout", "unsent", "abandoned"}
  /\ o \in {"cut", "lost"} => i \notin alive
  /\ o = "unsent" => answers[i] = <<>>
  /\ outcome' = [outcome EXCEPT ![i] = o]
  /\ UNCHANGED <<answers, taken, alive>>

\* The calls may share a connection.
Disconnect ==
  /\ alive' \in SUBSET alive
  /\ UNCHANGED <<answers, taken, outcome>>

Next ==
  \/ \E i \in Invocations, e \in Events : Answer(i, e)
  \/ \E i \in Invocations : Take(i)
  \/ \E i \in Invocations, o \in Outcomes : GiveUp(i, o)
  \/ Disconnect

Spec == Init /\ [][Next]_vars
=============================================================================
