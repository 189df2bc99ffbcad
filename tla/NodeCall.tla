-------------------------------- MODULE NodeCall --------------------------------
(***************************************************************************)
(* What Invoke promises to its callers: a call ends once, with the answer  *)
(* of the node or with an error.  An answer means that the node executed   *)
(* the operation; an error says nothing, the node may have executed it or  *)
(* may still do so, at most once.  A call to a broken connection ends.     *)
(***************************************************************************)
CONSTANT Call

VARIABLES
  outcome,   \* "none", "underway", "answered" or "failed"
  executed,  \* the calls whose operation the node has carried out
  broken     \* the calls whose connection has been closed

callVars == <<outcome, executed, broken>>

CallInit == /\ outcome = [i \in Call |-> "none"]
            /\ executed = {}
            /\ broken = {}

Start(i) == /\ outcome[i] = "none"
            /\ outcome' = [outcome EXCEPT ![i] = "underway"]
            /\ UNCHANGED <<executed, broken>>

Execute(i) == /\ outcome[i] # "none" /\ i \notin executed
              /\ executed' = executed \cup {i}
              /\ UNCHANGED <<outcome, broken>>

Answer(i) == /\ outcome[i] = "underway" /\ i \in executed
             /\ outcome' = [outcome EXCEPT ![i] = "answered"]
             /\ UNCHANGED <<executed, broken>>

Fail(i) == /\ outcome[i] = "underway"
           /\ outcome' = [outcome EXCEPT ![i] = "failed"]
           /\ UNCHANGED <<executed, broken>>

Break(is) == /\ broken' = broken \cup is
             /\ UNCHANGED <<outcome, executed>>

(* Finding the connection closed ends a call in the same step.             *)
BreakAndFail(i, is) == /\ outcome[i] \in {"none", "underway"}
                       /\ outcome' = [outcome EXCEPT ![i] = "failed"]
                       /\ broken' = broken \cup is
                       /\ UNCHANGED executed

CallNext == \/ \E i \in Call : Start(i) \/ Execute(i) \/ Answer(i) \/ Fail(i)
            \/ \E is \in SUBSET Call : Break(is)
            \/ \E i \in Call, is \in SUBSET Call : BreakAndFail(i, is)

CallSpec == /\ CallInit /\ [][CallNext]_callVars
            /\ \A i \in Call : (outcome[i] = "underway" /\ i \in broken)
                                 ~> outcome[i] \in {"answered", "failed"}
=============================================================================
