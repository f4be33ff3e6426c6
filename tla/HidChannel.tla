----------------------------- MODULE HidChannel -----------------------------
(***************************************************************************)
(* What the report path of the keyboard promises: a lossy channel that     *)
(* never duplicates and never invents.  A report that was accepted is      *)
(* handed to a transport at most once, or lost; nothing reaches a          *)
(* transport that was not accepted, except what a tap writes to it.  Two   *)
(* accepted reports may overtake one another, and a transport that is cut  *)
(* off forgets its state.                                                  *)
(* HidPath implements this specification (HidPath!Channel).                *)
(***************************************************************************)
EXTENDS Naturals

CONSTANTS Report,      \* the keyboard reports
          Empty,       \* the report with no key and no modifier
          Direct,      \* the reports a tap writes past the channel
          Transport    \* the ways to a host

VARIABLES pending,     \* how many copies of a report are accepted, not handed over
          out          \* the last report handed to a transport

vars == <<pending, out>>

TypeOK == /\ pending \in [Report -> Nat]
          /\ out \in [Transport -> Report]

Init == /\ pending = [r \in Report |-> 0]
        /\ out = [t \in Transport |-> Empty]

Accept(r) == /\ pending' = [pending EXCEPT ![r] = @ + 1]
             /\ UNCHANGED out

Take(r) == /\ pending[r] > 0
           /\ pending' = [pending EXCEPT ![r] = @ - 1]

HandOver(r, t) == /\ Take(r)
                  /\ out' = [out EXCEPT ![t] = r]

Lose(r) == /\ Take(r)
           /\ UNCHANGED out

\* A tap, pressed and then released; or a link that goes down for good, whose
\* host releases everything.
Play(r, t) == /\ r \in Direct \cup {Empty}
              /\ out' = [out EXCEPT ![t] = r]
              /\ UNCHANGED pending

Next == \/ \E r \in Report : Accept(r) \/ Lose(r)
        \/ \E r \in Report, t \in Transport : HandOver(r, t) \/ Play(r, t)

Spec == Init /\ [][Next]_vars
=============================================================================
