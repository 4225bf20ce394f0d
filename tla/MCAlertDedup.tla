----------------------------- MODULE MCAlertDedup -----------------------------
(* Instances of AlertDedup for TLC. *)
EXTENDS AlertDedup, TLC

CONSTANTS Severe, Minor, Good, Closed, x, y

MCSeverity == {Severe, Minor, Good, Closed}
MCDisabled == {Good, Closed}
MCCleared  == {Good}

D(s, r) == [sev |-> s, reason |-> r]

\* Every kind of answer for one line: missing, alertable with either reason,
\* two alertable disruptions, cleared, suppressed, both at once.
RichReport == {{}, {D(Severe, x)}, {D(Severe, y)}, {D(Severe, x), D(Minor, x)},
               {D(Good, x)}, {D(Closed, x)}, {D(Good, x), D(Closed, x)}}
\* The answers that interact across lines.
ShortReport == {{}, {D(Severe, x)}, {D(Severe, y)}, {D(Minor, x)}, {D(Good, x)}}

=============================================================================
