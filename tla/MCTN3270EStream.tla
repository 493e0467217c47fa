-------------------------- MODULE MCTN3270EStream --------------------------
(* TN3270EStream on a small instance: two screens, two-valued bytes (so     *)
(* four sequence numbers), and a stream that sends enough to wrap them.     *)
EXTENDS TN3270EStream

CONSTANTS s1, s2, none

\* Bound: messages on the wire at one time (no action reads toClient but
\* Deliver, so a short channel loses no behaviour of the map).
ShortChannel == Len(toClient) <= 2
=============================================================================
