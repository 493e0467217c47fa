--------------------------- MODULE MCHostSession ---------------------------
(* HostSession on small instances.  The screens are the outputs the         *)
(* application can number within the bound on the keys.                     *)
EXTENDS HostSession

CONSTANT none

MCScreens == Outputs

\* ATTN, menu messages, type-ahead and a hang-up; nothing is refused.
Interrupting ==
  [keys |-> {"AID", "ATTN", "HANGUP"}, presses |-> 3, typeAhead |-> TRUE,
   refusals |-> 0, messages |-> TRUE]

\* SYSREQ and LOGOFF on full panels; the user waits for each answer.
Suspending ==
  [keys |-> AllKeys, presses |-> 4, typeAhead |-> FALSE, refusals |-> 0,
   messages |-> FALSE]

\* A terminal that refuses screens while the user types ahead.
Refusing ==
  [keys |-> {"AID", "ATTN"}, presses |-> 3, typeAhead |-> TRUE,
   refusals |-> 2, messages |-> TRUE]

MCScenarios == {Interrupting, Suspending, Refusing}

\* SYSREQ while a message stands on the menu.
MCPatched ==
  {[keys |-> {"AID", "SYSREQ"}, presses |-> 4, typeAhead |-> FALSE,
    refusals |-> 0, messages |-> TRUE]}

\* ATTN and the next key are on their way when the redisplay is refused.
MCStale ==
  {[keys |-> {"AID", "ATTN"}, presses |-> 2, typeAhead |-> TRUE,
    refusals |-> 1, messages |-> FALSE]}

\* SYSREQ is pressed while a screen is on its way, and the screen refused.
MCSuspendedRefusal ==
  {[keys |-> {"AID", "SYSREQ"}, presses |-> 2, typeAhead |-> TRUE,
    refusals |-> 1, messages |-> FALSE]}
=============================================================================
