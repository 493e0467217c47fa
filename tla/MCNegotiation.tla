--------------------------- MODULE MCNegotiation ---------------------------
(* Negotiation on small instances: the clients that may connect.            *)
EXTENDS Negotiation

\* The server supports two functions; a client may have one it does not.
MCSupported == {"RESPONSES", "SYSREQ"}
MCFunctions == {"RESPONSES", "SYSREQ", "SCS-CTL-CODES"}

Framing == {"BINARY", "EOR"}

Basic(options, extras) ==
  [options |-> options, functions |-> {}, proposes |-> FALSE,
   extras |-> extras]

\* TN3270E emulators: those that propose functions and those that wait.
MCEmulators ==
  [options : {Framing \cup {"TN3270E", "TERMINAL-TYPE"}},
   functions : {{}, {"SYSREQ"}, MCSupported, {"SYSREQ", "SCS-CTL-CODES"},
                MCFunctions},
   proposes : BOOLEAN, extras : {{}}]

Talk == {"TEXT", "EOF", "NOP", "TERMINAL-TYPE SEND"}

\* Basic terminals and line-mode clients, and a TN3270E emulator that refuses
\* the TERMINAL-TYPE option; each types, hangs up, asks for our type
\* or says something unknown.
MCTalkers ==
  { Basic(options, {said}) :
      options \in {Framing \cup {"TERMINAL-TYPE"}, {"TERMINAL-TYPE"}, {},
                   Framing \cup {"TN3270E"}},
      said \in Talk }

\* Basic terminals that offer an option and withdraw it, or ask for one and
\* give it up.
MCOfferers ==
  { Basic(Framing \cup {"TERMINAL-TYPE"}, extras) :
      extras \in {{"WILL", "WONT"}, {"DO", "DONT"}} }

\* A terminal that agrees to BINARY and refuses EOR.
MCWithoutEor == { Basic({"BINARY", "TERMINAL-TYPE"}, {}) }

MCClients == MCEmulators \cup MCTalkers \cup MCOfferers \cup MCWithoutEor

\* The client waits while the server scans.  A scan reads neither the client
\* nor the channel from it, and both ends only append to the channels, so
\* what the client does during a scan it can as well do after it.
ScanFirst == pc = "scan" => serverVars' # serverVars

=============================================================================
