----------------------------- MODULE ConsolePort -----------------------------
(***************************************************************************)
(* meta-arm/lib/fvp/runner.py, class ConsolePortParser, reading the log    *)
(* file an FVP is writing, as OEFVPTarget._setup_consoles() uses it: one   *)
(* parse_port() call for each configured console, in order.                *)
(*                                                                         *)
(* The FVP writes one line for each console.  A write may reach the file   *)
(* in two parts (its output is buffered); the reader may then see the end  *)
(* of the file in the middle of a line.  Where the line is cut decides     *)
(* what the regular expression makes of each part.                         *)
(***************************************************************************)
EXTENDS Integers, Sequences, FiniteSets, SequencesExt

CONSTANTS
    Consoles,    \* the consoles the FVP announces
    Port,        \* [Consoles -> Nat]: the port each of them listens on
    NameSuffix,  \* [Consoles -> SUBSET Consoles]: names that end this name
    Cuts,        \* where a write may be cut, see CutKinds
    MaxRequests  \* bound: the number of entries of config["consoles"]

CutKinds == {"name", "text", "digits", "newline"}

ASSUME ConsolesAssumption == IsFiniteSet(Consoles)
ASSUME PortAssumption ==
    /\ Port \in [Consoles -> Nat]
    /\ \A c, d \in Consoles : Port[c] = Port[d] => c = d
ASSUME NameSuffixAssumption == NameSuffix \in [Consoles -> SUBSET Consoles]
ASSUME CutsAssumption == Cuts \subseteq CutKinds
ASSUME MaxRequestsAssumption == MaxRequests \in Nat

VARIABLES
    output,        \* the order in which the FVP announces its consoles
    requests,      \* the values of config["consoles"], in order
    written,       \* how many lines are complete in the file
    tail,          \* the cut after the part of a line that ends the file
    read,          \* how many complete lines next(self._lines) has passed
    half,          \* the cut up to which the next line was already returned
    console_ports, \* self._console_ports: a partial function of the consoles
    results        \* what the parse_port() calls returned so far

vars == <<output, requests, written, tail, read, half, console_ports, results>>

None == "none"

TypeOK ==
    /\ output \in Seq(Consoles)
    /\ requests \in Seq(Consoles)
    /\ written \in 0..Len(output) /\ read \in 0..written
    /\ tail \in Cuts \cup {None} /\ half \in Cuts \cup {None}
    /\ DOMAIN console_ports \subseteq Consoles
    /\ Len(results) <= Len(requests)

\* config["consoles"] may give two aliases to the same console.
Init ==
    /\ output \in SetToSeqs(Consoles)
    /\ requests \in BoundedSeq(Consoles, MaxRequests)
    /\ written = 0
    /\ tail = None
    /\ read = 0
    /\ half = None
    /\ console_ports = <<>>
    /\ results = <<>>

-----------------------------------------------------------------------------
(* The FVP. *)

WriteLine ==
    /\ written < Len(output)
    /\ written' = written + 1
    /\ tail' = None
    /\ UNCHANGED <<output, requests, read, half, console_ports, results>>

WritePart ==
    /\ written < Len(output)
    /\ tail = None
    /\ tail' \in Cuts
    /\ UNCHANGED <<output, requests, written, read, half, console_ports, results>>

-----------------------------------------------------------------------------
(* What re.search() finds in a line, or in a part of one. *)

NoMatch == {}
Match(console, port) == {[console |-> console, port |-> port]}

\* The first part of a line cut at k: the number of a port may be truncated.
HeadMatches(c, k) ==
    CASE k = "digits" -> Match(c, Port[c] \div 10)
      [] k = "newline" -> Match(c, Port[c])
      [] OTHER -> NoMatch

\* The rest of it: what remains of a name may be another console's name.
TailMatches(c, k) ==
    CASE k = None -> Match(c, Port[c])
      [] k = "name" -> UNION {Match(d, Port[c]) : d \in NameSuffix[c]}
      [] OTHER -> NoMatch

-----------------------------------------------------------------------------
(* parse_port(), called for one console after the other. *)

Pending == Len(results) < Len(requests)
Console == requests[Len(results) + 1]

FromCache ==
    /\ Pending
    /\ Console \in DOMAIN console_ports
    /\ results' = Append(results, console_ports[Console])
    /\ UNCHANGED <<output, requests, written, tail, read, half, console_ports>>

\* Mutant: the first port found is the result, whichever console it is for.
TakeAny(matches) ==
    IF matches = NoMatch
    THEN UNCHANGED <<console_ports, results>>
    ELSE /\ \E m \in matches : results' = Append(results, m.port)
         /\ UNCHANGED console_ports

\* Mutant: the ports of other consoles are not kept.
DropOthers(matches) ==
    \/ /\ \A m \in matches : m.console # Console
       /\ UNCHANGED <<console_ports, results>>
    \/ \E m \in matches :
          /\ m.console = Console
          /\ results' = Append(results, m.port)
          /\ UNCHANGED console_ports

\* A line that announces the wanted console is the result; the port of any
\* other console is kept for a later call.
Examine(matches) ==
    \/ /\ matches = NoMatch
       /\ UNCHANGED <<console_ports, results>>
    \/ \E m \in matches :
          IF m.console = Console
          THEN /\ results' = Append(results, m.port)
               /\ UNCHANGED console_ports
          ELSE /\ console_ports' = [c \in DOMAIN console_ports \cup {m.console} |->
                                      IF c = m.console THEN m.port ELSE console_ports[c]]
               /\ UNCHANGED results

\* next(self._lines) returns the rest of a line that is complete by now ...
ReadLine ==
    /\ Pending
    /\ Console \notin DOMAIN console_ports
    /\ read < written
    /\ Examine(TailMatches(output[read + 1], half))
    /\ read' = read + 1
    /\ half' = None
    /\ UNCHANGED <<output, requests, written, tail>>

\* Mutant: the part of a line is taken for the whole, the rest is not read.
ReadPartOnly ==
    /\ Pending
    /\ Console \notin DOMAIN console_ports
    /\ read = written
    /\ tail # None /\ half = None
    /\ Examine(HeadMatches(output[read + 1], tail))
    /\ read' = read + 1
    /\ UNCHANGED <<output, requests, written, tail, half>>

\* ... or all there is of the one that ends the file; at the very end of the
\* file it raises StopIteration, and the loop tries again.
ReadPart ==
    /\ Pending
    /\ Console \notin DOMAIN console_ports
    /\ read = written
    /\ tail # None /\ half = None
    /\ Examine(HeadMatches(output[read + 1], tail))
    /\ half' = tail
    /\ UNCHANGED <<output, requests, written, tail, read>>

ParsePort == FromCache \/ ReadLine \/ ReadPart

Next == WriteLine \/ WritePart \/ ParsePort

\* The FVP goes on to announce its consoles, and the caller's thread runs.
Spec == Init /\ [][Next]_vars /\ WF_vars(WriteLine) /\ WF_vars(ParsePort)

-----------------------------------------------------------------------------
(* Properties. *)

\* Each parse_port() returns the port its console listens on, not that of
\* another console and not a truncated number.
PortCorrect ==
    \A n \in DOMAIN results : results[n] = Port[requests[n]]

\* No announcement that was passed while looking for another console is lost:
\* it is in the cache, or it was a result.
NothingForgotten ==
    \A n \in 1..read :
        \/ output[n] \in DOMAIN console_ports
        \/ \E m \in DOMAIN results : requests[m] = output[n]

Distinct == IsInjective(requests)

\* Every entry of config["consoles"] gets its port, whatever the order of the
\* announcements, as long as no two aliases name the same console.
DistinctEntriesConnected == Distinct ~> ~Pending

-----------------------------------------------------------------------------
(* What the documentation says, and the code does not do. *)

\* oeqa-fvp.md: "launches a Pexpect instance for each entry in FVP_CONSOLES".
EveryEntryConnected == <>~Pending
=============================================================================
