------------------------- MODULE ConsolePortProofs -------------------------
(***************************************************************************)
(* parse_port() for any number of consoles, announced and asked for in any *)
(* order, when no line is read before all of it but its end is there: the  *)
(* ports are right and none is forgotten.  With other cuts they are not    *)
(* (the run console_port_cut), so Whole is an assumption of the theorems.  *)
(***************************************************************************)
EXTENDS ConsolePort, FiniteSetTheorems, TLAPS

\* A line is read in part only up to its newline.
Whole == Cuts \subseteq {"newline"}

-----------------------------------------------------------------------------
(***************************************************************************)
(* The inductive invariant.  To the two properties it adds that the cache  *)
(* has the right ports, and that of a line returned without its newline    *)
(* the announcement has been dealt with: the rest of it says nothing.      *)
(***************************************************************************)
Settled(c) == c \in DOMAIN console_ports \/ \E m \in DOMAIN results : requests[m] = c

Ports ==
    /\ \A c \in DOMAIN console_ports : console_ports[c] = Port[c]
    /\ results \in Seq(Nat)
    /\ PortCorrect

Lines ==
    /\ tail # None => written < Len(output)
    /\ half # None => read < Len(output) /\ Settled(output[read + 1])
    /\ \A n \in 1..read : Settled(output[n])

Inv == TypeOK /\ Ports /\ Lines

LEMMA InvInit == Init => Inv
<1> SUFFICES ASSUME Init PROVE Inv
  OBVIOUS
<1> USE ConsolesAssumption, MaxRequestsAssumption
<1>1. output \in Seq(Consoles)
  <2>1. Cardinality(Consoles) \in Nat
    BY FS_CardinalityType
  <2>2. output \in [1..Cardinality(Consoles) -> Consoles]
    BY DEF Init, SetToSeqs
  <2> QED
    BY <2>1, <2>2
<1>2. requests \in Seq(Consoles)
  <2>1. PICK m \in 0..MaxRequests : requests \in [1..m -> Consoles]
    BY DEF Init, BoundedSeq, SeqOf
  <2> QED
    BY <2>1
<1>3. DOMAIN console_ports = {} /\ results \in Seq(Nat) /\ Len(results) = 0
  BY DEF Init
<1>4. Len(output) \in Nat /\ Len(requests) \in Nat
  BY <1>1, <1>2
<1>5. written = 0 /\ read = 0 /\ tail = None /\ half = None
  BY DEF Init
<1>6. TypeOK
  BY <1>1, <1>2, <1>3, <1>4, <1>5 DEF TypeOK
<1>7. DOMAIN results = {}
  BY <1>3
<1> QED
  BY <1>3, <1>5, <1>6, <1>7 DEF Inv, Ports, Lines, PortCorrect

-----------------------------------------------------------------------------
\* What is settled stays so: neither the cache nor the results ever shrink.
LEMMA ExamineKeeps ==
    ASSUME Inv, Pending, NEW c \in Consoles,
           Examine(Match(c, Port[c])), UNCHANGED requests
    PROVE  /\ DOMAIN console_ports' \subseteq Consoles /\ Len(results') <= Len(requests)
           /\ Ports'
           /\ Settled(c)' /\ \A d : Settled(d) => Settled(d)'
<1> DEFINE match == [console |-> c, port |-> Port[c]]
<1>1. /\ requests \in Seq(Consoles) /\ results \in Seq(Nat) /\ Port[c] \in Nat
      /\ Len(results) < Len(requests)
      /\ DOMAIN console_ports \subseteq Consoles
  BY PortAssumption DEF Inv, TypeOK, Ports, Pending
<1>2. \/ /\ c = Console
         /\ results' = Append(results, Port[c]) /\ UNCHANGED console_ports
      \/ /\ console_ports' = [d \in DOMAIN console_ports \cup {c} |->
                                 IF d = c THEN Port[c] ELSE console_ports[d]]
         /\ UNCHANGED results
  <2>1. Match(c, Port[c]) = {match} /\ Match(c, Port[c]) # NoMatch
    BY DEF Match, NoMatch
  <2> QED
    BY <2>1 DEF Examine
<1>3. CASE c = Console /\ results' = Append(results, Port[c]) /\ UNCHANGED console_ports
  <2>1. /\ results' \in Seq(Nat) /\ Len(results') = Len(results) + 1
        /\ DOMAIN results' = DOMAIN results \cup {Len(results) + 1}
        /\ \A n \in DOMAIN results : results'[n] = results[n]
        /\ results'[Len(results) + 1] = Port[requests[Len(results) + 1]]
    BY <1>1, <1>3 DEF Console
  <2>2. Ports'
    BY <1>3, <2>1 DEF Inv, Ports, PortCorrect
  <2>3. Settled(c)' /\ \A d : Settled(d) => Settled(d)'
    BY <1>3, <2>1 DEF Settled, Console
  <2> QED
    BY <1>1, <1>3, <2>1, <2>2, <2>3
<1>4. CASE /\ console_ports' = [d \in DOMAIN console_ports \cup {c} |->
                                  IF d = c THEN Port[c] ELSE console_ports[d]]
           /\ UNCHANGED results
  <2>1. Ports'
    BY <1>4 DEF Inv, Ports, PortCorrect
  <2>2. Settled(c)' /\ \A d : Settled(d) => Settled(d)'
    BY <1>4 DEF Settled
  <2> QED
    BY <1>1, <1>4, <2>1, <2>2
<1> QED
  BY <1>2, <1>3, <1>4

\* A step that leaves the parser and what is settled alone.
LEMMA NothingSettled ==
    ASSUME Inv, UNCHANGED <<output, requests, console_ports, results>>
    PROVE  /\ output \in Seq(Consoles) /\ requests \in Seq(Consoles)
           /\ DOMAIN console_ports' \subseteq Consoles /\ Len(results') <= Len(requests')
           /\ Ports' /\ \A d : Settled(d) => Settled(d)'
BY DEF Inv, TypeOK, Ports, PortCorrect, Settled

LEMMA WriteInv == Inv /\ (WriteLine \/ WritePart) => Inv'
<1> SUFFICES ASSUME Inv, WriteLine \/ WritePart PROVE Inv'
  OBVIOUS
<1>1. UNCHANGED <<output, requests, read, half, console_ports, results>>
  BY DEF WriteLine, WritePart
<1>2. /\ written' \in written..Len(output) /\ tail' \in Cuts \cup {None}
      /\ tail' # None => written' < Len(output)
      /\ Len(output) \in Nat /\ written \in Nat
  BY DEF WriteLine, WritePart, Inv, TypeOK
<1>3. TypeOK'
  BY <1>1, <1>2, NothingSettled DEF Inv, TypeOK
<1>4. Lines'
  BY <1>1, <1>2 DEF Inv, Lines, Settled
<1> QED
  BY <1>1, <1>3, <1>4, NothingSettled DEF Inv

LEMMA FromCacheInv == Inv /\ FromCache => Inv'
<1> SUFFICES ASSUME Inv, FromCache PROVE Inv'
  OBVIOUS
<1>1. /\ UNCHANGED <<output, requests, written, tail, read, half, console_ports>>
      /\ requests \in Seq(Consoles) /\ results \in Seq(Nat)
      /\ Len(results) < Len(requests) /\ Console \in Consoles
      /\ results' = Append(results, Port[Console]) /\ Port[Console] \in Nat
  BY PortAssumption DEF FromCache, Pending, Inv, TypeOK, Ports
<1>2. /\ results' \in Seq(Nat) /\ Len(results') = Len(results) + 1
      /\ DOMAIN results' = DOMAIN results \cup {Len(results) + 1}
      /\ \A n \in DOMAIN results : results'[n] = results[n]
      /\ results'[Len(results) + 1] = Port[requests[Len(results) + 1]]
  BY <1>1 DEF Console
<1>3. TypeOK'
  BY <1>1, <1>2 DEF Inv, TypeOK
<1>4. Ports'
  BY <1>1, <1>2 DEF Inv, Ports, PortCorrect
<1>5. Lines'
  <2>1. \A d : Settled(d) => Settled(d)'
    BY <1>1, <1>2 DEF Settled
  <2> QED
    BY <1>1, <2>1 DEF Inv, Lines
<1> QED
  BY <1>3, <1>4, <1>5 DEF Inv

\* The rest of a line: all of it, or nothing but its newline.
LEMMA ReadLineInv == Whole /\ Inv /\ ReadLine => Inv'
<1> SUFFICES ASSUME Whole, Inv, ReadLine PROVE Inv'
  OBVIOUS
<1>1. /\ UNCHANGED <<output, requests, written, tail>>
      /\ read' = read + 1 /\ half' = None /\ Pending
      /\ Examine(TailMatches(output[read + 1], half))
  BY DEF ReadLine
<1>2. /\ output \in Seq(Consoles) /\ Len(output) \in Nat
      /\ read \in Nat /\ written \in Nat /\ read < written /\ written <= Len(output)
      /\ half \in {None, "newline"}
  BY DEF ReadLine, Inv, TypeOK, Whole
<1>3. output[read + 1] \in Consoles
  BY <1>2
<1> PICK c \in Consoles : c = output[read + 1]
  BY <1>3
<1>4. /\ DOMAIN console_ports' \subseteq Consoles /\ Len(results') <= Len(requests)
      /\ Ports'
      /\ Settled(c)' /\ \A d : Settled(d) => Settled(d)'
  <2>1. CASE half = None
    <3>1. TailMatches(c, half) = Match(c, Port[c])
      BY <2>1 DEF TailMatches, None
    <3>2. Examine(Match(c, Port[c]))
      BY <1>1, <3>1
    <3> QED
      BY <1>1, <3>2, ExamineKeeps
  <2>2. CASE half = "newline"
    <3>1. TailMatches(c, half) = NoMatch /\ half # None
      BY <2>2 DEF TailMatches, None
    <3>2. UNCHANGED <<console_ports, results>>
      BY <1>1, <3>1 DEF Examine, NoMatch
    <3>3. Settled(c)
      BY <3>1 DEF Inv, Lines
    <3>4. UNCHANGED <<output, requests, console_ports, results>>
      BY <1>1, <3>2
    <3>5. /\ DOMAIN console_ports' \subseteq Consoles /\ Len(results') <= Len(requests)
          /\ Ports' /\ \A d : Settled(d) => Settled(d)'
      BY <1>1, <3>4, NothingSettled
    <3> QED
      BY <3>3, <3>5
  <2> QED
    BY <1>2, <2>1, <2>2
<1>5. TypeOK'
  BY <1>1, <1>2, <1>4 DEF Inv, TypeOK
<1>6. Lines'
  <2>1. ASSUME NEW n \in 1..(read + 1)
        PROVE  output[n] \in DOMAIN console_ports' \/ \E m \in DOMAIN results' : requests'[m] = output[n]
    <3>1. PICK d : d = output[n]
      OBVIOUS
    <3>2. Settled(d) \/ d = c
      BY <1>2, <3>1 DEF Inv, Lines
    <3>3. Settled(d)'
      BY <1>4, <3>2
    <3> QED
      BY <3>1, <3>3 DEF Settled
  <2> QED
    BY <1>1, <1>2, <2>1 DEF Inv, Lines, Settled
<1> QED
  BY <1>4, <1>5, <1>6 DEF Inv

\* All of a line but its newline.
LEMMA ReadPartInv == Whole /\ Inv /\ ReadPart => Inv'
<1> SUFFICES ASSUME Whole, Inv, ReadPart PROVE Inv'
  OBVIOUS
<1> DEFINE c == output[read + 1]
<1>1. /\ UNCHANGED <<output, requests, written, tail, read>>
      /\ half' = tail /\ Pending /\ tail \in Cuts /\ tail = "newline"
      /\ read = written /\ read < Len(output) /\ read \in Nat /\ Len(output) \in Nat
      /\ c \in Consoles
      /\ Examine(HeadMatches(c, tail))
  <2>1. /\ UNCHANGED <<output, requests, written, tail, read>> /\ half' = tail
        /\ Pending /\ tail # None /\ read = written
        /\ Examine(HeadMatches(c, tail))
    BY Zenon DEF ReadPart
  <2>2. output \in Seq(Consoles) /\ written \in 0..Len(output) /\ tail \in Cuts \cup {None}
    BY DEF Inv, TypeOK
  <2>3. Len(output) \in Nat
    BY <2>2
  <2>4. tail \in Cuts /\ tail = "newline"
    BY <2>1, <2>2 DEF Whole
  <2>5. written < Len(output)
    BY <2>1 DEF Inv, Lines
  <2>6. read \in Nat /\ read < Len(output)
    BY <2>1, <2>2, <2>3, <2>5
  <2>7. c \in Consoles
    BY <2>2, <2>3, <2>6
  <2> QED
    BY <2>1, <2>3, <2>4, <2>6, <2>7
<1>2. Examine(Match(c, Port[c]))
  BY <1>1 DEF HeadMatches
<1>3. /\ DOMAIN console_ports' \subseteq Consoles /\ Len(results') <= Len(requests)
      /\ Ports'
      /\ Settled(c)' /\ \A d : Settled(d) => Settled(d)'
  BY <1>1, <1>2, ExamineKeeps
<1>4. TypeOK'
  BY <1>1, <1>3 DEF Inv, TypeOK
<1>5. Lines'
  <2>1. \A n \in 1..read : Settled(output[n])'
    BY <1>1, <1>3 DEF Inv, Lines, Settled
  <2> QED
    BY <1>1, <1>3, <2>1 DEF Inv, Lines
<1> QED
  BY <1>3, <1>4, <1>5 DEF Inv

LEMMA InvNext == Whole /\ Inv /\ [Next]_vars => Inv'
<1> SUFFICES ASSUME Whole, Inv, [Next]_vars PROVE Inv'
  OBVIOUS
<1>1. CASE Next
  BY <1>1, WriteInv, FromCacheInv, ReadLineInv, ReadPartInv DEF Next, ParsePort
<1>2. CASE UNCHANGED vars
  BY <1>2 DEF vars, Inv, TypeOK, Ports, PortCorrect, Lines, Settled
<1> QED
  BY <1>1, <1>2

LEMMA ParserInvariant == ASSUME Whole PROVE Spec => []Inv
<1>1. Inv /\ [Next]_vars => Inv'
  BY InvNext
<1> QED
  BY <1>1, InvInit, PTL DEF Spec

-----------------------------------------------------------------------------
\* The lines that next(self._lines) has returned, in full or up to their newline.
Seen == 1..(IF half = None THEN read ELSE read + 1)

\* self._console_ports has no console but those of such lines, with their ports.
TableIsOfTheLog ==
    \A c \in DOMAIN console_ports :
        console_ports[c] = Port[c] /\ \E n \in Seen : output[n] = c

\* A line adds no other console than its own to the table.
LEMMA ExamineAdds ==
    ASSUME NEW c, \/ Examine(Match(c, Port[c]))
                  \/ Examine(NoMatch)
    PROVE  DOMAIN console_ports' \subseteq DOMAIN console_ports \cup {c}
<1>1. \A m \in Match(c, Port[c]) : m.console = c
  BY DEF Match
<1> QED
  BY <1>1 DEF Examine, NoMatch

LEMMA TableNext == Whole /\ Inv /\ TableIsOfTheLog /\ [Next]_vars => TableIsOfTheLog'
<1> SUFFICES ASSUME Whole, Inv, TableIsOfTheLog, [Next]_vars PROVE TableIsOfTheLog'
  OBVIOUS
<1>1. /\ output' = output /\ read \in Nat
      /\ \A c \in DOMAIN console_ports' : console_ports'[c] = Port[c]
  <2>1. Inv'
    BY InvNext
  <2>2. output' = output
    BY DEF Next, WriteLine, WritePart, ParsePort, FromCache, ReadLine, ReadPart, vars
  <2> QED
    BY <2>1, <2>2 DEF Inv, Ports, TypeOK
<1>2. CASE UNCHANGED <<read, half, console_ports>>
  BY <1>1, <1>2 DEF TableIsOfTheLog, Seen
<1>3. CASE ReadLine \/ ReadPart
  <2> DEFINE c == output[read + 1]
  <2>1. /\ Seen \subseteq Seen' /\ read + 1 \in Seen'
    <3>1. CASE ReadLine
      BY <1>1, <3>1 DEF ReadLine, Seen
    <3>2. CASE ReadPart
      BY <1>1, <3>2 DEF ReadPart, Seen
    <3> QED
      BY <1>3, <3>1, <3>2
  <2>2. DOMAIN console_ports' \subseteq DOMAIN console_ports \cup {c}
    <3>1. CASE ReadLine
      <4>1. half \in {None, "newline"}
        BY DEF Inv, TypeOK, Whole
      <4>2. TailMatches(c, half) \in {Match(c, Port[c]), NoMatch}
        BY <4>1 DEF TailMatches, None
      <4>3. Examine(TailMatches(c, half))
        BY <3>1 DEF ReadLine
      <4> QED
        BY <4>2, <4>3, ExamineAdds
    <3>2. CASE ReadPart
      <4>1. tail = "newline"
        BY <3>2 DEF ReadPart, Inv, TypeOK, Whole
      <4>2. Examine(HeadMatches(c, tail))
        BY <3>2 DEF ReadPart
      <4>3. Examine(Match(c, Port[c]))
        BY <4>1, <4>2 DEF HeadMatches
      <4> QED
        BY <4>3, ExamineAdds
    <3> QED
      BY <1>3, <3>1, <3>2
  <2> QED
    BY <1>1, <2>1, <2>2 DEF TableIsOfTheLog
<1> QED
  BY <1>2, <1>3 DEF Next, WriteLine, WritePart, ParsePort, FromCache, vars

\* The parser is never ahead of the FVP, and its table only has consoles that the FVP
\* announced in a line it has read, each with the port of that line.
THEOREM ParserTypeCorrect == Whole => (Spec => [](TypeOK /\ TableIsOfTheLog))
<1> SUFFICES ASSUME Whole PROVE Spec => [](TypeOK /\ TableIsOfTheLog)
  OBVIOUS
<1>1. Inv => TypeOK
  BY DEF Inv
<1>2. Spec => []Inv
  BY ParserInvariant
<1>3. Init => TableIsOfTheLog
  BY DEF Init, TableIsOfTheLog
<1>4. Inv /\ TableIsOfTheLog /\ [Next]_vars => TableIsOfTheLog'
  BY TableNext
<1> QED
  BY <1>1, <1>2, <1>3, <1>4, PTL DEF Spec

\* In whatever order consoles are announced and asked for, and however often,
\* parse_port() never returns the port of another console.
THEOREM PortsAreCorrect == Whole => (Spec => []PortCorrect)
<1> SUFFICES ASSUME Whole PROVE Spec => []PortCorrect
  OBVIOUS
<1>1. Inv => PortCorrect
  BY DEF Inv, Ports
<1>2. Spec => []Inv
  BY ParserInvariant
<1> QED
  BY <1>1, <1>2, PTL

\* An announcement that was passed is in the cache, or it was a result.
THEOREM NothingIsForgotten == Whole => (Spec => []NothingForgotten)
<1> SUFFICES ASSUME Whole PROVE Spec => []NothingForgotten
  OBVIOUS
<1>1. Inv => NothingForgotten
  BY DEF Inv, Lines, Settled, NothingForgotten
<1>2. Spec => []Inv
  BY ParserInvariant
<1> QED
  BY <1>1, <1>2, PTL
=============================================================================
