------------------------------ MODULE Terminals ------------------------------
(***************************************************************************)
(* meta-arm/lib/fvp/terminal.py: the terminal programs runfvp knows, which *)
(* of them can be used in an environment, and which one it prefers.        *)
(***************************************************************************)
EXTENDS Integers, Sequences, FiniteSets, SequencesExt

Unset == "unset"    \* no value: Python's None

\* A registered terminal: "none" is the one without a command.
Terminal(priority, name, command) ==
    [priority |-> priority, name |-> name, command |-> command]

\* add_terminal() appends and sorts; the sort is stable, so the new terminal
\* comes after all those whose priority is at least its own.
AddTerminal(ts, t) ==
    InsertAt(ts, 1 + Cardinality({k \in DOMAIN ts : ts[k].priority >= t.priority}), t)

terminals ==
    LET one   == AddTerminal(<<>>, Terminal(2, "screen", TRUE))
        two   == AddTerminal(one, Terminal(2, "tmux", TRUE))
        three == AddTerminal(two, Terminal(2, "gnome-terminal", TRUE))
        four  == AddTerminal(three, Terminal(1, "xterm", TRUE))
    IN  AddTerminal(four, Terminal(0, "none", FALSE))

name_map == {terminals[k].name : k \in DOMAIN terminals}

(***************************************************************************)
(* What the environment offers: the programs that run when they are asked  *)
(* for their version, a display, a screen session ($STY), and the terminal *)
(* named in runfvp.conf, which need not be one that is registered.         *)
(***************************************************************************)
Environments ==
    [executables : SUBSET (name_map \ {"none"}),
     display : BOOLEAN, sty : BOOLEAN,
     configured : name_map \cup {Unset, "unknown"}]

\* screen_is_ready() and its like; always_ready() for "none".
IsReady(name, env) ==
    \/ name = "none"
    \/ /\ name \in env.executables
       /\ name = "screen" => env.sty
       /\ name \in {"gnome-terminal", "xterm"} => env.display

PreferredTerminal(env) ==
    LET usable == {k \in DOMAIN terminals :
                     terminals[k].command /\ IsReady(terminals[k].name, env)}
    IN  CASE env.configured # Unset -> env.configured
          [] env.configured = Unset /\ usable # {} -> terminals[Min(usable)].name
          [] OTHER -> Last(terminals).name
=============================================================================
