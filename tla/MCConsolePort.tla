---------------------------- MODULE MCConsolePort ----------------------------
(* Small instance of ConsolePort: the three consoles of an FVP, one of which *)
(* has a name that ends another one's.                                       *)
EXTENDS ConsolePort

MCConsoles == {"s_terminal_0", "terminal_0", "terminal_1"}
MCPort == [c \in MCConsoles |-> CASE c = "terminal_0" -> 5000
                                  [] c = "terminal_1" -> 5001
                                  [] c = "s_terminal_0" -> 5002]
MCNameSuffix == [c \in MCConsoles |-> IF c = "s_terminal_0" THEN {"terminal_0"} ELSE {}]
=============================================================================
