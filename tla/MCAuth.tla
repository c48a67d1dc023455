------------------------------- MODULE MCAuth -------------------------------
(***************************************************************************)
(* Instances of Auth for TLC.  Two ways of typing one password, one that   *)
(* agrees with it in the bytes bcrypt reads, and one that is too short.    *)
(***************************************************************************)
EXTENDS Auth, TLC

CONSTANTS c1, c2, e1

TwoClients == {c1, c2}
OneClient == {c1}
OneEmail == {e1}

MCRaw == {"typed", "typedFullWidth", "longer", "short"}
ReadAndWrite == {"document:read", "document:write"}
Demotion == {"viewer"}
MCForms == {"enrolled", "enrolledAndMore", "little"}
MCFormOf == [p \in Raw |-> IF p = "longer" THEN "enrolledAndMore"
                           ELSE IF p = "short" THEN "little" ELSE "enrolled"]
MCSize == [f \in Forms |->
              IF f = "little" THEN [chars |-> 1, bytes |-> 1, nul |-> FALSE]
              ELSE IF f = "enrolled" THEN [chars |-> 2, bytes |-> 3, nul |-> FALSE]
              ELSE [chars |-> 3, bytes |-> 4, nul |-> FALSE]]
MCPrefixOf == [f \in Forms |-> IF f = "enrolledAndMore" THEN "enrolled" ELSE f]

=============================================================================
