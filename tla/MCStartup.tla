----------------------------- MODULE MCStartup -----------------------------
(***************************************************************************)
(* Instances of Startup for TLC.                                           *)
(***************************************************************************)
EXTENDS Startup, TLC

CONSTANTS w1, w2, a1, small, brief, odd

TwoWorkers == {w1, w2}
OneApi == {a1}

\* `odd` is in no catalogue and its sessions differ in width; `brief` reads less
\* than a whole chunk, and not every session of it has the width it declares.
AllModels == {small, brief, odd}

MCWidths == [m \in Models |-> IF m = small THEN {1} ELSE {1, 2}]
MCDeclared == [m \in Models |-> IF m = odd THEN 0 ELSE IF m = brief THEN 2 ELSE 1]
MCInputLimit == [m \in Models |-> IF m = brief THEN 5 ELSE 6]

=============================================================================
