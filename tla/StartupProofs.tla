--------------------------- MODULE StartupProofs ---------------------------
(***************************************************************************)
(* Startup keeps one width per collection, for any number of workers, API  *)
(* processes, models, deployments and crashes.                             *)
(***************************************************************************)
EXTENDS Startup, TLAPS

USE DEF Processes

\* What a worker past its check of the collection knows of it.
Agreed ==
    \A w \in Workers :
        /\ pc[w] \in {"describe", "index", "running"} => collection # NoCollection
        /\ pc[w] \in {"index", "running"} => width[w] = collection.width

\* The inductive invariant of OneWidth.
WidthInv == TypeOK /\ Agreed /\ OneWidth

\* A process that goes elsewhere leaves the positions of all others alone.
LEMMA GotoMoves ==
    ASSUME TypeOK, NEW p \in Processes,
           NEW l \in {"down", "exists", "describe", "create", "index", "running"}, Goto(p, l)
    PROVE  /\ pc' = [pc EXCEPT ![p] = l]
           /\ pc' \in [Processes -> {"down", "exists", "describe", "create", "index", "running"}]
           /\ width' \in [Processes -> Nat]
           /\ l # "down" => width' = width
           /\ \A q \in Processes : q # p => width'[q] = width[q]
    BY DEF TypeOK, Goto

\* Likewise one that loads its model.
LEMMA StartedMoves ==
    ASSUME StartupAssumption, TypeOK, NEW p \in Processes,
           NEW l \in {"exists", "running"}, NEW accepted, Started(p, l, accepted)
    PROVE  /\ pc' \in [Processes -> {"down", "exists", "describe", "create", "index", "running"}]
           /\ width' \in [Processes -> Nat]
           /\ pc'[p] \in {"down", l}
           /\ \A q \in Processes : q # p => width'[q] = width[q] /\ pc'[q] = pc[q]
    <1>1. PICK v \in Widths[model[p]] :
              \/ pc' = [pc EXCEPT ![p] = l] /\ width' = [width EXCEPT ![p] = v]
              \/ UNCHANGED <<pc, width>>
        BY DEF Started
    <1>2. v \in Nat BY DEF TypeOK, StartupAssumption
    <1>3. pc[p] = "down" BY DEF Started
    <1> QED BY <1>1, <1>2, <1>3 DEF TypeOK

\* A step of the startups keeps the state well typed.
LEMMA TypeStep == ASSUME StartupAssumption, TypeOK, [Next]_vars PROVE TypeOK'
    <1> Len(Fields) = 2 /\ Fields[1] = "user_id" /\ Fields[2] = "document_id" BY DEF Fields
    <1>a. \A w \in Processes : field[w] \in {1, 2} /\ Fields[field[w]] \in IndexedFields
        BY DEF TypeOK, IndexedFields
    <1>1. ASSUME NEW w \in Workers, Load(w) PROVE TypeOK'
        BY <1>1, StartedMoves DEF Load, TypeOK, bounds
    <1>2. ASSUME NEW w \in Workers, Exists(w) PROVE TypeOK'
        BY <1>2, GotoMoves DEF Exists, TypeOK, bounds
    <1>3. ASSUME NEW w \in Workers, Describe(w) PROVE TypeOK'
        BY <1>3, GotoMoves DEF Describe, TypeOK, bounds
    <1>4. ASSUME NEW w \in Workers, Create(w) PROVE TypeOK'
        BY <1>4, GotoMoves DEF Create, TypeOK, bounds, Collection
    <1>5. ASSUME NEW w \in Workers, Index(w) PROVE TypeOK'
        <2>1. CASE field[w] = Len(Fields)
            BY <1>5, <2>1, GotoMoves DEF Index, TypeOK, bounds, IndexedFields
        <2>2. CASE field[w] # Len(Fields)
            <3>1. field[w] = 1 BY <1>a, <2>2
            <3>2. field' = [field EXCEPT ![w] = 2] BY <1>5, <2>2, <3>1 DEF Index, TypeOK
            <3>3. field' \in [Processes -> 1..Len(Fields)] BY <3>2 DEF TypeOK
            <3>4. indexed' \subseteq IndexedFields BY <1>5, <1>a DEF Index, TypeOK
            <3> QED BY <1>5, <2>2, <3>3, <3>4 DEF Index, TypeOK, bounds
        <2> QED BY <2>1, <2>2
    <1>6. ASSUME NEW w \in Workers, CallFails(w) PROVE TypeOK'
        <2>1. Goto(w, "down") BY <1>6 DEF CallFails
        <2>2. collection' \in Collection \cup {NoCollection} /\ indexed' \subseteq IndexedFields
            BY <1>6, <1>a DEF CallFails, TypeOK, Collection
        <2> QED BY <1>6, <2>1, <2>2, GotoMoves DEF CallFails, TypeOK, bounds
    <1>7. ASSUME NEW w \in Workers, Embed(w) PROVE TypeOK'
        BY <1>7 DEF Embed, TypeOK, bounds, Collection
    <1>8. ASSUME NEW a \in Apis, Boot(a) PROVE TypeOK'
        BY <1>8, StartedMoves DEF Boot, TypeOK, bounds
    <1>9. ASSUME NEW p \in Processes, Crash(p) PROVE TypeOK'
        BY <1>9, GotoMoves DEF Crash, TypeOK, bounds, StartupAssumption
    <1>10. ASSUME NEW p \in Processes, Deploy(p) PROVE TypeOK'
        BY <1>10, GotoMoves DEF Deploy, TypeOK, bounds, StartupAssumption
    <1>11. CASE Steady \/ UNCHANGED vars
        BY <1>11 DEF Steady, TypeOK, bounds, vars
    <1> QED
        BY <1>1, <1>2, <1>3, <1>4, <1>5, <1>6, <1>7, <1>8, <1>9, <1>10, <1>11 DEF Next, Step

\* A step keeps the workers and the vectors in agreement with the collection.
LEMMA WidthStep ==
    ASSUME StartupAssumption, WidthInv, [Next]_vars PROVE Agreed' /\ OneWidth'
    <1> USE DEF WidthInv
    <1>1. ASSUME NEW w \in Workers, Load(w) PROVE Agreed' /\ OneWidth'
        BY <1>1, StartedMoves DEF Load, Agreed, OneWidth
    <1>2. ASSUME NEW w \in Workers, Exists(w) PROVE Agreed' /\ OneWidth'
        BY <1>2, GotoMoves DEF Exists, Agreed, OneWidth, TypeOK
    <1>3. ASSUME NEW w \in Workers, Describe(w) PROVE Agreed' /\ OneWidth'
        BY <1>3, GotoMoves DEF Describe, Agreed, OneWidth, TypeOK
    <1>4. ASSUME NEW w \in Workers, Create(w) PROVE Agreed' /\ OneWidth'
        <2>1. CASE collection = NoCollection
            <3>1. collection' = [width |-> width[w], by |-> model[w]] /\ Goto(w, "index")
                BY <1>4, <2>1 DEF Create
            <3>2. collection' # NoCollection BY <3>1 DEF TypeOK, StartupAssumption
            <3>3. Agreed' BY <1>4, <2>1, <3>1, <3>2, GotoMoves DEF Agreed, TypeOK
            <3>4. OneWidth' BY <1>4, <2>1 DEF Create, OneWidth
            <3> QED BY <3>3, <3>4
        <2>2. CASE collection # NoCollection
            BY <1>4, <2>2, GotoMoves DEF Create, Agreed, OneWidth, TypeOK
        <2> QED BY <2>1, <2>2
    <1>5. ASSUME NEW w \in Workers, Index(w) PROVE Agreed' /\ OneWidth'
        BY <1>5, GotoMoves DEF Index, Agreed, OneWidth, TypeOK
    <1>6. ASSUME NEW w \in Workers, CallFails(w) PROVE Agreed' /\ OneWidth'
        <2>1. Goto(w, "down") BY <1>6 DEF CallFails
        <2>2. CASE collection = NoCollection
            <3>1. \A u \in Workers : pc[u] \notin {"describe", "index", "running"}
                BY <2>2 DEF Agreed
            <3>2. \A u \in Workers : pc'[u] \notin {"describe", "index", "running"}
                BY <2>1, <3>1, GotoMoves DEF TypeOK
            <3>3. vectors' = {} BY <1>6, <2>2 DEF CallFails, OneWidth
            <3> QED BY <3>2, <3>3 DEF Agreed, OneWidth
        <2>3. CASE collection # NoCollection
            <3>1. UNCHANGED <<collection, vectors>> BY <1>6, <2>3 DEF CallFails
            <3> QED BY <2>1, <3>1, GotoMoves DEF Agreed, OneWidth, TypeOK
        <2> QED BY <2>2, <2>3
    <1>7. ASSUME NEW w \in Workers, Embed(w) PROVE Agreed' /\ OneWidth'
        BY <1>7 DEF Embed, Agreed, OneWidth
    <1>8. ASSUME NEW a \in Apis, Boot(a) PROVE Agreed' /\ OneWidth'
        BY <1>8, StartedMoves DEF Boot, Agreed, OneWidth, StartupAssumption
    <1>9. ASSUME NEW p \in Processes, Crash(p) PROVE Agreed' /\ OneWidth'
        BY <1>9, GotoMoves DEF Crash, Agreed, OneWidth, TypeOK
    <1>10. ASSUME NEW p \in Processes, Deploy(p) PROVE Agreed' /\ OneWidth'
        <2>1. Goto(p, "down") /\ UNCHANGED <<collection, vectors>> BY <1>10 DEF Deploy
        <2>2. /\ pc'[p] = "down"
              /\ \A w \in Workers : w # p => pc'[w] = pc[w] /\ width'[w] = width[w]
            BY <2>1, GotoMoves DEF TypeOK
        <2> QED BY <2>1, <2>2 DEF Agreed, OneWidth
    <1>11. CASE Steady \/ UNCHANGED vars
        BY <1>11 DEF Steady, Agreed, OneWidth, vars
    <1> QED
        BY <1>1, <1>2, <1>3, <1>4, <1>5, <1>6, <1>7, <1>8, <1>9, <1>10, <1>11 DEF Next, Step

\* The processes start well typed, with no collection and no vectors.
LEMMA StartInit == ASSUME StartupAssumption, Init PROVE WidthInv
    BY DEF Init, WidthInv, TypeOK, Agreed, OneWidth, StartupAssumption, Fields

\* However workers race in ensure_collection, crash and change their models, the
\* collection only ever holds vectors of its own width.
THEOREM VectorsAreOfOneWidth == Spec => []OneWidth
    <1>1. Init => WidthInv BY StartInit, StartupAssumption
    <1>2. WidthInv /\ [Next]_vars => WidthInv'
        BY TypeStep, WidthStep, StartupAssumption DEF WidthInv
    <1>3. WidthInv => OneWidth BY DEF WidthInv
    <1> QED BY <1>1, <1>2, <1>3, PTL DEF Spec

=============================================================================
