---------------------------- MODULE StartupProofs ----------------------------
(***************************************************************************)
(* Theorems about Startup, for every number of replicas, crashes and       *)
(* edits, every schema and every database found: a replica that serves is  *)
(* complete, and deletions stick.                                          *)
(***************************************************************************)
EXTENDS Startup, TLAPS

-------------------------------------------------------------------------------
(* What a transaction writes *)

LEMMA PartsAre ==
    /\ PartOf("tables") = Tables /\ PartOf("columns") = Columns
    /\ PartOf("models") = Names["models"] /\ PartOf("creds") = Names["creds"]
BY DEF PartOf, Seeded

LEMMA PartsInThings ==
    ASSUME NEW p \in Parts
    PROVE  PartOf(p) \subseteq Things
<1>1. PartOf(p) \in {PartOf(q) : q \in Parts}
  OBVIOUS
<1> QED
  BY <1>1 DEF Things

\* Whatever a step found, it adds what belongs there.
LEMMA MissingTyped ==
    ASSUME NEW step \in Parts, NEW found
    PROVE  Missing(step, found) \subseteq PartOf(step)
<1>1. CASE step = "tables"
  BY <1>1, PartsAre DEF Missing
<1>2. CASE step = "columns"
  BY <1>2, PartsAre DEF Missing
<1>3. CASE step \in Seeded
  <2>1. FromEnv[step] \subseteq Names[step]
    BY <1>3, StartupAssumption
  <2>2. PartOf(step) = Names[step] /\ Missing(step, found) \subseteq FromEnv[step]
    BY <1>3 DEF Missing, PartOf, Seeded
  <2> QED
    BY <2>1, <2>2
<1> QED
  BY <1>1, <1>2, <1>3 DEF Parts

\* A commit adds to its part, the one of the tables to the columns as well, and
\* takes nothing away.
LEMMA WrittenIs ==
    ASSUME db \in ADatabase, NEW step \in Parts, NEW found,
           db' \in Written(step, Missing(step, found))
    PROVE  /\ db' \in ADatabase
           /\ db'[step] = db[step] \cup Missing(step, found)
           /\ \A p \in Parts : db[p] \subseteq db'[p]
           /\ \A p \in Parts \ {step} : p # "columns" \/ step # "tables" => db'[p] = db[p]
<1> DEFINE added == Missing(step, found)
<1>1. /\ db \in [Parts -> SUBSET Things]
      /\ \A p \in Parts : db[p] \subseteq PartOf(p)
  BY DEF ADatabase
<1>2. added \subseteq PartOf(step)
  BY MissingTyped
<1>3. db' = [p \in Parts |-> db[p] \cup Added(p, step, added)]
  BY DEF Written
<1>4. ASSUME NEW p \in Parts
      PROVE  Added(p, step, added) \subseteq PartOf(p)
  <2>1. Added("columns", "tables", added) \subseteq Columns
    BY DEF Added
  <2> QED
    BY <2>1, <1>2, PartsAre DEF Added
<1>5. ASSUME NEW p \in Parts
      PROVE  db'[p] \subseteq PartOf(p)
  BY <1>1, <1>3, <1>4, <1>5
<1>6. db' \in ADatabase
  <2>2. \A p \in Parts : db'[p] \in SUBSET Things
    BY <1>5, PartsInThings
  <2> HIDE DEF added
  <2>3. db' \in [Parts -> SUBSET Things]
    BY <1>3, <2>2
  <2> QED
    BY <1>5, <2>3 DEF ADatabase
<1>7. Added(step, step, added) = added
  BY DEF Added
<1>8. \A p \in Parts \ {step} : p # "columns" \/ step # "tables" => Added(p, step, added) = {}
  BY DEF Added
<1> HIDE DEF added
<1>9. \A p \in Parts : db'[p] = db[p] \cup Added(p, step, added)
  BY <1>3
<1> QED
  BY <1>6, <1>7, <1>8, <1>9 DEF added

-------------------------------------------------------------------------------
(* Types *)

\* What a step has found is what its transaction is about.
TypeInv ==
    /\ TypeOK
    /\ \A r \in Replicas : seen[r].checked => pc[r] \in Parts

LEMMA InitTyped == Init => TypeInv
<1> SUFFICES ASSUME Init PROVE TypeInv
  OBVIOUS
<1>1. db \in ADatabase /\ original \in Databases
  BY StartupAssumption DEF Init
<1>2. seen \in [Replicas -> [checked : BOOLEAN, found : SUBSET Things]]
  BY DEF Init, NotSeen
<1>3. /\ loaded \in [Replicas -> [Seeded -> SUBSET Things]]
      /\ \A r \in Replicas, t \in Seeded : loaded[r][t] \subseteq Names[t]
  BY DEF Init, Nothing
<1>4. pc \in [Replicas -> Pcs] /\ crashes \in 0 .. MaxCrashes /\ edits \in 0 .. MaxEdits
  BY StartupAssumption DEF Init, Pcs
<1>5. \A r \in Replicas : ~seen[r].checked
  BY DEF Init, NotSeen
<1> QED
  BY <1>1, <1>2, <1>3, <1>4, <1>5 DEF TypeOK, TypeInv

LEMMA AfterTyped ==
    ASSUME NEW step PROVE After(step) \in Pcs
BY DEF After, Pcs, Parts, Seeded

LEMMA PartFound ==
    ASSUME db \in ADatabase, NEW p \in Parts
    PROVE  db[p] \subseteq Things /\ db[p] \subseteq PartOf(p)
BY DEF ADatabase

\* A replica that exits, or dies.
LEMMA DownTyped ==
    ASSUME TypeOK, NEW r \in Replicas, Down(r)
    PROVE  /\ pc' \in [Replicas -> Pcs]
           /\ seen' \in [Replicas -> [checked : BOOLEAN, found : SUBSET Things]]
           /\ loaded' \in [Replicas -> [Seeded -> SUBSET Things]]
           /\ \A q \in Replicas, t \in Seeded : loaded'[q][t] \subseteq Names[t]
<1>1. Nothing \in [Seeded -> SUBSET Things] /\ \A t \in Seeded : Nothing[t] = {}
  BY DEF Nothing
<1>2. NotSeen \in [checked : BOOLEAN, found : SUBSET Things]
  BY DEF NotSeen
<1>3. "down" \in Pcs
  BY DEF Pcs
<1> QED
  BY <1>1, <1>2, <1>3 DEF TypeOK, Down

LEMMA StepTyped == TypeInv /\ [Next]_vars => TypeInv'
<1> SUFFICES ASSUME TypeInv, [Next]_vars PROVE TypeInv'
  OBVIOUS
<1> DEFINE Sights == [checked : BOOLEAN, found : SUBSET Things]
<1>1. CASE Edit
  <2> PICK t \in Seeded : \E n \in Names[t] :
            db' = [db EXCEPT ![t] = IF n \in @ THEN @ \ {n} ELSE @ \cup {n}]
    BY <1>1 DEF Edit
  <2> PICK n \in Names[t] : db' = [db EXCEPT ![t] = IF n \in @ THEN @ \ {n} ELSE @ \cup {n}]
    OBVIOUS
  <2>1. db \in [Parts -> SUBSET Things] /\ \A p \in Parts : db[p] \subseteq PartOf(p)
    BY DEF TypeOK, TypeInv, ADatabase
  <2>2. t \in Parts /\ n \in PartOf(t)
    BY PartsAre DEF Parts, Seeded
  <2>3. n \in Things
    BY <2>2, PartsInThings
  <2>4. db' \in [Parts -> SUBSET Things] /\ \A p \in Parts : db'[p] \subseteq PartOf(p)
    BY <2>1, <2>2, <2>3
  <2>5. db' \in ADatabase
    BY <2>4 DEF ADatabase
  <2>6. edits' \in 0 .. MaxEdits
    BY <1>1, StartupAssumption DEF Edit, TypeOK, TypeInv
  <2> QED
    BY <1>1, <2>5, <2>6 DEF Edit, TypeOK, TypeInv
<1>2. ASSUME NEW r \in Replicas, Restart(r)
      PROVE  TypeInv'
  <2>1. "tables" \in Pcs /\ "tables" \in Parts
    BY DEF Pcs, Parts
  <2> QED
    BY <1>2, <2>1 DEF Restart, TypeOK, TypeInv
<1>3. ASSUME NEW r \in Replicas, Check(r)
      PROVE  TypeInv'
  <2>1. db[pc[r]] \subseteq Things
    BY <1>3, PartFound DEF Check, TypeOK, TypeInv
  <2>2. [checked |-> TRUE, found |-> db[pc[r]]] \in Sights
    BY <2>1
  <2> HIDE DEF Sights
  <2>3. seen' \in [Replicas -> Sights]
    BY <1>3, <2>2 DEF Check, TypeOK, TypeInv, Sights
  <2> QED
    BY <1>3, <2>3 DEF Check, TypeOK, TypeInv, Sights
<1>4. ASSUME NEW r \in Replicas, Act(r)
      PROVE  TypeInv'
  <2>1. pc[r] \in Parts
    BY <1>4 DEF Act, TypeInv
  <2>2. db' \in ADatabase
    BY <1>4, <2>1, WrittenIs DEF Act, TypeInv, TypeOK
  <2>3. pc' \in [Replicas -> Pcs]
    BY <1>4, AfterTyped DEF Act, TypeInv, TypeOK
  <2>4. NotSeen \in Sights /\ ~NotSeen.checked
    BY DEF NotSeen
  <2> HIDE DEF Sights
  <2>5. seen' \in [Replicas -> Sights] /\ ~seen'[r].checked
    BY <1>4, <2>4 DEF Act, TypeInv, TypeOK, Sights
  <2>6. \A q \in Replicas : q # r => seen'[q] = seen[q] /\ pc'[q] = pc[q]
    BY <1>4 DEF Act, TypeInv, TypeOK
  <2>7. \A q \in Replicas : seen'[q].checked => pc'[q] \in Parts
    BY <2>5, <2>6 DEF TypeInv
  <2> QED
    BY <1>4, <2>2, <2>3, <2>5, <2>7 DEF Act, TypeInv, TypeOK, Sights
<1>5. ASSUME NEW r \in Replicas, ActFails(r) \/ Crash(r)
      PROVE  TypeInv'
  <2>1. Down(r)
    BY <1>5 DEF ActFails, Crash
  <2>2. /\ pc' \in [Replicas -> Pcs]
        /\ seen' \in [Replicas -> Sights]
        /\ loaded' \in [Replicas -> [Seeded -> SUBSET Things]]
        /\ \A q \in Replicas, t \in Seeded : loaded'[q][t] \subseteq Names[t]
    BY <2>1, DownTyped DEF TypeInv
  <2>3. ~seen'[r].checked /\ \A q \in Replicas : q # r => seen'[q] = seen[q] /\ pc'[q] = pc[q]
    BY <2>1 DEF Down, NotSeen, TypeInv, TypeOK
  <2>4. db' = db /\ edits' = edits /\ original' = original
    BY <1>5 DEF ActFails, Crash
  <2>5. crashes' \in 0 .. MaxCrashes
    BY <1>5, StartupAssumption DEF ActFails, Crash, TypeInv, TypeOK
  <2>6. TypeOK'
    BY <2>2, <2>4, <2>5 DEF TypeInv, TypeOK
  <2>7. \A q \in Replicas : seen'[q].checked => pc'[q] \in Parts
    BY <2>3 DEF TypeInv
  <2> QED
    BY <2>6, <2>7 DEF TypeInv
<1>6. ASSUME NEW r \in Replicas, Load(r)
      PROVE  TypeInv'
  <2> PICK t \in Seeded :
          /\ pc[r] = (IF t = "models" THEN "load models" ELSE "load creds")
          /\ loaded' = [loaded EXCEPT ![r][t] = db[t]]
          /\ pc' = [pc EXCEPT ![r] = After(@)]
          /\ UNCHANGED <<db, seen, crashes, edits, original>>
    BY <1>6 DEF Load
  <2>1. t \in Parts /\ PartOf(t) = Names[t]
    BY PartsAre DEF Parts, Seeded
  <2>2. db[t] \subseteq Things /\ db[t] \subseteq Names[t]
    BY <2>1, PartFound DEF TypeInv, TypeOK
  <2>3. /\ loaded' \in [Replicas -> [Seeded -> SUBSET Things]]
        /\ \A q \in Replicas, u \in Seeded : loaded'[q][u] \subseteq Names[u]
    BY <2>2 DEF TypeInv, TypeOK
  <2>4. pc' \in [Replicas -> Pcs]
    BY AfterTyped DEF TypeInv, TypeOK
  <2>5. pc[r] \notin Parts
    BY DEF Parts, Seeded
  <2>6. \A q \in Replicas : seen'[q].checked => pc'[q] \in Parts
    BY <2>5 DEF TypeInv, TypeOK
  <2> QED
    BY <2>3, <2>4, <2>6 DEF TypeInv, TypeOK
<1>7. CASE UNCHANGED vars
  BY <1>7 DEF vars, TypeInv, TypeOK
<1> QED
  BY <1>1, <1>2, <1>3, <1>4, <1>5, <1>6, <1>7 DEF Next, Starts

\* The state is always of its type, and a step's findings are its own.
THEOREM TypeCorrect == Spec => []TypeInv
<1> QED
  BY InitTyped, StepTyped, PTL DEF Spec

-------------------------------------------------------------------------------
(* Deletions stick *)

\* But for the admins, only a seeding writes to a seeded table, and only to one
\* that has none of the names of the environment.
LEMMA OnlySeedingWrites ==
    ASSUME TypeInv, [Next]_vars, edits' = edits, NEW t \in Seeded
    PROVE  \/ db'[t] = db[t]
           \/ \E r \in Replicas :
                 /\ Act(r) /\ pc[r] = t /\ seen[r].found = {}
                 /\ FromEnv[t] \cap db[t] = {}
                 /\ db'[t] = db[t] \cup FromEnv[t]
<1>1. CASE Edit
  <2>1. edits \in Nat /\ edits' = edits + 1
    BY <1>1, StartupAssumption DEF Edit, TypeInv, TypeOK
  <2> QED
    BY <2>1
<1>2. ASSUME NEW r \in Replicas, Act(r)
      PROVE  \/ db'[t] = db[t]
             \/ /\ pc[r] = t /\ seen[r].found = {}
                /\ FromEnv[t] \cap db[t] = {}
                /\ db'[t] = db[t] \cup FromEnv[t]
  <2>1. pc[r] \in Parts /\ t \in Parts /\ t # "columns" /\ t # "tables"
    BY <1>2 DEF Act, TypeInv, Parts, Seeded
  <2>2. /\ db'[pc[r]] = db[pc[r]] \cup Missing(pc[r], seen[r].found)
        /\ pc[r] # t => db'[t] = db[t]
        /\ Missing(pc[r], seen[r].found) \cap db[pc[r]] = {}
    BY <1>2, <2>1, WrittenIs DEF Act, TypeInv, TypeOK
  <2>3. Missing(t, seen[r].found) = IF seen[r].found = {} THEN FromEnv[t] ELSE {}
    BY <2>1 DEF Missing
  <2> QED
    BY <2>2, <2>3
<1>3. CASE \E r \in Replicas : Restart(r) \/ Check(r) \/ ActFails(r) \/ Load(r) \/ Crash(r)
  BY <1>3 DEF Restart, Check, ActFails, Load, Crash
<1>4. CASE UNCHANGED vars
  BY <1>4 DEF vars
<1> QED
  BY <1>1, <1>2, <1>3, <1>4 DEF Next, Starts

\* No start brings back a name of the environment as long as another one is
\* left: what admins delete stays deleted.
THEOREM DeletionsStay == Spec => DeletionsStick
<1>1. TypeInv /\ [Next]_vars =>
        [\A t \in Seeded : db[t] \cap FromEnv[t] # {} /\ edits' = edits => db'[t] = db[t]]_vars
  BY OnlySeedingWrites
<1> QED
  BY <1>1, TypeCorrect, PTL DEF Spec, DeletionsStick

-------------------------------------------------------------------------------
(* A replica that serves is complete *)

\* What a replica that is past a transaction relies on.
Past(part) ==
    CASE part = "tables"  -> Pcs \ {"down", "tables"}
      [] part = "columns" -> Pcs \ {"down", "tables", "columns"}
      [] part = "models"  -> Pcs \ {"down", "tables", "columns", "models"}
      [] OTHER            -> {"load models", "load creds", "serving"}

Schema == {"tables", "columns"}

SchemaInv ==
    \A p \in Schema, r \in Replicas :
        /\ pc[r] \in Past(p) => db[p] = PartOf(p)
        /\ seen[r].checked /\ pc[r] = p => seen[r].found \subseteq db[p]

Target(t) == IF original[t] = {} THEN FromEnv[t] ELSE original[t]

Seeding(t) ==
    /\ db[t] \in {original[t], Target(t)}
    /\ \A r \in Replicas :
          /\ pc[r] \in Past(t) => db[t] = Target(t)
          /\ seen[r].checked /\ pc[r] = t =>
               IF seen[r].found = {} THEN original[t] = {} ELSE db[t] = Target(t)

Loading(r) ==
    /\ pc[r] \in {"load creds", "serving"} => loaded[r]["models"] = Target("models")
    /\ pc[r] = "serving" => loaded[r]["creds"] = Target("creds")

CompleteInv ==
    /\ SchemaInv
    /\ edits = 0 => /\ \A t \in Seeded : Seeding(t)
                    /\ \A r \in Replicas : Loading(r)

LEMMA InitComplete == Init => CompleteInv
<1> SUFFICES ASSUME Init PROVE CompleteInv
  OBVIOUS
<1>1. \A r \in Replicas : pc[r] = "down" /\ ~seen[r].checked
  BY DEF Init, NotSeen
<1>2. \A p \in Parts : "down" \notin Past(p)
  BY DEF Past
<1>3. SchemaInv
  BY <1>1, <1>2 DEF SchemaInv, Schema, Parts
<1>4. \A t \in Seeded : Seeding(t)
  BY <1>1, <1>2 DEF Seeding, Init, Parts
<1>5. \A r \in Replicas : Loading(r)
  BY <1>1 DEF Loading
<1> QED
  BY <1>3, <1>4, <1>5 DEF CompleteInv

LEMMA AfterIs ==
    /\ After("tables") = "columns" /\ After("columns") = "models"
    /\ After("models") = "creds" /\ After("creds") = "load models"
BY DEF After

LEMMA PastIs ==
    /\ Past("tables") = {"columns", "models", "creds", "load models", "load creds", "serving"}
    /\ Past("columns") = {"models", "creds", "load models", "load creds", "serving"}
    /\ Past("models") = {"creds", "load models", "load creds", "serving"}
    /\ Past("creds") = {"load models", "load creds", "serving"}
BY DEF Past, Pcs, Parts, Seeded

\* A step is one replica's.
LEMMA OthersStay ==
    ASSUME TypeInv, NEW r \in Replicas, NEW q \in Replicas, q # r,
           Restart(q) \/ Starts(q) \/ Crash(q)
    PROVE  pc'[r] = pc[r] /\ seen'[r] = seen[r] /\ loaded'[r] = loaded[r]
BY DEF TypeInv, TypeOK, Restart, Starts, Check, Act, ActFails, Load, Crash, Down

\* How a replica gets past a transaction, and to what it has found.
LEMMA Advance ==
    ASSUME TypeInv, [Next]_vars, NEW r \in Replicas, NEW p \in Parts
    PROVE  /\ pc'[r] \in Past(p) => pc[r] \in Past(p) \/ (Act(r) /\ pc[r] = p)
           /\ seen'[r].checked /\ pc'[r] = p =>
                \/ seen'[r] = seen[r] /\ pc[r] = p
                \/ seen'[r].found = db[p] /\ db' = db
<1>1. CASE Edit \/ UNCHANGED vars
  BY <1>1 DEF Edit, vars
<1>2. CASE \E q \in Replicas \ {r} : Restart(q) \/ Starts(q) \/ Crash(q)
  BY <1>2, OthersStay
<1>3. CASE Restart(r)
  <2>1. pc'[r] = "tables" /\ seen'[r] = seen[r] /\ pc[r] = "down"
    BY <1>3 DEF Restart, TypeInv, TypeOK
  <2>2. "down" \notin Parts
    BY DEF Parts, Seeded
  <2> QED
    BY <2>1, <2>2 DEF Past, TypeInv, Parts, Seeded
<1>4. CASE Check(r)
  BY <1>4 DEF Check, TypeInv, TypeOK
<1>5. CASE Act(r)
  <2>1. pc'[r] = After(pc[r]) /\ ~seen'[r].checked /\ pc[r] \in Parts
    BY <1>5 DEF Act, NotSeen, TypeInv, TypeOK
  <2>2. After(pc[r]) \in Past(p) => pc[r] \in Past(p) \/ pc[r] = p
    BY <2>1, AfterIs, PastIs DEF Parts, Seeded
  <2> QED
    BY <1>5, <2>1, <2>2
<1>6. CASE ActFails(r) \/ Crash(r)
  <2>1. pc'[r] = "down" /\ ~seen'[r].checked
    BY <1>6 DEF ActFails, Crash, Down, NotSeen, TypeInv, TypeOK
  <2> QED
    BY <2>1 DEF Past
<1>7. CASE Load(r)
  <2>1. pc'[r] = After(pc[r]) /\ seen'[r] = seen[r] /\ pc[r] \in {"load models", "load creds"}
    BY <1>7 DEF Load, TypeInv, TypeOK
  <2>2. ~seen[r].checked
    BY <2>1 DEF TypeInv, Parts, Seeded
  <2>3. pc[r] \in Past(p)
    BY <2>1 DEF Past, Parts, Seeded, Pcs
  <2> QED
    BY <2>1, <2>2, <2>3
<1> QED
  BY <1>1, <1>2, <1>3, <1>4, <1>5, <1>6, <1>7 DEF Next, Starts

\* Nothing is taken from the schema, and what a replica saw of it is still there.
LEMMA SchemaStep ==
    ASSUME TypeInv, TypeInv', SchemaInv, [Next]_vars
    PROVE  SchemaInv'
<1> SUFFICES ASSUME NEW p \in Schema, NEW r \in Replicas
             PROVE  /\ pc'[r] \in Past(p) => db'[p] = PartOf(p)
                    /\ seen'[r].checked /\ pc'[r] = p => seen'[r].found \subseteq db'[p]
  BY DEF SchemaInv
<1>1. p \in Parts /\ p \notin Seeded
  BY DEF Schema, Parts, Seeded
<1>2. db[p] \subseteq db'[p]
  <2>1. ASSUME NEW q \in Replicas, Act(q)
        PROVE  db[p] \subseteq db'[p]
    BY <1>1, <2>1, WrittenIs DEF Act, TypeInv, TypeOK
  <2>2. CASE Edit
    BY <1>1, <2>2 DEF Edit, TypeInv, TypeOK, ADatabase
  <2> QED
    BY <2>1, <2>2 DEF Next, Starts, Restart, Check, ActFails, Load, Crash, vars
<1>3. db'[p] \subseteq PartOf(p)
  BY <1>1 DEF TypeInv, TypeOK, ADatabase
<1>4. ASSUME Act(r), pc[r] = p
      PROVE  db'[p] = PartOf(p)
  <2>1. db'[p] = db[p] \cup Missing(p, seen[r].found)
    BY <1>1, <1>4, WrittenIs DEF Act, TypeInv, TypeOK
  <2>2. Missing(p, seen[r].found) = PartOf(p) \ seen[r].found
    BY PartsAre DEF Missing, Schema
  <2>3. seen[r].found \subseteq db[p]
    BY <1>4 DEF Act, SchemaInv
  <2> QED
    BY <1>3, <2>1, <2>2, <2>3
<1>5. pc'[r] \in Past(p) => db'[p] = PartOf(p)
  BY <1>1, <1>2, <1>3, <1>4, Advance DEF SchemaInv
<1>6. seen'[r].checked /\ pc'[r] = p => seen'[r].found \subseteq db'[p]
  BY <1>1, <1>2, Advance DEF SchemaInv
<1> QED
  BY <1>5, <1>6

\* Until an admin writes, a seeded table is what it was or what it becomes, and
\* it becomes so once.
LEMMA SeedStep ==
    ASSUME TypeInv, [Next]_vars, edits' = edits, NEW t \in Seeded, Seeding(t)
    PROVE  Seeding(t)'
<1>1. t \in Parts
  BY DEF Parts
<1>2. original' = original /\ Target(t)' = Target(t)
  BY DEF Target, Next, Edit, Starts, Restart, Check, Act, ActFails, Load, Crash, vars
<1>3. ASSUME db'[t] # db[t]
      PROVE  original[t] = {} /\ db'[t] = db[t] \cup FromEnv[t]
  <2> PICK r \in Replicas :
          /\ Act(r) /\ pc[r] = t /\ seen[r].found = {}
          /\ db'[t] = db[t] \cup FromEnv[t]
    BY <1>3, OnlySeedingWrites
  <2> QED
    BY DEF Act, Seeding
<1>4. db'[t] \in {original[t], Target(t)}
  BY <1>3 DEF Seeding, Target
<1>5. db[t] = Target(t) => db'[t] = Target(t)
  BY <1>3 DEF Target
<1>6. ASSUME NEW r \in Replicas, pc'[r] \in Past(t)
      PROVE  db'[t] = Target(t)
  <2>1. CASE Act(r) /\ pc[r] = t
    <3>1. db'[t] = db[t] \cup Missing(t, seen[r].found)
      BY <1>1, <2>1, WrittenIs DEF Act, TypeInv, TypeOK
    <3>2. t # "tables" /\ t # "columns"
      BY DEF Seeded
    <3>3. Missing(t, seen[r].found) = IF seen[r].found = {} THEN FromEnv[t] ELSE {}
      BY <3>2 DEF Missing
    <3>4. IF seen[r].found = {} THEN original[t] = {} ELSE db[t] = Target(t)
      BY <2>1 DEF Act, Seeding
    <3> QED
      BY <3>1, <3>3, <3>4 DEF Seeding, Target
  <2> QED
    BY <1>1, <1>5, <1>6, <2>1, Advance DEF Seeding
<1>7. ASSUME NEW r \in Replicas, seen'[r].checked, pc'[r] = t
      PROVE  IF seen'[r].found = {} THEN original[t] = {} ELSE db'[t] = Target(t)
  <2>1. CASE seen'[r] = seen[r] /\ pc[r] = t
    BY <1>5, <1>7, <2>1 DEF Seeding
  <2>2. CASE seen'[r].found = db[t] /\ db' = db
    BY <2>2 DEF Seeding, Target
  <2> QED
    BY <1>1, <1>7, <2>1, <2>2, Advance
<1> QED
  BY <1>2, <1>4, <1>6, <1>7 DEF Seeding

\* What is loaded then is what the tables have become.
LEMMA LoadStep ==
    ASSUME TypeInv, [Next]_vars, NEW r \in Replicas, Loading(r),
           \A t \in Seeded : Seeding(t)
    PROVE  Loading(r)'
<1>1. \A t \in Seeded : Target(t)' = Target(t)
  BY DEF Target, Next, Edit, Starts, Restart, Check, Act, ActFails, Load, Crash, vars
<1>2. "models" \in Seeded /\ "creds" \in Seeded
  BY DEF Seeded
<1>3. CASE Edit \/ UNCHANGED vars
  BY <1>1, <1>2, <1>3 DEF Edit, vars, Loading
<1>4. CASE \E q \in Replicas \ {r} : Restart(q) \/ Starts(q) \/ Crash(q)
  BY <1>1, <1>2, <1>4, OthersStay DEF Loading
<1>5. CASE Restart(r) \/ Check(r) \/ Act(r) \/ ActFails(r) \/ Crash(r)
  <2>1. pc'[r] \notin {"load creds", "serving"} \/ (pc'[r] = pc[r] /\ loaded'[r] = loaded[r])
    <3>1. CASE Act(r)
      BY <3>1, AfterIs DEF Act, TypeInv, TypeOK, Parts, Seeded
    <3> QED
      BY <1>5, <3>1 DEF Restart, Check, ActFails, Crash, Down, TypeInv, TypeOK
  <2> QED
    BY <1>1, <1>2, <2>1 DEF Loading
<1>6. CASE Load(r)
  <2> PICK t \in Seeded :
          /\ pc[r] = (IF t = "models" THEN "load models" ELSE "load creds")
          /\ loaded' = [loaded EXCEPT ![r][t] = db[t]]
          /\ pc' = [pc EXCEPT ![r] = After(@)]
    BY <1>6 DEF Load
  <2>1. After("load models") = "load creds" /\ After("load creds") = "serving"
    BY DEF After
  <2>2. pc[r] \in Past("models") /\ (t = "creds" => pc[r] \in Past("creds"))
    BY PastIs DEF Seeded
  <2>3. loaded'[r][t] = db[t] /\ \A u \in Seeded : u # t => loaded'[r][u] = loaded[r][u]
    BY DEF TypeInv, TypeOK
  <2>4. db["models"] = Target("models") /\ (t = "creds" => db["creds"] = Target("creds"))
    BY <1>2, <2>2 DEF Seeding
  <2>5. CASE t = "models"
    BY <1>1, <1>2, <2>1, <2>3, <2>4, <2>5 DEF Loading, TypeInv, TypeOK
  <2>6. CASE t = "creds"
    BY <1>1, <1>2, <2>1, <2>3, <2>4, <2>6 DEF Loading, TypeInv, TypeOK
  <2> QED
    BY <2>5, <2>6 DEF Seeded
<1> QED
  BY <1>3, <1>4, <1>5, <1>6 DEF Next, Starts

LEMMA StepComplete == TypeInv /\ TypeInv' /\ CompleteInv /\ [Next]_vars => CompleteInv'
<1> SUFFICES ASSUME TypeInv, TypeInv', CompleteInv, [Next]_vars PROVE CompleteInv'
  OBVIOUS
<1>1. SchemaInv'
  BY SchemaStep DEF CompleteInv
<1>2. edits \in Nat
  BY StartupAssumption DEF TypeInv, TypeOK
<1>3. edits' = 0 => edits = 0 /\ edits' = edits
  <2>1. CASE Edit
    <3>1. edits' = edits + 1
      BY <2>1 DEF Edit
    <3> QED
      BY <1>2, <3>1
  <2>2. CASE ~Edit
    BY <2>2 DEF Next, Starts, Restart, Check, Act, ActFails, Load, Crash, vars
  <2> QED
    BY <2>1, <2>2
<1>4. edits' = 0 => \A t \in Seeded : Seeding(t)'
  BY <1>3, SeedStep DEF CompleteInv
<1>5. edits' = 0 => \A r \in Replicas : Loading(r)'
  BY <1>3, LoadStep DEF CompleteInv
<1> QED
  BY <1>1, <1>4, <1>5 DEF CompleteInv

\* However many replicas start at once and wherever some of them die, one that
\* serves has the whole schema, and the whole catalogue.
THEOREM ServingIsComplete == Spec => []StartupInv
<1>1. TypeInv /\ CompleteInv => StartupInv
  <2> SUFFICES ASSUME TypeInv, CompleteInv PROVE StartupInv
    OBVIOUS
  <2>1. ASSUME NEW r \in Replicas, pc[r] = "serving"
        PROVE  db["tables"] = Tables /\ db["columns"] = Columns
    BY <2>1, PastIs, PartsAre DEF CompleteInv, SchemaInv, Schema
  <2>2. ASSUME NEW r \in Replicas, pc[r] = "serving", edits = 0
        PROVE  loaded[r] = [t \in Seeded |-> IF original[t] = {} THEN FromEnv[t] ELSE original[t]]
    <3>1. loaded[r]["models"] = Target("models") /\ loaded[r]["creds"] = Target("creds")
      BY <2>2 DEF CompleteInv, Loading
    <3>2. \A t \in Seeded : loaded[r][t] = Target(t)
      BY <3>1 DEF Seeded
    <3>3. loaded[r] \in [Seeded -> SUBSET Things]
      BY DEF TypeInv, TypeOK
    <3> QED
      BY <3>2, <3>3 DEF Target
  <2> QED
    BY <2>1, <2>2 DEF StartupInv, SeedComplete, TypeInv
<1> QED
  BY <1>1, InitTyped, StepTyped, InitComplete, StepComplete, PTL DEF Spec
==============================================================================
