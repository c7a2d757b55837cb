------------------------------- MODULE Startup -------------------------------
(***************************************************************************)
(* Replicas of the gateway that start over one database (lifespan in       *)
(* app/main.py): create_all and run_migrations (app/db/session.py,         *)
(* app/db/migrate.py), the two seedings (app/db/seed.py), the loading of   *)
(* the registries, and only then serving.  Every one of the first four is  *)
(* a check and, in the same transaction but an await later, an action on   *)
(* what was missing.  A replica may die at any time; one whose startup     *)
(* raises exits, and whoever runs it starts it again.                      *)
(*                                                                         *)
(* The database commits a transaction as a whole or not at all, and        *)
(* refuses a table, a column or a unique name that is there already: what  *)
(* Postgres does, DDL included.                                            *)
(***************************************************************************)
EXTENDS Naturals, FiniteSets

CONSTANTS
    Replicas,
    Tables,         \* Base.metadata
    Columns,        \* the columns of tables that were added to a model later
    TableOf,        \* the table of a column
    FromEnv,        \* for each seeded table: the names the environment lists
    Names,          \* for each seeded table: the names it may have
    Databases,      \* what the replicas may find: see ADatabase
    MaxCrashes,     \* bound: replicas that die
    MaxEdits        \* bound: writes of the admin API

Seeded == {"models", "creds"}

\* What a database consists of, as far as a startup looks at it: there is a
\* transaction for each part.
Parts == {"tables", "columns"} \cup Seeded

Pcs == Parts \cup {"load models", "load creds", "down", "serving"}

PartOf(part) ==
    CASE part = "tables"  -> Tables
      [] part = "columns" -> Columns
      [] OTHER            -> Names[part]

Things == UNION {PartOf(p) : p \in Parts}

ADatabase == {d \in [Parts -> SUBSET Things] : \A p \in Parts : d[p] \subseteq PartOf(p)}

ASSUME StartupAssumption ==
    /\ IsFiniteSet(Replicas)
    /\ TableOf \in [Columns -> Tables]
    /\ \A t \in Seeded : FromEnv[t] \subseteq Names[t]
    /\ Databases \subseteq ADatabase
    /\ \A d \in Databases :
          /\ \A c \in d["columns"] : TableOf[c] \in d["tables"]
          /\ \A t \in Seeded : t \notin d["tables"] => d[t] = {}
    /\ MaxCrashes \in Nat /\ MaxEdits \in Nat

VARIABLES
    db,        \* the database
    pc,        \* where each replica is
    seen,      \* what its check found; NotSeen before it
    loaded,    \* the names its registries were loaded with
    crashes, edits,
    original   \* history: the database the first replica found

vars == <<db, pc, seen, loaded, crashes, edits, original>>

NotSeen == [checked |-> FALSE, found |-> {}]
Nothing == [t \in Seeded |-> {}]

TypeOK ==
    /\ db \in ADatabase /\ original \in Databases
    /\ pc \in [Replicas -> Pcs]
    /\ seen \in [Replicas -> [checked : BOOLEAN, found : SUBSET Things]]
    /\ loaded \in [Replicas -> [Seeded -> SUBSET Things]]
    /\ \A r \in Replicas, t \in Seeded : loaded[r][t] \subseteq Names[t]
    /\ crashes \in 0 .. MaxCrashes /\ edits \in 0 .. MaxEdits

Init ==
    /\ db \in Databases
    /\ original = db
    /\ pc = [r \in Replicas |-> "down"]
    /\ seen = [r \in Replicas |-> NotSeen]
    /\ loaded = [r \in Replicas |-> Nothing]
    /\ crashes = 0 /\ edits = 0

-------------------------------------------------------------------------------
\* lifespan, up to its yield
After(step) ==
    CASE step = "tables"      -> "columns"
      [] step = "columns"     -> "models"
      [] step = "models"      -> "creds"
      [] step = "creds"       -> "load models"
      [] step = "load models" -> "load creds"
      [] OTHER                -> "serving"

Restart(r) ==
    /\ pc[r] = "down"
    /\ pc' = [pc EXCEPT ![r] = "tables"]
    /\ UNCHANGED <<db, seen, loaded, crashes, edits, original>>

\* The query, or the inspection of the schema, that a step starts with.
Check(r) ==
    /\ pc[r] \in Parts
    /\ ~seen[r].checked
    /\ seen' = [seen EXCEPT ![r] = [checked |-> TRUE, found |-> db[pc[r]]]]
    /\ UNCHANGED <<db, pc, loaded, crashes, edits, original>>

\* Mutant: seeding adds what the table does not have.
Missing_Merges(step, found) ==
    CASE step = "tables"  -> Tables \ found
      [] step = "columns" -> Columns \ found
      [] OTHER            -> FromEnv[step] \ found

\* Mutant: every start seeds.
Missing_Always(step, found) ==
    CASE step = "tables"  -> Tables \ found
      [] step = "columns" -> Columns \ found
      [] OTHER            -> FromEnv[step]

\* What a step adds: tables and columns that are not there, and the names of
\* the environment if it found none at all.
Missing(step, found) ==
    CASE step = "tables"  -> Tables \ found
      [] step = "columns" -> Columns \ found
      [] OTHER            -> IF found = {} THEN FromEnv[step] ELSE {}

\* New tables come with all their columns.
Added(part, step, added) ==
    IF part = step THEN added
    ELSE IF part = "columns" /\ step = "tables" THEN {c \in Columns : TableOf[c] \in added}
    ELSE {}

\* Mutant: one commit for each row.
Written_OneByOne(step, added) ==
    {[part \in Parts |-> db[part] \cup Added(part, step, some)] : some \in SUBSET added}

\* The database with that added.
Written(step, added) == {[part \in Parts |-> db[part] \cup Added(part, step, added)]}

\* The commit.
Act(r) ==
    LET added == Missing(pc[r], seen[r].found)
    IN  /\ seen[r].checked
        /\ added \cap db[pc[r]] = {}
        /\ db' \in Written(pc[r], added)
        /\ pc' = [pc EXCEPT ![r] = After(@)]
        /\ seen' = [seen EXCEPT ![r] = NotSeen]
        /\ UNCHANGED <<loaded, crashes, edits, original>>

Down(r) ==
    /\ pc' = [pc EXCEPT ![r] = "down"]
    /\ seen' = [seen EXCEPT ![r] = NotSeen]
    /\ loaded' = [loaded EXCEPT ![r] = Nothing]

\* Another replica was faster: it exists already, startup raises.
ActFails(r) ==
    /\ seen[r].checked
    /\ Missing(pc[r], seen[r].found) \cap db[pc[r]] # {}
    /\ Down(r)
    /\ UNCHANGED <<db, crashes, edits, original>>

\* A registry is loaded (the deployments' one from the credentials; the one of
\* MCP servers, from a table that is never seeded, is left out).
Load(r) ==
    \E t \in Seeded :
        /\ pc[r] = (IF t = "models" THEN "load models" ELSE "load creds")
        /\ loaded' = [loaded EXCEPT ![r][t] = db[t]]
        /\ pc' = [pc EXCEPT ![r] = After(@)]
        /\ UNCHANGED <<db, seen, crashes, edits, original>>

Crash(r) ==
    /\ pc[r] # "down" /\ crashes < MaxCrashes
    /\ crashes' = crashes + 1
    /\ Down(r)
    /\ UNCHANGED <<db, edits, original>>

\* An admin adds or deletes a row, at a replica that serves.  (What becomes of
\* the replica's registry is shown in Registry.)
Edit ==
    /\ edits < MaxEdits
    /\ \E r \in Replicas : pc[r] = "serving"
    /\ \E t \in Seeded : \E n \in Names[t] :
          db' = [db EXCEPT ![t] = IF n \in @ THEN @ \ {n} ELSE @ \cup {n}]
    /\ edits' = edits + 1
    /\ UNCHANGED <<pc, seen, loaded, crashes, original>>

\* A step of a replica's startup.
Starts(r) == Check(r) \/ Act(r) \/ ActFails(r) \/ Load(r)

Next == Edit \/ \E r \in Replicas : Restart(r) \/ Starts(r) \/ Crash(r)

\* The database answers, and whoever runs the replicas starts them again.
Fairness == \A r \in Replicas : WF_vars(Starts(r)) /\ WF_vars(Restart(r))

Spec == Init /\ [][Next]_vars /\ Fairness

-------------------------------------------------------------------------------
\* "import the env model list and provider keys on first run": however many
\* replicas start at once, and wherever some of them die, one that serves has a
\* complete schema, and has loaded all names of the environment, or those that
\* were there before - never a part of them (until an admin changes them).
SeedComplete ==
    \A r \in Replicas :
        pc[r] = "serving" =>
            /\ db["tables"] = Tables /\ db["columns"] = Columns
            /\ edits = 0 =>
                 loaded[r] = [t \in Seeded |-> IF original[t] = {} THEN FromEnv[t] ELSE original[t]]

\* What holds of the state itself: its types and this.
StartupInv == TypeOK /\ SeedComplete

\* "edits, additions, and deletions on the Models page stick": as long as one
\* of the names of the environment is left in its table, no replica that starts
\* brings back the others - not even one that found the table empty before.
\* (With none left, it does: then the table is seeded again, and by a replica
\* that found it empty even if it has got other names since.)
DeletionsStick ==
    [][\A t \in Seeded :
         db[t] \cap FromEnv[t] # {} /\ edits' = edits => db'[t] = db[t]]_vars

\* Replicas that get into each other's way at startup do not do so for ever:
\* each one serves in the end, and goes on to, once no more of them die and
\* the admins rest.
EventuallyServes == \A r \in Replicas : <>[](pc[r] = "serving")
===============================================================================
