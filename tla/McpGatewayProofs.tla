--------------------------- MODULE McpGatewayProofs ---------------------------
(***************************************************************************)
(* Theorems about McpGateway, for any number of requests, administrators,  *)
(* upstreams and keys, all scopes, all tools, and upstreams that answer in *)
(* any way.  What depends on how names are taken apart holds of servers    *)
(* whose names do not end with an underscore.                              *)
(***************************************************************************)
EXTENDS McpGateway, Integers, FiniteSetTheorems, SequenceTheorems, TLAPS

-------------------------------------------------------------------------------
(* Names *)

\* The code asks for less: it refuses names that contain the separator.
EndsClean == \A n \in Names : n # <<>> => n[Len(n)] # "_"

\* The provers are told nothing of a character but that it is one.
Underscore == "_"
Char == STRING \cup {Underscore}

LEMMA Separator ==
    /\ NAMESPACE_SEP = <<Underscore, Underscore>>
    /\ NAMESPACE_SEP \in Seq(Char) /\ Len(NAMESPACE_SEP) = 2
    /\ NAMESPACE_SEP[1] = Underscore /\ NAMESPACE_SEP[2] = Underscore
<1>1. NAMESPACE_SEP = <<Underscore, Underscore>>
  BY DEF NAMESPACE_SEP, Underscore
<1> QED
  BY <1>1 DEF Char

LEMMA CleanEnds ==
    ASSUME EndsClean, NEW n \in Names, n # <<>>
    PROVE  n[Len(n)] # Underscore
BY DEF EndsClean, Underscore

LEMMA NameTypes ==
    /\ \A n \in Names : n \in Seq(Char)
    /\ \A i \in Ids : \A t \in ToolsOf[i] : t \in Seq(Char) /\ t \in Tools
    /\ \A i \in Ids : \A n \in NamesOf[i] : n \in Names
<1>1. \A x \in Seq(STRING) : x \in Seq(Char)
  BY DEF Char
<1>2. /\ \A n \in Names : n \in Seq(STRING)
      /\ \A i \in Ids : \A t \in ToolsOf[i] : t \in Seq(STRING) /\ t \in Tools
      /\ \A i \in Ids : \A n \in NamesOf[i] : n \in Names
  BY McpAssumption DEF Names, Tools
<1> QED
  BY <1>1, <1>2

LEMMA SepAt ==
    ASSUME NEW name \in Seq(Char), NEW i \in 1 .. Len(name) - 1
    PROVE  i \in SepsOf(name) <=> name[i] = Underscore /\ name[i + 1] = Underscore
<1> DEFINE pair == SubSeq(name, i, i + 1)
<1>1. pair \in Seq(Char) /\ Len(pair) = 2
  OBVIOUS
<1>2. pair[1] = name[i] /\ pair[2] = name[i + 1]
  <2>1. pair[1] = name[i]
    OBVIOUS
  <2>2. pair[2] = name[i + 1]
    OBVIOUS
  <2> QED
    BY <2>1, <2>2
<1>3. i \in SepsOf(name) <=> pair = NAMESPACE_SEP
  BY DEF SepsOf
<1> HIDE DEF pair
<1>4. pair = NAMESPACE_SEP <=> pair[1] = Underscore /\ pair[2] = Underscore
  BY <1>1, Separator
<1> QED
  BY <1>2, <1>3, <1>4

\* What the characters of a namespaced tool are.
LEMMA NamespacedChars ==
    ASSUME NEW n \in Seq(Char), NEW t \in Seq(Char), NEW s, s = Namespaced(n, t)
    PROVE  /\ s \in Seq(Char)
           /\ Len(n) \in Nat /\ Len(t) \in Nat /\ Len(s) = Len(n) + 2 + Len(t)
           /\ \A i \in 1 .. Len(n) : s[i] = n[i]
           /\ s[Len(n) + 1] = Underscore /\ s[Len(n) + 2] = Underscore
<1> DEFINE p == n \o NAMESPACE_SEP
<1>1. /\ p \in Seq(Char) /\ Len(p) = Len(n) + 2
      /\ \A i \in 1 .. Len(n) : p[i] = n[i]
      /\ p[Len(n) + 1] = Underscore /\ p[Len(n) + 2] = Underscore
  BY Separator
<1>2. s = p \o t
  BY DEF Namespaced
<1> HIDE DEF p
<1>3. s \in Seq(Char) /\ Len(s) = Len(p) + Len(t)
  <2>1. p \o t \in Seq(Char)
    BY <1>1
  <2>2. Len(p \o t) = Len(p) + Len(t)
    BY <1>1
  <2> QED
    BY <1>2, <2>1, <2>2
<1>4. \A i \in 1 .. Len(p) : s[i] = p[i]
  BY <1>1, <1>2
<1> QED
  BY <1>1, <1>3, <1>4

\* A name in which the separator only starts where the tool's name is appended
\* is taken apart there.
LEMMA Demuxed ==
    ASSUME EndsClean, NEW n \in Names, NameAllowed(n), NEW t \in Seq(Char)
    PROVE  ServerOf(Namespaced(n, t)) = n
<1> DEFINE k == Len(n) + 1
<1>1. n \in Seq(Char)
  BY NameTypes
<1>2. PICK s : s = Namespaced(n, t)
  OBVIOUS
<1>3. /\ s \in Seq(Char) /\ Len(n) \in Nat /\ Len(t) \in Nat /\ Len(s) = Len(n) + 2 + Len(t)
      /\ \A i \in 1 .. Len(n) : s[i] = n[i]
      /\ s[Len(n) + 1] = Underscore /\ s[Len(n) + 2] = Underscore
  BY <1>1, <1>2, NamespacedChars
<1>4. k \in SepsOf(s)
  <2>1. k \in 1 .. Len(s) - 1 /\ k + 1 = Len(n) + 2
    BY <1>3
  <2> QED
    BY <1>3, <2>1, SepAt
<1>5. ASSUME NEW i \in SepsOf(s)
      PROVE  i \in Int /\ k <= i
  <2>1. i \in 1 .. Len(s) - 1 /\ i \in Nat
    BY <1>3 DEF SepsOf
  <2>2. s[i] = Underscore /\ s[i + 1] = Underscore
    BY <1>3, <2>1, SepAt
  <2>3. CASE i < Len(n)
    <3>1. i \in 1 .. Len(n) - 1 /\ i \in 1 .. Len(n) /\ i + 1 \in 1 .. Len(n)
      BY <1>3, <2>1, <2>3
    <3>2. n[i] = Underscore /\ n[i + 1] = Underscore
      BY <1>3, <2>2, <3>1
    <3>3. i \in SepsOf(n)
      BY <1>1, <3>1, <3>2, SepAt
    <3> QED
      BY <3>3 DEF NameAllowed
  <2>4. CASE i = Len(n)
    <3>1. Len(n) \in 1 .. Len(n) /\ n # <<>>
      BY <1>1, <1>3, <2>1, <2>4
    <3>2. n[Len(n)] = Underscore
      BY <1>3, <2>2, <2>4, <3>1
    <3> QED
      BY <3>1, <3>2, CleanEnds
  <2> QED
    BY <1>3, <2>1, <2>3, <2>4
<1>6. FirstSep(s) = k
  <2>1. \E i \in SepsOf(s) : \A j \in SepsOf(s) : i <= j
    BY <1>4, <1>5
  <2>2. FirstSep(s) \in SepsOf(s) /\ \A j \in SepsOf(s) : FirstSep(s) <= j
    BY <2>1 DEF FirstSep
  <2>3. FirstSep(s) \in Int /\ k \in Int /\ FirstSep(s) <= k /\ k <= FirstSep(s)
    BY <1>3, <1>4, <1>5, <2>2
  <2> QED
    BY <2>3
<1>7. FirstSep(s) - 1 = Len(n)
  BY <1>3, <1>6
<1>8. SubSeq(s, 1, Len(n)) = n
  <2> DEFINE u == SubSeq(s, 1, Len(n))
  <2>1. \A i \in 1 .. Len(n) : s[i] \in Char
    BY <1>1, <1>3, ElementOfSeq
  <2>2. /\ u \in Seq(Char) /\ Len(u) = IF 1 <= Len(n) THEN Len(n) - 1 + 1 ELSE 0
        /\ \A i \in 1 .. Len(n) - 1 + 1 : u[i] = s[1 + i - 1]
    BY <1>3, <2>1, SubSeqProperties
  <2> HIDE DEF u
  <2>3. Len(u) = Len(n) /\ \A i \in 1 .. Len(n) : u[i] = n[i]
    BY <1>3, <2>2
  <2>4. u = n
    BY <1>1, <2>2, <2>3, SeqEqual
  <2> QED
    BY <2>4 DEF u
<1> QED
  BY <1>2, <1>7, <1>8 DEF ServerOf

-------------------------------------------------------------------------------
(* Tables and requests *)

LEMMA TableFacts ==
    ASSUME NEW S, NEW T, NEW f \in TableOf(S, T)
    PROVE  DOMAIN f \in SUBSET S /\ f \in [DOMAIN f -> T]
BY DEF TableOf

LEMMA IsTable ==
    ASSUME NEW S, NEW T, NEW D \in SUBSET S, NEW f \in [D -> T]
    PROVE  f \in TableOf(S, T)
BY DEF TableOf

LEMMA NothingTable ==
    ASSUME NEW S, NEW T
    PROVE  Nothing \in TableOf(S, T) /\ DOMAIN Nothing = {}
<1>1. Nothing \in [{} -> T] /\ DOMAIN Nothing = {}
  BY DEF Nothing
<1> QED
  BY <1>1, IsTable

LEMMA UpdatedTable ==
    ASSUME NEW S, NEW T, NEW f \in TableOf(S, T), NEW x \in DOMAIN f, NEW v \in T
    PROVE  /\ [f EXCEPT ![x] = v] \in TableOf(S, T)
           /\ DOMAIN [f EXCEPT ![x] = v] = DOMAIN f
           /\ \A y \in DOMAIN f : [f EXCEPT ![x] = v][y] = IF y = x THEN v ELSE f[y]
<1>1. DOMAIN f \in SUBSET S /\ f \in [DOMAIN f -> T]
  BY TableFacts
<1>2. [f EXCEPT ![x] = v] \in [DOMAIN f -> T]
  BY <1>1
<1> QED
  BY <1>1, <1>2, IsTable

ListRequest ==
    [method : {"tools/list"}, key : Keys, clients : TableOf(Names, Client),
     answer : {"none", "tools", "500"}, tools : SUBSET ToolNames]
CallRequest ==
    [method : {"tools/call"}, name : ToolNames, clients : TableOf(Names, Client)]

LEMMA RequestKinds ==
    ASSUME NEW x \in ARequest
    PROVE  /\ x.clients \in TableOf(Names, Client)
           /\ x = NoRequest \/ x \in ListRequest \/ x \in CallRequest
           /\ x.method = "tools/list" <=> x \in ListRequest
           /\ x.method = "tools/call" <=> x \in CallRequest
<1>1. CASE x = NoRequest
  BY <1>1, NothingTable DEF NoRequest, ListRequest, CallRequest
<1>2. CASE x \in ListRequest
  BY <1>2 DEF ListRequest, CallRequest
<1>3. CASE x \in CallRequest
  BY <1>3 DEF ListRequest, CallRequest
<1> QED
  BY <1>1, <1>2, <1>3 DEF ARequest, ListRequest, CallRequest

(***************************************************************************)
(* What requests keep.  A client knows its session once it has asked for   *)
(* one, and does not fail at an upstream that answers everything; a call   *)
(* has one client, the one for the server of the tool; an answer is not    *)
(* given before all clients are done, or one of them raises.               *)
(***************************************************************************)
Ended(x) == \A n \in DOMAIN x.clients : x.clients[n].at \in {"done", "failed", "raised"}

Merged(x) ==
    UNION {Group(x.key, n, x.clients[n].id) :
              n \in {m \in DOMAIN x.clients : x.clients[m].at = "done"}}

Sound(c) ==
    /\ c.at \in {"notify", "op", "done"} => SessionGood(c)
    /\ Reliable(c.id) => c.at \notin {"failed", "raised"}

OnTrack(x) ==
    /\ \A n \in DOMAIN x.clients : NameAllowed(n) /\ Sound(x.clients[n])
    /\ x.method = "tools/call" => DOMAIN x.clients = {ServerOf(x.name)}
    /\ x.method = "tools/list" =>
         /\ x.answer = "500" => \E n \in DOMAIN x.clients : x.clients[n].at = "raised"
         /\ x.answer = "tools" => Ended(x) /\ x.tools = Merged(x)

AllOnTrack == \A r \in Requests : OnTrack(req[r])

Alone(r) == \A q \in Requests \ {r} : req'[q] = req[q]

Becomes(r, x) == req' \in [Requests -> ARequest] /\ Alone(r) /\ req'[r] = x

LEMMA OverEnded == \A r \in Requests : Over(r) <=> Ended(req[r])
BY DEF Over, Ended

LEMMA Becoming ==
    ASSUME TypeOK, NEW r \in Requests, NEW x \in ARequest, req' = [req EXCEPT ![r] = x]
    PROVE  Becomes(r, x)
BY DEF TypeOK, Becomes, Alone

LEMMA OthersOnTrack ==
    ASSUME AllOnTrack, NEW r \in Requests, Alone(r), OnTrack(req'[r])
    PROVE  AllOnTrack'
BY DEF AllOnTrack, Alone

Moved(x, n, c) == [x EXCEPT !.clients[n] = c]

LEMMA ClientMoved ==
    ASSUME NEW x \in ARequest, NEW n \in DOMAIN x.clients, NEW c \in Client
    PROVE  LET y == Moved(x, n, c)
           IN  /\ y \in ARequest /\ y.method = x.method
               /\ DOMAIN y.clients = DOMAIN x.clients
               /\ \A m \in DOMAIN x.clients : y.clients[m] = IF m = n THEN c ELSE x.clients[m]
               /\ x \in CallRequest => y.name = x.name
               /\ x \in ListRequest => y.key = x.key /\ y.answer = x.answer /\ y.tools = x.tools
<1> DEFINE t == [x.clients EXCEPT ![n] = c]
           y == [x EXCEPT !.clients = t]
<1>1. x.clients \in TableOf(Names, Client)
  BY RequestKinds
<1>2. /\ t \in TableOf(Names, Client) /\ DOMAIN t = DOMAIN x.clients
      /\ \A m \in DOMAIN x.clients : t[m] = IF m = n THEN c ELSE x.clients[m]
  BY <1>1, UpdatedTable
<1>3. Moved(x, n, c) = y
  BY DEF Moved
<1> HIDE DEF t
<1>4. CASE x \in ListRequest
  <2>1. y \in ListRequest /\ y.clients = t /\ y.method = x.method
        /\ y.key = x.key /\ y.answer = x.answer /\ y.tools = x.tools
    BY <1>2, <1>4 DEF ListRequest
  <2>2. y \in ARequest
    BY <2>1 DEF ARequest, ListRequest
  <2>3. x \notin CallRequest
    BY <1>4 DEF ListRequest, CallRequest
  <2> HIDE DEF y
  <2> QED
    BY <1>2, <1>3, <2>1, <2>2, <2>3
<1>5. CASE x \in CallRequest
  <2>1. y \in CallRequest /\ y.clients = t /\ y.method = x.method /\ y.name = x.name
    BY <1>2, <1>5 DEF CallRequest
  <2>2. y \in ARequest
    BY <2>1 DEF ARequest, CallRequest
  <2>3. x \notin ListRequest
    BY <1>5 DEF ListRequest, CallRequest
  <2> HIDE DEF y
  <2> QED
    BY <1>2, <1>3, <2>1, <2>2, <2>3
<1>6. CASE x = NoRequest
  <2>1. DOMAIN x.clients = {}
    BY <1>6, NothingTable DEF NoRequest
  <2> QED
    BY <2>1
<1> QED
  BY <1>4, <1>5, <1>6, RequestKinds

\* A post under way may move on.
LEMMA MoveOnTrack ==
    ASSUME NEW x \in ARequest, OnTrack(x), NEW n \in DOMAIN x.clients,
           x.clients[n].at \in {"init", "notify", "op"}, NEW c \in Client, Sound(c)
    PROVE  OnTrack(Moved(x, n, c))
<1> DEFINE y == Moved(x, n, c)
<1>1. /\ y \in ARequest /\ y.method = x.method /\ DOMAIN y.clients = DOMAIN x.clients
      /\ \A m \in DOMAIN x.clients : y.clients[m] = IF m = n THEN c ELSE x.clients[m]
      /\ x \in CallRequest => y.name = x.name
      /\ x \in ListRequest => y.key = x.key /\ y.answer = x.answer /\ y.tools = x.tools
  BY ClientMoved
<1> HIDE DEF y
<1>2. \A m \in DOMAIN y.clients : NameAllowed(m) /\ Sound(y.clients[m])
  BY <1>1 DEF OnTrack
<1>3. y.method = "tools/call" => DOMAIN y.clients = {ServerOf(y.name)}
  BY <1>1, RequestKinds DEF OnTrack
<1>4. ASSUME y.method = "tools/list", y.answer = "500"
      PROVE  \E m \in DOMAIN y.clients : y.clients[m].at = "raised"
  <2>1. x \in ListRequest /\ x.answer = "500"
    BY <1>1, <1>4, RequestKinds
  <2>2. PICK m \in DOMAIN x.clients : x.clients[m].at = "raised"
    BY <1>1, <1>4, <2>1 DEF OnTrack
  <2> QED
    BY <1>1, <2>2
<1>5. ASSUME y.method = "tools/list", y.answer = "tools"
      PROVE  FALSE
  <2>1. x \in ListRequest /\ x.answer = "tools" /\ x.method = "tools/list"
    BY <1>1, <1>5, RequestKinds
  <2> QED
    BY <2>1 DEF OnTrack, Ended
<1> QED
  BY <1>2, <1>3, <1>4, <1>5 DEF OnTrack, y

(***************************************************************************)
(* What administrators keep: the names in the table and in snapshots were  *)
(* allowed, and a snapshot that is not old is what the table says, or will *)
(* be as soon as a reload under way has set it.                            *)
(***************************************************************************)
CleanRows(table) == \A i \in DOMAIN table : NameAllowed(table[i].name)

NamesChecked ==
    /\ CleanRows(rows)
    /\ \A a \in Admins : CleanRows(admin[a].read)
    /\ \A n \in DOMAIN snapshot : NameAllowed(n)

SnapshotTrue ==
    \/ old
    \/ snapshot = ByName(rows)
    \/ \E a \in Admins :
          admin[a].at = "reload" \/ (admin[a].at = "set" /\ admin[a].read = rows)

Admin == [at : {"idle", "reload", "set"}, read : TableOf(Ids, Row)]

Tables ==
    /\ rows \in TableOf(Ids, Row) /\ snapshot \in TableOf(Names, Server)
    /\ admin \in [Admins -> Admin] /\ old \in BOOLEAN
    /\ NamesChecked

LEMMA ByNameFacts ==
    ASSUME NEW t \in TableOf(Ids, Row), NEW n \in DOMAIN ByName(t)
    PROVE  \E i \in DOMAIN t : t[i].name = n /\ ByName(t)[n] = [id |-> i, enabled |-> t[i].enabled]
<1> DEFINE i == CHOOSE j \in DOMAIN t : t[j].name = n
<1>1. \E j \in DOMAIN t : t[j].name = n
  BY DEF ByName
<1>2. i \in DOMAIN t /\ t[i].name = n
  BY <1>1
<1>3. ByName(t)[n] = [id |-> i, enabled |-> t[i].enabled]
  BY DEF ByName
<1> QED
  BY <1>2, <1>3

LEMMA ByNameTable ==
    ASSUME NEW t \in TableOf(Ids, Row)
    PROVE  /\ ByName(t) \in TableOf(Names, Server)
           /\ CleanRows(t) => \A n \in DOMAIN ByName(t) : NameAllowed(n)
<1> DEFINE D == DOMAIN ByName(t)
<1>1. DOMAIN t \in SUBSET Ids /\ t \in [DOMAIN t -> Row]
  BY TableFacts
<1>2. ASSUME NEW n \in D
      PROVE  n \in Names /\ ByName(t)[n] \in Server /\ (CleanRows(t) => NameAllowed(n))
  <2>1. PICK i \in DOMAIN t : t[i].name = n /\ ByName(t)[n] = [id |-> i, enabled |-> t[i].enabled]
    BY <1>2, ByNameFacts
  <2>2. t[i] \in Row
    BY <1>1
  <2>3. t[i].name \in Names /\ t[i].enabled \in BOOLEAN /\ i \in Ids
    BY <1>1, <2>2 DEF Row
  <2>4. [id |-> i, enabled |-> t[i].enabled] \in Server
    BY <2>3 DEF Server
  <2> QED
    BY <2>1, <2>3, <2>4 DEF CleanRows
<1>3. ByName(t) = [n \in D |-> ByName(t)[n]]
  BY DEF ByName
<1> HIDE DEF D
<1>4. ByName(t) \in [D -> Server] /\ D \in SUBSET Names
  BY <1>2, <1>3
<1> QED
  BY <1>2, <1>4, IsTable DEF D

\* What a write that is allowed leaves in the table.
LEMMA WriteRows ==
    ASSUME Tables, NEW a \in Admins, Write(a)
    PROVE  rows' \in TableOf(Ids, Row) /\ CleanRows(rows') /\ Committed(a)
<1>1. DOMAIN rows \in SUBSET Ids /\ rows \in [DOMAIN rows -> Row] /\ CleanRows(rows)
  BY TableFacts DEF Tables, NamesChecked
<1>2. PICK id \in Ids :
        \/ \E row \in [name : NamesOf[id], enabled : BOOLEAN] :
              create_mcp_server(a, id, row) \/ update_mcp_server(a, id, row)
        \/ delete_mcp_server(a, id)
  BY DEF Write
<1>3. ASSUME NEW row \in [name : NamesOf[id], enabled : BOOLEAN]
      PROVE  row \in Row
  BY NameTypes DEF Row
<1>4. ASSUME NEW row \in Row, create_mcp_server(a, id, row)
      PROVE  rows' \in TableOf(Ids, Row) /\ CleanRows(rows') /\ Committed(a)
  <2>1. /\ rows' = [i \in DOMAIN rows \cup {id} |-> IF i = id THEN row ELSE rows[i]]
        /\ NameAllowed(row.name) /\ Committed(a)
    BY <1>4 DEF create_mcp_server
  <2>2. DOMAIN rows \cup {id} \in SUBSET Ids /\ rows' \in [DOMAIN rows \cup {id} -> Row]
    BY <1>1, <2>1
  <2>3. CleanRows(rows')
    BY <1>1, <2>1 DEF CleanRows
  <2> QED
    BY <2>1, <2>2, <2>3, IsTable
<1>5. ASSUME NEW row \in Row, update_mcp_server(a, id, row)
      PROVE  rows' \in TableOf(Ids, Row) /\ CleanRows(rows') /\ Committed(a)
  <2>1. /\ rows' = [rows EXCEPT ![id] = row] /\ id \in DOMAIN rows
        /\ NameAllowed(row.name) /\ Committed(a)
    BY <1>5 DEF update_mcp_server
  <2>2. rows' \in TableOf(Ids, Row) /\ DOMAIN rows' = DOMAIN rows
        /\ \A i \in DOMAIN rows : rows'[i] = IF i = id THEN row ELSE rows[i]
    BY <2>1, UpdatedTable DEF Tables
  <2>3. CleanRows(rows')
    BY <1>1, <2>1, <2>2 DEF CleanRows
  <2> QED
    BY <2>1, <2>2, <2>3
<1>6. ASSUME delete_mcp_server(a, id)
      PROVE  rows' \in TableOf(Ids, Row) /\ CleanRows(rows') /\ Committed(a)
  <2>1. rows' = [i \in DOMAIN rows \ {id} |-> rows[i]] /\ Committed(a)
    BY <1>6 DEF delete_mcp_server
  <2>2. DOMAIN rows \ {id} \in SUBSET Ids /\ rows' \in [DOMAIN rows \ {id} -> Row]
    BY <1>1, <2>1
  <2>3. CleanRows(rows')
    BY <1>1, <2>1 DEF CleanRows
  <2> QED
    BY <2>1, <2>2, <2>3, IsTable
<1> QED
  BY <1>2, <1>3, <1>4, <1>5, <1>6

AdminStep(a) == Write(a) \/ ReloadReads(a) \/ ReloadSets(a) \/ ReloadFails(a)

LEMMA AdminTables ==
    ASSUME Tables, SnapshotTrue, NEW a \in Admins, AdminStep(a)
    PROVE  Tables' /\ SnapshotTrue' /\ UNCHANGED <<req, ledger>>
<1>1. /\ rows \in TableOf(Ids, Row) /\ snapshot \in TableOf(Names, Server)
      /\ admin \in [Admins -> Admin] /\ admin[a] \in Admin /\ old \in BOOLEAN
      /\ CleanRows(rows) /\ \A b \in Admins : CleanRows(admin[b].read)
      /\ \A n \in DOMAIN snapshot : NameAllowed(n)
  BY DEF Tables, NamesChecked
<1>2. Resting \in Admin /\ CleanRows(Resting.read)
  BY NothingTable DEF Resting, Admin, CleanRows
<1>3. CASE Write(a)
  <2>1. rows' \in TableOf(Ids, Row) /\ CleanRows(rows') /\ Committed(a)
    BY <1>3, WriteRows
  <2>2. admin' = [admin EXCEPT ![a].at = "reload"] /\ UNCHANGED <<snapshot, req, ledger, old>>
    BY <2>1 DEF Committed
  <2>3. /\ admin' \in [Admins -> Admin] /\ admin'[a].at = "reload"
        /\ \A b \in Admins : admin'[b].read = admin[b].read
    BY <1>1, <2>2 DEF Admin
  <2> QED
    BY <1>1, <2>1, <2>2, <2>3 DEF Tables, NamesChecked, SnapshotTrue, CleanRows
<1>4. CASE ReloadReads(a)
  <2>1. /\ admin' = [admin EXCEPT ![a] = [at |-> "set", read |-> rows]]
        /\ UNCHANGED <<rows, snapshot, req, ledger, old>>
    BY <1>4 DEF ReloadReads
  <2>2. /\ admin' \in [Admins -> Admin] /\ admin'[a].at = "set" /\ admin'[a].read = rows
        /\ \A b \in Admins : CleanRows(admin'[b].read)
    BY <1>1, <2>1 DEF Admin
  <2> QED
    BY <1>1, <2>1, <2>2 DEF Tables, NamesChecked, SnapshotTrue, CleanRows
<1>5. CASE ReloadSets(a)
  <2>1. /\ admin' = [admin EXCEPT ![a] = Resting]
        /\ snapshot' = ByName(admin[a].read) /\ old' = (admin[a].read # rows)
        /\ UNCHANGED <<rows, req, ledger>>
    BY <1>5 DEF ReloadSets
  <2>2. admin[a].read \in TableOf(Ids, Row) /\ CleanRows(admin[a].read)
    BY <1>1 DEF Admin
  <2>3. snapshot' \in TableOf(Names, Server) /\ \A n \in DOMAIN snapshot' : NameAllowed(n)
    BY <2>1, <2>2, ByNameTable
  <2>4. admin' \in [Admins -> Admin] /\ \A b \in Admins : CleanRows(admin'[b].read)
    BY <1>1, <1>2, <2>1
  <2>5. old' \in BOOLEAN /\ (old' \/ snapshot' = ByName(rows'))
    BY <2>1
  <2>6. NamesChecked'
    BY <1>1, <2>1, <2>3, <2>4 DEF NamesChecked, CleanRows
  <2>7. SnapshotTrue'
    BY <2>5 DEF SnapshotTrue
  <2> QED
    BY <1>1, <2>1, <2>3, <2>4, <2>5, <2>6, <2>7 DEF Tables
<1>6. CASE ReloadFails(a)
  <2>1. /\ admin' = [admin EXCEPT ![a] = Resting] /\ old' = TRUE
        /\ UNCHANGED <<rows, snapshot, req, ledger>>
    BY <1>6 DEF ReloadFails
  <2>2. admin' \in [Admins -> Admin] /\ \A b \in Admins : CleanRows(admin'[b].read)
    BY <1>1, <1>2, <2>1
  <2> QED
    BY <1>1, <2>1, <2>2 DEF Tables, NamesChecked, SnapshotTrue, CleanRows
<1> QED
  BY <1>3, <1>4, <1>5, <1>6 DEF AdminStep

-------------------------------------------------------------------------------
(* Requests *)

GatewayInv == TypeOK /\ NamesChecked /\ SnapshotTrue /\ AllOnTrack /\ CallsAccounted

\* A call that somebody still waits for.
Running(x) == x.method = "tools/call" /\ ~Ended(x)

LEMMA ActiveRunning == Active = {r \in Requests : Running(req[r])}
BY OverEnded DEF Active, Running

LEMMA ActiveAfter ==
    ASSUME NEW r \in Requests, Alone(r)
    PROVE  /\ (Running(req'[r]) <=> Running(req[r])) => Active' = Active
           /\ Running(req'[r]) /\ ~Running(req[r]) => r \notin Active /\ Active' = Active \cup {r}
           /\ ~Running(req'[r]) /\ Running(req[r]) => r \in Active /\ Active' = Active \ {r}
<1>1. Active' = {q \in Requests : Running(req'[q])}
  BY DEF Active, Running, Over, Ended
<1>2. Active = {q \in Requests : Running(req[q])}
  BY ActiveRunning
<1>3. \A q \in Requests : q # r => (Running(req'[q]) <=> Running(req[q]))
  BY DEF Alone
<1> QED
  BY <1>1, <1>2, <1>3

LEMMA ActiveFinite ==
    /\ IsFiniteSet(Active) /\ Cardinality(Active) \in Nat
    /\ \A r \in Requests \ Active : Cardinality(Active \cup {r}) = Cardinality(Active) + 1
    /\ \A r \in Active : Cardinality(Active \ {r}) = Cardinality(Active) - 1
<1>1. IsFiniteSet(Active)
  BY McpAssumption, FS_Subset DEF Active
<1> QED
  BY <1>1, FS_CardinalityType, FS_AddElement, FS_RemoveElement

\* The clients of a new request: one for each name, none of which was asked anything.
LEMMA NewClients ==
    ASSUME TypeOK, NamesChecked, NEW names \in SUBSET DOMAIN snapshot
    PROVE  LET t == ClientsFor(names)
           IN  /\ t \in TableOf(Names, Client) /\ DOMAIN t = names
               /\ \A n \in names :
                     /\ NameAllowed(n) /\ Sound(t[n])
                     /\ t[n].at = "init" /\ t[n].id = snapshot[n].id
<1> DEFINE t == ClientsFor(names)
<1>1. DOMAIN snapshot \in SUBSET Names /\ snapshot \in [DOMAIN snapshot -> Server]
  BY TableFacts DEF TypeOK
<1>2. DOMAIN t = names /\ \A n \in names : t[n] = NewClient(snapshot[n])
  BY DEF ClientsFor
<1>3. ASSUME NEW n \in names
      PROVE  t[n] \in Client /\ Sound(t[n]) /\ t[n].at = "init" /\ t[n].id = snapshot[n].id
  <2>1. snapshot[n].id \in Ids
    BY <1>1 DEF Server
  <2>2. t[n] = [id |-> snapshot[n].id, at |-> "init", session |-> FALSE]
    BY <1>2 DEF NewClient
  <2>3. t[n] \in Client
    BY <2>1, <2>2 DEF Client
  <2> QED
    BY <2>2, <2>3 DEF Sound
<1>4. t = [n \in names |-> t[n]]
  BY DEF ClientsFor
<1> HIDE DEF t
<1>5. t \in [names -> Client] /\ names \in SUBSET Names
  BY <1>1, <1>3, <1>4
<1>6. t \in TableOf(Names, Client)
  BY <1>5, IsTable
<1> QED
  BY <1>2, <1>3, <1>6 DEF NamesChecked, t

\* A request leaves the tables alone.
TablesKept == UNCHANGED <<rows, snapshot, admin, old>>

Quiet(r, x) ==
    /\ x \in ARequest /\ OnTrack(x) /\ Becomes(r, x)
    /\ Running(x) <=> Running(req[r])
    /\ TablesKept /\ UNCHANGED ledger

LEMMA FreshEnded ==
    ASSUME NEW r \in Requests, Fresh(r)
    PROVE  Ended(req[r]) /\ ~Running(req[r])
BY OverEnded DEF Fresh, Running

LEMMA ListStarts ==
    ASSUME TypeOK, NamesChecked, NEW r \in Requests, NEW k \in Keys, tools_list(r, k)
    PROVE  /\ \E x \in ARequest : Quiet(r, x)
           /\ req'[r].clients = ClientsFor(Visible(k))
<1> DEFINE t == ClientsFor(Visible(k))
           x == [method |-> "tools/list", key |-> k, clients |-> t, answer |-> "none", tools |-> {}]
<1>1. Visible(k) \in SUBSET DOMAIN snapshot
  BY DEF Visible
<1>2. /\ t \in TableOf(Names, Client) /\ DOMAIN t = Visible(k)
      /\ \A n \in Visible(k) : NameAllowed(n) /\ Sound(t[n])
  BY <1>1, NewClients
<1>3. req' = [req EXCEPT ![r] = x] /\ Fresh(r) /\ TablesKept /\ UNCHANGED ledger
  BY DEF tools_list, TablesKept
<1> HIDE DEF t
<1>4. x \in ARequest
  <2>1. x \in ListRequest
    BY <1>2 DEF ListRequest
  <2> QED
    BY <2>1 DEF ARequest, ListRequest
<1>5. OnTrack(x) /\ ~Running(x) /\ x.clients = t
  BY <1>2 DEF OnTrack, Running
<1> HIDE DEF x
<1>6. Becomes(r, x)
  BY <1>3, <1>4, Becoming
<1>7. Running(x) <=> Running(req[r])
  BY <1>3, <1>5, FreshEnded
<1>8. req'[r].clients = t
  BY <1>5, <1>6 DEF Becomes
<1> QED
  BY <1>3, <1>4, <1>5, <1>6, <1>7, <1>8 DEF Quiet, t

LEMMA CallStarts ==
    ASSUME TypeOK, NamesChecked, NEW r \in Requests, NEW name \in ToolNames, NEW k \in Keys,
           Callable(k, name), Fresh(r),
           req' = [req EXCEPT ![r] =
                     [method |-> "tools/call", name |-> name, clients |-> ClientsFor({ServerOf(name)})]]
    PROVE  /\ req' \in [Requests -> ARequest] /\ Alone(r) /\ OnTrack(req'[r])
           /\ Running(req'[r]) /\ ~Running(req[r])
           /\ req'[r].clients = ClientsFor({ServerOf(name)})
<1> DEFINE t == ClientsFor({ServerOf(name)})
           x == [method |-> "tools/call", name |-> name, clients |-> t]
<1>1. {ServerOf(name)} \in SUBSET DOMAIN snapshot
  BY DEF Callable
<1>2. /\ t \in TableOf(Names, Client) /\ DOMAIN t = {ServerOf(name)}
      /\ \A n \in {ServerOf(name)} : NameAllowed(n) /\ Sound(t[n]) /\ t[n].at = "init"
  BY <1>1, NewClients
<1> HIDE DEF t
<1>3. x \in ARequest
  <2>1. x \in CallRequest
    BY <1>2 DEF CallRequest
  <2> QED
    BY <2>1 DEF ARequest, CallRequest
<1>4. OnTrack(x) /\ Running(x) /\ x.clients = t
  BY <1>2 DEF OnTrack, Running, Ended
<1>5. req' = [req EXCEPT ![r] = x]
  BY DEF t
<1> HIDE DEF x
<1>6. Becomes(r, x)
  BY <1>3, <1>5, Becoming
<1> QED
  BY <1>4, <1>6, FreshEnded DEF Becomes, t

\* A client that moves is one of a request of one kind, and ends a call only if
\* it comes to its own end.
LEMMA Moves ==
    ASSUME TypeOK, AllOnTrack, NEW r \in Requests, NEW n, Waiting(r, n),
           req[r].clients[n].at \in {"init", "notify", "op"},
           NEW c \in Client, Sound(c), ClientMoves(r, n, c)
    PROVE  /\ Moved(req[r], n, c) \in ARequest /\ OnTrack(Moved(req[r], n, c))
           /\ Becomes(r, Moved(req[r], n, c))
           /\ Moved(req[r], n, c).method = req[r].method
           /\ Running(req[r]) <=> req[r].method = "tools/call"
           /\ Running(Moved(req[r], n, c)) <=>
                 req[r].method = "tools/call" /\ c.at \notin {"done", "failed", "raised"}
<1> DEFINE x == req[r]
           y == Moved(x, n, c)
<1>1. x \in ARequest /\ OnTrack(x) /\ n \in DOMAIN x.clients
  BY DEF TypeOK, AllOnTrack, Waiting
<1>2. req' = [req EXCEPT ![r] = y]
  BY DEF ClientMoves, Moved
<1>3. /\ y \in ARequest /\ y.method = x.method /\ DOMAIN y.clients = DOMAIN x.clients
      /\ \A m \in DOMAIN x.clients : y.clients[m] = IF m = n THEN c ELSE x.clients[m]
  BY <1>1, ClientMoved
<1>4. OnTrack(y)
  BY <1>1, MoveOnTrack
<1>5. x.method = "tools/call" => DOMAIN x.clients = {n}
  BY <1>1 DEF OnTrack
<1>6. x.clients[n].at \notin {"done", "failed", "raised"}
  OBVIOUS
<1> HIDE DEF x, y
<1>7. Becomes(r, y)
  BY <1>2, <1>3, Becoming
<1>8. Running(x) <=> x.method = "tools/call"
  BY <1>1, <1>6 DEF Running, Ended
<1>9. Running(y) <=> x.method = "tools/call" /\ c.at \notin {"done", "failed", "raised"}
  BY <1>3, <1>5 DEF Running, Ended
<1> QED
  BY <1>3, <1>4, <1>7, <1>8, <1>9 DEF x, y

LEMMA PostEffect ==
    ASSUME TypeOK, AllOnTrack, NEW r \in Requests, NEW n, Waiting(r, n)
    PROVE  /\ req[r] \in ARequest /\ OnTrack(req[r]) /\ n \in DOMAIN req[r].clients
           /\ req[r].clients[n] \in Client /\ Sound(req[r].clients[n])
<1>1. req[r] \in ARequest /\ OnTrack(req[r]) /\ n \in DOMAIN req[r].clients
  BY DEF TypeOK, AllOnTrack, Waiting
<1>2. req[r].clients \in TableOf(Names, Client)
  BY <1>1, RequestKinds
<1> QED
  BY <1>1, <1>2, TableFacts DEF OnTrack

\* A post that goes on: initialize, the notification, a result of tools/list.
LEMMA GoesOn ==
    ASSUME TypeOK, AllOnTrack, NEW r \in Requests, NEW n, Waiting(r, n),
           req[r].clients[n].at \in {"init", "notify", "op"},
           NEW c \in Client, Sound(c), ClientMoves(r, n, c), TablesKept, UNCHANGED ledger,
           req[r].method = "tools/list" \/ c.at \notin {"done", "failed", "raised"}
    PROVE  \E x \in ARequest : Quiet(r, x)
BY Moves DEF Quiet

LEMMA InitializeQuiet ==
    ASSUME TypeOK, AllOnTrack, NEW r \in Requests, NEW n, Initialize(r, n)
    PROVE  \E x \in ARequest : Quiet(r, x)
<1> DEFINE c == req[r].clients[n]
           d == Initialized(c)
<1>1. /\ Waiting(r, n) /\ c.at = "init" /\ ClientMoves(r, n, d)
      /\ TablesKept /\ UNCHANGED ledger
  BY DEF Initialize, TablesKept
<1>2. c \in Client
  BY <1>1, PostEffect
<1> HIDE DEF c
<1>3. d \in Client /\ d.at = "notify" /\ (d.session <=> d.id \in Stateful)
  <2> DEFINE given == c.id \in Stateful
             e == [c EXCEPT !.at = "notify", !.session = given]
  <2>1. given \in BOOLEAN /\ d = e
    BY DEF Initialized
  <2> HIDE DEF given
  <2>2. e \in Client /\ e.at = "notify" /\ e.session = given /\ e.id = c.id
    BY <1>2, <2>1 DEF Client
  <2> QED
    BY <2>1, <2>2 DEF given
<1>4. Sound(d)
  BY <1>3 DEF Sound, SessionGood
<1> HIDE DEF d
<1> QED
  BY <1>1, <1>3, <1>4, GoesOn DEF c

LEMMA NotifyQuiet ==
    ASSUME TypeOK, AllOnTrack, NEW r \in Requests, NEW n, Notify(r, n)
    PROVE  \E x \in ARequest : Quiet(r, x)
<1> DEFINE c == req[r].clients[n]
           d == [c EXCEPT !.at = "op"]
<1>1. /\ Waiting(r, n) /\ c.at = "notify" /\ ClientMoves(r, n, d)
      /\ TablesKept /\ UNCHANGED ledger
  BY DEF Notify, TablesKept
<1>2. c \in Client /\ Sound(c)
  BY <1>1, PostEffect
<1> HIDE DEF c
<1>3. d \in Client /\ d.at = "op" /\ d.session = c.session /\ d.id = c.id
  BY <1>2 DEF Client
<1> HIDE DEF d
<1>4. Sound(d)
  BY <1>1, <1>2, <1>3 DEF Sound, SessionGood
<1> QED
  BY <1>1, <1>3, <1>4, GoesOn DEF c

\* A result, with the session in order.
LEMMA DoneSound ==
    ASSUME NEW c \in Client, Sound(c), c.at = "op", NEW d, d = [c EXCEPT !.at = "done"]
    PROVE  d \in Client /\ Sound(d) /\ d.at = "done"
<1>1. d \in Client /\ d.at = "done" /\ d.session = c.session /\ d.id = c.id
  BY DEF Client
<1> QED
  BY <1>1 DEF Sound, SessionGood

\* A failure, of an upstream that does not always answer.
LEMMA FailedSound ==
    ASSUME NEW c \in Client, Sound(c), NEW out \in AnOutcome, Fails(c, out),
           NEW d, d = [c EXCEPT !.at = Failing(out)]
    PROVE  /\ c.at \in {"init", "notify", "op"}
           /\ d \in Client /\ Sound(d) /\ d.at \in {"failed", "raised"}
           /\ out = "raise" => d.at = "raised"
<1>1. Failing(out) \in {"failed", "raised"} /\ (out = "raise" => Failing(out) = "raised")
  BY DEF Failing
<1>2. d \in Client /\ d.at = Failing(out) /\ d.id = c.id
  BY <1>1 DEF Client
<1>3. ~Reliable(c.id)
  BY DEF Fails, Reliable, Sound
<1> QED
  BY <1>1, <1>2, <1>3 DEF Sound, Fails

LEMMA FetchDoneQuiet ==
    ASSUME TypeOK, AllOnTrack, NEW r \in Requests, NEW n, FetchDone(r, n)
    PROVE  \E x \in ARequest : Quiet(r, x)
<1> DEFINE c == req[r].clients[n]
           d == [c EXCEPT !.at = "done"]
<1>1. /\ Waiting(r, n) /\ c.at = "op" /\ ClientMoves(r, n, d)
      /\ req[r].method = "tools/list" /\ TablesKept /\ UNCHANGED ledger
  BY DEF FetchDone, TablesKept
<1>2. c \in Client /\ Sound(c)
  BY <1>1, PostEffect
<1> HIDE DEF c
<1>3. d \in Client /\ Sound(d)
  BY <1>1, <1>2, DoneSound
<1> HIDE DEF d
<1> QED
  BY <1>1, <1>3, GoesOn DEF c

LEMMA FetchFailsQuiet ==
    ASSUME TypeOK, AllOnTrack, NEW r \in Requests, NEW n, FetchFails(r, n)
    PROVE  \E x \in ARequest : Quiet(r, x)
<1>1. PICK out \in AnOutcome :
        /\ Waiting(r, n) /\ req[r].method = "tools/list" /\ Fails(req[r].clients[n], out)
        /\ req' = [req EXCEPT ![r].clients[n].at = Failing(out),
                              ![r].answer = IF out = "raise" THEN "500" ELSE @]
        /\ UNCHANGED <<rows, snapshot, admin, ledger, old>>
  BY DEF FetchFails
<1> DEFINE x == req[r]
           c == x.clients[n]
           d == [c EXCEPT !.at = Failing(out)]
           y == Moved(x, n, d)
           z == [y EXCEPT !.answer = IF out = "raise" THEN "500" ELSE @]
<1>2. /\ x \in ARequest /\ OnTrack(x) /\ n \in DOMAIN x.clients
      /\ c \in Client /\ Sound(c) /\ Fails(c, out) /\ x.method = "tools/list"
  BY <1>1, PostEffect
<1>3. req' = [req EXCEPT ![r] = z]
  BY <1>1 DEF Moved
<1> HIDE DEF c
<1>4. /\ c.at \in {"init", "notify", "op"} /\ d \in Client /\ Sound(d)
      /\ d.at \in {"failed", "raised"} /\ (out = "raise" => d.at = "raised")
  BY <1>2, FailedSound
<1> HIDE DEF d
<1>5. /\ y \in ARequest /\ y.method = x.method /\ DOMAIN y.clients = DOMAIN x.clients
      /\ y.clients[n] = d
  BY <1>2, <1>4, ClientMoved
<1>6. OnTrack(y)
  BY <1>2, <1>4, MoveOnTrack DEF c
<1>7. y \in ListRequest
  BY <1>2, <1>5, RequestKinds
<1>8. y.answer # "tools"
  <2>1. x \in ListRequest
    BY <1>2, RequestKinds
  <2>2. y.answer = x.answer
    BY <1>2, <1>4, <2>1, ClientMoved
  <2>3. ~Ended(x)
    BY <1>2, <1>4 DEF Ended, c
  <2> QED
    BY <1>2, <2>2, <2>3 DEF OnTrack
<1> HIDE DEF x, y
<1>9. /\ z \in ListRequest /\ z.clients = y.clients /\ z.method = y.method
      /\ z.answer = IF out = "raise" THEN "500" ELSE y.answer
  BY <1>7 DEF ListRequest
<1>10. z \in ARequest
  BY <1>9 DEF ARequest, ListRequest
<1> HIDE DEF z
<1>11. OnTrack(z)
  BY <1>2, <1>4, <1>5, <1>6, <1>7, <1>8, <1>9 DEF OnTrack
<1>12. Becomes(r, z)
  BY <1>3, <1>10, Becoming
<1>13. Running(z) <=> Running(req[r])
  BY <1>2, <1>5, <1>9 DEF Running, x
<1> QED
  BY <1>1, <1>10, <1>11, <1>12, <1>13 DEF Quiet, TablesKept

LEMMA ListAnsweredQuiet ==
    ASSUME TypeOK, AllOnTrack, NEW r \in Requests, ListAnswered(r)
    PROVE  \E x \in ARequest : Quiet(r, x)
<1> DEFINE x == req[r]
           tools == Merged(x)
           z == [x EXCEPT !.answer = "tools", !.tools = tools]
<1>1. /\ x.method = "tools/list" /\ Ended(x) /\ x.answer = "none"
      /\ TablesKept /\ UNCHANGED ledger
  BY OverEnded DEF ListAnswered, TablesKept
<1>2. req' = [req EXCEPT ![r] = z]
  BY DEF ListAnswered, Merged
<1>3. x \in ARequest /\ OnTrack(x)
  BY DEF TypeOK, AllOnTrack
<1>4. x \in ListRequest /\ x.clients \in TableOf(Names, Client)
  BY <1>1, <1>3, RequestKinds
<1>5. tools \in SUBSET ToolNames
  <2>1. ASSUME NEW n \in DOMAIN x.clients
        PROVE  Group(x.key, n, x.clients[n].id) \in SUBSET ToolNames
    <3>1. n \in Names /\ x.clients[n] \in Client
      BY <1>4, TableFacts
    <3>2. x.clients[n].id \in Ids
      BY <3>1 DEF Client
    <3>3. \A t \in ToolsOf[x.clients[n].id] : t \in Tools
      BY <3>2, NameTypes
    <3> QED
      BY <3>1, <3>3 DEF Group, ToolNames
  <2> QED
    BY <2>1 DEF Merged
<1> HIDE DEF x, tools
<1>6. /\ z \in ListRequest /\ z.clients = x.clients /\ z.method = x.method
      /\ z.answer = "tools" /\ z.tools = tools /\ z.key = x.key
  BY <1>4, <1>5 DEF ListRequest
<1>7. z \in ARequest
  BY <1>6 DEF ARequest, ListRequest
<1> HIDE DEF z
<1>8. OnTrack(z)
  BY <1>1, <1>3, <1>6 DEF OnTrack, Ended, Merged, tools
<1>9. Becomes(r, z)
  BY <1>2, <1>7, Becoming
<1>10. Running(z) <=> Running(req[r])
  BY <1>1, <1>6 DEF Running, x
<1> QED
  BY <1>1, <1>7, <1>8, <1>9, <1>10 DEF Quiet

\* A call comes to its end.
CallEnds(r) ==
    /\ req' \in [Requests -> ARequest] /\ Alone(r) /\ OnTrack(req'[r])
    /\ Running(req[r]) /\ ~Running(req'[r])

LEMMA CallDoneEnds ==
    ASSUME TypeOK, AllOnTrack, NEW r \in Requests, NEW n, CallDone(r, n)
    PROVE  CallEnds(r)
<1> DEFINE c == req[r].clients[n]
           d == [c EXCEPT !.at = "done"]
<1>1. /\ Waiting(r, n) /\ c.at = "op" /\ ClientMoves(r, n, d) /\ req[r].method = "tools/call"
  BY DEF CallDone
<1>2. c \in Client /\ Sound(c)
  BY <1>1, PostEffect
<1> HIDE DEF c
<1>3. d \in Client /\ Sound(d) /\ d.at = "done"
  BY <1>1, <1>2, DoneSound
<1> HIDE DEF d
<1> QED
  BY <1>1, <1>3, Moves DEF CallEnds, Becomes, c

LEMMA CallFailsEnds ==
    ASSUME TypeOK, AllOnTrack, NEW r \in Requests, NEW n, CallFails(r, n)
    PROVE  CallEnds(r)
<1>1. PICK out \in AnOutcome :
        /\ Waiting(r, n) /\ req[r].method = "tools/call" /\ Fails(req[r].clients[n], out)
        /\ ClientMoves(r, n, [req[r].clients[n] EXCEPT !.at = Failing(out)])
  BY DEF CallFails
<1> DEFINE c == req[r].clients[n]
           d == [c EXCEPT !.at = Failing(out)]
<1>2. c \in Client /\ Sound(c)
  BY <1>1, PostEffect
<1>3. Fails(c, out) /\ ClientMoves(r, n, d)
  BY <1>1
<1> HIDE DEF c
<1>4. /\ c.at \in {"init", "notify", "op"} /\ d \in Client /\ Sound(d)
      /\ d.at \in {"failed", "raised"}
  BY <1>2, <1>3, FailedSound
<1> HIDE DEF d
<1> QED
  BY <1>1, <1>3, <1>4, Moves DEF CallEnds, Becomes, c

LEMMA TypeParts == TypeOK /\ NamesChecked <=> Tables /\ req \in [Requests -> ARequest]
    /\ pending \in [Statuses -> Nat] /\ recorded \in [Statuses -> Nat]
    /\ forwarded \in 0 .. MaxCalls /\ raised \in Nat /\ lost \in Nat
BY DEF TypeOK, Tables, Admin

\* What a request that leaves the tables alone has to show.
LEMMA TablesKeptInv ==
    ASSUME GatewayInv, TablesKept,
           req' \in [Requests -> ARequest],
           pending' \in [Statuses -> Nat], recorded' \in [Statuses -> Nat],
           forwarded' \in 0 .. MaxCalls, raised' \in Nat, lost' \in Nat,
           AllOnTrack', CallsAccounted'
    PROVE  GatewayInv'
BY DEF GatewayInv, TablesKept, TypeOK, NamesChecked, SnapshotTrue, CleanRows, ByName

LEMMA QuietInv ==
    ASSUME GatewayInv, NEW r \in Requests, NEW x, Quiet(r, x)
    PROVE  GatewayInv'
<1>1. /\ req' \in [Requests -> ARequest] /\ Alone(r) /\ OnTrack(req'[r])
      /\ Running(req'[r]) <=> Running(req[r])
      /\ TablesKept /\ UNCHANGED ledger
  BY DEF Quiet, Becomes
<1>2. AllOnTrack'
  BY <1>1, OthersOnTrack DEF GatewayInv
<1>3. Active' = Active
  BY <1>1, ActiveAfter
<1>4. CallsAccounted'
  BY <1>1, <1>3 DEF GatewayInv, CallsAccounted, ledger
<1> QED
  BY <1>1, <1>2, <1>4, TablesKeptInv DEF GatewayInv, TypeOK, ledger

LEMMA CountersNat ==
    ASSUME TypeOK
    PROVE  /\ pending[200] \in Nat /\ pending[502] \in Nat
           /\ recorded[200] \in Nat /\ recorded[502] \in Nat
           /\ forwarded \in Nat /\ raised \in Nat /\ lost \in Nat
BY McpAssumption DEF TypeOK, Statuses

LEMMA CallInv ==
    ASSUME GatewayInv, NEW r \in Requests, NEW k \in Keys, NEW name \in ToolNames,
           tools_call(r, k, name)
    PROVE  GatewayInv'
<1>1. /\ Callable(k, name) /\ Fresh(r) /\ forwarded < MaxCalls /\ forwarded' = forwarded + 1
      /\ req' = [req EXCEPT ![r] =
                   [method |-> "tools/call", name |-> name, clients |-> ClientsFor({ServerOf(name)})]]
      /\ TablesKept /\ UNCHANGED <<pending, recorded, raised, lost>>
  BY DEF tools_call, TablesKept
<1>2. /\ req' \in [Requests -> ARequest] /\ Alone(r) /\ OnTrack(req'[r])
      /\ Running(req'[r]) /\ ~Running(req[r])
  BY <1>1, CallStarts DEF GatewayInv
<1>3. AllOnTrack'
  BY <1>2, OthersOnTrack DEF GatewayInv
<1>4. r \notin Active /\ Active' = Active \cup {r}
  BY <1>2, ActiveAfter
<1>5. Cardinality(Active') = Cardinality(Active) + 1 /\ Cardinality(Active) \in Nat
  BY <1>4, ActiveFinite
<1>6. CallsAccounted'
  BY <1>1, <1>5, CountersNat DEF GatewayInv, CallsAccounted
<1>7. forwarded' \in 0 .. MaxCalls
  BY <1>1, McpAssumption DEF GatewayInv, TypeOK
<1> QED
  BY <1>1, <1>2, <1>3, <1>6, <1>7, TablesKeptInv DEF GatewayInv, TypeOK

LEMMA Bumped ==
    ASSUME NEW f \in [Statuses -> Nat], NEW s \in Statuses, NEW v \in Nat
    PROVE  /\ [f EXCEPT ![s] = v] \in [Statuses -> Nat]
           /\ \A t \in Statuses : [f EXCEPT ![s] = v][t] = IF t = s THEN v ELSE f[t]
OBVIOUS

LEMMA OneOver ==
    ASSUME NEW A \in Nat, NEW p \in Nat, NEW q \in Nat, NEW pp \in Nat, NEW qq \in Nat,
           NEW w \in Nat, NEW ww \in Nat, NEW R \in Nat, NEW S \in Nat, NEW L \in Nat,
           pp + qq + ww = p + q + w + 1
    PROVE  A + p + q + R + S + w + L = (A - 1) + pp + qq + R + S + ww + L
OBVIOUS

\* A call that ends is counted by what becomes of its record.
LEMMA EndedInv ==
    ASSUME GatewayInv, NEW r \in Requests, CallEnds(r), TablesKept,
           UNCHANGED <<recorded, forwarded, lost>>,
           \/ \E s \in Statuses : pending' = [pending EXCEPT ![s] = @ + 1] /\ raised' = raised
           \/ raised' = raised + 1 /\ pending' = pending
    PROVE  GatewayInv'
<1>1. /\ req' \in [Requests -> ARequest] /\ Alone(r) /\ OnTrack(req'[r])
      /\ Running(req[r]) /\ ~Running(req'[r])
  BY DEF CallEnds
<1>2. AllOnTrack'
  BY <1>1, OthersOnTrack DEF GatewayInv
<1>3. r \in Active /\ Active' = Active \ {r}
  BY <1>1, ActiveAfter
<1>4. Cardinality(Active') = Cardinality(Active) - 1 /\ Cardinality(Active) \in Nat
  BY <1>3, ActiveFinite
<1>5. /\ pending' \in [Statuses -> Nat] /\ raised' \in Nat
      /\ pending'[200] + pending'[502] + raised' = pending[200] + pending[502] + raised + 1
  <2>1. ASSUME NEW s \in Statuses, pending' = [pending EXCEPT ![s] = pending[s] + 1]
        PROVE  /\ pending' \in [Statuses -> Nat]
               /\ pending'[200] + pending'[502] = pending[200] + pending[502] + 1
    <3>1. pending \in [Statuses -> Nat] /\ pending[s] + 1 \in Nat
      BY DEF GatewayInv, TypeOK
    <3>2. pending' \in [Statuses -> Nat]
          /\ \A t \in Statuses : pending'[t] = IF t = s THEN pending[s] + 1 ELSE pending[t]
      BY <2>1, <3>1, Bumped
    <3>3. pending'[200] + pending'[502] = pending[200] + pending[502] + 1
      BY <3>2, CountersNat DEF GatewayInv, Statuses
    <3> QED
      BY <3>2, <3>3
  <2>2. raised \in Nat /\ pending \in [Statuses -> Nat] /\ pending[200] \in Nat /\ pending[502] \in Nat
    BY CountersNat DEF GatewayInv, TypeOK
  <2>3. CASE \E s \in Statuses : pending' = [pending EXCEPT ![s] = pending[s] + 1] /\ raised' = raised
    <3>1. /\ pending' \in [Statuses -> Nat] /\ raised' = raised
          /\ pending'[200] + pending'[502] = pending[200] + pending[502] + 1
      BY <2>1, <2>3
    <3>2. pending'[200] \in Nat /\ pending'[502] \in Nat
      BY <3>1 DEF Statuses
    <3> QED
      BY <2>2, <3>1, <3>2
  <2>4. CASE raised' = raised + 1 /\ pending' = pending
    BY <2>2, <2>4
  <2> QED
    BY <2>3, <2>4
<1>6. pending'[200] \in Nat /\ pending'[502] \in Nat
  BY <1>5 DEF Statuses
<1>7. CallsAccounted'
  <2>1. /\ pending[200] \in Nat /\ pending[502] \in Nat /\ recorded[200] \in Nat
        /\ recorded[502] \in Nat /\ raised \in Nat /\ lost \in Nat
    BY CountersNat DEF GatewayInv
  <2>2. Cardinality(Active) + pending[200] + pending[502] + recorded[200] + recorded[502] + raised + lost
          = (Cardinality(Active) - 1) + pending'[200] + pending'[502] + recorded[200] + recorded[502]
              + raised' + lost
    BY <1>4, <1>5, <1>6, <2>1, OneOver
  <2> QED
    BY <1>4, <2>2 DEF GatewayInv, CallsAccounted
<1> QED
  BY <1>1, <1>2, <1>5, <1>7, TablesKeptInv DEF GatewayInv, TypeOK

LEMMA RecordInv ==
    ASSUME GatewayInv, NEW s \in Statuses, RecordUsage(s)
    PROVE  GatewayInv'
<1>1. /\ pending[s] > 0 /\ pending' = [pending EXCEPT ![s] = pending[s] - 1]
      /\ \/ recorded' = [recorded EXCEPT ![s] = recorded[s] + 1] /\ lost' = lost
         \/ lost' = lost + 1 /\ recorded' = recorded
      /\ TablesKept /\ UNCHANGED <<req, forwarded, raised>>
  BY DEF RecordUsage, TablesKept
<1>2. /\ pending \in [Statuses -> Nat] /\ recorded \in [Statuses -> Nat]
      /\ pending[s] \in Nat /\ recorded[s] \in Nat /\ lost \in Nat
  BY DEF GatewayInv, TypeOK
<1>3. /\ pending' \in [Statuses -> Nat]
      /\ \A t \in Statuses : pending'[t] = IF t = s THEN pending[s] - 1 ELSE pending[t]
  BY <1>1, <1>2, Bumped
<1>4. /\ recorded' \in [Statuses -> Nat] /\ lost' \in Nat
      /\ \/ /\ \A t \in Statuses : recorded'[t] = IF t = s THEN recorded[s] + 1 ELSE recorded[t]
            /\ lost' = lost
         \/ recorded' = recorded /\ lost' = lost + 1
  BY <1>1, <1>2, Bumped
<1>5. Active' = Active
  BY <1>1 DEF Active, Over
<1>6. CallsAccounted'
  <2>1. \/ /\ pending'[200] = pending[200] - 1 /\ pending'[502] = pending[502]
           /\ \/ recorded'[200] = recorded[200] + 1 /\ recorded'[502] = recorded[502] /\ lost' = lost
              \/ recorded' = recorded /\ lost' = lost + 1
        \/ /\ pending'[502] = pending[502] - 1 /\ pending'[200] = pending[200]
           /\ \/ recorded'[502] = recorded[502] + 1 /\ recorded'[200] = recorded[200] /\ lost' = lost
              \/ recorded' = recorded /\ lost' = lost + 1
    <3>1. s = 200 \/ s = 502
      BY DEF Statuses
    <3>2. 200 \in Statuses /\ 502 \in Statuses
      BY DEF Statuses
    <3>3. CASE s = 200
      BY <1>3, <1>4, <3>2, <3>3
    <3>4. CASE s = 502
      BY <1>3, <1>4, <3>2, <3>4
    <3> QED
      BY <3>1, <3>3, <3>4
  <2> DEFINE A == Cardinality(Active)
  <2>2. A \in Nat /\ forwarded = A + pending[200] + pending[502] + recorded[200] + recorded[502] + raised + lost
    BY ActiveFinite DEF GatewayInv, CallsAccounted
  <2> HIDE DEF A
  <2>3. forwarded = A + pending'[200] + pending'[502] + recorded'[200] + recorded'[502] + raised + lost'
    BY <2>1, <2>2, CountersNat DEF GatewayInv
  <2> QED
    BY <1>1, <1>5, <2>3 DEF CallsAccounted, A
<1>7. AllOnTrack'
  BY <1>1 DEF GatewayInv, AllOnTrack
<1> QED
  BY <1>1, <1>3, <1>4, <1>6, <1>7, TablesKeptInv DEF GatewayInv, TypeOK

-------------------------------------------------------------------------------
(* The invariant *)

LEMMA InitInv == Init => GatewayInv
<1> SUFFICES ASSUME Init PROVE GatewayInv
  OBVIOUS
<1>1. /\ rows = Nothing /\ snapshot = Nothing /\ admin = [a \in Admins |-> Resting]
      /\ req = [r \in Requests |-> NoRequest] /\ pending = Zero /\ recorded = Zero
      /\ forwarded = 0 /\ raised = 0 /\ lost = 0 /\ old = FALSE
  BY DEF Init
<1>2. /\ Nothing \in TableOf(Ids, Row) /\ Nothing \in TableOf(Names, Server)
      /\ DOMAIN Nothing = {}
  BY NothingTable
<1>3. Resting \in Admin /\ CleanRows(Resting.read) /\ CleanRows(Nothing)
  BY <1>2 DEF Resting, Admin, CleanRows
<1>4. NoRequest \in ARequest /\ OnTrack(NoRequest) /\ ~Running(NoRequest)
  BY <1>2 DEF ARequest, NoRequest, OnTrack, Running
<1>5. Zero \in [Statuses -> Nat] /\ Zero[200] = 0 /\ Zero[502] = 0
  BY DEF Zero, Statuses
<1>6. Tables
  BY <1>1, <1>2, <1>3 DEF Tables, NamesChecked
<1>7. TypeOK /\ NamesChecked
  <2>1. 0 \in 0 .. MaxCalls
    BY McpAssumption
  <2> QED
    BY <1>1, <1>4, <1>5, <1>6, <2>1, TypeParts
<1>8. SnapshotTrue
  <2>1. DOMAIN ByName(Nothing) = {}
    BY <1>2 DEF ByName
  <2>2. ByName(Nothing) = [x \in {} |-> x]
    BY <1>2 DEF ByName
  <2> QED
    BY <1>1, <2>2 DEF SnapshotTrue, Nothing
<1>9. AllOnTrack
  BY <1>1, <1>4 DEF AllOnTrack
<1>10. CallsAccounted
  <2>1. Active = {}
    BY <1>1, <1>4, ActiveRunning
  <2>2. Cardinality(Active) = 0
    BY <2>1, FS_EmptySet
  <2> QED
    BY <1>1, <1>5, <2>2 DEF CallsAccounted
<1> QED
  BY <1>7, <1>8, <1>9, <1>10 DEF GatewayInv

LEMMA AdminInv ==
    ASSUME GatewayInv, NEW a \in Admins, AdminStep(a)
    PROVE  GatewayInv' /\ UNCHANGED req
<1>1. Tables /\ SnapshotTrue
  BY TypeParts DEF GatewayInv
<1>2. Tables' /\ SnapshotTrue' /\ UNCHANGED <<req, ledger>>
  BY <1>1, AdminTables
<1>3. TypeOK' /\ NamesChecked'
  BY <1>2 DEF GatewayInv, TypeOK, Tables, ledger, Admin
<1>4. AllOnTrack'
  BY <1>2 DEF GatewayInv, AllOnTrack
<1>5. CallsAccounted'
  BY <1>2 DEF GatewayInv, CallsAccounted, Active, Over, ledger
<1> QED
  BY <1>2, <1>3, <1>4, <1>5 DEF GatewayInv

LEMMA CallDoneInv ==
    ASSUME GatewayInv, NEW r \in Requests, NEW n, CallDone(r, n)
    PROVE  GatewayInv' /\ CallEnds(r)
<1>1. CallEnds(r)
  BY CallDoneEnds DEF GatewayInv
<1>2. pending' = [pending EXCEPT ![200] = @ + 1] /\ raised' = raised /\ 200 \in Statuses
      /\ TablesKept /\ UNCHANGED <<recorded, forwarded, lost>>
  BY DEF CallDone, TablesKept, Statuses
<1> QED
  BY <1>1, <1>2, EndedInv

LEMMA CallFailsInv ==
    ASSUME GatewayInv, NEW r \in Requests, NEW n, CallFails(r, n)
    PROVE  GatewayInv' /\ CallEnds(r)
<1>1. CallEnds(r)
  BY CallFailsEnds DEF GatewayInv
<1>2. /\ \/ raised' = raised + 1 /\ pending' = pending
         \/ pending' = [pending EXCEPT ![502] = @ + 1] /\ raised' = raised
      /\ 502 \in Statuses
      /\ TablesKept /\ UNCHANGED <<recorded, forwarded, lost>>
  BY DEF CallFails, TablesKept, Statuses
<1> QED
  BY <1>1, <1>2, EndedInv

LEMMA StepInv == GatewayInv /\ [Next]_vars => GatewayInv'
<1> SUFFICES ASSUME GatewayInv, [Next]_vars PROVE GatewayInv'
  OBVIOUS
<1>1. CASE \E a \in Admins : Write(a) \/ ReloadReads(a) \/ ReloadSets(a) \/ ReloadFails(a)
  BY <1>1, AdminInv DEF AdminStep
<1>2. ASSUME NEW r \in Requests,
             \/ \E k \in Keys : tools_list(r, k) \/ \E name \in ToolNames : tools_call(r, k, name)
             \/ Post(r) \/ ListAnswered(r)
      PROVE  GatewayInv'
  <2>1. ASSUME NEW k \in Keys, tools_list(r, k)
        PROVE  GatewayInv'
    BY <2>1, ListStarts, QuietInv DEF GatewayInv
  <2>2. ASSUME NEW k \in Keys, NEW name \in ToolNames, tools_call(r, k, name)
        PROVE  GatewayInv'
    BY <2>2, CallInv
  <2>3. ASSUME NEW n \in Names, Initialize(r, n)
        PROVE  GatewayInv'
    BY <2>3, InitializeQuiet, QuietInv DEF GatewayInv
  <2>4. ASSUME NEW n \in Names, Notify(r, n)
        PROVE  GatewayInv'
    BY <2>4, NotifyQuiet, QuietInv DEF GatewayInv
  <2>5. ASSUME NEW n \in Names, FetchDone(r, n)
        PROVE  GatewayInv'
    BY <2>5, FetchDoneQuiet, QuietInv DEF GatewayInv
  <2>6. ASSUME NEW n \in Names, FetchFails(r, n)
        PROVE  GatewayInv'
    BY <2>6, FetchFailsQuiet, QuietInv DEF GatewayInv
  <2>7. ASSUME NEW n \in Names, CallDone(r, n)
        PROVE  GatewayInv'
    BY <2>7, CallDoneInv
  <2>8. ASSUME NEW n \in Names, CallFails(r, n)
        PROVE  GatewayInv'
    BY <2>8, CallFailsInv
  <2>9. CASE ListAnswered(r)
    BY <2>9, ListAnsweredQuiet, QuietInv DEF GatewayInv
  <2> QED
    BY <1>2, <2>1, <2>2, <2>3, <2>4, <2>5, <2>6, <2>7, <2>8, <2>9 DEF Post
<1>3. CASE \E s \in Statuses : RecordUsage(s)
  BY <1>3, RecordInv
<1>4. CASE UNCHANGED vars
  BY <1>4, TablesKeptInv
  DEF vars, ledger, TablesKept, GatewayInv, TypeOK, AllOnTrack, CallsAccounted, Active, Over
<1> QED
  BY <1>1, <1>2, <1>3, <1>4 DEF Next

\* Whatever administrators, upstreams and clients do, in any order: names are
\* checked before they are routed by, requests keep to their course, and every
\* tool call is accounted for.
THEOREM GatewayHolds == Spec => []GatewayInv
BY InitInv, StepInv, PTL DEF Spec

\* Types, and one usage record per tool call that was forwarded and did not end
\* in an exception or lose its record on the way to the ledger.
THEOREM AccountHolds == Spec => []AccountInv
<1>1. GatewayInv => AccountInv
  BY DEF GatewayInv, AccountInv
<1> QED
  BY <1>1, GatewayHolds, PTL

\* A tool is listed under a name that leads back to its server, if no server's
\* name ends with an underscore.
THEOREM NeverCollide ==
    ASSUME EndsClean
    PROVE  Spec => []ToolsNeverCollide
<1>1. ASSUME GatewayInv
      PROVE  ToolsNeverCollide
  <2> SUFFICES ASSUME NEW n \in DOMAIN snapshot, NEW t \in ToolsOf[snapshot[n].id]
               PROVE  ServerOf(Namespaced(n, t)) = n
    BY DEF ToolsNeverCollide
  <2>1. DOMAIN snapshot \in SUBSET Names /\ snapshot \in [DOMAIN snapshot -> Server]
    BY <1>1, TableFacts DEF GatewayInv, TypeOK
  <2>2. n \in Names /\ NameAllowed(n)
    BY <1>1, <2>1 DEF GatewayInv, NamesChecked
  <2>3. snapshot[n].id \in Ids
    BY <2>1 DEF Server
  <2>4. t \in Seq(Char)
    BY <2>3, NameTypes
  <2> QED
    BY <2>2, <2>4, Demuxed
<1> QED
  BY <1>1, GatewayHolds, PTL

\* What a listing that has been merged has of one server.
LEMMA ListedOf ==
    ASSUME EndsClean, NEW x \in ListRequest, OnTrack(x), NEW n \in DOMAIN x.clients,
           x.tools = Merged(x)
    PROVE  {name \in x.tools : ServerOf(name) = n} =
              IF x.clients[n].at = "done" THEN Group(x.key, n, x.clients[n].id) ELSE {}
<1> DEFINE done == {m \in DOMAIN x.clients : x.clients[m].at = "done"}
           group(m) == Group(x.key, m, x.clients[m].id)
<1>1. ASSUME NEW m \in DOMAIN x.clients, NEW name \in group(m)
      PROVE  ServerOf(name) = m
  <2>1. x.clients \in TableOf(Names, Client)
    BY DEF ListRequest
  <2>2. m \in Names /\ x.clients[m] \in Client
    BY <2>1, TableFacts
  <2>3. x.clients[m].id \in Ids
    BY <2>2 DEF Client
  <2>4. PICK t \in ToolsOf[x.clients[m].id] : name = Namespaced(m, t)
    BY DEF Group
  <2>5. t \in Seq(Char) /\ NameAllowed(m)
    BY <2>3, NameTypes DEF OnTrack
  <2> QED
    BY <2>2, <2>4, <2>5, Demuxed
<1>2. x.tools = UNION {group(m) : m \in done}
  BY DEF Merged
<1> HIDE DEF group
<1>3. {name \in x.tools : ServerOf(name) = n} = IF n \in done THEN group(n) ELSE {}
  BY <1>1, <1>2
<1> QED
  BY <1>3 DEF group

\* A listing has exactly the permitted tools of the upstreams that answered,
\* among them all that always do, and fails as a whole only if one of them
\* sends something that is no message.
THEOREM ListHolds ==
    ASSUME EndsClean
    PROVE  Spec => []ListComplete
<1>1. ASSUME GatewayInv
      PROVE  ListComplete
  <2> SUFFICES ASSUME NEW r \in Requests, req[r].method = "tools/list"
               PROVE  /\ req[r].answer = "tools" =>
                            \A n \in DOMAIN req[r].clients :
                               LET listed == {name \in req[r].tools : ServerOf(name) = n}
                                   group == Group(req[r].key, n, req[r].clients[n].id)
                               IN  /\ Reliable(req[r].clients[n].id) => listed = group
                                   /\ listed \in {{}, group}
                      /\ req[r].answer = "500" =>
                            \E n \in DOMAIN req[r].clients : req[r].clients[n].at = "raised"
    BY DEF ListComplete
  <2>1. req[r] \in ListRequest /\ OnTrack(req[r])
    BY <1>1, RequestKinds DEF GatewayInv, TypeOK, AllOnTrack
  <2>2. ASSUME req[r].answer = "tools", NEW n \in DOMAIN req[r].clients
        PROVE  LET listed == {name \in req[r].tools : ServerOf(name) = n}
                   group == Group(req[r].key, n, req[r].clients[n].id)
               IN  /\ Reliable(req[r].clients[n].id) => listed = group
                   /\ listed \in {{}, group}
    <3>1. Ended(req[r]) /\ req[r].tools = Merged(req[r])
      BY <2>1, <2>2 DEF OnTrack
    <3>2. {name \in req[r].tools : ServerOf(name) = n} =
             IF req[r].clients[n].at = "done"
             THEN Group(req[r].key, n, req[r].clients[n].id) ELSE {}
      BY <2>1, <2>2, <3>1, ListedOf
    <3>3. Reliable(req[r].clients[n].id) => req[r].clients[n].at = "done"
      BY <2>1, <2>2, <3>1 DEF OnTrack, Sound, Ended
    <3> QED
      BY <3>2, <3>3
  <2>3. req[r].answer = "500" =>
            \E n \in DOMAIN req[r].clients : req[r].clients[n].at = "raised"
    BY <2>1 DEF OnTrack
  <2> QED
    BY <2>2, <2>3
<1> QED
  BY <1>1, GatewayHolds, PTL

\* Only a new request changes what a finished one was, and its clients are for
\* enabled servers of the snapshot.
LEMMA NewRequests ==
    ASSUME GatewayInv, Next, NEW r \in Requests, Fresh(r), req'[r] # req[r]
    PROVE  \E names \in SUBSET DOMAIN snapshot :
              /\ \A n \in names : snapshot[n].enabled
              /\ req'[r].clients = ClientsFor(names)
<1> DEFINE Goal == \E names \in SUBSET DOMAIN snapshot :
                      /\ \A n \in names : snapshot[n].enabled
                      /\ req'[r].clients = ClientsFor(names)
<1>1. \A n : Waiting(r, n) => req[r].clients[n].at \in {"done", "failed", "raised"}
  BY DEF Fresh, Over, Waiting
<1>2. ASSUME NEW q \in Requests, NEW x, Quiet(q, x)
      PROVE  q = r
  BY <1>2 DEF Quiet, Becomes, Alone
<1>3. ASSUME NEW q \in Requests, CallEnds(q)
      PROVE  q = r
  BY <1>3 DEF CallEnds, Alone
<1>4. ASSUME NEW q \in Requests, NEW n \in Names, Initialize(q, n)
      PROVE  FALSE
  BY <1>1, <1>2, <1>4, InitializeQuiet DEF Initialize, GatewayInv
<1>5. ASSUME NEW q \in Requests, NEW n \in Names, Notify(q, n)
      PROVE  FALSE
  BY <1>1, <1>2, <1>5, NotifyQuiet DEF Notify, GatewayInv
<1>6. ASSUME NEW q \in Requests, NEW n \in Names, FetchDone(q, n)
      PROVE  FALSE
  BY <1>1, <1>2, <1>6, FetchDoneQuiet DEF FetchDone, GatewayInv
<1>7. ASSUME NEW q \in Requests, NEW n \in Names, FetchFails(q, n)
      PROVE  FALSE
  BY <1>1, <1>2, <1>7, FetchFailsQuiet DEF FetchFails, Fails, GatewayInv
<1>8. ASSUME NEW q \in Requests, NEW n \in Names, CallDone(q, n)
      PROVE  FALSE
  BY <1>1, <1>3, <1>8, CallDoneEnds DEF CallDone, GatewayInv
<1>9. ASSUME NEW q \in Requests, NEW n \in Names, CallFails(q, n)
      PROVE  FALSE
  BY <1>1, <1>3, <1>9, CallFailsEnds DEF CallFails, Fails, GatewayInv
<1>10. ASSUME NEW q \in Requests, ListAnswered(q)
       PROVE  FALSE
  BY <1>2, <1>10, ListAnsweredQuiet DEF ListAnswered, Fresh, GatewayInv
<1>11. ASSUME NEW q \in Requests, NEW k \in Keys, tools_list(q, k)
       PROVE  Goal
  <2>1. q = r
    BY <1>2, <1>11, ListStarts DEF GatewayInv
  <2>2. req'[r].clients = ClientsFor(Visible(k))
    BY <1>11, <2>1, ListStarts DEF GatewayInv
  <2> QED
    BY <2>2 DEF Visible
<1>12. ASSUME NEW q \in Requests, NEW k \in Keys, NEW name \in ToolNames, tools_call(q, k, name)
       PROVE  Goal
  <2>1. /\ Callable(k, name) /\ Fresh(q)
        /\ req' = [req EXCEPT ![q] =
                     [method |-> "tools/call", name |-> name, clients |-> ClientsFor({ServerOf(name)})]]
    BY <1>12 DEF tools_call
  <2>2. Alone(q) /\ req'[q].clients = ClientsFor({ServerOf(name)})
    BY <2>1, CallStarts DEF GatewayInv
  <2>3. q = r
    BY <2>2 DEF Alone
  <2> QED
    BY <2>1, <2>2, <2>3 DEF Callable
<1>13. ASSUME NEW a \in Admins, AdminStep(a)
       PROVE  FALSE
  BY <1>13, AdminInv
<1>14. ASSUME NEW s \in Statuses, RecordUsage(s)
       PROVE  FALSE
  BY <1>14 DEF RecordUsage
<1> HIDE DEF Goal
<1>15. Goal
  BY <1>4, <1>5, <1>6, <1>7, <1>8, <1>9, <1>10, <1>11, <1>12, <1>13, <1>14
  DEF Next, Post, AdminStep
<1> QED
  BY <1>15 DEF Goal

StartsKnown ==
    \A r \in Requests :
        Settled /\ req'[r] # req[r] /\ Fresh(r) =>
            \A n \in DOMAIN req'[r].clients :
                LET id == req'[r].clients[n].id
                IN  id \in DOMAIN rows /\ rows[id] = [name |-> n, enabled |-> TRUE]

LEMMA StepStartsKnown == GatewayInv /\ [Next]_vars => [StartsKnown]_vars
<1> SUFFICES ASSUME GatewayInv, Next, Settled,
                    NEW r \in Requests, req'[r] # req[r], Fresh(r),
                    NEW n \in DOMAIN req'[r].clients
             PROVE  LET id == req'[r].clients[n].id
                    IN  id \in DOMAIN rows /\ rows[id] = [name |-> n, enabled |-> TRUE]
  BY DEF StartsKnown
<1>1. PICK names \in SUBSET DOMAIN snapshot :
        /\ \A m \in names : snapshot[m].enabled
        /\ req'[r].clients = ClientsFor(names)
  BY NewRequests
<1>2. n \in names /\ n \in DOMAIN snapshot /\ req'[r].clients[n].id = snapshot[n].id
  BY <1>1, NewClients DEF GatewayInv
<1>3. snapshot = ByName(rows)
  BY DEF GatewayInv, SnapshotTrue, Settled
<1>4. rows \in TableOf(Ids, Row)
  BY DEF GatewayInv, TypeOK
<1>5. PICK i \in DOMAIN rows :
        rows[i].name = n /\ snapshot[n] = [id |-> i, enabled |-> rows[i].enabled]
  BY <1>2, <1>3, <1>4, ByNameFacts
<1>6. rows[i] \in Row /\ rows[i].enabled
  BY <1>1, <1>2, <1>4, <1>5, TableFacts
<1>7. rows[i] = [name |-> n, enabled |-> TRUE]
  BY <1>5, <1>6 DEF Row
<1> QED
  BY <1>2, <1>5, <1>7

\* Once the administrators are idle and the last reload has shown the table as
\* it is, no new request goes to a server that was disabled, renamed or deleted.
THEOREM DisabledHolds == Spec => DisabledLeftAlone
BY StepStartsKnown, GatewayHolds, PTL DEF Spec, DisabledLeftAlone, StartsKnown

===============================================================================
