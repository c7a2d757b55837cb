------------------------------ MODULE McpGateway ------------------------------
(***************************************************************************)
(* The MCP gateway of one process: the endpoint (app/api/mcp.py), the      *)
(* client it makes for every upstream call (app/mcp/client.py), the        *)
(* snapshot of the server table it routes by (app/mcp/registry.py), and    *)
(* the admin handlers that change the table (app/api/admin.py).  Requests  *)
(* wait at every post, and servers are renamed, disabled and deleted       *)
(* meanwhile.                                                              *)
(*                                                                         *)
(* The id of a row stands for the upstream itself: its url and its         *)
(* credentials, which are taken not to change.  Requests that are answered *)
(* at once (initialize, notifications, refusals) change nothing and are no *)
(* actions.                                                                *)
(***************************************************************************)
EXTENDS McpNames, FiniteSets

CONSTANTS
    Requests,    \* tools/list and tools/call requests under way at the same time
    Admins,      \* requests to the admin API under way at the same time
    Ids,         \* ids of MCPServer rows
    NamesOf,     \* the names an admin may ask for a row
    ToolsOf,     \* the tools an upstream has
    Stateful,    \* the upstreams that insist on the session they assigned
    Outcomes,    \* how an upstream may answer a post: see AnOutcome
    Keys,
    ScopeOf,     \* a key's allowed_servers and allowed_tools
    MaxCalls     \* bound: tool calls forwarded

AnOutcome == {"ok",      \* a JSON-RPC result
              "error",   \* unreachable, an HTTP status, no message, a JSON-RPC error: MCPError
              "raise"}   \* an answer that is not JSON, or not of the right shape

Names == UNION {NamesOf[i] : i \in Ids}
Tools == UNION {ToolsOf[i] : i \in Ids}
ToolNames == {Namespaced(n, t) : n \in Names, t \in Tools}

ASSUME McpAssumption ==
    /\ IsFiniteSet(Requests) /\ IsFiniteSet(Admins)
    /\ NamesOf \in [Ids -> SUBSET Seq(STRING)]
    /\ ToolsOf \in [Ids -> SUBSET (Seq(STRING) \ {<<>>})]
    /\ Stateful \subseteq Ids
    /\ Outcomes \in [Ids -> SUBSET AnOutcome]
    /\ ScopeOf \in [Keys -> [servers : SUBSET Names, tools : SUBSET ToolNames]]
    /\ MaxCalls \in Nat

VARIABLES
    rows,       \* table mcp_servers: id -> name, enabled
    snapshot,   \* MCPServerRegistry._servers: name -> id, enabled
    admin,      \* an admin request: where it is, what its reload has read
    req,        \* the requests, each with the clients it has made
    pending,    \* record_usage tasks scheduled, by status
    recorded,   \* tool records in the ledger, by status
    forwarded, raised, lost,  \* history: tool calls forwarded; ended by an
                              \* exception; whose record could not be written
    old         \* history: the snapshot may be old, see DisabledLeftAlone

ledger == <<pending, recorded, forwarded, raised, lost>>
vars == <<rows, snapshot, admin, req, ledger, old>>

Row == [name : Names, enabled : BOOLEAN]
Server == [id : Ids, enabled : BOOLEAN]
TableOf(S, T) == UNION {[D -> T] : D \in SUBSET S}
Nothing == [x \in {} |-> x]

Client == [id : Ids, at : {"init", "notify", "op", "done", "failed", "raised"}, session : BOOLEAN]
NoRequest == [method |-> "none", clients |-> Nothing]
ARequest ==
    {NoRequest}
    \cup [method : {"tools/list"}, key : Keys, clients : TableOf(Names, Client),
          answer : {"none", "tools", "500"}, tools : SUBSET ToolNames]
    \cup [method : {"tools/call"}, name : ToolNames, clients : TableOf(Names, Client)]

Statuses == {200, 502}
Zero == [s \in Statuses |-> 0]

TypeOK ==
    /\ rows \in TableOf(Ids, Row)
    /\ snapshot \in TableOf(Names, Server)
    /\ admin \in [Admins -> [at : {"idle", "reload", "set"}, read : TableOf(Ids, Row)]]
    /\ req \in [Requests -> ARequest]
    /\ pending \in [Statuses -> Nat] /\ recorded \in [Statuses -> Nat]
    /\ forwarded \in 0 .. MaxCalls /\ raised \in Nat /\ lost \in Nat
    /\ old \in BOOLEAN

Resting == [at |-> "idle", read |-> Nothing]

Init ==
    /\ rows = Nothing /\ snapshot = Nothing
    /\ admin = [a \in Admins |-> Resting]
    /\ req = [r \in Requests |-> NoRequest]
    /\ pending = Zero /\ recorded = Zero
    /\ forwarded = 0 /\ raised = 0 /\ lost = 0
    /\ old = FALSE

-------------------------------------------------------------------------------
\* The admin handlers.  The name is unique in the table: a handler's check and
\* its commit, which await in between, come out as the commit alone does.
Taken(name, id) == \E i \in DOMAIN rows \ {id} : rows[i].name = name

Committed(a) ==
    /\ admin' = [admin EXCEPT ![a].at = "reload"]
    /\ UNCHANGED <<snapshot, req, ledger, old>>

create_mcp_server(a, id, row) ==
    /\ admin[a].at = "idle"
    /\ id \notin DOMAIN rows
    /\ NameAllowed(row.name) /\ ~Taken(row.name, id)
    /\ rows' = [i \in DOMAIN rows \cup {id} |-> IF i = id THEN row ELSE rows[i]]
    /\ Committed(a)

\* The row may come out as it was, and is reloaded all the same.
update_mcp_server(a, id, row) ==
    /\ admin[a].at = "idle"
    /\ id \in DOMAIN rows
    /\ NameAllowed(row.name) /\ ~Taken(row.name, id)
    /\ rows' = [rows EXCEPT ![id] = row]
    /\ Committed(a)

\* Another handler may have deleted the row since this one found it: the
\* commit and the reload are the same.
delete_mcp_server(a, id) ==
    /\ admin[a].at = "idle"
    /\ id \in DOMAIN rows \/ Admins # {a}
    /\ rows' = [i \in DOMAIN rows \ {id} |-> rows[i]]
    /\ Committed(a)

\* MCPServerRegistry.reload: the query,
ReloadReads(a) ==
    /\ admin[a].at = "reload"
    /\ admin' = [admin EXCEPT ![a] = [at |-> "set", read |-> rows]]
    /\ UNCHANGED <<rows, snapshot, req, ledger, old>>

ByName(someRows) ==
    [n \in {someRows[i].name : i \in DOMAIN someRows} |->
        LET i == CHOOSE j \in DOMAIN someRows : someRows[j].name = n
        IN  [id |-> i, enabled |-> someRows[i].enabled]]

\* ... and, an await later, set.
ReloadSets(a) ==
    /\ admin[a].at = "set"
    /\ snapshot' = ByName(admin[a].read)
    /\ old' = (admin[a].read # rows)
    /\ admin' = [admin EXCEPT ![a] = Resting]
    /\ UNCHANGED <<rows, req, ledger>>

\* The refresh after the commit, or the query, raises: the snapshot stays.
ReloadFails(a) ==
    /\ admin[a].at \in {"reload", "set"}
    /\ admin' = [admin EXCEPT ![a] = Resting]
    /\ old' = TRUE
    /\ UNCHANGED <<rows, snapshot, req, ledger>>

-------------------------------------------------------------------------------
\* KeyContext.may_use: empty lists restrict nothing.
MayUseServer(k, server) == ScopeOf[k].servers = {} \/ server \in ScopeOf[k].servers
MayUse(k, server, name) ==
    MayUseServer(k, server) /\ (ScopeOf[k].tools = {} \/ name \in ScopeOf[k].tools)

Visible(k) == {n \in DOMAIN snapshot : snapshot[n].enabled /\ MayUseServer(k, n)}

\* _make_client
NewClient(server) == [id |-> server.id, at |-> "init", session |-> FALSE]
ClientsFor(names) == [n \in names |-> NewClient(snapshot[n])]

Over(r) ==
    \A n \in DOMAIN req[r].clients : req[r].clients[n].at \in {"done", "failed", "raised"}

\* A request is new once all tasks of the one before it have come to an end.
Fresh(r) == Over(r) /\ (req[r].method = "tools/list" => req[r].answer # "none")

\* Fan out over the servers the key may see.
tools_list(r, k) ==
    /\ Fresh(r)
    /\ req' = [req EXCEPT ![r] =
                 [method |-> "tools/list", key |-> k, clients |-> ClientsFor(Visible(k)),
                  answer |-> "none", tools |-> {}]]
    /\ UNCHANGED <<rows, snapshot, admin, ledger, old>>

\* Mutant: a disabled server still takes calls.
Callable_Disabled(k, name) ==
    /\ ServerOf(name) \in DOMAIN snapshot
    /\ MayUse(k, ServerOf(name), name)

\* The server is known and enabled, and the key may use server and tool.
Callable(k, name) ==
    /\ ServerOf(name) \in DOMAIN snapshot
    /\ snapshot[ServerOf(name)].enabled
    /\ MayUse(k, ServerOf(name), name)

tools_call(r, k, name) ==
    /\ Fresh(r) /\ forwarded < MaxCalls
    /\ Callable(k, name)
    /\ req' = [req EXCEPT ![r] =
                 [method |-> "tools/call", name |-> name, clients |-> ClientsFor({ServerOf(name)})]]
    /\ forwarded' = forwarded + 1
    /\ UNCHANGED <<rows, snapshot, admin, pending, recorded, raised, lost, old>>

-------------------------------------------------------------------------------
\* The client: initialize, the initialized notification, then the operation;
\* one post at a time.
Waiting(r, n) == n \in DOMAIN req[r].clients

ClientMoves(r, n, client) == req' = [req EXCEPT ![r].clients[n] = client]

\* What becomes of a client whose post fails.
Failing(out) == IF out = "error" THEN "failed" ELSE "raised"

\* Mutant: the session the server assigned is not kept.
Initialized_NoSession(client) == [client EXCEPT !.at = "notify"]

\* A stateful server assigns a session with its answer.
Initialized(client) == [client EXCEPT !.at = "notify", !.session = client.id \in Stateful]

Initialize(r, n) ==
    LET c == req[r].clients[n]
    IN  /\ Waiting(r, n) /\ c.at = "init"
        /\ "ok" \in Outcomes[c.id]
        /\ ClientMoves(r, n, Initialized(c))
        /\ UNCHANGED <<rows, snapshot, admin, ledger, old>>

\* Nobody looks at how a notification is answered.
Notify(r, n) ==
    LET c == req[r].clients[n]
    IN  /\ Waiting(r, n) /\ c.at = "notify"
        /\ ClientMoves(r, n, [c EXCEPT !.at = "op"])
        /\ UNCHANGED <<rows, snapshot, admin, ledger, old>>

SessionGood(c) == c.id \in Stateful => c.session

\* A result of tools/list.
FetchDone(r, n) ==
    LET c == req[r].clients[n]
    IN  /\ Waiting(r, n) /\ req[r].method = "tools/list"
        /\ c.at = "op" /\ "ok" \in Outcomes[c.id] /\ SessionGood(c)
        /\ ClientMoves(r, n, [c EXCEPT !.at = "done"])
        /\ UNCHANGED <<rows, snapshot, admin, ledger, old>>

\* A post fails in one way or the other; a notification only if it cannot be sent.
Fails(c, out) ==
    \/ c.at \in {"init", "op"} /\ out \in Outcomes[c.id] \ {"ok"}
    \/ c.at = "notify" /\ out = "error" /\ out \in Outcomes[c.id]
    \/ c.at = "op" /\ out = "error" /\ ~SessionGood(c)

\* MCPError makes an empty group; anything else is what gather raises at once,
\* while the other fetches go on for nobody.
FetchFails(r, n) ==
    \E out \in AnOutcome :
        /\ Waiting(r, n) /\ req[r].method = "tools/list"
        /\ Fails(req[r].clients[n], out)
        /\ req' = [req EXCEPT ![r].clients[n].at = Failing(out),
                              ![r].answer = IF out = "raise" THEN "500" ELSE @]
        /\ UNCHANGED <<rows, snapshot, admin, ledger, old>>

\* The tools of one server that the key may call, under their full names.
Group(k, n, id) ==
    {name \in {Namespaced(n, t) : t \in ToolsOf[id]} : MayUse(k, n, name)}

\* All fetches have returned: merge.
ListAnswered(r) ==
    LET done == {n \in DOMAIN req[r].clients : req[r].clients[n].at = "done"}
    IN  /\ req[r].method = "tools/list" /\ Over(r) /\ req[r].answer = "none"
        /\ req' = [req EXCEPT ![r].answer = "tools",
                              ![r].tools = UNION {Group(req[r].key, n, req[r].clients[n].id) : n \in done}]
        /\ UNCHANGED <<rows, snapshot, admin, ledger, old>>

-------------------------------------------------------------------------------
\* A tool call returns: its record is scheduled.
CallDone(r, n) ==
    LET c == req[r].clients[n]
    IN  /\ Waiting(r, n) /\ req[r].method = "tools/call"
        /\ c.at = "op" /\ "ok" \in Outcomes[c.id] /\ SessionGood(c)
        /\ ClientMoves(r, n, [c EXCEPT !.at = "done"])
        /\ pending' = [pending EXCEPT ![200] = @ + 1]
        /\ UNCHANGED <<rows, snapshot, admin, recorded, forwarded, raised, lost, old>>

\* Mutant: a failed call returns before its record is scheduled.
CallFails_NoRecord(r, n) ==
    \E out \in AnOutcome :
        /\ Waiting(r, n) /\ req[r].method = "tools/call"
        /\ Fails(req[r].clients[n], out)
        /\ ClientMoves(r, n, [req[r].clients[n] EXCEPT !.at = Failing(out)])
        /\ raised' = IF out = "raise" THEN raised + 1 ELSE raised
        /\ UNCHANGED <<rows, snapshot, admin, pending, recorded, forwarded, lost, old>>

\* MCPError is an answer of its own, and recorded; anything else is a 500.
CallFails(r, n) ==
    \E out \in AnOutcome :
        /\ Waiting(r, n) /\ req[r].method = "tools/call"
        /\ Fails(req[r].clients[n], out)
        /\ ClientMoves(r, n, [req[r].clients[n] EXCEPT !.at = Failing(out)])
        /\ IF out = "raise"
           THEN raised' = raised + 1 /\ UNCHANGED pending
           ELSE pending' = [pending EXCEPT ![502] = @ + 1] /\ UNCHANGED raised
        /\ UNCHANGED <<rows, snapshot, admin, recorded, forwarded, lost, old>>

\* record_usage, after the response; a write that fails is logged and forgotten.
RecordUsage(s) ==
    /\ pending[s] > 0
    /\ pending' = [pending EXCEPT ![s] = @ - 1]
    /\ \/ recorded' = [recorded EXCEPT ![s] = @ + 1] /\ UNCHANGED lost
       \/ lost' = lost + 1 /\ UNCHANGED recorded
    /\ UNCHANGED <<rows, snapshot, admin, req, forwarded, raised, old>>

Write(a) ==
    \E id \in Ids :
        \/ \E row \in [name : NamesOf[id], enabled : BOOLEAN] :
              create_mcp_server(a, id, row) \/ update_mcp_server(a, id, row)
        \/ delete_mcp_server(a, id)

Post(r) ==
    \E n \in Names :
        \/ Initialize(r, n) \/ Notify(r, n)
        \/ FetchDone(r, n) \/ FetchFails(r, n) \/ CallDone(r, n) \/ CallFails(r, n)

Next ==
    \/ \E a \in Admins : Write(a) \/ ReloadReads(a) \/ ReloadSets(a) \/ ReloadFails(a)
    \/ \E r \in Requests :
          \/ \E k \in Keys : tools_list(r, k) \/ \E name \in ToolNames : tools_call(r, k, name)
          \/ Post(r) \/ ListAnswered(r)
    \/ \E s \in Statuses : RecordUsage(s)

Spec == Init /\ [][Next]_vars

-------------------------------------------------------------------------------
\* "so tools from different upstreams never collide and a call can be demuxed
\* back to its server": a name under which a registered server lists a tool is
\* never taken apart into the name of another one.
ToolsNeverCollide ==
    \A n \in DOMAIN snapshot :
        \A t \in ToolsOf[snapshot[n].id] : ServerOf(Namespaced(n, t)) = n

\* "Fan out tools/list to every allowed upstream": whatever the other upstreams
\* answer, and whatever an admin does meanwhile, a listing has exactly the
\* permitted tools of those that answered, among them every reliable one with
\* the session it asked for; it fails as a whole only if an upstream sends
\* something that is no JSON-RPC message.
Reliable(id) == Outcomes[id] = {"ok"}

ListComplete ==
    \A r \in Requests :
        LET clients == req[r].clients
            listed(n) == {name \in req[r].tools : ServerOf(name) = n}
        IN  req[r].method = "tools/list" =>
              /\ req[r].answer = "tools" =>
                    \A n \in DOMAIN clients :
                        /\ Reliable(clients[n].id) => listed(n) = Group(req[r].key, n, clients[n].id)
                        /\ listed(n) \in {{}, Group(req[r].key, n, clients[n].id)}
              /\ req[r].answer = "500" =>
                    \E n \in DOMAIN clients : clients[n].at = "raised"

\* "One usage record per tool call": each call that was forwarded is recorded
\* once, as a success or as a 502, when its record has been written; only those
\* that end in an exception of another kind never are.
Active == {r \in Requests : req[r].method = "tools/call" /\ ~Over(r)}

CallsAccounted ==
    forwarded = Cardinality(Active) + pending[200] + pending[502]
                  + recorded[200] + recorded[502] + raised + lost

\* What holds of the state itself: its types and this account.
AccountInv == TypeOK /\ CallsAccounted

\* A server that has been disabled, renamed or deleted, by requests that were
\* all answered, hears from no request that starts later - though requests
\* that saw it still initialize, notify and call, for as long as they take.
\* (Unless the last reload failed, or one that had read earlier came in last.)
Settled == ~old /\ \A a \in Admins : admin[a].at = "idle"

DisabledLeftAlone ==
    [][\A r \in Requests :
         Settled /\ req'[r] # req[r] /\ Fresh(r) =>
            \A n \in DOMAIN req'[r].clients :
                LET id == req'[r].clients[n].id
                IN  id \in DOMAIN rows /\ rows[id] = [name |-> n, enabled |-> TRUE]]_vars
===============================================================================
