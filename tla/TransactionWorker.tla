--------------------------- MODULE TransactionWorker ---------------------------
(***************************************************************************)
(* The transaction front end of crates/database: tasks that hold a         *)
(* Transaction, a pool of worker threads reached round robin, one          *)
(* unbounded FIFO channel per worker, and a oneshot responder per request. *)
(*                                                                         *)
(* The worker only executes StartTransaction; the arms of all other        *)
(* commands are still empty and end by dropping the command's responder.   *)
(***************************************************************************)
EXTENDS Integers, Sequences

CONSTANTS
  Client,       \* tasks, each with at most one transaction at a time
  RequestKind,  \* the commands that carry a request: GetCollection, Get, Query
  PoolSize,     \* Config::thread_pool_size
  MaxTx,        \* bound on transaction ids
  MaxRequests   \* bound on the requests a task makes

ASSUME PoolAssumption == PoolSize \in Nat \ {0}
ASSUME BoundAssumption == MaxTx \in Nat /\ MaxRequests \in Nat

Worker == 0 .. PoolSize - 1
TxId == 1 .. MaxTx
Mode == {"ReadOnly", "ReadWrite"}
EndKind == {"EndTransaction", "CommitTransaction"}

ASSUME KindAssumption == RequestKind \cap (EndKind \cup {"StartTransaction"}) = {}

\* req is the request number of the task that awaits the responder; 0 when nobody
\* holds the receiving half (StartTransaction has none, Drop discards it).
Command == [kind : {"StartTransaction"} \cup RequestKind \cup EndKind,
            tx : TxId, from : Client, req : Nat]

VARIABLES
  dbAlive,   \* the Database handle, which owns one sender per worker
  nextTx,    \* tx_id_allocator
  poolRr,    \* pool_rr
  client,    \* what each task is doing
  queue,     \* the channel of each worker
  ctx,       \* the transaction contexts each worker holds
  running    \* has the worker thread not returned?

workerVars == <<dbAlive, nextTx, poolRr, client, queue, ctx, running>>

Outside == [phase |-> "outside", tx |-> 0, mode |-> "ReadOnly", worker |-> 0,
            await |-> 0, reply |-> "none", made |-> 0]

WorkerInit ==
  /\ dbAlive = TRUE
  /\ nextTx = 1
  /\ poolRr = 0
  /\ client = [c \in Client |-> Outside]
  /\ queue = [w \in Worker |-> <<>>]
  /\ ctx = [w \in Worker |-> {}]
  /\ running = [w \in Worker |-> TRUE]

-----------------------------------------------------------------------------
(* Beginning a transaction *)

AllocateTx(c, mode) ==
  /\ dbAlive
  /\ client[c].phase = "outside"
  /\ nextTx <= MaxTx
  /\ nextTx' = nextTx + 1
  /\ client' = [client EXCEPT ![c].phase = "allocated", ![c].tx = nextTx, ![c].mode = mode]
  /\ UNCHANGED <<dbAlive, poolRr, queue, ctx, running>>

\* Mutation of Picked: workers are counted from one.
PickedFromOne(n) == (n % PoolSize) + 1

Picked(n) == n % PoolSize

\* Mutation of Kept: the round robin counter is read again for the clone.
KeptNext(n) == Picked(n + 1)

\* The worker whose sender the Transaction keeps a clone of.
Kept(n) == Picked(n)

StartCommand(c) ==
  [kind |-> "StartTransaction", tx |-> client[c].tx, from |-> c, req |-> 0]

\* Another task may have drawn its id or its worker in between.
DispatchStart(c) ==
  LET w == Picked(poolRr) IN
  /\ client[c].phase = "allocated"
  /\ poolRr' = poolRr + 1
  /\ queue' = [queue EXCEPT ![w] = Append(@, StartCommand(c))]
  /\ client' = [client EXCEPT ![c].phase = "idle", ![c].worker = Kept(poolRr)]
  /\ UNCHANGED <<dbAlive, nextTx, ctx, running>>

-----------------------------------------------------------------------------
(* Using it *)

Send(c, kind, req) ==
  queue' = [queue EXCEPT ![client[c].worker] =
              Append(@, [kind |-> kind, tx |-> client[c].tx, from |-> c, req |-> req])]

\* collection, get_document and run_query, or the first poll of commit.
Await(c, kind, phase) ==
  LET req == client[c].made + 1 IN
  /\ client[c].phase = "idle"
  /\ client[c].made < MaxRequests
  /\ Send(c, kind, req)
  /\ client' = [client EXCEPT ![c].phase = phase, ![c].await = req,
                              ![c].reply = "none", ![c].made = req]
  /\ UNCHANGED <<dbAlive, nextTx, poolRr, ctx, running>>

Request(c, kind) == Await(c, kind, "waiting")

Commit(c) == Await(c, "CommitTransaction", "committing")

\* The request future resolves (with WorkerUnavailable), or is dropped while pending.
FinishRequest(c) ==
  /\ client[c].phase = "waiting"
  /\ client' = [client EXCEPT ![c].phase = "idle", ![c].await = 0, ![c].reply = "none"]
  /\ UNCHANGED <<dbAlive, nextTx, poolRr, queue, ctx, running>>

Resolve(c) == client[c].reply = "dropped" /\ FinishRequest(c)
Cancel(c) == client[c].reply = "none" /\ FinishRequest(c)

EndOf(mode) == IF mode = "ReadOnly" THEN "EndTransaction" ELSE "CommitTransaction"

\* Drop for Transaction: one more command, its responder's receiver discarded, and
\* the sender clone is gone.
DropTransaction(c) ==
  /\ Send(c, EndOf(client[c].mode), 0)
  /\ client' = [client EXCEPT ![c] = [Outside EXCEPT !.made = client[c].made]]
  /\ UNCHANGED <<dbAlive, nextTx, poolRr, ctx, running>>

Drop(c) == client[c].phase = "idle" /\ DropTransaction(c)

\* commit(self) owns the transaction: it is dropped when the commit future resolves,
\* and when the future is dropped while pending.
ResolveCommit(c) ==
  client[c].phase = "committing" /\ client[c].reply = "dropped" /\ DropTransaction(c)

\* Mutation of CancelCommit: commit borrows the transaction.
CancelCommitBorrowed(c) ==
  /\ client[c].phase = "committing"
  /\ client' = [client EXCEPT ![c].phase = "idle", ![c].await = 0, ![c].reply = "none"]
  /\ UNCHANGED <<dbAlive, nextTx, poolRr, queue, ctx, running>>

CancelCommit(c) ==
  client[c].phase = "committing" /\ client[c].reply = "none" /\ DropTransaction(c)

\* The handle outlives every call of Database::transaction, which borrows it.
DropDatabase ==
  /\ dbAlive
  /\ \A c \in Client : client[c].phase # "allocated"
  /\ dbAlive' = FALSE
  /\ UNCHANGED <<nextTx, poolRr, client, queue, ctx, running>>

-----------------------------------------------------------------------------
(* The worker thread *)

HandleStart(w) ==
  /\ running[w]
  /\ queue[w] # <<>>
  /\ Head(queue[w]).kind = "StartTransaction"
  /\ ctx' = [ctx EXCEPT ![w] = @ \cup {Head(queue[w]).tx}]
  /\ queue' = [queue EXCEPT ![w] = Tail(@)]
  /\ UNCHANGED <<dbAlive, nextTx, poolRr, client, running>>

\* Mutation of Waits: the responder is kept instead of dropped.
WaitsForever(cmd) == FALSE

\* Is the task still awaiting this command's responder?
Waits(cmd) == cmd.req # 0 /\ client[cmd.from].await = cmd.req

\* Every other arm: the command is dropped, and its responder with it.
HandleOther(w) ==
  LET cmd == Head(queue[w]) IN
  /\ running[w]
  /\ queue[w] # <<>>
  /\ cmd.kind # "StartTransaction"
  /\ queue' = [queue EXCEPT ![w] = Tail(@)]
  /\ client' = IF Waits(cmd) THEN [client EXCEPT ![cmd.from].reply = "dropped"] ELSE client
  /\ UNCHANGED <<dbAlive, nextTx, poolRr, ctx, running>>

\* The tasks that hold a Transaction, and with it a clone of a worker's sender.
Holds(c) == client[c].phase \in {"idle", "waiting", "committing"}

\* Mutation of HasSender: only the pool counts, not the clones.
HasPoolSender(w) == dbAlive

\* Mutation of HasSender: the threads keep the pool alive.
HasSenderAlways(w) == TRUE

HasSender(w) == dbAlive \/ \E c \in Client : Holds(c) /\ client[c].worker = w

\* blocking_recv returns None once the channel is empty and every sender is gone.
Exit(w) ==
  /\ running[w]
  /\ queue[w] = <<>>
  /\ ~HasSender(w)
  /\ running' = [running EXCEPT ![w] = FALSE]
  /\ ctx' = [ctx EXCEPT ![w] = {}]
  /\ UNCHANGED <<dbAlive, nextTx, poolRr, client, queue>>

-----------------------------------------------------------------------------
WorkerNext ==
  \/ \E c \in Client, mode \in Mode : AllocateTx(c, mode)
  \/ \E c \in Client : DispatchStart(c)
  \/ \E c \in Client, kind \in RequestKind : Request(c, kind)
  \/ \E c \in Client : Commit(c)
  \/ \E c \in Client : Resolve(c)
  \/ \E c \in Client : Cancel(c)
  \/ \E c \in Client : Drop(c)
  \/ \E c \in Client : ResolveCommit(c)
  \/ \E c \in Client : CancelCommit(c)
  \/ DropDatabase
  \/ \E w \in Worker : HandleStart(w)
  \/ \E w \in Worker : HandleOther(w)
  \/ \E w \in Worker : Exit(w)

\* The operating system runs a worker thread that can receive or return; tasks may
\* stop anywhere.
Fairness == \A w \in Worker : WF_workerVars(HandleStart(w) \/ HandleOther(w)) /\ WF_workerVars(Exit(w))

WorkerSpec == WorkerInit /\ [][WorkerNext]_workerVars
FairWorkerSpec == WorkerSpec /\ Fairness

-----------------------------------------------------------------------------
(* Properties *)

\* Every variable keeps its type.
TypeOK ==
  /\ dbAlive \in BOOLEAN
  /\ nextTx \in 1 .. MaxTx + 1
  /\ poolRr \in Nat
  /\ client \in [Client -> [phase : {"outside", "allocated", "idle", "waiting", "committing"},
                            tx : Nat, mode : Mode, worker : Worker,
                            await : Nat, reply : {"none", "dropped"}, made : Nat]]
  /\ queue \in [Worker -> Seq(Command)]
  /\ ctx \in [Worker -> SUBSET TxId]
  /\ running \in [Worker -> BOOLEAN]

\* The start of tx lies before position i of worker w's channel, or was executed.
StartedBefore(w, tx, i) ==
  \/ tx \in ctx[w]
  \/ \E j \in 1 .. Len(queue[w]) :
       j < i /\ queue[w][j].kind = "StartTransaction" /\ queue[w][j].tx = tx

\* Database::transaction and the worker loop: a worker never meets a command of a
\* transaction it was not asked to start before, however the tasks interleave
\* between drawing an id, drawing a worker and sending.
StartPrecedesUse ==
  \A w \in Worker : \A i \in 1 .. Len(queue[w]) :
    queue[w][i].kind # "StartTransaction" => StartedBefore(w, queue[w][i].tx, i)

\* run_transaction_thread returns only when no one can send to it: a task that holds a
\* transaction, and the database handle, always find the worker running.
SendersKeepWorkersRunning ==
  /\ dbAlive => \A w \in Worker : running[w]
  /\ \A c \in Client : Holds(c) => running[client[c].worker]

\* Awaited requests: as long as nothing came back, the request is in the channel of
\* the task's worker; a stale answer to a cancelled request is never taken for it.
PendingIsQueued ==
  \A c \in Client : client[c].await # 0 =>
    (client[c].reply = "none" <=>
       \E i \in 1 .. Len(queue[client[c].worker]) :
         LET cmd == queue[client[c].worker][i]
         IN cmd.from = c /\ cmd.req = client[c].await)

\* commit and Drop, which both send the end of a transaction: after the first one in a
\* channel only Drop's may follow, whose answer nobody awaits; no request does, and no
\* end follows Drop's.
EndIsFinal ==
  \A w \in Worker : \A i, j \in 1 .. Len(queue[w]) :
    (i < j /\ queue[w][i].tx = queue[w][j].tx /\ queue[w][i].kind \in EndKind) =>
      queue[w][i].req # 0 /\ queue[w][j].kind \in EndKind /\ queue[w][j].req = 0

\* collection, get, query and commit: a task that keeps awaiting is resumed.
EveryRequestResolves ==
  \A c \in Client, n \in 1 .. MaxRequests :
    (client[c].await = n) ~> (client[c].await # n \/ client[c].reply = "dropped")

\* When the database handle and every transaction are dropped, every worker thread
\* drains its channel and returns.
WorkersReturn ==
  (~dbAlive /\ \A c \in Client : ~Holds(c)) ~> (\A w \in Worker : ~running[w])
=============================================================================
