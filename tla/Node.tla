-------------------------------- MODULE Node --------------------------------
(***************************************************************************)
(* The process of the node: main, the tasks it spawns and their end.       *)
(*                                                                         *)
(* main creates the genesis state if there is none, starts the components, *)
(* waits for an interrupt or for the end of any task, gives the stop       *)
(* signal, and returns after five seconds.  The runtime is then dropped:   *)
(* tasks end at the await they are at, blocking threads are waited for.    *)
(* Three kinds of these wait for someone else and are modelled: the HTTP   *)
(* server (ApiServer), the thread that executes the transactions of a      *)
(* batch and the one that refreshes the cache of storage values.  The      *)
(* others compute and end by themselves: a batch in the tree, the save of  *)
(* the tree or of the RocksDB cache, a run of the VM for a request.        *)
(*                                                                         *)
(* The tasks are seen here from the channels that connect them: what they  *)
(* compute is the subject of Sequencer, TxPool and MetadataCalculator.     *)
(***************************************************************************)
EXTENDS ApiServer

CONSTANTS
    Deployment,        \* the sets of components the node is started with
    SealQueueCapacity  \* `miniblock_seal_queue_capacity', at least 1

VARIABLES
    components,  \* the components the node was started with
    genesis,     \* table l1_batches has the genesis batch
    sequencer,   \* where the sequencer's task is
    executor,    \* the batch executor's thread, "none" if there is none
    queue,       \* number of commands the miniblock sealer has to do
    sealer,      \* the task of the miniblock sealer
    task,        \* the tasks that only look at the stop signal
    updater,     \* the thread that refreshes the values cache
    hashed       \* the last sealed batch has its root hash

coreVars == << components, genesis, sequencer, executor, queue, sealer, task, updater, hashed >>
vars == << netVars, coreVars >>

-----------------------------------------------------------------------------
(* main. *)

Has(c) == c \in components

Started(c) == IF Has(c) THEN "running" ELSE "none"

\* ensure_genesis_state: one SQL transaction.
GenesisInit ==
    /\ node = "init" /\ ~genesis
    /\ genesis' = TRUE /\ hashed' = TRUE
    /\ UNCHANGED << netVars, components, sequencer, executor, queue, sealer, task, updater >>

\* run_http_api, and the pubsub component's part of initialize_components.
StartServers ==
    /\ http' = IF Has("HttpApi") THEN "starting" ELSE "none"
    /\ ws' = IF Has("PubsubApi") THEN "starting" ELSE "none"

\* build_storage_caches
StartUpdater == updater' = Started("HttpApi")

\* add_sequencer_to_task_futures
StartSequencer ==
    /\ sequencer' = IF Has("Sequencer") THEN "starting" ELSE "none"
    /\ sealer' = Started("Sequencer")

\* add_trees_to_task_futures, the mempool fetcher and the proof data handler.
StartTasks ==
    task' = [fetcher |-> Started("Sequencer"), tree |-> Started("Tree"),
             proofs |-> Started("ProofDataHandler")]

\* initialize_components
InitializeComponents ==
    /\ node = "init" /\ genesis
    /\ StartServers /\ StartUpdater /\ StartSequencer /\ StartTasks
    /\ node' = "running"
    /\ UNCHANGED << apiVars, pubsubVars, health, components, genesis, executor, queue, hashed >>

\* One of the handles that wait_for_tasks selects from is ready.
TaskEnded ==
    \/ "ended" \in {http, ws, sequencer, sealer, updater}
    \/ \E t \in DOMAIN task : task[t] = "ended"

\* The select of main: an interrupt or the end of any task.
Interrupt ==
    /\ node = "running"
    /\ node' = "stopping"
    /\ UNCHANGED << apiVars, pubsubVars, http, ws, health, coreVars >>

\* wait_for_tasks returned.
NoticeTaskEnd ==
    /\ TaskEnded
    /\ Interrupt

Over(t) == t \in {"none", "ended"}

Dropped(t) == IF t = "none" THEN "none" ELSE "ended"

TasksOver == Over(ws) /\ Over(sequencer) /\ Over(sealer) /\ \A t \in DOMAIN task : Over(task[t])

\* main has slept and stopped the health check server; the runtime drops the
\* tasks wherever they wait.
MainReturns ==
    /\ node = "stopping" /\ ~TasksOver
    /\ node' = "dropping"
    /\ ws' = Dropped(ws)
    /\ IF Over(ws) THEN UNCHANGED health ELSE DropUpdater("PubsubApi", FALSE)
    /\ subs' = [s \in Subscriber |->
          IF subs[s].pc = "idle" THEN subs[s] ELSE [subs[s] EXCEPT !.pc = "ended"]]
    /\ sequencer' = Dropped(sequencer) /\ sealer' = Dropped(sealer)
    /\ task' = [t \in DOMAIN task |-> Dropped(task[t])]
    /\ UNCHANGED << apiVars, published, http, components, genesis, executor, queue, updater,
                    hashed >>

\* The blocking threads have ended.  A main that has no task left to drop
\* returns here.
Exit ==
    /\ node \in {"stopping", "dropping"} /\ TasksOver
    /\ Over(http) /\ Over(updater) /\ executor = "none"
    /\ node' = "exited"
    /\ UNCHANGED << apiVars, pubsubVars, http, ws, health, coreVars >>

Main == GenesisInit \/ InitializeComponents \/ NoticeTaskEnd \/ MainReturns \/ Exit

-----------------------------------------------------------------------------
(* The sequencer's task. *)

Goto(pc) == sequencer' = pc

Only_sequencer ==
    UNCHANGED << netVars, components, genesis, executor, queue, sealer, task, updater, hashed >>

\* load_pending_batch: a pending batch is opened again when the previous one
\* has its root hash.
LoadPendingBatch ==
    /\ sequencer = "starting"
    /\ \/ Goto("new_batch")
       \/ hashed /\ Goto("init_batch")
    /\ Only_sequencer

\* MempoolIO::wait_for_new_batch_params: the mempool has a transaction.
WaitForNewBatchParams ==
    /\ sequencer = "new_batch"
    /\ Goto("root_hash")
    /\ Only_sequencer

\* load_previous_l1_batch_hash waits as long as it takes; sleep_past may then
\* run into the timeout.
LoadPreviousL1BatchHash ==
    /\ sequencer = "root_hash" /\ hashed
    /\ Goto("init_batch") \/ Goto("new_batch")
    /\ Only_sequencer

\* init_batch: the thread of the previous batch has been joined.
InitBatch ==
    /\ sequencer = "init_batch"
    /\ executor' = "idle"
    /\ Goto("loop")
    /\ UNCHANGED << netVars, components, genesis, queue, sealer, task, updater, hashed >>

\* The head of process_l1_batch: the batch's deadline has passed.
CloseBatch ==
    /\ sequencer = "loop" /\ ~StopSent
    /\ Goto("closing")
    /\ Only_sequencer

\* BatchExecutorHandle::execute_tx
ExecuteTx ==
    /\ sequencer = "loop" /\ ~StopSent
    /\ executor' = "tx"
    /\ Goto("executing")
    /\ UNCHANGED << netVars, components, genesis, queue, sealer, task, updater, hashed >>

\* The sender of the answer is gone with the executor's thread: panic.
ExecutorLost ==
    /\ sequencer \in {"executing", "finishing"} /\ executor = "none"
    /\ Goto("ended")
    /\ Only_sequencer

\* seal_miniblock waits for a place in the queue; a sealer that is gone makes
\* it panic.
SealMiniblock_Submit ==
    /\ (sequencer = "loop" /\ ~StopSent) \/ sequencer = "closing"
    /\ IF sealer = "ended" THEN Goto("ended") /\ UNCHANGED queue
       ELSE /\ queue <= SealQueueCapacity
            /\ queue' = queue + 1
            /\ Goto(IF sequencer = "loop" THEN "miniblock" ELSE "fictive")
    /\ UNCHANGED << netVars, components, genesis, executor, sealer, task, updater, hashed >>

\* wait_for_new_miniblock_params
WaitForNewMiniblockParams ==
    /\ sequencer \in {"miniblock", "fictive"}
    /\ Goto(IF sequencer = "miniblock" THEN "loop" ELSE "closed")
    /\ Only_sequencer

\* BatchExecutorHandle::finish_batch, for a batch whose last miniblock was
\* sealed or is empty.
FinishBatch ==
    /\ sequencer \in {"closing", "closed"}
    /\ executor' = "finish"
    /\ Goto("finishing")
    /\ UNCHANGED << netVars, components, genesis, queue, sealer, task, updater, hashed >>

\* seal_l1_batch: all commands are done, the previous batch has its root
\* hash.  A sealer that died with a command makes it panic.
SealL1Batch ==
    /\ sequencer = "sealing"
    /\ \/ /\ queue = 0 /\ hashed
          /\ hashed' = FALSE
          /\ Goto("new_batch")
       \/ queue > 0 /\ sealer = "ended" /\ Goto("ended") /\ UNCHANGED hashed
    /\ UNCHANGED << netVars, components, genesis, executor, queue, sealer, task, updater >>

\* check_if_cancelled, after every wait with a timeout and in every loop.
Canceled ==
    /\ StopSent
    /\ sequencer \in {"new_batch", "loop", "miniblock", "fictive"}
    /\ Goto("ended")
    /\ Only_sequencer

SequencerTask ==
    \/ LoadPendingBatch \/ WaitForNewBatchParams \/ LoadPreviousL1BatchHash \/ InitBatch
    \/ CloseBatch \/ ExecuteTx \/ ExecutorLost \/ SealMiniblock_Submit \/ WaitForNewMiniblockParams
    \/ FinishBatch \/ SealL1Batch \/ Canceled

-----------------------------------------------------------------------------
(* The other tasks and threads. *)

Answer(to) == IF sequencer = "ended" THEN "ended" ELSE to

\* The end of the thread.
ExecutorEnds == executor' = "none"

\* BatchExecutor::run has executed a transaction and answers, or panics:
\* nobody waits for the answer, or the transaction is not an L2 one.
ExecutorTx ==
    /\ executor = "tx"
    /\ \/ /\ sequencer = "executing"
          /\ executor' = "idle"
          /\ Goto("loop") \/ Goto("closing")
       \/ ExecutorEnds /\ UNCHANGED sequencer
    /\ UNCHANGED << netVars, components, genesis, queue, sealer, task, updater, hashed >>

\* BatchExecutor::run has finished the batch: it answers and is joined.
ExecutorFinish ==
    /\ executor = "finish"
    /\ ExecutorEnds
    /\ Goto(Answer("sealing"))
    /\ UNCHANGED << netVars, components, genesis, queue, sealer, task, updater, hashed >>

\* "Sequencer exited with an unfinished batch"
ExecutorDisconnected ==
    /\ executor = "idle" /\ sequencer = "ended"
    /\ ExecutorEnds
    /\ UNCHANGED << netVars, components, genesis, sequencer, queue, sealer, task, updater, hashed >>

\* MiniblockSealer::run seals a miniblock, or panics.
SealerSeals ==
    /\ sealer = "running" /\ queue > 0
    /\ \/ queue' = queue - 1 /\ UNCHANGED sealer
       \/ sealer' = "ended" /\ UNCHANGED queue
    /\ UNCHANGED << netVars, components, genesis, sequencer, executor, task, updater, hashed >>

\* The channel is empty and closed.
SealerDisconnected ==
    /\ sealer = "running" /\ queue = 0 /\ sequencer = "ended"
    /\ sealer' = "ended"
    /\ UNCHANGED << netVars, components, genesis, sequencer, executor, queue, task, updater, hashed >>

\* loop_updating_tree computes the root hash of the last batch.
TreeSteps ==
    /\ task.tree = "running" /\ ~hashed
    /\ hashed' = TRUE
    /\ UNCHANGED << netVars, components, genesis, sequencer, executor, queue, sealer, task, updater >>

\* The loops of fetcher and tree look at the stop signal, the proof data
\* handler's server shuts down on it.
TaskStops(t) ==
    /\ task[t] = "running" /\ StopSent
    /\ task' = [task EXCEPT ![t] = "ended"]
    /\ UNCHANGED << netVars, components, genesis, sequencer, executor, queue, sealer, updater, hashed >>

\* The cache updater ends when the last sender is dropped, with the handlers
\* of the HTTP server.
UpdaterEnds ==
    /\ updater = "running" /\ http = "ended"
    /\ updater' = "ended"
    /\ UNCHANGED << netVars, components, genesis, sequencer, executor, queue, sealer, task, hashed >>

ExecutorThread == ExecutorTx \/ ExecutorFinish \/ ExecutorDisconnected
SealerTask == SealerSeals \/ SealerDisconnected

-----------------------------------------------------------------------------
Init ==
    /\ ServersInit
    /\ node = "init"
    /\ components \in Deployment
    /\ genesis \in BOOLEAN
    /\ hashed \in IF genesis /\ Has("Tree") THEN BOOLEAN ELSE {genesis}
    /\ sequencer = "none" /\ executor = "none" /\ queue = 0 /\ sealer = "none"
    /\ task = [t \in {"fetcher", "tree", "proofs"} |-> "none"]
    /\ updater = "none"

Alone(A) == A /\ UNCHANGED coreVars

Next ==
    \/ Alone(Servers)
    \/ Main \/ Interrupt
    \/ SequencerTask \/ ExecutorThread \/ SealerTask \/ TreeSteps \/ UpdaterEnds
    \/ \E t \in DOMAIN task : TaskStops(t)

\* A handler goes on after an await.
Handling == \E c \in Client : Alone(Handle(c))

\* What starts and stops the node; each of these steps is taken once.
Lifecycle ==
    \/ Main \/ UpdaterEnds
    \/ Alone(Serve)
    \/ \E s \in Subscriber : Alone(Attach(s)) \/ Alone(CloseSinks(s))

\* The runtime does not idle while a handler, main, a server or the executor's
\* thread can go on; semaphore and pool are first-come, first-served and every
\* request is made once.  Nothing is assumed of the sequencer and of the tasks
\* that main drops in the end.
Spec ==
    /\ Init /\ [][Next]_vars
    /\ WF_vars(Handling) /\ WF_vars(Lifecycle) /\ WF_vars(ExecutorThread)

-----------------------------------------------------------------------------
(* Properties. *)

\* After the stop signal the process ends, whatever is in flight: closing the
\* limiter wakes the requests that wait for a permit (run_rpc_server), the
\* thread that executes a batch sees that its sequencer is gone (BatchExecutor
\* ::run), and no thread is left to wait for when main has returned.
StopsEventually == (node = "stopping") ~> (node = "exited")
=============================================================================
