----------------------------- MODULE AgentEngine -----------------------------
(***************************************************************************)
(* OrchestratorEngine of contextra-agent over one store: tasks walk a      *)
(* graph; each step is checkpointed, executed, audited and committed.      *)
(* With it the parts of contextra-checkpoint it uses: save_checkpoint,     *)
(* list_checkpoints, restore, CheckpointGuard and the orphan registry;     *)
(* the dead letter queue; put_kv and put_kv_if_absent of the collection;   *)
(* and the token budget.                                                   *)
(*                                                                         *)
(* The engine, the store, the checkpoint store and the queue are shared by *)
(* all tasks; ctx[t] belongs to its caller.  A step of the model is the    *)
(* code between two calls of the store that another task can come between. *)
(***************************************************************************)
EXTENDS StorageTx, Sequences, SequencesExt

CONSTANTS Tasks,
          NodeType,            \* node -> "Start", "Task", "Decision" or "End"
          Edges,               \* pairs <<from, to>>
          Entry,               \* the node a new context starts at
          Tokens,              \* what a tool may consume
          handler,             \* the nodes that name a tool
          estimated_cost,      \* of them, those whose tool is registered -> what it says
                               \* it will consume; 0 unless it overrides the default
          usable_budget,       \* effective_limit - reserved
          max_attempts,        \* max_retries + 1, or 1 for a tool that is not retriable
          MAX_WORKFLOW_STEPS,
          MAX_STEPS,           \* bound: how far a workflow without that limit is followed
          MAX_COLLECTION_SEQUENCE,  \* bound: the ids of transactions do not run out
          Limits,              \* bounds: how often each of Bounded happens ...
          MAX_DISTURBANCES,    \* ... and how often those other than run together
          Environment          \* which of Events happen

\* "append_error": the log cannot be written, or truncated by a rollback.
Bounded == {"run", "replay", "restart", "append_error", "memtable_full", "client_write",
            "timeout"}

Events == {"tool_error", "run_without_replay", "same_step"}

ASSUME AgentAssumption ==
    /\ Entry \in DOMAIN NodeType
    /\ Edges \subseteq (DOMAIN NodeType) \X (DOMAIN NodeType)
    /\ handler \subseteq DOMAIN NodeType /\ DOMAIN estimated_cost \subseteq handler
    /\ estimated_cost \in [DOMAIN estimated_cost -> Nat]
    /\ Tokens \subseteq Nat /\ usable_budget \in Nat
    /\ {max_attempts, MAX_WORKFLOW_STEPS, MAX_COLLECTION_SEQUENCE} \subseteq Nat \ {0}
    /\ MAX_STEPS \in Nat /\ MAX_WORKFLOW_STEPS <= MAX_STEPS
    /\ MAX_COLLECTION_SEQUENCE + 1 < INTERNAL_BASE
    /\ Limits \in [Bounded -> Nat] /\ MAX_DISTURBANCES \in Nat
    /\ Environment \subseteq Events

VARIABLES
    store,         \* the LsmStorage
    next_tx,       \* the counter of the database's collections
    dlq_next_tx,   \* the counter of the dead letter queue, 0 until it is first used
    hwm_reserved,  \* allocate_tx of the checkpoint store has reserved its batch
    ctx,           \* AgentContext of each task
    call,          \* the running call of run, its program counter and locals
    orphans,       \* InstanceOrphanRegistry.checkpoints
    orphan_file,   \* what of it is on disk
    is_dirty,
    flush_spawned, \* a task that flushes the registry has been spawned
    client_tx,     \* put_kv of another client of the database: its id, 0 for none
    count,         \* how often each of Bounded has happened
    departures     \* history: what happened that the properties except

registry == <<orphans, orphan_file, is_dirty, flush_spawned>>
\* All that a step on the context and the locals of one call leaves alone.
shared == <<store, next_tx, dlq_next_tx, hwm_reserved, registry, client_tx, count, departures>>
vars == <<shared, ctx, call>>

NONE == INTERNAL_BASE   \* no guard is held: not the id of a client's transaction

NewContext == [node |-> Entry, step |-> 0, consumed |-> 0, status |-> "Idle"]
NoCall == [pc |-> "idle", guard |-> NONE, reserved |-> 0, attempt |-> 0, tx |-> 0, cp |-> 0,
           seq_no |-> 0, tokens |-> 0, next |-> "idle", todo |-> <<>>, last_tx |-> 0]

Init ==
    /\ store = EmptyStore
    /\ next_tx = 1 /\ dlq_next_tx = 0 /\ hwm_reserved = FALSE
    /\ ctx = [t \in Tasks |-> NewContext]
    /\ call = [t \in Tasks |-> NoCall]
    /\ orphans = <<>> /\ orphan_file = <<>> /\ is_dirty = FALSE /\ flush_spawned = FALSE
    /\ client_tx = 0
    /\ count = [b \in Bounded |-> 0]
    /\ departures = {}

-----------------------------------------------------------------------------
\* Keys and rows.
AuditKey(t, step)      == <<"audit", t, step>>
StepKey(t, step)       == <<"step", t, step>>
FinalKey(t)            == <<"final", t>>
LetterKey(t, node, step) == <<"letter", t, node, step>>
CheckpointKey(t, node, step) == <<"checkpoint", t, node, step>>
HwmKey                 == <<"hwm">>
ClientKey(n)           == <<"client", n>>

Disturbances == Bounded \ {"run"}

Once(b) ==
    /\ count[b] < Limits[b]
    /\ b \in Disturbances =>
           MapThenSumSet(LAMBDA d : count[d], Disturbances) < MAX_DISTURBANCES
    /\ count' = [count EXCEPT ![b] = @ + 1]

\* allocate_tx hands out no id above the bound.
Allocatable(tx) == tx <= MAX_COLLECTION_SEQUENCE

At(t, pc) == call[t].pc = pc
Goto(t, pc) == call' = [call EXCEPT ![t].pc = pc]

\* The next state of the store, and what it has come to by then.
Stores(s, more) ==
    /\ store' = s
    /\ departures' = departures \cup more
         \cup (IF s.last_committed_tx >= next_tx' THEN {"ahead"} ELSE {})
         \cup (IF s.memtable \subseteq s.log THEN {} ELSE {"unlogged"})

\* Two users of one id in the transaction buffer.
Mixed(tx) == IF StagedBy(store, tx) = {} THEN {} ELSE {"mixed"}

Commits(tx) == Stores(Commit(store, tx), {}) /\ UNCHANGED count

CommitError(tx) ==
    StagedBy(store, tx) # {} /\ Once("append_error") /\ Stores(CommitFails(store, tx), {})

\* Mutant: the reservation is not refunded.
Returns_NoRefund(t, status) ==
    LET guard == call[t].guard
        known == guard = NONE \/ \E i \in DOMAIN orphans : orphans[i] = guard
    IN  /\ ctx' = [ctx EXCEPT ![t].status = status]
        /\ call' = [call EXCEPT ![t] = NoCall]
        /\ orphans' = IF known THEN orphans ELSE Append(orphans, guard)
        /\ is_dirty' = (is_dirty \/ ~known)
        /\ UNCHANGED <<orphan_file, flush_spawned>>

\* The call returns: the reservation is refunded unless it was settled, and a
\* guard that was not committed enters the orphan registry, once per id.
Returns(t, status) ==
    LET guard == call[t].guard
        known == guard = NONE \/ \E i \in DOMAIN orphans : orphans[i] = guard
    IN  /\ ctx' = [ctx EXCEPT ![t].status = status, ![t].consumed = @ - call[t].reserved]
        /\ call' = [call EXCEPT ![t] = NoCall]
        /\ orphans' = IF known THEN orphans ELSE Append(orphans, guard)
        /\ is_dirty' = (is_dirty \/ ~known)
        /\ UNCHANGED <<orphan_file, flush_spawned>>

\* list_checkpoints, of one task.
CheckpointsOf(t) == {r \in Scan(store) : r.key[1] = "checkpoint" /\ r.key[2] = t}

-----------------------------------------------------------------------------
\* run, by the caller.  After a failure it has to set next_retry_step_count, as
\* the comments on audit_log and append say, and after a restart to replay first.
Run(t) ==
    /\ At(t, "idle") /\ Once("run")
    /\ ctx[t].status = "Idle" /\ count["restart"] > 0 => "run_without_replay" \in Environment
    /\ \/ /\ ctx[t].status = "Failed"
          /\ ctx' = [ctx EXCEPT ![t].status = "Running", ![t].step = @ + 1]
       \/ /\ ctx[t].status = "Failed" => "same_step" \in Environment
          /\ ctx' = [ctx EXCEPT ![t].status = "Running"]
    /\ Goto(t, "recover")
    /\ departures' = departures \cup
           (IF \E r \in CheckpointsOf(t) : r.val.step > ctx'[t].step THEN {"stale"} ELSE {})
    /\ UNCHANGED <<store, next_tx, dlq_next_tx, hwm_reserved, client_tx, registry>>

\* write_lock of the checkpoint store, across steps held only by a recovery.
WriteLocked == \E t \in Tasks : At(t, "recovering")

\* recover_orphaned_checkpoints reads the orphans and last_tx_id ...
RecoverRead(t) ==
    /\ At(t, "recover") /\ ~WriteLocked
    /\ call' = [call EXCEPT ![t].pc = IF orphans = <<>> THEN "loop" ELSE "recovering",
                            ![t].todo = orphans,
                            ![t].last_tx = store.last_committed_tx]
    /\ UNCHANGED <<ctx, shared>>

\* Mutant: an orphan is rolled back to whatever was committed since.
Barrier_None(last_tx, cp) == TRUE

\* barrier_ok: nothing was committed after the orphan's checkpoint.
Barrier(last_tx, cp) == last_tx <= cp

\* ... and rolls back to each orphan that last_tx_id had not passed.  One that the store
\* fails to roll back to stays.
RecoverOrphan(t) ==
    LET cp == Head(call[t].todo)
        rest == Tail(call[t].todo)
    IN  /\ At(t, "recovering")
        /\ UNCHANGED next_tx
        /\ \/ /\ IF Barrier(call[t].last_tx, cp)
                 THEN Stores(RollbackToTx(store, cp),
                             IF store.last_committed_tx > call[t].last_tx THEN {"raced"} ELSE {})
                 ELSE UNCHANGED <<store, departures>>
              /\ orphans' = RemoveFirst(orphans, cp)
              /\ orphan_file' = orphans' /\ is_dirty' = FALSE /\ UNCHANGED count
           \/ /\ Barrier(call[t].last_tx, cp) /\ Once("append_error")
              /\ UNCHANGED <<store, departures, orphans, orphan_file, is_dirty>>
        /\ call' = [call EXCEPT ![t].todo = rest,
                                ![t].pc = IF rest = <<>> THEN "loop" ELSE "recovering"]
        /\ UNCHANGED <<dlq_next_tx, hwm_reserved, client_tx, ctx, flush_spawned>>

-----------------------------------------------------------------------------
\* The loop of run_internal.
Node(t) == ctx[t].node
Targets(node) == {e[2] : e \in {f \in Edges : f[1] = node}}

\* Mutant: the workflow has no limit on its steps.
StepLimit_None(t) == FALSE

\* The limit that run_internal checks before every node.
StepLimit(t) == ctx[t].step >= MAX_WORKFLOW_STEPS

LimitReached(t) ==
    /\ At(t, "loop") /\ StepLimit(t)
    /\ Goto(t, "failure")
    /\ UNCHANGED <<ctx, shared>>

\* evaluate_decision: any edge may be the matching one of highest priority, and
\* it may be that none matches.
Decide(t) ==
    /\ At(t, "loop") /\ ~StepLimit(t) /\ NodeType[Node(t)] = "Decision"
    /\ \/ \E next \in Targets(Node(t)) :
              /\ ctx' = [ctx EXCEPT ![t].node = next]
              /\ UNCHANGED call
       \/ Goto(t, "failure") /\ UNCHANGED ctx
    /\ UNCHANGED shared

\* A step begins: the guard is made with the last_tx_id of now.
StepBegin(t) ==
    /\ At(t, "loop") /\ ~StepLimit(t) /\ ctx[t].step < MAX_STEPS
    /\ NodeType[Node(t)] \in {"Start", "Task"}
    /\ call' = [call EXCEPT ![t].pc = "checkpoint", ![t].guard = store.last_committed_tx]
    /\ UNCHANGED <<ctx, shared>>

\* Mutant: the checkpoint takes the id the next transaction will have.
CheckpointRead_NextTx(t) ==
    /\ At(t, "checkpoint")
    /\ call' = [call EXCEPT ![t].pc = "save", ![t].cp = next_tx,
                            ![t].seq_no = store.seq - 1]
    /\ UNCHANGED <<ctx, shared>>

\* checkpoint reads last_committed_seq and last_tx_id ...
CheckpointRead(t) ==
    /\ At(t, "checkpoint")
    /\ call' = [call EXCEPT ![t].pc = "save", ![t].cp = store.last_committed_tx,
                            ![t].seq_no = store.seq - 1]
    /\ UNCHANGED <<ctx, shared>>

\* The first id of the checkpoint store is handed out after the mark is
\* written, committed and flushed.
Reserved(s) ==
    IF hwm_reserved THEN s
    ELSE Flush(Commit(Put(s, INTERNAL_BASE, HwmKey, <<>>), INTERNAL_BASE))

\* ... and saves it under write_lock.
CheckpointSave(t) ==
    LET meta == [node |-> Node(t), step |-> ctx[t].step, tx_id |-> call[t].cp,
                 consumed |-> ctx[t].consumed, seq_no |-> call[t].seq_no]
        s == Put(Reserved(store), INTERNAL_BASE,
                 CheckpointKey(t, Node(t), ctx[t].step), meta)
    IN  /\ At(t, "save") /\ ~WriteLocked
        /\ hwm_reserved' = TRUE
        /\ UNCHANGED <<next_tx, dlq_next_tx, client_tx>>
        /\ \/ /\ Stores(Commit(s, INTERNAL_BASE), {}) /\ UNCHANGED count
              /\ IF NodeType[Node(t)] = "End"
                 THEN Returns(t, "Completed")
                 ELSE /\ call' = [call EXCEPT ![t].pc = "reserve", ![t].cp = 0, ![t].seq_no = 0]
                      /\ UNCHANGED <<ctx, registry>>
           \/ /\ Once("append_error")
              /\ Stores(CommitFails(s, INTERNAL_BASE), {})
              /\ Returns(t, "Failed")

-----------------------------------------------------------------------------
\* Budget and tool.
available(t) == IF ctx[t].consumed >= usable_budget THEN 0 ELSE usable_budget - ctx[t].consumed

\* What the step reserves: nothing at a Start node.
Estimate(t) == IF NodeType[Node(t)] = "Start" THEN 0 ELSE estimated_cost[Node(t)]

\* A Start node without a handler passes through, any other node without a tool fails;
\* with a tool the step reserves its estimate, if there is one.
Reserve(t) ==
    /\ At(t, "reserve")
    /\ \/ /\ Node(t) \notin DOMAIN estimated_cost
          /\ call' = [call EXCEPT ![t].tokens = 0,
                                  ![t].pc = IF NodeType[Node(t)] = "Start" /\ Node(t) \notin handler
                                            THEN "audit" ELSE "failure"]
          /\ UNCHANGED ctx
       \/ /\ Node(t) \in DOMAIN estimated_cost /\ available(t) >= Estimate(t)
          /\ call' = [call EXCEPT ![t].pc = "execute", ![t].attempt = 1,
                                  ![t].reserved = Estimate(t)]
          /\ ctx' = [ctx EXCEPT ![t].consumed = @ + Estimate(t)]
       \/ /\ Node(t) \in DOMAIN estimated_cost /\ available(t) < Estimate(t)
          /\ call' = [call EXCEPT ![t].pc = "letter", ![t].next = "failure"]
          /\ UNCHANGED ctx
    /\ UNCHANGED shared

\* A retry is made only while some budget is left.
Retried(t) == call[t].attempt > 1 /\ available(t) = 0

\* Mutant: a tool without a reservation is not charged.
Reconciled_NoReservation(consumed, reserved, tokens) ==
    IF reserved = 0 THEN consumed ELSE consumed + tokens - reserved

\* What is consumed once the tool has told what it took: the reservation is corrected;
\* without one all is charged.
Reconciled(consumed, reserved, tokens) ==
    IF reserved = 0 THEN consumed + tokens
    ELSE IF tokens > reserved THEN consumed + (tokens - reserved)
    ELSE consumed - (reserved - tokens)

\* Mutant: the reservation is reconciled and not marked as settled.
Settled_Kept(t, tokens) == [call[t] EXCEPT !.pc = "audit", !.tokens = tokens]

Settled(t, tokens) == [call[t] EXCEPT !.pc = "audit", !.tokens = tokens, !.reserved = 0]

\* The tool returns: the reservation, if there is one, is settled and reconciled.
ToolOk(t) ==
    /\ At(t, "execute") /\ ~Retried(t)
    /\ \E tokens \in Tokens :
        /\ ctx' = [ctx EXCEPT ![t].consumed = Reconciled(@, call[t].reserved, tokens)]
        /\ call' = [call EXCEPT ![t] = Settled(t, tokens)]
    /\ UNCHANGED shared

\* It fails: a letter is written when no attempt is left.
ToolError(t) ==
    /\ At(t, "execute") /\ ~Retried(t) /\ "tool_error" \in Environment
    /\ call' = IF call[t].attempt < max_attempts
               THEN [call EXCEPT ![t].attempt = @ + 1]
               ELSE [call EXCEPT ![t].pc = "letter", ![t].next = "failure"]
    /\ UNCHANGED <<ctx, shared>>

\* It takes too long: a letter is written at every attempt.
ToolTimeout(t) ==
    /\ At(t, "execute") /\ ~Retried(t) /\ Once("timeout")
    /\ call' = IF call[t].attempt < max_attempts
               THEN [call EXCEPT ![t].pc = "letter", ![t].next = "execute", ![t].attempt = @ + 1]
               ELSE [call EXCEPT ![t].pc = "letter", ![t].next = "failure"]
    /\ UNCHANGED <<store, next_tx, dlq_next_tx, hwm_reserved, registry, client_tx, ctx, departures>>

\* No budget for a retry.
RetryRefused(t) ==
    /\ At(t, "execute") /\ Retried(t)
    /\ call' = [call EXCEPT ![t].pc = "letter", ![t].next = "failure"]
    /\ UNCHANGED <<ctx, shared>>

\* DeadLetterQueue::push: an id of its own counter, put ...
LetterPut(t) ==
    LET tx == IF dlq_next_tx = 0 THEN store.last_committed_tx + 1 ELSE dlq_next_tx
    IN  /\ At(t, "letter") /\ Allocatable(tx)
        /\ dlq_next_tx' = tx + 1
        /\ call' = [call EXCEPT ![t].pc = "letter_put", ![t].tx = tx]
        /\ UNCHANGED next_tx
        /\ Stores(Put(store, tx, LetterKey(t, Node(t), ctx[t].step), <<>>), Mixed(tx))
        /\ UNCHANGED <<hwm_reserved, client_tx, ctx, registry, count>>

\* ... and commit; its errors are logged, the transaction is rolled back.
LetterCommit(t) ==
    LET tx == call[t].tx
    IN  /\ At(t, "letter_put")
        /\ UNCHANGED next_tx
        /\ Commits(tx) \/ CommitError(tx)
        /\ Goto(t, call[t].next)
        /\ UNCHANGED <<dlq_next_tx, hwm_reserved, client_tx, ctx, registry>>

-----------------------------------------------------------------------------
\* audit_log and audit_log_failure: put_kv_if_absent, then its commit.
AuditPut(t) ==
    LET tx == next_tx
        key == AuditKey(t, ctx[t].step)
        failed == At(t, "failure")
        row == [tokens |-> IF failed THEN 0 ELSE call[t].tokens, error |-> failed]
    IN  /\ At(t, "audit") \/ At(t, "failure")
        /\ Allocatable(tx)
        /\ next_tx' = next_tx + 1
        /\ IF Absent(store, key)
           THEN /\ Stores(Put(store, tx, key, row), Mixed(tx))
                /\ call' = [call EXCEPT ![t].tx = tx,
                                        ![t].pc = IF failed THEN "failure_put" ELSE "audit_put"]
                /\ UNCHANGED <<ctx, registry>>
           ELSE /\ Stores(Rollback(store, tx), Mixed(tx))
                /\ Returns(t, "Failed")
        /\ UNCHANGED <<dlq_next_tx, hwm_reserved, client_tx, count>>

\* Mutant: a failed commit of the audit entry is only logged.
AuditCommit_ErrorLogged(t) ==
    /\ At(t, "audit_put") \/ At(t, "failure_put")
    /\ UNCHANGED next_tx
    /\ Commits(call[t].tx) \/ CommitError(call[t].tx)
    /\ IF At(t, "audit_put") THEN Goto(t, "commit") /\ UNCHANGED <<ctx, registry>>
       ELSE Returns(t, "Failed")
    /\ UNCHANGED <<dlq_next_tx, hwm_reserved, client_tx>>

AuditCommit(t) ==
    LET tx == call[t].tx
    IN  /\ At(t, "audit_put") \/ At(t, "failure_put")
        /\ UNCHANGED next_tx
        /\ \/ /\ Commits(tx)
              /\ IF At(t, "audit_put") THEN Goto(t, "commit") /\ UNCHANGED <<ctx, registry>>
                 ELSE Returns(t, "Failed")
           \/ CommitError(tx) /\ Returns(t, "Failed")
        /\ UNCHANGED <<dlq_next_tx, hwm_reserved, client_tx>>

\* commit_step: put_kv of the step.
StepPut(t) ==
    /\ At(t, "commit") /\ Allocatable(next_tx)
    /\ next_tx' = next_tx + 1
    /\ call' = [call EXCEPT ![t].tx = next_tx, ![t].pc = "commit_put"]
    /\ Stores(Put(store, next_tx, StepKey(t, ctx[t].step), <<>>), Mixed(next_tx))
    /\ UNCHANGED <<dlq_next_tx, hwm_reserved, client_tx, ctx, registry, count>>

StepCommit(t) ==
    LET tx == call[t].tx
    IN  /\ At(t, "commit_put")
        /\ UNCHANGED next_tx
        /\ \/ /\ Commits(tx)
              /\ Goto(t, "advance")
              /\ UNCHANGED <<ctx, registry>>
           \/ CommitError(tx) /\ Returns(t, "Failed")
        /\ UNCHANGED <<dlq_next_tx, hwm_reserved, client_tx>>

\* resolve_next_node, by the tool's choice or by priority; then the guard is
\* committed, which spawns a flush of the orphan registry.
Advance(t) ==
    /\ At(t, "advance")
    /\ \/ /\ \E next \in Targets(Node(t)) :
                 ctx' = [ctx EXCEPT ![t].node = next, ![t].step = @ + 1]
          /\ call' = [call EXCEPT ![t] = [NoCall EXCEPT !.pc = "loop"]]
          /\ flush_spawned' = TRUE
       \/ /\ Targets(Node(t)) = {}
          /\ Goto(t, "failure")
          /\ UNCHANGED <<ctx, flush_spawned>>
    /\ UNCHANGED <<store, next_tx, dlq_next_tx, hwm_reserved, client_tx, orphans, orphan_file, is_dirty,
                   count, departures>>

\* An End node: persist_final_state, flush, a last checkpoint.
FinalPut(t) ==
    /\ At(t, "loop") /\ ~StepLimit(t) /\ NodeType[Node(t)] = "End"
    /\ ctx' = [ctx EXCEPT ![t].status = "Completed"]
    /\ Allocatable(next_tx)
    /\ next_tx' = next_tx + 1
    /\ call' = [call EXCEPT ![t].tx = next_tx, ![t].pc = "final_put"]
    /\ Stores(Put(store, next_tx, FinalKey(t), <<>>), Mixed(next_tx))
    /\ UNCHANGED <<dlq_next_tx, hwm_reserved, client_tx, registry, count>>

FinalCommit(t) ==
    LET tx == call[t].tx
    IN  /\ At(t, "final_put")
        /\ UNCHANGED next_tx
        /\ \/ /\ Commits(tx)
              /\ Goto(t, "flush")
              /\ UNCHANGED <<ctx, registry>>
           \/ CommitError(tx) /\ Returns(t, "Failed")
        /\ UNCHANGED <<dlq_next_tx, hwm_reserved, client_tx>>

FinalFlush(t) ==
    /\ At(t, "flush")
    /\ UNCHANGED next_tx
    /\ Stores(Flush(store), {})
    /\ Goto(t, "checkpoint")
    /\ UNCHANGED <<dlq_next_tx, hwm_reserved, client_tx, ctx, registry, count>>

-----------------------------------------------------------------------------
\* replay_from of a step: the last checkpoint of the task with that step in its
\* name, the context from it, and the whole store back to its transaction.  (The
\* code leaves the status alone; "Replayed" is what the caller knows.)
Replay(t, step) ==
    LET found == {r \in CheckpointsOf(t) : r.val.step = step}
    IN  /\ At(t, "idle") /\ found # {} /\ Once("replay")
        /\ \E r \in {f \in found : \A g \in found : g.val.seq_no <= f.val.seq_no} :
              /\ ctx' = [ctx EXCEPT ![t] = [node |-> r.val.node, step |-> step,
                                            consumed |-> r.val.consumed,
                                            status |-> "Replayed"]]
              /\ UNCHANGED next_tx
              /\ Stores(RollbackToTx(store, r.val.tx_id),
                        IF \A u \in Tasks : At(u, "idle") THEN {} ELSE {"erased"})
        /\ UNCHANGED <<dlq_next_tx, hwm_reserved, client_tx, call, registry>>

\* The spawned task writes the registry if it is dirty.
FlushOrphans ==
    /\ flush_spawned /\ flush_spawned' = FALSE
    /\ orphan_file' = IF is_dirty THEN orphans ELSE orphan_file
    /\ is_dirty' = FALSE
    /\ UNCHANGED <<store, next_tx, dlq_next_tx, hwm_reserved, client_tx, ctx, call, orphans, count,
                   departures>>

\* A commit finds the memtable over its limit.
MemtableFull ==
    /\ store.memtable # {} /\ Once("memtable_full")
    /\ UNCHANGED next_tx
    /\ Stores(Flush(store), {})
    /\ UNCHANGED <<dlq_next_tx, hwm_reserved, client_tx, ctx, call, registry>>

\* put_kv of another client: put, then commit.
ClientPut ==
    /\ client_tx = 0 /\ Allocatable(next_tx) /\ Once("client_write")
    /\ next_tx' = next_tx + 1 /\ client_tx' = next_tx
    /\ Stores(Put(store, next_tx, ClientKey(count["client_write"]), <<>>), Mixed(next_tx))
    /\ UNCHANGED <<dlq_next_tx, hwm_reserved, ctx, call, registry>>

ClientCommit ==
    /\ client_tx # 0 /\ client_tx' = 0
    /\ UNCHANGED next_tx
    /\ Commits(client_tx) \/ CommitError(client_tx)
    /\ UNCHANGED <<dlq_next_tx, hwm_reserved, ctx, call, registry>>

\* A row that a client committed is above the last_committed_tx that was recovered.
Blind(s) == IF s.last_committed_tx < HighestTx(s) THEN {"blind"} ELSE {}

\* The process dies and is started again: the store and the database are
\* opened, the registry is loaded, the callers make new contexts.
Restart ==
    LET s == Reopen(store)
    IN  /\ Once("restart")
        /\ next_tx' = s.last_committed_tx + 1
        /\ Stores(s, Blind(s))
        /\ dlq_next_tx' = 0 /\ hwm_reserved' = FALSE /\ client_tx' = 0
        /\ ctx' = [t \in Tasks |-> NewContext]
        /\ call' = [t \in Tasks |-> NoCall]
        /\ orphans' = orphan_file /\ is_dirty' = FALSE /\ flush_spawned' = FALSE
        /\ UNCHANGED orphan_file

\* A step of a running call of run.
Turn(t) ==
    \/ RecoverRead(t) \/ RecoverOrphan(t)
    \/ LimitReached(t) \/ Decide(t) \/ StepBegin(t) \/ CheckpointRead(t) \/ CheckpointSave(t)
    \/ Reserve(t) \/ ToolOk(t) \/ ToolError(t) \/ ToolTimeout(t) \/ RetryRefused(t)
    \/ LetterPut(t) \/ LetterCommit(t) \/ AuditPut(t) \/ AuditCommit(t)
    \/ StepPut(t) \/ StepCommit(t) \/ Advance(t)
    \/ FinalPut(t) \/ FinalCommit(t) \/ FinalFlush(t)

Steps == 0 .. (MAX_WORKFLOW_STEPS + Limits["run"])

Next ==
    \/ \E t \in Tasks : Run(t) \/ Turn(t) \/ \E step \in Steps : Replay(t, step)
    \/ ClientPut \/ ClientCommit \/ FlushOrphans \/ MemtableFull \/ Restart

Spec == Init /\ [][Next]_vars

FairSpec == Spec /\ \A t \in Tasks : WF_vars(Turn(t))
-----------------------------------------------------------------------------
Pcs == {"idle", "recover", "recovering", "loop", "checkpoint", "save", "reserve", "execute",
        "letter", "letter_put", "audit", "audit_put", "failure", "failure_put",
        "commit", "commit_put", "advance", "final_put", "flush"}
Statuses == {"Idle", "Running", "Completed", "Failed", "Replayed"}
TxIds == 0 .. INTERNAL_BASE

\* The state is well typed; a client's transaction never has an internal id.
TypeOK ==
    /\ \A r \in store.log \cup store.memtable \cup (UNION store.sstables) \cup store.tx_buffer :
           r.tx \in TxIds
    /\ store.last_committed_tx < INTERNAL_BASE /\ next_tx < INTERNAL_BASE
    /\ \A t \in Tasks :
        /\ ctx[t].node \in DOMAIN NodeType /\ ctx[t].step \in Nat /\ ctx[t].consumed \in Nat
        /\ ctx[t].status \in Statuses
        /\ call[t].pc \in Pcs /\ call[t].guard \in TxIds
    /\ departures \subseteq {"erased", "ahead", "unlogged", "mixed", "raced", "blind", "stale"}

\* What the clients of the store can read.
Rows(s) == {r \in Scan(s) : ~Internal(r)}
KeysOf(s) == {r.key : r \in Rows(s)}
AuditRow(t, step) == CHOOSE r \in Rows(store) : r.key = AuditKey(t, step)

\* A step that is readable as committed has a readable audit entry, and that
\* entry is of a success: commit_step comes after audit_log, and no rollback, of
\* this task or of another, no failure and no restart separates them.
CommittedAudited ==
    {"erased", "mixed", "raced", "unlogged", "blind"} \cap departures = {} =>
        LET rows == Rows(store)
        IN  \A t \in Tasks, step \in Steps :
                (\E r \in rows : r.key = StepKey(t, step)) =>
                    \E r \in rows : r.key = AuditKey(t, step) /\ ~r.val.error

\* What is committed stays: an audit entry, the row of a step or of another client
\* is readable across failed commits, recoveries of orphans, flushes and restarts.
\* Only replay_from removes rows.
CommittedKept ==
    [][ \/ \E t \in Tasks, step \in Steps : Replay(t, step)
        \/ {"blind", "raced", "unlogged"} \cap departures' # {}
        \/ KeysOf(store) \subseteq KeysOf(store')
      ]_store

\* replay_from undoes exactly the steps of its task from the checkpoint on: their
\* audit entries are gone, so that they can be executed again, and the entries
\* before the checkpoint are kept.
ReplayExact ==
    [][ \A t \in Tasks, step \in Steps :
          Replay(t, step) /\ {"ahead", "blind", "unlogged", "stale"} \cap departures = {} =>
            \A n \in Steps :
                AuditKey(t, n) \in KeysOf(store') <=> AuditKey(t, n) \in KeysOf(store) /\ n < step
      ]_vars

\* What the audit log says was consumed in a step, and in all steps before n.
Taken(t, step) == IF AuditKey(t, step) \in KeysOf(store) THEN AuditRow(t, step).val.tokens ELSE 0

Total(f, n) ==
    LET sum[i \in Nat] == IF i = 0 THEN 0 ELSE sum[i - 1] + f[i - 1]
    IN  sum[n]

AuditedTokens(t) == Total([n \in Nat |-> Taken(t, n)], ctx[t].step + 1)

\* The budget of a running task covers what the audit log says was consumed in its
\* steps up to the current one, and beside it what is reserved, through failures,
\* retries, replays and restarts.
BudgetCovers ==
    {"ahead", "blind"} \cap departures = {} =>
        \A t \in Tasks :
            ctx[t].status # "Idle" => AuditedTokens(t) + call[t].reserved <= ctx[t].consumed

\* What is consumed and not audited yet.
InFlight(t) ==
    call[t].reserved + (IF call[t].pc \in {"audit", "audit_put"} THEN call[t].tokens ELSE 0)

\* Every step of t that is over has its audit entry.
FullyAudited(t) ==
    \A n \in 0 .. ctx[t].step :
        n < ctx[t].step \/ ctx[t].status = "Failed" => AuditKey(t, n) \in KeysOf(store)

\* Nothing is charged for good but what was consumed: the budget holds no reservation
\* that was not returned.  Only a tool whose audit entry was not written is charged
\* without a record of it.
BudgetReturned ==
    {"ahead", "blind"} \cap departures = {} =>
        \A t \in Tasks :
            FullyAudited(t) => ctx[t].consumed <= AuditedTokens(t) + InFlight(t)

\* Every call of run returns: the limit on the steps, the limit on the attempts and the
\* timeout of the tools bound it, if every cycle of the graph has a Start or a Task.
\* (Decisions alone count no step.)
RunReturns == \A t \in Tasks : ~At(t, "idle") ~> At(t, "idle")
=============================================================================
