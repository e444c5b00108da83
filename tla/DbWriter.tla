-------------------------------- MODULE DbWriter --------------------------------
(***************************************************************************)
(* The single database writer (backend/metadata_store/db_writer.py): write *)
(* ops are queued in two lanes and one thread applies them in batches, one *)
(* transaction per batch, one savepoint per op.  Callers reach it through  *)
(* run_write and post_write, under the producer gate of MaintenanceGate.   *)
(*                                                                         *)
(* An op is a model value; the database is the sequence of ops committed   *)
(* to it.  An op called from inside another op runs inline in its          *)
(* savepoint and is part of it.  abort and reset serve tests only and are  *)
(* left out; so is the pause between batches.                              *)
(***************************************************************************)
EXTENDS MaintenanceGate, SequencesExt

CONSTANTS
  Ops,       \* write ops, each submitted at most once
  Lane,      \* the lane each op is submitted to
  QueueMax,  \* DB_WRITER_QUEUE_MAX
  BatchMax,  \* DB_WRITER_BATCH_MAX
  Retries,   \* how often a batch is tried again: Len(_DEFAULT_RETRY_DELAYS)
  Budget     \* bound: how many faults, transactions lost inside an op, crashes,
             \* timed out waits, starts, stops, and jobs or maintenance runs

Lanes == {"priority", "normal"}
Spendings == {"fault", "lost", "crash", "timeout", "start", "stop", "job"}

ASSUME WriterAssumption ==
  /\ None \notin Ops
  /\ Lane \in [Ops -> Lanes]
  /\ {QueueMax, BatchMax, Retries} \subseteq Nat \ {0}
  /\ Budget \in [Spendings -> Nat]

VARIABLES
  state,    \* lifecycle: idle, running, stopping, stopped
  late,     \* the stop deadline has passed
  queue,    \* the ops queued in each lane
  fut,      \* the Future of each op
  writer,   \* the writer thread: what it does, its batch, the next op, the attempt
  txn,      \* ops applied in the open transaction
  db,       \* ops committed, in order
  call,     \* the write each thread is making
  told,     \* what became of each op, as its caller heard it
  arrived,  \* ops in the order they were queued
  left      \* what is left of Budget

writerVars == <<state, late, queue, fut, writer, txn, db>>
callVars == <<call, told, arrived>>
vars == <<writerVars, callVars, gateVars, left>>

-----------------------------------------------------------------------------
Off == [pc |-> "off", ops |-> <<>>, n |-> 1, tries |-> 0, failed |-> {}]
Waiting == [Off EXCEPT !.pc = "take"]
NoCall == [pc |-> "idle", op |-> None]
Active == state \in {"running", "stopping"}

Spend(what) ==
  /\ left[what] > 0
  /\ left' = [left EXCEPT ![what] = @ - 1]

Init ==
  /\ GateInit
  /\ state = "idle" /\ late = FALSE
  /\ queue = [l \in Lanes |-> <<>>]
  /\ fut = [o \in Ops |-> "none"]
  /\ writer = Off
  /\ txn = <<>> /\ db = <<>>
  /\ call = [t \in Threads |-> NoCall]
  /\ told = [o \in Ops |-> "none"]
  /\ arrived = <<>>
  /\ left = Budget

\* Mutant: a cancelled op is run all the same.
MutantLive(o) == TRUE
Live(o) == fut[o] \in {"pending", "running"}

\* _pop_locked: the next op is the first live one, priority lane first; the
\* cancelled ones in front of it leave with it.
First(l) == SelectInSeq(queue[l], Live)
HasNext == \E l \in Lanes : First(l) # 0
NextLane == IF First("priority") # 0 THEN "priority" ELSE "normal"
NextOp == queue[NextLane][First(NextLane)]
Popped == [l \in Lanes |->
             IF l = NextLane THEN SubSeq(queue[l], First(l) + 1, Len(queue[l]))
             ELSE IF l = "priority" THEN <<>> ELSE queue[l]]
Taken == /\ queue' = Popped
         /\ fut' = [fut EXCEPT ![NextOp] = "running"]

\* The Futures of the ops in s resolve, those in bad with an exception.
Settled(s, bad) ==
  [o \in Ops |-> IF o \notin ToSet(s) THEN fut[o] ELSE IF o \in bad THEN "error" ELSE "ok"]
\* Mutant: a batch that did not commit settles each op by its own outcome.
MutantBatchFailed == Settled(writer.ops, writer.failed)
BatchFailed == Settled(writer.ops, ToSet(writer.ops))

\* Every queued op is dropped, its Future failed with DatabaseWriterClosed.
\* Mutant: the Futures of dropped ops are forgotten.
MutantDropped == fut
Dropped == [o \in Ops |-> IF Live(o) /\ \E l \in Lanes : o \in ToSet(queue[l]) THEN "closed" ELSE fut[o]]

\* Ops of a batch that did not run go back to the front of their lanes, last first.
\* Mutant: they go to the back.
MutantRequeued(s) == [l \in Lanes |-> queue[l] \o SelectSeq(s, LAMBDA o : Lane[o] = l)]
Requeued(s) ==
  LET back[i \in 0..Len(s)] ==
        IF i = 0 THEN queue
        ELSE LET o == s[Len(s) + 1 - i]
             IN [back[i - 1] EXCEPT ![Lane[o]] = <<o>> \o back[i - 1][Lane[o]]]
  IN back[Len(s)]

\* Mutant: a failed attempt leaves its transaction open.
MutantRolledBack == txn
RolledBack == <<>>

-----------------------------------------------------------------------------
(* Lifecycle.                                                              *)

Start ==
  /\ state \in {"idle", "stopped"}
  /\ Spend("start")
  /\ state' = "running" /\ late' = FALSE
  /\ writer' = Waiting
  /\ UNCHANGED <<queue, fut, txn, db, callVars, gateVars>>

Stop ==
  /\ state = "running"
  /\ Spend("stop")
  /\ state' = "stopping" /\ late' = FALSE
  /\ UNCHANGED <<queue, fut, writer, txn, db, callVars, gateVars>>

DeadlinePasses ==
  /\ state = "stopping" /\ ~late
  /\ late' = TRUE
  /\ UNCHANGED <<state, queue, fut, writer, txn, db, callVars, gateVars, left>>

\* stop() has waited its time and the thread is still inside a batch.
StopGivesUp ==
  /\ state = "stopping" /\ late
  /\ queue # [l \in Lanes |-> <<>>]
  /\ fut' = Dropped
  /\ queue' = [l \in Lanes |-> <<>>]
  /\ UNCHANGED <<state, late, writer, txn, db, callVars, gateVars, left>>

-----------------------------------------------------------------------------
(* The writer thread.                                                      *)

writerFrame == <<callVars, gateVars>>

\* _take_first: stopping drains the queue, but not past the deadline.
Take ==
  /\ writer.pc = "take" /\ HasNext
  /\ ~(state = "stopping" /\ late)
  /\ Taken
  /\ writer' = [Waiting EXCEPT !.pc = "begin", !.ops = <<NextOp>>]
  /\ UNCHANGED <<state, late, txn, db, left, writerFrame>>

Begin ==
  /\ writer.pc = "begin"
  /\ writer' = [writer EXCEPT !.pc = "run"]
  /\ UNCHANGED <<state, late, queue, fut, txn, db, left, writerFrame>>

\* _run_batch: BEGIN or COMMIT failed.  Lock contention is retried with the same
\* ops; any other error, or one retry too many, fails them all.
AttemptFails ==
  /\ writer.pc = "begin" \/ (writer.pc = "run" /\ writer.n > Len(writer.ops))
  /\ Spend("fault")
  /\ txn' = RolledBack
  /\ \/ /\ writer.tries < Retries
        /\ writer' = [writer EXCEPT !.pc = "begin", !.n = 1, !.tries = @ + 1, !.failed = {}]
        /\ fut' = fut
     \/ /\ writer' = Waiting
        /\ fut' = BatchFailed
  /\ UNCHANGED <<state, late, queue, db, writerFrame>>

InBatch == writer.pc = "run" /\ writer.n <= Len(writer.ops)
Op == writer.ops[writer.n]

OpApplies ==
  /\ InBatch
  /\ txn' = Append(txn, Op)
  /\ writer' = [writer EXCEPT !.n = @ + 1]
  /\ UNCHANGED <<state, late, queue, fut, db, left, writerFrame>>

\* The op raises: only its savepoint is rolled back.
OpFails ==
  /\ InBatch
  /\ Spend("fault")
  /\ writer' = [writer EXCEPT !.n = @ + 1, !.failed = @ \cup {Op}]
  /\ UNCHANGED <<state, late, queue, fut, txn, db, writerFrame>>

\* SQLite itself rolls the whole transaction back inside the op (disk full, I/O
\* error): the ops behind it are requeued, the others settle by their outcome.
OpEndsTransaction ==
  /\ InBatch
  /\ Spend("lost")
  /\ txn' = <<>>
  /\ queue' = Requeued(SubSeq(writer.ops, writer.n + 1, Len(writer.ops)))
  /\ fut' = Settled(SubSeq(writer.ops, 1, writer.n), writer.failed \cup {Op})
  /\ writer' = Waiting
  /\ UNCHANGED <<state, late, db, writerFrame>>

\* A BaseException: the batch fails and the thread ends.
OpCrashesThread ==
  /\ InBatch
  /\ Spend("crash")
  /\ txn' = RolledBack
  /\ fut' = BatchFailed
  /\ writer' = [Waiting EXCEPT !.pc = "dying"]
  /\ UNCHANGED <<state, late, queue, db, writerFrame>>

\* More ops join a first attempt, while its count and time budget allow.
Pull ==
  /\ writer.pc = "run" /\ writer.n > Len(writer.ops)
  /\ writer.tries = 0 /\ Len(writer.ops) < BatchMax /\ HasNext
  /\ Taken
  /\ writer' = [writer EXCEPT !.ops = Append(@, NextOp)]
  /\ UNCHANGED <<state, late, txn, db, left, writerFrame>>

Commit ==
  /\ writer.pc = "run" /\ writer.n > Len(writer.ops)
  /\ db' = db \o txn
  /\ txn' = <<>>
  /\ fut' = Settled(writer.ops, writer.failed)
  /\ writer' = Waiting
  /\ UNCHANGED <<state, late, queue, left, writerFrame>>

Finish ==
  /\ \/ writer.pc = "dying"
     \/ writer.pc = "take" /\ state = "stopping" /\ (late \/ ~HasNext)
  /\ fut' = Dropped
  /\ queue' = [l \in Lanes |-> <<>>]
  /\ state' = "stopped"
  /\ writer' = Off
  /\ UNCHANGED <<late, txn, db, left, writerFrame>>

-----------------------------------------------------------------------------
(* Callers.                                                                *)

ToCall(t, s) == call' = [call EXCEPT ![t].pc = s]

\* The call ends with r and leaves the producer gate.
Ends(t, r) ==
  /\ told' = [told EXCEPT ![call[t].op] = r]
  /\ call' = [call EXCEPT ![t] = NoCall]
  /\ LeaveProducer(t)

Enqueue(o) ==
  /\ queue' = [queue EXCEPT ![Lane[o]] = Append(@, o)]
  /\ fut' = [fut EXCEPT ![o] = "pending"]
  /\ arrived' = Append(arrived, o)

\* A job that holds the producer gate, or maintenance, around several writes.
StartJob(t) ==
  /\ call[t].pc = "idle" /\ held[t] = <<>>
  /\ Spend("job")
  /\ EnterProducer(t) \/ EnterMaintenance(t)
  /\ UNCHANGED <<writerVars, callVars>>

EndJob(t) ==
  /\ call[t].pc = "idle"
  /\ LeaveProducer(t) \/ LeaveMaintenance(t)
  /\ UNCHANGED <<writerVars, callVars, left>>

\* run_write: get_active_writer decides the path before the gate is entered.
CallWrite(t, o) ==
  /\ call[t].pc = "idle" /\ told[o] = "none" /\ \A u \in Threads : call[u].op # o
  /\ call' = [call EXCEPT ![t] = [pc |-> IF Active THEN "gate" ELSE "directgate", op |-> o]]
  /\ UNCHANGED <<writerVars, told, arrived, gateVars, left>>

PassGate(t) ==
  /\ call[t].pc \in {"gate", "directgate"}
  /\ EnterProducer(t)
  /\ ToCall(t, IF call[t].pc = "gate" THEN "submit" ELSE "direct")
  /\ UNCHANGED <<writerVars, told, arrived, left>>

\* submit: rejected unless running; a full lane blocks until there is room, the
\* writer stops, or the submit timeout passes.
Submit(t) ==
  LET o == call[t].op
      full == Len(queue[Lane[o]]) >= QueueMax
  IN /\ call[t].pc = "submit"
     /\ \/ state # "running" /\ Ends(t, "closed") /\ UNCHANGED <<queue, fut, arrived>>
        \/ state = "running" /\ full /\ Ends(t, "full") /\ UNCHANGED <<queue, fut, arrived>>
        \/ state = "running" /\ ~full /\ Enqueue(o) /\ ToCall(t, "wait") /\ UNCHANGED <<told, gateVars>>
     /\ UNCHANGED <<state, late, writer, txn, db, left>>

Return(t) ==
  /\ call[t].pc = "wait" /\ fut[call[t].op] \in {"ok", "error", "closed"}
  /\ Ends(t, fut[call[t].op])
  /\ UNCHANGED <<writerVars, arrived, left>>

\* The wait times out: an op still queued is cancelled, a running one goes on.
TimeOut(t) ==
  /\ call[t].pc = "wait" /\ Live(call[t].op)
  /\ Spend("timeout")
  /\ Ends(t, "timeout")
  /\ fut' = IF fut[call[t].op] = "pending" THEN [fut EXCEPT ![call[t].op] = "cancelled"] ELSE fut
  /\ UNCHANGED <<state, late, queue, writer, txn, db, arrived>>

\* run_direct: no writer may be active when the gate is passed ...
DirectCheck(t) ==
  /\ call[t].pc = "direct"
  /\ IF Active THEN Ends(t, "active") ELSE ToCall(t, "directtx") /\ UNCHANGED <<told, gateVars>>
  /\ UNCHANGED <<writerVars, arrived, left>>

\* ... and SQLite's write lock keeps its transaction apart from the writer's.
DirectCommit(t) ==
  /\ call[t].pc = "directtx" /\ writer.pc # "run"
  /\ \/ db' = Append(db, call[t].op) /\ Ends(t, "ok") /\ left' = left
     \/ db' = db /\ Ends(t, "error") /\ Spend("fault")
  /\ UNCHANGED <<state, late, queue, fut, writer, txn, arrived>>

\* post_write: direct and ungated without a writer; else dropped unless the gate,
\* then the lane, take it at once.
Post(t, o) ==
  /\ call[t].pc = "idle" /\ told[o] = "none" /\ \A u \in Threads : call[u].op # o
  /\ \/ /\ ~Active
        /\ db' = Append(db, o)
        /\ told' = [told EXCEPT ![o] = "posted"]
        /\ UNCHANGED <<call, gateVars>>
     \/ /\ Active /\ EnterProducer(t)
        /\ call' = [call EXCEPT ![t] = [pc |-> "post", op |-> o]]
        /\ UNCHANGED <<db, told>>
     \/ /\ Active /\ ~MayEnter(t)
        /\ told' = [told EXCEPT ![o] = "dropped"]
        /\ UNCHANGED <<db, call, gateVars>>
  /\ UNCHANGED <<state, late, queue, fut, writer, txn, arrived, left>>

PostSubmit(t) ==
  LET o == call[t].op
      accepted == state = "running" /\ Len(queue[Lane[o]]) < QueueMax
  IN /\ call[t].pc = "post"
     /\ Ends(t, IF accepted THEN "posted" ELSE "dropped")
     /\ IF accepted THEN Enqueue(o) ELSE UNCHANGED <<queue, fut, arrived>>
     /\ UNCHANGED <<state, late, writer, txn, db, left>>

-----------------------------------------------------------------------------
WriterStep ==
  Take \/ Begin \/ AttemptFails \/ OpApplies \/ OpFails \/ OpEndsTransaction \/ OpCrashesThread
  \/ Pull \/ Commit \/ Finish

CallerStep(t) ==
  PassGate(t) \/ Submit(t) \/ Return(t) \/ DirectCheck(t) \/ DirectCommit(t) \/ PostSubmit(t) \/ EndJob(t)

Next ==
  \/ Start \/ Stop \/ DeadlinePasses \/ StopGivesUp
  \/ WriterStep
  \/ \E t \in Threads : StartJob(t) \/ CallerStep(t) \/ TimeOut(t)
  \/ \E t \in Threads, o \in Ops : CallWrite(t, o) \/ Post(t, o)

Spec == Init /\ [][Next]_vars

\* The writer thread keeps running ops, which return; callers and jobs go on;
\* stop() is bounded by its deadline.
FairSpec ==
  /\ Spec
  /\ WF_vars(WriterStep)
  /\ \A t \in Threads : WF_vars(CallerStep(t))
  /\ WF_vars(DeadlinePasses) /\ WF_vars(StopGivesUp)

-----------------------------------------------------------------------------
(* Properties.                                                             *)

Futures == {"none", "pending", "running", "ok", "error", "closed", "cancelled"}

\* Every variable has its type, and only queued or batched ops are unsettled.
TypeOK ==
  /\ state \in {"idle", "running", "stopping", "stopped"} /\ late \in BOOLEAN
  /\ queue \in [Lanes -> Seq(Ops)]
  /\ fut \in [Ops -> Futures]
  /\ writer \in [pc : {"off", "take", "begin", "run", "dying"}, ops : Seq(Ops), n : Nat \ {0},
                 tries : 0..Retries, failed : SUBSET Ops]
  /\ Len(writer.ops) <= BatchMax
  /\ {txn, db, arrived} \subseteq Seq(Ops)
  /\ call \in [Threads -> [pc : {"gate", "directgate", "submit", "wait", "direct", "directtx", "post"}, op : Ops]
                          \cup {NoCall}]
  /\ told \in [Ops -> {"none", "ok", "error", "closed", "full", "timeout", "active", "posted", "dropped"}]
  /\ left \in [Spendings -> Nat]
  /\ \A o \in Ops : fut[o] = "pending" => o \in ToSet(queue[Lane[o]])
  /\ \A o \in Ops : fut[o] = "running" => o \in ToSet(writer.ops) \cup ToSet(queue[Lane[o]])

\* A result a caller sees is durable: the op is committed, whatever failed or
\* was retried in its batch (as long as no op lost the transaction).
OkIsDurable ==
  left.lost = Budget.lost => \A o \in Ops : told[o] = "ok" => o \in ToSet(db)

\* However often its batch is tried, an op is applied at most once.
AppliedOnce == IsInjective(db \o txn)

\* An op that its caller was told is closed, refused or dropped, or that was
\* cancelled before it ran, is never applied, however late the writer meets it.
RefusedNeverApplied ==
  [][\A o \in Ops :
       told[o] \in {"closed", "full", "active", "dropped"} \/ fut[o] \in {"closed", "cancelled"}
       => fut'[o] = fut[o] /\ o \notin ToSet(db' \o txn')]_vars

Before(s, o, p) == \E i, j \in 1..Len(s) : i < j /\ s[i] = o /\ s[j] = p

\* Ops of one lane are applied in the order they were queued, across batches,
\* retries and requeues.
LaneOrder ==
  \A o, p \in ToSet(arrived) :
    Lane[o] = Lane[p] /\ Before(db \o txn, o, p) => Before(arrived, o, p)

\* While maintenance is active, no thread but its owner gets an op queued, not
\* even one that chose its path before maintenance began.
MaintenanceHoldsBack ==
  [][\A o \in Ops :
       fut[o] = "none" /\ fut'[o] = "pending" /\ maint # None => call[maint].op = o]_vars

\* An accepted op is settled: applied, failed, or closed by a stop or a crash.
AcceptedSettles == \A o \in Ops : fut[o] = "pending" ~> fut[o] \notin {"pending", "running"}

\* No writer, gate, queue limit or lifecycle change blocks a caller for ever.
CallsReturn == \A t \in Threads : call[t].pc # "idle" ~> call[t].pc = "idle"

\* db_writer.py, module docstring: each op's Future resolves only after its batch
\* committed, so a result a caller sees is durable.
ResultsAreDurable == \A o \in Ops : told[o] = "ok" => o \in ToSet(db)
=============================================================================
