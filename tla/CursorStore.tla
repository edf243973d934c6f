---------------------------- MODULE CursorStore ----------------------------
(***************************************************************************)
(* lightcycle-store/src/cursor_store.rs: consumer id -> cursor blob in a   *)
(* redb file, shared by several tasks.  A write is a transaction that      *)
(* excludes other writes and counts once it is committed; a read works on  *)
(* the table as it was when its transaction began; a crash leaves what was *)
(* committed.  Consumers are numbered in the order of their ids.           *)
(***************************************************************************)
EXTENDS Integers, Sequences, FiniteSets, FiniteSetsExt

CONSTANTS Task,         \* tasks that hold a clone of the store
          Consumer,     \* consumer ids, by rank
          Blob,         \* the blobs callers put: any bytes, never looked into
          NoTask,       \* no write transaction is open
          MaxCommits    \* bound of the model: writes that commit

ASSUME CursorStoreAssumption ==
    Consumer \subseteq Nat /\ NoTask \notin Task /\ MaxCommits \in Nat

VARIABLES open,     \* CursorStore::open has returned, and no crash since
          table,    \* the committed table: consumer -> blob
          writer,   \* the task with the open write transaction
          call,     \* per task, its call: [op, key, view, out, floor, pc]
          hist,     \* history: the committed tables, first to last
          acked     \* history: the last commit whose call has returned

storeVars == <<open, table, writer, call, hist, acked>>

\* `view` is the transaction's table, `out` what a read has copied so far.
NoCall == [op |-> "none", key |-> 0, view |-> <<>>, out |-> <<>>, floor |-> 0, pc |-> "idle"]

Reads == {"get", "list", "len"}

\* External: redb's tables.
Put(t, k, v) == [x \in DOMAIN t \cup {k} |-> IF x = k THEN v ELSE t[x]]
Drop(t, k) == [x \in DOMAIN t \ {k} |-> t[x]]

\* Database::create and the transaction that makes the table: what is there stays.
Open ==
    /\ ~ open
    /\ open' = TRUE
    /\ UNCHANGED <<table, writer, call, hist, acked>>

\* A task calls a method.
Call(t, op, k) ==
    /\ open /\ call[t].pc = "idle"
    /\ op \notin Reads => Len(hist) <= MaxCommits
    /\ call' = [call EXCEPT ![t] = [NoCall EXCEPT !.op = op, !.key = k, !.floor = acked,
                                                  !.pc = "begin"]]
    /\ UNCHANGED <<open, table, writer, hist, acked>>

\* put: begin_write waits for the other writer; insert overwrites.
PutBegin(t, cursor) ==
    /\ call[t].pc = "begin" /\ call[t].op = "put" /\ writer = NoTask
    /\ writer' = t
    /\ call' = [call EXCEPT ![t].view = Put(table, call[t].key, cursor), ![t].pc = "open"]
    /\ UNCHANGED <<open, table, hist, acked>>

\* delete: remove is idempotent.
DeleteBegin(t) ==
    /\ call[t].pc = "begin" /\ call[t].op = "delete" /\ writer = NoTask
    /\ writer' = t
    /\ call' = [call EXCEPT ![t].view = Drop(table, call[t].key), ![t].pc = "open"]
    /\ UNCHANGED <<open, table, hist, acked>>

\* txn.commit() of either.
Commit(t) ==
    /\ call[t].pc = "open"
    /\ table' = call[t].view /\ writer' = NoTask
    /\ hist' = Append(hist, call[t].view)
    /\ call' = [call EXCEPT ![t].pc = "committed", ![t].floor = Len(hist) + 1]
    /\ UNCHANGED <<open, acked>>

\* A step of the transaction failed: it is rolled back and the call errs.
WriteFails(t) ==
    /\ call[t].pc \in {"begin", "open"} /\ call[t].op \notin Reads
    /\ writer' = IF writer = t THEN NoTask ELSE writer
    /\ call' = [call EXCEPT ![t] = NoCall]
    /\ UNCHANGED <<open, table, hist, acked>>

\* put or delete returns.
WriteReturns(t) ==
    /\ call[t].pc = "committed"
    /\ acked' = Max({acked, call[t].floor})
    /\ call' = [call EXCEPT ![t] = NoCall]
    /\ UNCHANGED <<open, table, writer, hist>>

\* get, list, len: begin_read, which never waits.
ReadBegin(t) ==
    /\ call[t].pc = "begin" /\ call[t].op \in Reads
    /\ call' = [call EXCEPT ![t].view = table, ![t].pc = "reading"]
    /\ UNCHANGED <<open, table, writer, hist, acked>>

\* Reads the committed table as it is by now, entry by entry.
ViewOf_Live(t) == table
\* The table a read transaction sees.
ViewOf(t) == call[t].view

\* The entries a read copies: one for get, all for list, none for len.
Wanted(t) ==
    CASE call[t].op = "get"  -> {call[t].key}
      [] call[t].op = "list" -> Consumer
      [] call[t].op = "len"  -> {}

\* What is left of them, from the first id on.
Left(t) == {k \in Wanted(t) \cap DOMAIN ViewOf(t) : \A x \in DOMAIN call[t].out : x < k}

\* The next entry.
ReadEntry(t) ==
    /\ call[t].pc = "reading" /\ Left(t) # {}
    /\ LET k == Min(Left(t))
       IN  call' = [call EXCEPT ![t].out = Put(@, k, ViewOf(t)[k])]
    /\ UNCHANGED <<open, table, writer, hist, acked>>

\* The read is complete; len answers with the size of the table.
ReadDone(t) ==
    /\ call[t].pc = "reading" /\ Left(t) = {}
    /\ call' = [call EXCEPT ![t].pc = "done",
                            ![t].key = IF call[t].op = "len" THEN Cardinality(DOMAIN ViewOf(t))
                                       ELSE @]
    /\ UNCHANGED <<open, table, writer, hist, acked>>

\* It returns, or failed on the way.
ReadReturns(t) ==
    /\ call[t].pc \in {"begin", "reading", "done"} /\ call[t].op \in Reads
    /\ call' = [call EXCEPT ![t] = NoCall]
    /\ UNCHANGED <<open, table, writer, hist, acked>>

\* The process dies: what is not committed is gone.
Crash ==
    /\ open
    /\ open' = FALSE /\ writer' = NoTask
    /\ call' = [t \in Task |-> NoCall]
    /\ UNCHANGED <<table, hist, acked>>

CursorStoreInit ==
    /\ open = FALSE /\ table = <<>> /\ writer = NoTask
    /\ call = [t \in Task |-> NoCall]
    /\ hist = <<table>> /\ acked = 1

CursorStoreNext ==
    \/ Open
    \/ Crash
    \/ \E t \in Task :
          \/ \E k \in Consumer : Call(t, "put", k) \/ Call(t, "delete", k) \/ Call(t, "get", k)
          \/ Call(t, "list", 0) \/ Call(t, "len", 0)
          \/ \E cursor \in Blob : PutBegin(t, cursor)
          \/ DeleteBegin(t)
          \/ Commit(t)
          \/ WriteFails(t)
          \/ WriteReturns(t)
          \/ ReadBegin(t)
          \/ ReadEntry(t)
          \/ ReadDone(t)
          \/ ReadReturns(t)

CursorStoreSpec == CursorStoreInit /\ [][CursorStoreNext]_storeVars

-----------------------------------------------------------------------------
(* Properties *)

\* get, list and len answer with the table as it was at one moment, between their
\* begin and their end and not before any put or delete that had returned when they
\* were called: other tasks may write between two entries of a list, calls may fail
\* and the process may have crashed and reopened the file in between.
ReadsAreSnapshots ==
    \A t \in Task :
        call[t].pc = "done" =>
            \E i \in call[t].floor .. Len(hist) :
                /\ DOMAIN call[t].out = Wanted(t) \cap DOMAIN hist[i]
                /\ \A k \in DOMAIN call[t].out : call[t].out[k] = hist[i][k]
                /\ call[t].op = "len" => call[t].key = Cardinality(DOMAIN hist[i])
=============================================================================
