------------------------------- MODULE Tasks --------------------------------
(***************************************************************************)
(* The task manager (src/src/tasks.rs): callers submit and cancel tasks on *)
(* any thread, one supervisor runs and joins them.                         *)
(*                                                                         *)
(* records, cancel_tokens and unique_keys are three maps behind three      *)
(* locks, and no call holds two of them.  A step here is one hold of one   *)
(* lock (or one send, receive or end of a future), so a call to            *)
(* spawn_async_unique is six steps and handle_join is four.                *)
(***************************************************************************)
EXTENDS Naturals, Sequences, FiniteSets

CONSTANTS Callers,      \* threads inside a call of the manager
          Keys,         \* unique keys: "apply/global", "scan/refresh", ...
          NoKey,
          Submitters,   \* the callers that may use each key, [Keys -> SUBSET Callers]
          Plain,        \* the callers that submit without a key
          Cancellers,   \* the callers that cancel by id
          MayPanic,     \* tasks that may panic
          MayShutdown,  \* may the daemon shut down?
          MaxTasks,     \* bound on the tasks submitted
          MaxPlain,     \* bound on those submitted without a key
          TrimAbove     \* TRIM_FINISHED_ABOVE

ASSUME TasksAssumption ==
  /\ NoKey \notin Keys
  /\ Submitters \in [Keys -> SUBSET Callers]
  /\ Plain \subseteq Callers /\ Cancellers \subseteq Callers
  /\ MayPanic \subseteq Nat /\ MayShutdown \in BOOLEAN
  /\ MaxTasks \in Nat /\ MaxPlain \in Nat /\ TrimAbove \in Nat

VARIABLES
  nextId,      \* next_id
  records,     \* records: the state of each task, "none" if it has no record
  tokens,      \* ids in cancel_tokens
  fired,       \* tokens that are cancelled
  keys,        \* unique_keys, 0 for none
  mailbox,     \* messages the supervisor has not received
  body,        \* where each task's future or function is
  call,        \* the call each caller is inside of
  joining,     \* the join the supervisor is handling
  supervisor,  \* "serving", "draining" or "gone"
  owner        \* the key each task was submitted under (history)

taskVars == <<records, tokens, fired, keys>>
runVars == <<mailbox, body>>
vars == <<nextId, taskVars, runVars, call, joining, supervisor, owner>>

Ids == 1..MaxTasks
Finished == {"completed", "failed", "cancelled"}
Ended == {"ok", "err", "panicked"}
NoCall == [at |-> "idle", id |-> 0, key |-> NoKey]
NoJoin == [at |-> "idle", id |-> 0, cancelled |-> FALSE]

TypeOK ==
  /\ nextId \in 1..MaxTasks + 1
  /\ records \in [Ids -> Finished \cup {"none", "running"}]
  /\ tokens \subseteq Ids
  /\ fired \subseteq Ids
  /\ keys \in [Keys -> 0..MaxTasks]
  /\ mailbox \in Seq(Ids)
  /\ body \in [Ids -> Ended \cup {"none", "live", "joined", "lost"}]
  /\ call \in [Callers -> [at : {"idle", "cancel", "mark", "alloc", "record", "send", "store"},
                           id : 0..MaxTasks, key : Keys \cup {NoKey}]]
  /\ joining \in [at : {"idle", "keys", "check", "write"}, id : 0..MaxTasks, cancelled : BOOLEAN]
  /\ supervisor \in {"serving", "draining", "gone"}
  /\ owner \in [Ids -> Keys \cup {NoKey}]

Init ==
  /\ nextId = 1
  /\ records = [i \in Ids |-> "none"]
  /\ tokens = {} /\ fired = {}
  /\ keys = [k \in Keys |-> 0]
  /\ mailbox = <<>>
  /\ body = [i \in Ids |-> "none"]
  /\ call = [c \in Callers |-> NoCall]
  /\ joining = NoJoin
  /\ supervisor = "serving"
  /\ owner = [i \in Ids |-> NoKey]

At(c, place) == call[c].at = place
Goes(c, place) ==
  call' = [call EXCEPT ![c] = IF place = "idle" THEN NoCall ELSE [@ EXCEPT !.at = place]]

-----------------------------------------------------------------------------
(* Calls.                                                                  *)

\* spawn_async_unique first looks up the previous task of the key.
CallUnique(c, k) ==
  /\ At(c, "idle") /\ c \in Submitters[k] /\ nextId <= MaxTasks
  /\ call' = [call EXCEPT ![c] = [at |-> IF keys[k] = 0 THEN "alloc" ELSE "cancel",
                                  id |-> keys[k], key |-> k]]
  /\ UNCHANGED <<nextId, taskVars, runVars, joining, supervisor, owner>>

\* Where a cancellation leads: spawn_async_unique goes on to submit.
AfterCancel(key) == IF key = NoKey THEN "idle" ELSE "alloc"

\* cancel fires the token, if it is still there ...
Cancel(c, i, key) ==
  IF i \in tokens
  THEN fired' = fired \cup {i} /\ call' = [call EXCEPT ![c] = [at |-> "mark", id |-> i, key |-> key]]
  ELSE /\ call' = [call EXCEPT ![c] = [at |-> AfterCancel(key), id |-> 0, key |-> key]]
       /\ UNCHANGED fired

CancelPrevious(c) ==
  /\ At(c, "cancel") /\ Cancel(c, call[c].id, call[c].key)
  /\ UNCHANGED <<nextId, records, tokens, keys, runVars, joining, supervisor, owner>>

\* (a D-Bus call cancels by id)
CallCancel(c, i) ==
  /\ At(c, "idle") /\ c \in Cancellers /\ records[i] = "running" /\ Cancel(c, i, NoKey)
  /\ UNCHANGED <<nextId, records, tokens, keys, runVars, joining, supervisor, owner>>

\* ... and then marks the record.
CancelMark(c) ==
  /\ At(c, "mark")
  /\ records' = [records EXCEPT ![call[c].id] = IF @ = "running" THEN "cancelled" ELSE @]
  /\ Goes(c, AfterCancel(call[c].key))
  /\ UNCHANGED <<nextId, tokens, fired, keys, runVars, joining, supervisor, owner>>

\* spawn_async: a task has its token before its future can run.
Alloc(c, key) ==
  /\ nextId <= MaxTasks
  /\ nextId' = nextId + 1
  /\ tokens' = tokens \cup {nextId}
  /\ call' = [call EXCEPT ![c] = [at |-> "record", id |-> nextId, key |-> key]]
  /\ owner' = [owner EXCEPT ![nextId] = key]
  /\ UNCHANGED <<records, fired, keys, mailbox, body, joining, supervisor>>

AllocUnique(c) == At(c, "alloc") /\ Alloc(c, call[c].key)

CallPlain(c) ==
  /\ At(c, "idle") /\ c \in Plain
  /\ Cardinality({i \in 1..nextId - 1 : owner[i] = NoKey}) < MaxPlain
  /\ Alloc(c, NoKey)

Listed(recs) == {i \in Ids : recs[i] # "none"}

Trimmed(recs) ==
  LET excess == Cardinality(Listed(recs)) - TrimAbove
      old(i) == {j \in Ids : recs[j] \in Finished /\ j < i}
  IN [i \in Ids |-> IF recs[i] \in Finished /\ Cardinality(old(i)) < excess
                    THEN "none" ELSE recs[i]]

RecordStarted(c) ==
  /\ At(c, "record")
  /\ records' = Trimmed([records EXCEPT ![call[c].id] = "running"])
  /\ Goes(c, "send")
  /\ UNCHANGED <<nextId, tokens, fired, keys, runVars, joining, supervisor, owner>>

AfterSend(c) == IF call[c].key = NoKey THEN "idle" ELSE "store"

Send(c) ==
  /\ At(c, "send") /\ supervisor # "gone"
  /\ mailbox' = Append(mailbox, call[c].id)
  /\ Goes(c, AfterSend(c))
  /\ UNCHANGED <<nextId, taskVars, body, joining, supervisor, owner>>

\* The receiver is gone: the task is dropped and recorded as failed.
SendRefused(c) ==
  /\ At(c, "send") /\ supervisor = "gone"
  /\ tokens' = tokens \ {call[c].id}
  /\ records' = [records EXCEPT ![call[c].id] = IF @ = "none" THEN @ ELSE "failed"]
  /\ Goes(c, AfterSend(c))
  /\ UNCHANGED <<nextId, fired, keys, runVars, joining, supervisor, owner>>

StoreKey(c) ==
  /\ At(c, "store")
  /\ keys' = [keys EXCEPT ![call[c].key] = call[c].id]
  /\ call' = [call EXCEPT ![c] = NoCall]
  /\ UNCHANGED <<nextId, records, tokens, fired, runVars, joining, supervisor, owner>>

-----------------------------------------------------------------------------
(* The supervisor and the tasks it runs.                                   *)

ReceiveSkippingCancelled ==
  /\ supervisor = "serving" /\ joining = NoJoin /\ mailbox # <<>>
  /\ body' = IF Head(mailbox) \in fired THEN body ELSE [body EXCEPT ![Head(mailbox)] = "live"]
  /\ mailbox' = Tail(mailbox)
  /\ UNCHANGED <<nextId, taskVars, call, joining, supervisor, owner>>
Receive ==
  /\ supervisor = "serving" /\ joining = NoJoin /\ mailbox # <<>>
  /\ body' = [body EXCEPT ![Head(mailbox)] = "live"]
  /\ mailbox' = Tail(mailbox)
  /\ UNCHANGED <<nextId, taskVars, call, joining, supervisor, owner>>

\* The future resolves, and may win against a token that has fired.
Resolve(i) ==
  /\ body[i] = "live"
  /\ \E end \in Ended \ {"panicked"} : body' = [body EXCEPT ![i] = end]
  /\ UNCHANGED <<nextId, taskVars, mailbox, call, joining, supervisor, owner>>

Panic(i) ==
  /\ i \in MayPanic /\ body[i] = "live"
  /\ body' = [body EXCEPT ![i] = "panicked"]
  /\ UNCHANGED <<nextId, taskVars, mailbox, call, joining, supervisor, owner>>

\* The select! sees the token: Err("cancelled").
ObserveCancel(i) ==
  /\ body[i] = "live" /\ i \in fired
  /\ body' = [body EXCEPT ![i] = "err"]
  /\ UNCHANGED <<nextId, taskVars, mailbox, call, joining, supervisor, owner>>

\* join_next, and the token is collected.
JoinRemovingNothing(i) ==
  /\ supervisor # "gone" /\ joining = NoJoin /\ body[i] \in {"ok", "err"}
  /\ joining' = [at |-> "keys", id |-> i, cancelled |-> FALSE]
  /\ UNCHANGED <<nextId, taskVars, runVars, call, supervisor, owner>>
Join(i) ==
  /\ supervisor # "gone" /\ joining = NoJoin /\ body[i] \in {"ok", "err"}
  /\ tokens' = tokens \ {i} /\ fired' = fired \ {i}
  /\ joining' = [at |-> "keys", id |-> i, cancelled |-> FALSE]
  /\ UNCHANGED <<nextId, records, keys, runVars, call, supervisor, owner>>

\* A join error: the task never reports its id, and handle_join returns.
JoinError(i) ==
  /\ supervisor # "gone" /\ joining = NoJoin /\ body[i] = "panicked"
  /\ body' = [body EXCEPT ![i] = "lost"]
  /\ UNCHANGED <<nextId, taskVars, mailbox, call, joining, supervisor, owner>>

JoinKeysByOwner ==
  /\ joining.at = "keys"
  /\ keys' = [k \in Keys |-> IF k = owner[joining.id] THEN 0 ELSE keys[k]]
  /\ joining' = [joining EXCEPT !.at = "check"]
  /\ UNCHANGED <<nextId, records, tokens, fired, runVars, call, supervisor, owner>>
JoinKeys ==
  /\ joining.at = "keys"
  /\ keys' = [k \in Keys |-> IF keys[k] = joining.id THEN 0 ELSE keys[k]]
  /\ joining' = [joining EXCEPT !.at = "check"]
  /\ UNCHANGED <<nextId, records, tokens, fired, runVars, call, supervisor, owner>>

JoinCheck ==
  /\ joining.at = "check"
  /\ joining' = [joining EXCEPT !.at = "write", !.cancelled = records[joining.id] = "cancelled"]
  /\ UNCHANGED <<nextId, taskVars, runVars, call, supervisor, owner>>

Observed(i) == IF body[i] = "ok" THEN "completed" ELSE "failed"

JoinWrite ==
  /\ joining.at = "write"
  /\ records' = [records EXCEPT ![joining.id] =
                   IF joining.cancelled \/ @ = "none" THEN @ ELSE Observed(joining.id)]
  /\ body' = [body EXCEPT ![joining.id] = "joined"]
  /\ joining' = NoJoin
  /\ UNCHANGED <<nextId, tokens, fired, keys, mailbox, call, supervisor, owner>>

\* The shutdown watch flips: no more messages, and every future is aborted.
Drain ==
  /\ MayShutdown /\ supervisor = "serving" /\ joining = NoJoin
  /\ supervisor' = "draining"
  /\ UNCHANGED <<nextId, taskVars, runVars, call, joining, owner>>

\* An aborted future reports nothing.
Abort(i) ==
  /\ supervisor = "draining" /\ body[i] = "live"
  /\ body' = [body EXCEPT ![i] = "joined"]
  /\ UNCHANGED <<nextId, taskVars, mailbox, call, joining, supervisor, owner>>

\* Nothing is left, or SHUTDOWN_DEADLINE has passed.
DrainWithoutDeadline ==
  /\ supervisor = "draining" /\ joining = NoJoin
  /\ \A i \in Ids : body[i] \in {"none", "joined", "lost"}
  /\ supervisor' = "gone" /\ mailbox' = <<>>
  /\ UNCHANGED <<nextId, taskVars, body, call, joining, owner>>
Gone ==
  /\ supervisor = "draining" /\ joining = NoJoin
  /\ supervisor' = "gone" /\ mailbox' = <<>>
  /\ UNCHANGED <<nextId, taskVars, body, call, joining, owner>>

CallStep(c) ==
  \/ CancelPrevious(c) \/ CancelMark(c) \/ AllocUnique(c)
  \/ RecordStarted(c) \/ Send(c) \/ SendRefused(c) \/ StoreKey(c)

SupervisorStep ==
  \/ Receive
  \/ \E i \in Ids : Join(i) \/ JoinError(i)
  \/ JoinKeys \/ JoinCheck \/ JoinWrite
  \/ Gone

Next ==
  \/ \E c \in Callers, k \in Keys : CallUnique(c, k)
  \/ \E c \in Callers : CallPlain(c)
  \/ \E c \in Callers, i \in Ids : CallCancel(c, i)
  \/ \E c \in Callers : CallStep(c)
  \/ SupervisorStep
  \/ \E i \in Ids : Resolve(i) \/ Panic(i) \/ ObserveCancel(i) \/ Abort(i)
  \/ Drain

Spec == Init /\ [][Next]_vars

\* Threads inside a call run on, the runtime polls the supervisor and wakes a
\* future whose token fired.  A future need not resolve by itself.
FairSpec ==
  /\ Spec
  /\ \A c \in Callers : WF_vars(CallStep(c))
  /\ WF_vars(SupervisorStep)
  /\ \A i \in Ids : WF_vars(ObserveCancel(i))

-----------------------------------------------------------------------------
Live(i) == body[i] = "live" \/ \E n \in DOMAIN mailbox : mailbox[n] = i

Submitting(i) == \E c \in Callers : call[c].id = i /\ call[c].at \in {"record", "send", "store"}

(* "A running task under the same key is cancelled first" (tasks.rs:189):  *)
(* of the tasks submitted under a key, all that still run but the newest   *)
(* have been cancelled.  Joins collect the keys of finished tasks meanwhile. *)
OneLivePerKey ==
  \A i, j \in Ids :
    i < j /\ owner[i] # NoKey /\ owner[i] = owner[j] /\ Live(i) /\ Live(j) => i \in fired

(* The list and the token map do not keep a task for ever: when nothing    *)
(* runs and no call is under way, what is still Running or still has a     *)
(* token is a task that panicked, which handle_join cannot tell.           *)
NothingLeftOver ==
  (supervisor = "serving" /\ joining = NoJoin /\ mailbox = <<>>
     /\ (\A i \in Ids : body[i] \in {"none", "joined", "lost"})
     /\ (\A c \in Callers : At(c, "idle")))
    => \A i \in Ids : i \in tokens \/ records[i] = "running" => body[i] = "lost"

(* A cancelled task stops, though nothing obliges its future to resolve.   *)
CancelTakesEffect ==
  \A i \in Ids : i \in fired ~> (body[i] \in {"joined", "lost"} \/ supervisor = "gone")

(* Once shutdown begins the supervisor exits, whatever the tasks do.       *)
DrainsInTime == (supervisor = "draining") ~> (supervisor = "gone")
=============================================================================
