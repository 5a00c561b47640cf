------------------------------ MODULE ActivityProofs -------------------------------
(***************************************************************************)
(* Which tasks run (Tasks), which renderers play (Lifecycle) and what they *)
(* play (Playback): theorems for any callers, keys, tasks, displays,       *)
(* renderers, settings and lists, with cancellations, panics, a shutdown,  *)
(* edits and departures at any point.                                      *)
(*                                                                         *)
(* ResumePending and PauseComplete are inductive only together with how    *)
(* generations grow: a display's and the session's generation is never     *)
(* behind a sleeping task's, a display not yet seen has no autopause       *)
(* state, and the session's timer of the current generation is set only    *)
(* while the session asks for no pause.                                    *)
(*                                                                         *)
(* SettingsFollowEngine and PlaysTheList say nothing while a request is    *)
(* under way, and any number of them may be.  PlayInv says what each       *)
(* request knows at each of its steps (Knows), where a display is whose    *)
(* settings and rotation differ (Follows), and which request will see to a *)
(* rotation that is not of the list as it is (Plays).                      *)
(***************************************************************************)
EXTENDS Tasks, Lifecycle, Playback, SequenceTheorems, TLAPS

Queued(i) == \E n \in 1..Len(mailbox) : mailbox[n] = i
Sending(c) == call[c].at \in {"record", "send"}
InCall(i) == \E c \in Callers : Sending(c) /\ call[c].id = i

\* A task is in at most one place: in a call, in the mailbox, or run.
Unrepeated == \A m, n \in 1..Len(mailbox) : mailbox[m] = mailbox[n] => m = n
OneCall == \A c, e \in Callers : Sending(c) /\ Sending(e) /\ call[c].id = call[e].id => c = e
Apart ==
  \A i \in Ids :
    /\ Queued(i) => body[i] = "none" /\ ~InCall(i)
    /\ InCall(i) => body[i] = "none"
    /\ Queued(i) \/ InCall(i) \/ body[i] # "none" \/ owner[i] # NoKey => i < nextId
Places == Unrepeated /\ OneCall /\ Apart

\* What each caller holds, and what the supervisor is joining.
HeldBy(c) ==
  /\ call[c].at \in {"cancel", "mark", "record", "send", "store"} => call[c].id \in Ids
  /\ call[c].at \in {"cancel", "alloc", "store"} => call[c].key \in Keys
  /\ call[c].at = "idle" => call[c].key = NoKey
  /\ call[c].at \in {"record", "send", "store"} =>
       call[c].id < nextId /\ owner[call[c].id] = call[c].key
JoinHeld ==
  joining.at # "idle" =>
    joining.id \in Ids /\ body[joining.id] \in {"ok", "err"} /\ joining.id \notin tokens
Held == (\A c \in Callers : HeldBy(c)) /\ JoinHeld

\* A task that can run, or will, has its token.
HasToken == \A i \in Ids : InCall(i) \/ Live(i) => i \in tokens

TypeInv == TypeOK /\ Places /\ Held /\ HasToken

\* While the supervisor serves, a token or a Running record is of a task that
\* is still somewhere, and a cancelled join has no Running record.
Accounted ==
  supervisor = "serving" =>
    \A i \in Ids :
      i \in tokens \/ records[i] = "running" =>
        InCall(i) \/ Queued(i) \/ body[i] \in Ended \cup {"live", "lost"}

CancelledJoin ==
  joining.at = "write" /\ joining.cancelled => records[joining.id] # "running"

LeftInv == TypeInv /\ Accounted /\ CancelledJoin

-----------------------------------------------------------------------------
(* The mailbox.                                                            *)

LEMMA MailboxAppend ==
  ASSUME TypeOK, NEW j \in Ids, mailbox' = Append(mailbox, j)
  PROVE  /\ mailbox' \in Seq(Ids)
         /\ \A i : Queued(i)' <=> Queued(i) \/ i = j
         /\ Unrepeated /\ ~Queued(j) => Unrepeated'
<1>1. mailbox \in Seq(Ids)
  BY DEF TypeOK
<1>2. /\ mailbox' \in Seq(Ids)
      /\ Len(mailbox') = Len(mailbox) + 1 /\ Len(mailbox) \in Nat
      /\ \A n \in 1..Len(mailbox) : mailbox'[n] = mailbox[n]
      /\ mailbox'[Len(mailbox) + 1] = j
  BY <1>1
<1>3. \A i : Queued(i)' <=> Queued(i) \/ i = j
  BY <1>2 DEF Queued
<1> QED
  BY <1>2, <1>3 DEF Queued, Unrepeated

LEMMA MailboxTail ==
  ASSUME TypeOK, mailbox # <<>>, mailbox' = Tail(mailbox)
  PROVE  /\ mailbox' \in Seq(Ids) /\ Head(mailbox) \in Ids /\ Queued(Head(mailbox))
         /\ \A i : Queued(i) <=> Queued(i)' \/ i = Head(mailbox)
         /\ Unrepeated => (\A i : i = Head(mailbox) => ~Queued(i)') /\ Unrepeated'
<1>1. mailbox \in Seq(Ids)
  BY DEF TypeOK
<1>2. /\ mailbox' \in Seq(Ids) /\ Head(mailbox) = mailbox[1] /\ Head(mailbox) \in Ids
      /\ Len(mailbox') = Len(mailbox) - 1 /\ Len(mailbox) \in Nat \ {0}
      /\ \A n \in 1..Len(mailbox') : mailbox'[n] = mailbox[n + 1]
  BY <1>1
<1>3. \A n \in 2..Len(mailbox) : mailbox[n] = mailbox'[n - 1] /\ n - 1 \in 1..Len(mailbox')
  BY <1>2
<1>4. ASSUME NEW i PROVE Queued(i) <=> Queued(i)' \/ i = Head(mailbox)
  <2>1. Queued(i) => Queued(i)' \/ i = Head(mailbox)
    BY <1>2, <1>3 DEF Queued
  <2>2. Queued(i)' \/ i = Head(mailbox) => Queued(i)
    BY <1>2 DEF Queued
  <2> QED
    BY <2>1, <2>2
<1>5. Queued(Head(mailbox))
  BY <1>2 DEF Queued
<1>6. ASSUME Unrepeated
      PROVE  (\A i : i = Head(mailbox) => ~Queued(i)') /\ Unrepeated'
  <2>1. \A n \in 1..Len(mailbox') : n + 1 \in 1..Len(mailbox) /\ n + 1 # 1 /\ 1 \in 1..Len(mailbox)
    BY <1>2
  <2>2. \A n \in 1..Len(mailbox') : mailbox'[n] # mailbox[1]
    BY <1>2, <1>6, <2>1 DEF Unrepeated
  <2>3. \A m, n \in 1..Len(mailbox') : mailbox'[m] = mailbox'[n] => m + 1 = n + 1
    BY <1>2, <1>6, <2>1 DEF Unrepeated
  <2>4. \A m, n \in 1..Len(mailbox') : m + 1 = n + 1 => m = n
    BY <1>2
  <2>5. \A i : i = Head(mailbox) => ~Queued(i)'
    BY <1>2, <2>2 DEF Queued
  <2> QED
    BY <2>3, <2>4, <2>5 DEF Unrepeated
<1> QED
  BY <1>2, <1>4, <1>5, <1>6

-----------------------------------------------------------------------------
(* How a call goes on.                                                     *)

Call == [at : {"idle", "cancel", "mark", "alloc", "record", "send", "store"},
         id : 0..MaxTasks, key : Keys \cup {NoKey}]

LEMMA SetCall ==
  ASSUME TypeOK, NEW c \in Callers, NEW v \in Call, call' = [call EXCEPT ![c] = v]
  PROVE  /\ call' \in [Callers -> Call]
         /\ call'[c] = v /\ \A e \in Callers : e # c => call'[e] = call[e]
BY DEF TypeOK, Call

LEMMA GoesTo ==
  ASSUME TypeOK, NEW c \in Callers, NEW place \in {"idle", "alloc", "send", "store"},
         Goes(c, place)
  PROVE  /\ call' \in [Callers -> Call]
         /\ \A e \in Callers : e # c => call'[e] = call[e]
         /\ place = "idle" => call'[c] = NoCall
         /\ place # "idle" => /\ call'[c].at = place /\ call'[c].id = call[c].id
                              /\ call'[c].key = call[c].key
<1>1. call[c] \in Call /\ NoCall \in Call
  BY TasksAssumption DEF TypeOK, Call, NoCall
<1> DEFINE v == IF place = "idle" THEN NoCall ELSE [call[c] EXCEPT !.at = place]
<1>2. v \in Call
  BY <1>1 DEF Call
<1>3. call' = [call EXCEPT ![c] = v]
  BY DEF Goes
<1>4. place # "idle" => v.at = place /\ v.id = call[c].id /\ v.key = call[c].key
  BY <1>1 DEF Call
<1> QED
  BY <1>2, <1>3, <1>4, SetCall

LEMMA Cancels ==
  ASSUME TypeOK, NEW c \in Callers, NEW i \in Ids, NEW key \in Keys \cup {NoKey}, Cancel(c, i, key)
  PROVE  /\ call' \in [Callers -> Call]
         /\ \A e \in Callers : e # c => call'[e] = call[e]
         /\ i \in tokens => /\ fired' = fired \cup {i}
                            /\ call'[c] = [at |-> "mark", id |-> i, key |-> key]
         /\ i \notin tokens => /\ fired' = fired
                               /\ call'[c] = [at |-> AfterCancel(key), id |-> 0, key |-> key]
<1>1. [at |-> "mark", id |-> i, key |-> key] \in Call
  BY TasksAssumption DEF Call, Ids
<1>2. [at |-> AfterCancel(key), id |-> 0, key |-> key] \in Call
  BY TasksAssumption DEF Call, AfterCancel
<1>3. CASE i \in tokens
  BY <1>1, <1>3, SetCall DEF Cancel
<1>4. CASE i \notin tokens
  BY <1>2, <1>4, SetCall DEF Cancel
<1> QED
  BY <1>3, <1>4

-----------------------------------------------------------------------------
(* Every step keeps the types.                                             *)
LEMMA TypeStep == TypeOK /\ Held /\ [Next]_vars => TypeOK'
<1> SUFFICES ASSUME TypeOK, Held, [Next]_vars PROVE TypeOK'
  OBVIOUS
<1> USE TasksAssumption DEF TypeOK, Call, Ids, Finished, Ended, NoCall, NoJoin, At, taskVars, runVars
<1>1. ASSUME NEW c \in Callers, NEW k \in Keys, CallUnique(c, k) PROVE TypeOK'
  BY <1>1 DEF CallUnique, Held
<1>2. ASSUME NEW c \in Callers, CallPlain(c) PROVE TypeOK'
  BY <1>2 DEF CallPlain, Alloc, Held
<1>3. ASSUME NEW c \in Callers, NEW i \in Ids, CallCancel(c, i) PROVE TypeOK'
  <2>1. call' \in [Callers -> Call] /\ (fired' = fired \cup {i} \/ fired' = fired)
    BY <1>3, Cancels DEF CallCancel
  <2> QED
    BY <1>3, <2>1 DEF CallCancel
<1>4. ASSUME NEW c \in Callers, CancelPrevious(c) PROVE TypeOK'
  <2>1. call[c].id \in Ids /\ call[c].key \in Keys \cup {NoKey}
    BY <1>4 DEF CancelPrevious, Held, HeldBy
  <2>2. /\ call' \in [Callers -> Call]
        /\ fired' = fired \cup {call[c].id} \/ fired' = fired
    BY <1>4, <2>1, Cancels DEF CancelPrevious
  <2> QED
    BY <1>4, <2>1, <2>2 DEF CancelPrevious
<1>5. ASSUME NEW c \in Callers, CancelMark(c) PROVE TypeOK'
  <2>1. call' \in [Callers -> Call]
    BY <1>5, GoesTo DEF CancelMark, AfterCancel
  <2> QED
    BY <1>5, <2>1 DEF CancelMark
<1>6. ASSUME NEW c \in Callers, AllocUnique(c) PROVE TypeOK'
  BY <1>6 DEF AllocUnique, Alloc, Held
<1>7. ASSUME NEW c \in Callers, RecordStarted(c) PROVE TypeOK'
  <2>1. call' \in [Callers -> Call]
    BY <1>7, GoesTo DEF RecordStarted
  <2> QED
    BY <1>7, <2>1 DEF RecordStarted, Trimmed
<1>8. ASSUME NEW c \in Callers, Send(c) PROVE TypeOK'
  <2>1. call' \in [Callers -> Call]
    BY <1>8, GoesTo DEF Send, AfterSend
  <2>2. mailbox' \in Seq(Ids)
    BY <1>8, MailboxAppend DEF Send, Held, HeldBy
  <2> QED
    BY <1>8, <2>1, <2>2 DEF Send
<1>9. ASSUME NEW c \in Callers, SendRefused(c) PROVE TypeOK'
  <2>1. call' \in [Callers -> Call]
    BY <1>9, GoesTo DEF SendRefused, AfterSend
  <2> QED
    BY <1>9, <2>1 DEF SendRefused
<1>10. ASSUME NEW c \in Callers, StoreKey(c) PROVE TypeOK'
  BY <1>10 DEF StoreKey, Held, HeldBy
<1>11. ASSUME Receive PROVE TypeOK'
  BY <1>11 DEF Receive, Held
<1>12. ASSUME NEW i \in Ids, Join(i) PROVE TypeOK'
  BY <1>12 DEF Join, Held
<1>13. ASSUME NEW i \in Ids, JoinError(i) PROVE TypeOK'
  BY <1>13 DEF JoinError, Held
<1>14. ASSUME JoinKeys PROVE TypeOK'
  <2>1. keys' \in [Keys -> 0..MaxTasks]
    BY <1>14 DEF JoinKeys
  <2>2. joining' \in [at : {"idle", "keys", "check", "write"}, id : 0..MaxTasks, cancelled : BOOLEAN]
    BY <1>14 DEF JoinKeys
  <2> QED
    BY <1>14, <2>1, <2>2 DEF JoinKeys
<1>15. ASSUME JoinCheck PROVE TypeOK'
  BY <1>15 DEF JoinCheck, Held
<1>16. ASSUME JoinWrite PROVE TypeOK'
  BY <1>16 DEF JoinWrite, Observed, Held, JoinHeld
<1>17. ASSUME Gone PROVE TypeOK'
  BY <1>17 DEF Gone, Held
<1>18. ASSUME NEW i \in Ids, Resolve(i) PROVE TypeOK'
  BY <1>18 DEF Resolve, Held
<1>19. ASSUME NEW i \in Ids, Panic(i) PROVE TypeOK'
  BY <1>19 DEF Panic, Held
<1>20. ASSUME NEW i \in Ids, ObserveCancel(i) PROVE TypeOK'
  BY <1>20 DEF ObserveCancel, Held
<1>21. ASSUME NEW i \in Ids, Abort(i) PROVE TypeOK'
  BY <1>21 DEF Abort, Held
<1>22. ASSUME Drain PROVE TypeOK'
  BY <1>22 DEF Drain, Held
<1>23. CASE UNCHANGED vars
  BY <1>23 DEF vars
<1> QED
  BY <1>1, <1>2, <1>3, <1>4, <1>5, <1>6, <1>7, <1>8, <1>9, <1>10, <1>11, <1>12, <1>13, <1>14, <1>15, <1>16, <1>17, <1>18, <1>19, <1>20, <1>21, <1>22, <1>23 DEF Next, CallStep, SupervisorStep

\* What callers and the supervisor hold stays meaningful.
LEMMA OthersHeld ==
  ASSUME TypeOK, TypeOK', NEW e \in Callers, HeldBy(e), call'[e] = call[e],
         nextId' >= nextId, \A i \in Ids : i < nextId => owner'[i] = owner[i]
  PROVE  HeldBy(e)'
<1>1. /\ nextId \in Nat /\ nextId' \in Nat
      /\ call[e].id \in 0..MaxTasks
  BY TasksAssumption DEF TypeOK
<1> QED
  BY <1>1 DEF HeldBy, Ids

LEMMA HeldStep == TypeInv /\ [Next]_vars => Held'
<1> SUFFICES ASSUME TypeInv, [Next]_vars PROVE Held'
  OBVIOUS
<1>0. TypeOK /\ TypeOK' /\ Places /\ Held /\ (\A c \in Callers : HeldBy(c))
  BY TypeStep DEF TypeInv, Held
<1> USE TasksAssumption DEF taskVars, runVars
<1>1. ASSUME NEW c \in Callers, NEW k \in Keys, CallUnique(c, k) PROVE Held'
  <2>1. /\ \A e \in Callers : e # c => call'[e] = call[e]
        /\ call'[c] = [at |-> IF keys[k] = 0 THEN "alloc" ELSE "cancel", id |-> keys[k], key |-> k]
    BY <1>0, <1>1 DEF CallUnique, TypeOK
  <2>2. HeldBy(c)'
    BY <1>0, <1>1, <2>1 DEF CallUnique, HeldBy, TypeOK, Ids, NoCall, At
  <2>3. \A e \in Callers : e # c => HeldBy(e)'
    BY SMTT(30), <1>0, <1>1, <2>1, OthersHeld DEF CallUnique, TypeOK, Ids
  <2>4. JoinHeld'
    BY <1>0, <1>1 DEF CallUnique, Held, JoinHeld, TypeOK
  <2> QED
    BY <2>2, <2>3, <2>4 DEF Held
<1>2. ASSUME NEW c \in Callers, CallPlain(c) PROVE Held'
  <2>1. /\ \A e \in Callers : e # c => call'[e] = call[e]
        /\ call'[c] = [at |-> "record", id |-> nextId, key |-> NoKey]
        /\ nextId' = nextId + 1 /\ nextId \in Ids /\ nextId \in Nat /\ tokens' = tokens \cup {nextId}
        /\ owner'[nextId] = NoKey /\ \A i \in Ids : i < nextId => owner'[i] = owner[i]
        /\ UNCHANGED <<body, joining>>
    BY <1>0, <1>2 DEF CallPlain, Alloc, TypeOK, Ids
  <2>2. HeldBy(c)'
    BY <2>1 DEF HeldBy
  <2>3. \A e \in Callers : e # c => HeldBy(e)'
    <3>1. nextId' >= nextId
      BY <2>1
    <3> QED
      BY <1>0, <2>1, <3>1, OthersHeld
  <2>4. JoinHeld'
    <3>1. joining.at # "idle" =>
            /\ joining.id \in Ids /\ joining.id < nextId
            /\ body[joining.id] \in {"ok", "err"} /\ joining.id \notin tokens
      BY <1>0 DEF Held, JoinHeld, Places, Apart
    <3>2. joining.at # "idle" => joining.id # nextId
      BY <2>1, <3>1 DEF Ids
    <3> QED
      BY <2>1, <3>1, <3>2 DEF JoinHeld
  <2> QED
    BY <2>2, <2>3, <2>4 DEF Held
<1>3. ASSUME NEW c \in Callers, NEW i \in Ids, CallCancel(c, i) PROVE Held'
  <2>1. /\ \A e \in Callers : e # c => call'[e] = call[e]
        /\ \/ call'[c] = [at |-> "mark", id |-> i, key |-> NoKey]
           \/ call'[c] = [at |-> "idle", id |-> 0, key |-> NoKey]
    BY <1>0, <1>3, Cancels DEF CallCancel, AfterCancel
  <2>2. HeldBy(c)'
    BY <1>0, <1>3, <2>1 DEF CallCancel, HeldBy, TypeOK, Ids, NoCall, At
  <2>3. \A e \in Callers : e # c => HeldBy(e)'
    BY SMTT(30), <1>0, <1>3, <2>1, OthersHeld DEF CallCancel, TypeOK, Ids
  <2>4. JoinHeld'
    BY <1>0, <1>3 DEF CallCancel, Held, JoinHeld, TypeOK
  <2> QED
    BY <2>2, <2>3, <2>4 DEF Held
<1>4. ASSUME NEW c \in Callers, CancelPrevious(c) PROVE Held'
  <2>1. /\ \A e \in Callers : e # c => call'[e] = call[e]
        /\ call[c].id \in Ids /\ call[c].key \in Keys
        /\ \/ call'[c] = [at |-> "mark", id |-> call[c].id, key |-> call[c].key]
           \/ call'[c] = [at |-> "alloc", id |-> 0, key |-> call[c].key]
    <3>1. call[c].id \in Ids /\ call[c].key \in Keys
      BY <1>0, <1>4 DEF CancelPrevious, HeldBy, At
    <3> QED
      BY <1>0, <1>4, <3>1, Cancels DEF CancelPrevious, AfterCancel
  <2>2. HeldBy(c)'
    BY <1>0, <1>4, <2>1 DEF CancelPrevious, HeldBy, TypeOK, Ids, NoCall, At
  <2>3. \A e \in Callers : e # c => HeldBy(e)'
    BY SMTT(30), <1>0, <1>4, <2>1, OthersHeld DEF CancelPrevious, TypeOK, Ids
  <2>4. JoinHeld'
    BY <1>0, <1>4 DEF CancelPrevious, Held, JoinHeld, TypeOK
  <2> QED
    BY <2>2, <2>3, <2>4 DEF Held
<1>5. ASSUME NEW c \in Callers, CancelMark(c) PROVE Held'
  <2>1. /\ \A e \in Callers : e # c => call'[e] = call[e]
        /\ \/ call'[c] = NoCall
           \/ /\ call'[c].at = "alloc" /\ call'[c].id = call[c].id
              /\ call'[c].key = call[c].key /\ call[c].key \in Keys
    BY <1>0, <1>5, GoesTo DEF CancelMark, AfterCancel, TypeOK
  <2>2. HeldBy(c)'
    BY <1>0, <1>5, <2>1 DEF CancelMark, HeldBy, TypeOK, Ids, NoCall, At
  <2>3. \A e \in Callers : e # c => HeldBy(e)'
    BY SMTT(30), <1>0, <1>5, <2>1, OthersHeld DEF CancelMark, TypeOK, Ids
  <2>4. JoinHeld'
    BY <1>0, <1>5 DEF CancelMark, Held, JoinHeld, TypeOK
  <2> QED
    BY <2>2, <2>3, <2>4 DEF Held
<1>6. ASSUME NEW c \in Callers, AllocUnique(c) PROVE Held'
  <2>1. /\ \A e \in Callers : e # c => call'[e] = call[e]
        /\ call'[c] = [at |-> "record", id |-> nextId, key |-> call[c].key]
        /\ nextId' = nextId + 1 /\ nextId \in Ids /\ nextId \in Nat /\ tokens' = tokens \cup {nextId}
        /\ owner'[nextId] = call[c].key /\ \A i \in Ids : i < nextId => owner'[i] = owner[i]
        /\ UNCHANGED <<body, joining>>
    BY <1>0, <1>6 DEF AllocUnique, Alloc, TypeOK, Ids
  <2>2. HeldBy(c)'
    BY <2>1 DEF HeldBy
  <2>3. \A e \in Callers : e # c => HeldBy(e)'
    <3>1. nextId' >= nextId
      BY <2>1
    <3> QED
      BY <1>0, <2>1, <3>1, OthersHeld
  <2>4. JoinHeld'
    <3>1. joining.at # "idle" =>
            /\ joining.id \in Ids /\ joining.id < nextId
            /\ body[joining.id] \in {"ok", "err"} /\ joining.id \notin tokens
      BY <1>0 DEF Held, JoinHeld, Places, Apart
    <3>2. joining.at # "idle" => joining.id # nextId
      BY <2>1, <3>1 DEF Ids
    <3> QED
      BY <2>1, <3>1, <3>2 DEF JoinHeld
  <2> QED
    BY <2>2, <2>3, <2>4 DEF Held
<1>7. ASSUME NEW c \in Callers, RecordStarted(c) PROVE Held'
  <2>1. /\ \A e \in Callers : e # c => call'[e] = call[e]
        /\ call'[c].at = "send" /\ call'[c].id = call[c].id /\ call'[c].key = call[c].key
    BY <1>0, <1>7, GoesTo DEF RecordStarted
  <2>2. HeldBy(c)'
    BY <1>0, <1>7, <2>1 DEF RecordStarted, HeldBy, TypeOK, Ids, NoCall, At
  <2>3. \A e \in Callers : e # c => HeldBy(e)'
    <3>1. nextId' >= nextId /\ UNCHANGED owner
      BY <1>0, <1>7 DEF RecordStarted, TypeOK
    <3> QED
      BY <1>0, <2>1, <3>1, OthersHeld
  <2>4. JoinHeld'
    BY <1>0, <1>7 DEF RecordStarted, Held, JoinHeld, TypeOK
  <2> QED
    BY <2>2, <2>3, <2>4 DEF Held
<1>8. ASSUME NEW c \in Callers, Send(c) PROVE Held'
  <2>1. /\ \A e \in Callers : e # c => call'[e] = call[e]
        /\ \/ call'[c] = NoCall
           \/ /\ call'[c].at = "store" /\ call'[c].id = call[c].id
              /\ call'[c].key = call[c].key /\ call[c].key \in Keys
    BY <1>0, <1>8, GoesTo DEF Send, AfterSend, TypeOK
  <2>2. HeldBy(c)'
    BY <1>0, <1>8, <2>1 DEF Send, HeldBy, TypeOK, Ids, NoCall, At
  <2>3. \A e \in Callers : e # c => HeldBy(e)'
    <3>1. nextId' >= nextId /\ UNCHANGED owner
      BY <1>0, <1>8 DEF Send, TypeOK
    <3> QED
      BY <1>0, <2>1, <3>1, OthersHeld
  <2>4. JoinHeld'
    BY <1>0, <1>8 DEF Send, Held, JoinHeld, TypeOK
  <2> QED
    BY <2>2, <2>3, <2>4 DEF Held
<1>9. ASSUME NEW c \in Callers, SendRefused(c) PROVE Held'
  <2>1. /\ \A e \in Callers : e # c => call'[e] = call[e]
        /\ \/ call'[c] = NoCall
           \/ /\ call'[c].at = "store" /\ call'[c].id = call[c].id
              /\ call'[c].key = call[c].key /\ call[c].key \in Keys
    BY <1>0, <1>9, GoesTo DEF SendRefused, AfterSend, TypeOK
  <2>2. HeldBy(c)'
    BY <1>0, <1>9, <2>1 DEF SendRefused, HeldBy, TypeOK, Ids, NoCall, At
  <2>3. \A e \in Callers : e # c => HeldBy(e)'
    <3>1. nextId' >= nextId /\ UNCHANGED owner
      BY <1>0, <1>9 DEF SendRefused, TypeOK
    <3> QED
      BY <1>0, <2>1, <3>1, OthersHeld
  <2>4. JoinHeld'
    BY <1>0, <1>9 DEF SendRefused, Held, JoinHeld, TypeOK
  <2> QED
    BY <2>2, <2>3, <2>4 DEF Held
<1>10. ASSUME NEW c \in Callers, StoreKey(c) PROVE Held'
  <2>1. /\ \A e \in Callers : e # c => call'[e] = call[e]
        /\ call'[c] = NoCall
    BY <1>0, <1>10 DEF StoreKey, TypeOK
  <2>2. HeldBy(c)'
    BY <1>0, <1>10, <2>1 DEF StoreKey, HeldBy, TypeOK, Ids, NoCall, At
  <2>3. \A e \in Callers : e # c => HeldBy(e)'
    BY SMTT(30), <1>0, <1>10, <2>1, OthersHeld DEF StoreKey, TypeOK, Ids
  <2>4. JoinHeld'
    BY <1>0, <1>10 DEF StoreKey, Held, JoinHeld, TypeOK
  <2> QED
    BY <2>2, <2>3, <2>4 DEF Held
<1>11. ASSUME Receive PROVE Held'
  <2>1. \A e \in Callers : HeldBy(e)'
    <3>1. call' = call /\ nextId' = nextId /\ owner' = owner
      BY <1>11 DEF Receive
    <3> QED BY <1>0, <3>1, OthersHeld DEF TypeOK
  <2>2. JoinHeld'
    BY <1>0, <1>11 DEF Receive, Held, JoinHeld, TypeOK, Ids, NoJoin, Ended
  <2> QED
    BY <2>1, <2>2 DEF Held
<1>12. ASSUME NEW i \in Ids, Join(i) PROVE Held'
  <2>1. \A e \in Callers : HeldBy(e)'
    <3>1. call' = call /\ nextId' = nextId /\ owner' = owner
      BY <1>12 DEF Join
    <3> QED BY <1>0, <3>1, OthersHeld DEF TypeOK
  <2>2. JoinHeld'
    BY <1>0, <1>12 DEF Join, Held, JoinHeld, TypeOK, Ids, NoJoin, Ended
  <2> QED
    BY <2>1, <2>2 DEF Held
<1>13. ASSUME NEW i \in Ids, JoinError(i) PROVE Held'
  <2>1. \A e \in Callers : HeldBy(e)'
    <3>1. call' = call /\ nextId' = nextId /\ owner' = owner
      BY <1>13 DEF JoinError
    <3> QED BY <1>0, <3>1, OthersHeld DEF TypeOK
  <2>2. JoinHeld'
    BY <1>0, <1>13 DEF JoinError, Held, JoinHeld, TypeOK, Ids, NoJoin, Ended
  <2> QED
    BY <2>1, <2>2 DEF Held
<1>14. ASSUME JoinKeys PROVE Held'
  <2>1. \A e \in Callers : HeldBy(e)'
    <3>1. call' = call /\ nextId' = nextId /\ owner' = owner
      BY <1>14 DEF JoinKeys
    <3> QED BY <1>0, <3>1, OthersHeld DEF TypeOK
  <2>2. JoinHeld'
    BY <1>0, <1>14 DEF JoinKeys, Held, JoinHeld, TypeOK, Ids, NoJoin, Ended
  <2> QED
    BY <2>1, <2>2 DEF Held
<1>15. ASSUME JoinCheck PROVE Held'
  <2>1. \A e \in Callers : HeldBy(e)'
    <3>1. call' = call /\ nextId' = nextId /\ owner' = owner
      BY <1>15 DEF JoinCheck
    <3> QED BY <1>0, <3>1, OthersHeld DEF TypeOK
  <2>2. JoinHeld'
    BY <1>0, <1>15 DEF JoinCheck, Held, JoinHeld, TypeOK, Ids, NoJoin, Ended
  <2> QED
    BY <2>1, <2>2 DEF Held
<1>16. ASSUME JoinWrite PROVE Held'
  <2>1. \A e \in Callers : HeldBy(e)'
    <3>1. call' = call /\ nextId' = nextId /\ owner' = owner
      BY <1>16 DEF JoinWrite, Observed
    <3> QED BY <1>0, <3>1, OthersHeld DEF TypeOK
  <2>2. JoinHeld'
    BY <1>0, <1>16 DEF JoinWrite, Observed, Held, JoinHeld, TypeOK, Ids, NoJoin, Ended
  <2> QED
    BY <2>1, <2>2 DEF Held
<1>17. ASSUME Gone PROVE Held'
  <2>1. \A e \in Callers : HeldBy(e)'
    <3>1. call' = call /\ nextId' = nextId /\ owner' = owner
      BY <1>17 DEF Gone
    <3> QED BY <1>0, <3>1, OthersHeld DEF TypeOK
  <2>2. JoinHeld'
    BY <1>0, <1>17 DEF Gone, Held, JoinHeld, TypeOK, Ids, NoJoin, Ended
  <2> QED
    BY <2>1, <2>2 DEF Held
<1>18. ASSUME NEW i \in Ids, Resolve(i) PROVE Held'
  <2>1. \A e \in Callers : HeldBy(e)'
    <3>1. call' = call /\ nextId' = nextId /\ owner' = owner
      BY <1>18 DEF Resolve
    <3> QED BY <1>0, <3>1, OthersHeld DEF TypeOK
  <2>2. JoinHeld'
    BY <1>0, <1>18 DEF Resolve, Held, JoinHeld, TypeOK, Ids, NoJoin, Ended
  <2> QED
    BY <2>1, <2>2 DEF Held
<1>19. ASSUME NEW i \in Ids, Panic(i) PROVE Held'
  <2>1. \A e \in Callers : HeldBy(e)'
    <3>1. call' = call /\ nextId' = nextId /\ owner' = owner
      BY <1>19 DEF Panic
    <3> QED BY <1>0, <3>1, OthersHeld DEF TypeOK
  <2>2. JoinHeld'
    BY <1>0, <1>19 DEF Panic, Held, JoinHeld, TypeOK, Ids, NoJoin, Ended
  <2> QED
    BY <2>1, <2>2 DEF Held
<1>20. ASSUME NEW i \in Ids, ObserveCancel(i) PROVE Held'
  <2>1. \A e \in Callers : HeldBy(e)'
    <3>1. call' = call /\ nextId' = nextId /\ owner' = owner
      BY <1>20 DEF ObserveCancel
    <3> QED BY <1>0, <3>1, OthersHeld DEF TypeOK
  <2>2. JoinHeld'
    BY <1>0, <1>20 DEF ObserveCancel, Held, JoinHeld, TypeOK, Ids, NoJoin, Ended
  <2> QED
    BY <2>1, <2>2 DEF Held
<1>21. ASSUME NEW i \in Ids, Abort(i) PROVE Held'
  <2>1. \A e \in Callers : HeldBy(e)'
    <3>1. call' = call /\ nextId' = nextId /\ owner' = owner
      BY <1>21 DEF Abort
    <3> QED BY <1>0, <3>1, OthersHeld DEF TypeOK
  <2>2. JoinHeld'
    BY <1>0, <1>21 DEF Abort, Held, JoinHeld, TypeOK, Ids, NoJoin, Ended
  <2> QED
    BY <2>1, <2>2 DEF Held
<1>22. ASSUME Drain PROVE Held'
  <2>1. \A e \in Callers : HeldBy(e)'
    <3>1. call' = call /\ nextId' = nextId /\ owner' = owner
      BY <1>22 DEF Drain
    <3> QED BY <1>0, <3>1, OthersHeld DEF TypeOK
  <2>2. JoinHeld'
    BY <1>0, <1>22 DEF Drain, Held, JoinHeld, TypeOK, Ids, NoJoin, Ended
  <2> QED
    BY <2>1, <2>2 DEF Held
<1>23. CASE UNCHANGED vars
  BY <1>0, <1>23 DEF vars, Held, HeldBy, JoinHeld
<1> QED
  BY <1>1, <1>2, <1>3, <1>4, <1>5, <1>6, <1>7, <1>8, <1>9, <1>10, <1>11, <1>12, <1>13, <1>14, <1>15, <1>16, <1>17, <1>18, <1>19, <1>20, <1>21, <1>22, <1>23 DEF Next, CallStep, SupervisorStep

-----------------------------------------------------------------------------
(* Where tasks are, action by action.                                      *)

\* A step of a call that neither allocates nor sends.
CallMoves(c) ==
  /\ \A e \in Callers : e # c => call'[e] = call[e]
  /\ Sending(c)' <=> Sending(c)
  /\ Sending(c) => call'[c].id = call[c].id
  /\ UNCHANGED <<nextId, mailbox, body, owner>>

LEMMA CallMovesKeeps ==
  ASSUME NEW c \in Callers, CallMoves(c)
  PROVE  /\ \A i : InCall(i)' <=> InCall(i)
         /\ \A i : Queued(i)' <=> Queued(i)
         /\ Places => Places'
<1>1. /\ \A e \in Callers : Sending(e)' <=> Sending(e)
      /\ \A e \in Callers : Sending(e) => call'[e].id = call[e].id
  BY DEF CallMoves, Sending
<1>2. (\A i : InCall(i)' <=> InCall(i)) /\ (\A i : Queued(i)' <=> Queued(i))
  BY <1>1 DEF InCall, Queued, CallMoves
<1>3. OneCall => OneCall'
  BY <1>1 DEF OneCall
<1>4. (Unrepeated => Unrepeated') /\ (Apart => Apart')
  BY <1>2 DEF Unrepeated, Apart, CallMoves
<1> QED
  BY <1>2, <1>3, <1>4 DEF Places

\* A task begins in a call.
CallAllocates(c) ==
  /\ \A e \in Callers : e # c => call'[e] = call[e]
  /\ ~Sending(c) /\ Sending(c)' /\ call'[c].id = nextId
  /\ nextId \in Ids /\ nextId' = nextId + 1
  /\ UNCHANGED <<mailbox, body>>
  /\ \A i \in Ids : i # nextId => owner'[i] = owner[i]

LEMMA CallAllocatesKeeps ==
  ASSUME TypeOK, NEW c \in Callers, CallAllocates(c)
  PROVE  /\ \A i : InCall(i)' <=> InCall(i) \/ i = nextId
         /\ \A i : Queued(i)' <=> Queued(i)
         /\ Places => Places'
<1>1. /\ \A e \in Callers : Sending(e)' <=> Sending(e) \/ e = c
      /\ \A e \in Callers : Sending(e) => e # c /\ call'[e].id = call[e].id
  BY DEF CallAllocates, Sending
<1>2. (\A i : InCall(i)' <=> InCall(i) \/ i = nextId) /\ (\A i : Queued(i)' <=> Queued(i))
  BY <1>1 DEF InCall, Queued, CallAllocates
<1>3. nextId \in Nat /\ \A i \in Ids : i < nextId' <=> i < nextId \/ i = nextId
  BY TasksAssumption DEF CallAllocates, TypeOK, Ids
<1>4. ASSUME Places PROVE OneCall'
  <2>1. ~InCall(nextId)
    BY <1>3, <1>4 DEF Places, Apart, CallAllocates
  <2>2. \A e \in Callers : Sending(e) => call[e].id # nextId
    BY <2>1 DEF InCall
  <2> QED
    BY <1>1, <1>4, <2>2 DEF Places, OneCall, CallAllocates
<1>5. ASSUME Places PROVE Apart' /\ Unrepeated'
  <2>1. body[nextId] = "none" /\ ~Queued(nextId)
    BY <1>3, <1>5 DEF Places, Apart, CallAllocates
  <2> QED
    BY <1>2, <1>3, <1>5, <2>1 DEF Places, Apart, Unrepeated, CallAllocates
<1> QED
  BY <1>2, <1>4, <1>5 DEF Places

\* A call hands its task on, or drops it.
CallLetsGo(c) ==
  /\ \A e \in Callers : e # c => call'[e] = call[e]
  /\ Sending(c) /\ ~Sending(c)'
  /\ UNCHANGED <<nextId, body, owner>>

LEMMA CallLetsGoKeeps ==
  ASSUME TypeOK, Places, NEW c \in Callers, CallLetsGo(c)
  PROVE  /\ \A i : InCall(i)' <=> InCall(i) /\ i # call[c].id
         /\ OneCall'
<1>1. /\ \A e \in Callers : Sending(e)' <=> Sending(e) /\ e # c
      /\ \A e \in Callers : Sending(e)' => call'[e].id = call[e].id
  BY DEF CallLetsGo, Sending
<1>2. \A e \in Callers : Sending(e) /\ call[e].id = call[c].id => e = c
  BY DEF CallLetsGo, Places, OneCall
<1> QED
  BY <1>1, <1>2 DEF InCall, OneCall, Places, CallLetsGo

\* The mailbox and the callers stay as they are.
BodyMoves(j) ==
  /\ j \in Ids /\ body[j] # "none" /\ body'[j] # "none"
  /\ \A i \in Ids : i # j => body'[i] = body[i]
  /\ UNCHANGED <<nextId, mailbox, call, owner>>

LEMMA UnchangedPlaces ==
  ASSUME UNCHANGED <<nextId, mailbox, body, call, owner>>
  PROVE  /\ \A i : (InCall(i)' <=> InCall(i)) /\ (Queued(i)' <=> Queued(i)) /\ (Live(i)' <=> Live(i))
         /\ Places => Places'
BY DEF InCall, Queued, Live, Places, Sending, Unrepeated, OneCall, Apart

LEMMA BodyMovesKeeps ==
  ASSUME NEW j, BodyMoves(j)
  PROVE  /\ \A i : (InCall(i)' <=> InCall(i)) /\ (Queued(i)' <=> Queued(i))
         /\ Places => Places'
<1>1. \A i : (InCall(i)' <=> InCall(i)) /\ (Queued(i)' <=> Queued(i))
  BY DEF BodyMoves, InCall, Queued, Sending
<1>2. (Unrepeated => Unrepeated') /\ (OneCall => OneCall')
  BY DEF BodyMoves, Unrepeated, OneCall, Sending
<1>3. \A i \in Ids : body'[i] = "none" <=> body[i] = "none"
  BY DEF BodyMoves
<1>4. Apart => Apart'
  BY <1>1, <1>3 DEF Apart, BodyMoves
<1> QED
  BY <1>1, <1>2, <1>4 DEF Places

LEMMA SendKeeps ==
  ASSUME TypeOK, Places, NEW c \in Callers, CallLetsGo(c), call[c].id \in Ids,
         mailbox' = Append(mailbox, call[c].id)
  PROVE  /\ \A i : Queued(i)' <=> Queued(i) \/ i = call[c].id
         /\ Places'
<1>1. InCall(call[c].id) /\ ~Queued(call[c].id) /\ body[call[c].id] = "none"
  BY DEF CallLetsGo, InCall, Places, Apart
<1>2. (\A i : Queued(i)' <=> Queued(i) \/ i = call[c].id) /\ Unrepeated'
  BY <1>1, MailboxAppend DEF Places
<1>3. (\A i : InCall(i)' <=> InCall(i) /\ i # call[c].id) /\ OneCall'
  BY CallLetsGoKeeps
<1>4. Apart'
  BY <1>1, <1>2, <1>3 DEF Places, Apart, CallLetsGo
<1> QED
  BY <1>2, <1>3, <1>4 DEF Places

LEMMA DropKeeps ==
  ASSUME TypeOK, Places, NEW c \in Callers, CallLetsGo(c), UNCHANGED mailbox
  PROVE  (\A i : Queued(i)' <=> Queued(i)) /\ Places'
<1>1. (\A i : Queued(i)' <=> Queued(i)) /\ Unrepeated'
  BY DEF Places, Unrepeated, Queued
<1>2. (\A i : InCall(i)' <=> InCall(i) /\ i # call[c].id) /\ OneCall'
  BY CallLetsGoKeeps
<1>3. Apart'
  BY <1>1, <1>2 DEF Places, Apart, CallLetsGo
<1> QED
  BY <1>1, <1>2, <1>3 DEF Places

LEMMA ReceiveKeeps ==
  ASSUME TypeOK, Places, Receive
  PROVE  /\ \A i : (InCall(i)' <=> InCall(i)) /\ (Live(i)' => Live(i))
         /\ Places'
         /\ \A i : Queued(i) => Queued(i)' \/ body'[i] = "live"
         /\ \A i \in Ids : body'[i] = body[i] \/ body'[i] = "live"
<1>1. /\ Head(mailbox) \in Ids /\ Queued(Head(mailbox))
      /\ \A i : Queued(i) <=> Queued(i)' \/ i = Head(mailbox)
      /\ (\A i : i = Head(mailbox) => ~Queued(i)') /\ Unrepeated'
      /\ mailbox \in Seq(Ids) /\ mailbox' \in Seq(Ids)
  BY MailboxTail DEF Receive, Places, TypeOK
<1>2. (\A i : InCall(i)' <=> InCall(i)) /\ OneCall'
  BY DEF Receive, InCall, Sending, OneCall, Places
<1>3. /\ body'[Head(mailbox)] = "live" 
      /\ \A i \in Ids : i # Head(mailbox) => body'[i] = body[i]
      /\ UNCHANGED <<nextId, owner>>
      /\ DOMAIN body = Ids /\ DOMAIN body' = Ids
  BY <1>1 DEF Receive, TypeOK
<1>4. Apart'
  BY <1>1, <1>2, <1>3 DEF Places, Apart
<1>5. \A i : Live(i)' => Live(i)
  <2>1. \A i : (Live(i) <=> body[i] = "live" \/ Queued(i)) /\ (Live(i)' <=> body'[i] = "live" \/ Queued(i)')
    BY <1>1 DEF Live, Queued
  <2>2. \A i : i \notin Ids => body'[i] = body[i]
    BY <1>1 DEF Receive, TypeOK
  <2> QED
    BY <1>1, <1>3, <2>1, <2>2
<1> QED
  BY <1>1, <1>2, <1>3, <1>4, <1>5 DEF Places

\* Which step is which.
LEMMA Moves ==
  ASSUME TypeOK, Held, NEW c \in Callers,
         \/ \E k \in Keys : CallUnique(c, k)
         \/ \E i \in Ids : CallCancel(c, i)
         \/ CancelPrevious(c) \/ CancelMark(c) \/ RecordStarted(c) \/ StoreKey(c)
  PROVE  CallMoves(c)
<1> USE DEF At, taskVars, runVars
<1>0. HeldBy(c) /\ call[c].key \in Keys \cup {NoKey}
  BY DEF Held, TypeOK
<1>1. ASSUME NEW k \in Keys, CallUnique(c, k) PROVE CallMoves(c)
  <2>1. /\ \A e \in Callers : e # c => call'[e] = call[e]
        /\ call'[c].at \in {"alloc", "cancel"}
    BY <1>1 DEF CallUnique, TypeOK
  <2> QED
    BY <1>1, <2>1 DEF CallUnique, CallMoves, Sending
<1>2. ASSUME NEW i \in Ids, CallCancel(c, i) PROVE CallMoves(c)
  <2>1. /\ \A e \in Callers : e # c => call'[e] = call[e]
        /\ \/ call'[c] = [at |-> "mark", id |-> i, key |-> NoKey]
           \/ call'[c] = [at |-> AfterCancel(NoKey), id |-> 0, key |-> NoKey]
    BY <1>2, Cancels DEF CallCancel
  <2> QED
    BY <1>2, <2>1 DEF CallCancel, CallMoves, Sending, AfterCancel
<1>3. ASSUME CancelPrevious(c) PROVE CallMoves(c)
  <2>1. call[c].id \in Ids
    BY <1>0, <1>3 DEF CancelPrevious, HeldBy
  <2>2. /\ \A e \in Callers : e # c => call'[e] = call[e]
        /\ \/ call'[c] = [at |-> "mark", id |-> call[c].id, key |-> call[c].key]
           \/ call'[c] = [at |-> AfterCancel(call[c].key), id |-> 0, key |-> call[c].key]
    BY <1>0, <1>3, <2>1, Cancels DEF CancelPrevious
  <2> QED
    BY <1>3, <2>2 DEF CancelPrevious, CallMoves, Sending, AfterCancel
<1>4. ASSUME CancelMark(c) PROVE CallMoves(c)
  <2>1. /\ \A e \in Callers : e # c => call'[e] = call[e]
        /\ call'[c].at \in {"idle", "alloc"}
    BY <1>4, GoesTo DEF CancelMark, AfterCancel, NoCall
  <2> QED
    BY <1>4, <2>1 DEF CancelMark, CallMoves, Sending
<1>5. ASSUME RecordStarted(c) PROVE CallMoves(c)
  <2>1. /\ \A e \in Callers : e # c => call'[e] = call[e]
        /\ call'[c].at = "send" /\ call'[c].id = call[c].id
    BY <1>5, GoesTo DEF RecordStarted
  <2> QED
    BY <1>5, <2>1 DEF RecordStarted, CallMoves, Sending
<1>6. ASSUME StoreKey(c) PROVE CallMoves(c)
  <2>1. /\ \A e \in Callers : e # c => call'[e] = call[e]
        /\ call'[c].at = "idle"
    BY <1>6 DEF StoreKey, TypeOK, NoCall
  <2> QED
    BY <1>6, <2>1 DEF StoreKey, CallMoves, Sending
<1> QED
  BY <1>1, <1>2, <1>3, <1>4, <1>5, <1>6

LEMMA Allocates ==
  ASSUME TypeOK, NEW c \in Callers, CallPlain(c) \/ AllocUnique(c)
  PROVE  /\ CallAllocates(c) /\ tokens' = tokens \cup {nextId} /\ call'[c].at = "record"
         /\ call'[c].key = owner'[nextId]
         /\ CallPlain(c) => owner'[nextId] = NoKey
         /\ AllocUnique(c) => owner'[nextId] = call[c].key /\ call[c].at = "alloc"
         /\ UNCHANGED <<records, fired, keys, joining, supervisor>>
<1> USE TasksAssumption DEF At, TypeOK, Ids, CallAllocates, Sending
<1>1. CASE CallPlain(c)
  BY <1>1 DEF CallPlain, Alloc, AllocUnique
<1>2. CASE AllocUnique(c)
  BY <1>2 DEF CallPlain, Alloc, AllocUnique
<1> QED
  BY <1>1, <1>2

LEMMA LetsGo ==
  ASSUME TypeOK, Held, NEW c \in Callers, Send(c) \/ SendRefused(c)
  PROVE  /\ CallLetsGo(c) /\ call[c].id \in Ids /\ call[c].at = "send"
         /\ call[c].key = NoKey => call'[c] = NoCall
         /\ call[c].key # NoKey => /\ call'[c].at = "store" /\ call'[c].id = call[c].id
                                   /\ call'[c].key = call[c].key
<1> USE DEF At, taskVars, runVars
<1>1. AfterSend(c) \in {"idle", "store"} /\ Goes(c, AfterSend(c)) /\ call[c].at = "send"
  BY DEF Send, SendRefused, AfterSend
<1>2. /\ \A e \in Callers : e # c => call'[e] = call[e]
      /\ AfterSend(c) = "idle" => call'[c] = NoCall
      /\ AfterSend(c) = "store" => /\ call'[c].at = "store" /\ call'[c].id = call[c].id
                                   /\ call'[c].key = call[c].key
  BY <1>1, GoesTo
<1>3. call[c].id \in Ids
  BY <1>1 DEF Held, HeldBy
<1>4. UNCHANGED <<nextId, body, owner>>
  BY DEF Send, SendRefused
<1> QED
  BY <1>1, <1>2, <1>3, <1>4 DEF CallLetsGo, Sending, AfterSend, NoCall

LEMMA BodiesMove ==
  ASSUME TypeOK, JoinHeld, NEW i \in Ids,
         JoinError(i) \/ Resolve(i) \/ Panic(i) \/ ObserveCancel(i) \/ Abort(i)
  PROVE  BodyMoves(i) /\ UNCHANGED taskVars /\ UNCHANGED joining /\ body'[i] # "live"
<1> USE DEF BodyMoves, TypeOK, Ended, taskVars
<1>1. CASE JoinError(i)
  BY <1>1 DEF JoinError
<1>2. CASE Resolve(i)
  BY <1>2 DEF Resolve
<1>3. CASE Panic(i)
  BY <1>3 DEF Panic
<1>4. CASE ObserveCancel(i)
  BY <1>4 DEF ObserveCancel
<1>5. CASE Abort(i)
  BY <1>5 DEF Abort
<1> QED
  BY <1>1, <1>2, <1>3, <1>4, <1>5

LEMMA WriteMoves ==
  ASSUME TypeOK, JoinHeld, JoinWrite
  PROVE  BodyMoves(joining.id) /\ body'[joining.id] = "joined"
BY DEF BodyMoves, TypeOK, JoinHeld, JoinWrite

LEMMA LiveIs ==
  ASSUME TypeOK
  PROVE  \A i : Live(i) <=> body[i] = "live" \/ Queued(i)
BY DEF TypeOK, Live, Queued

\* A step that leaves the tokens and adds no place keeps every token.
LEMMA TokensStay ==
  ASSUME HasToken, \A i : InCall(i)' \/ Live(i)' => InCall(i) \/ Live(i), tokens \subseteq tokens'
  PROVE  HasToken'
BY DEF HasToken

LEMMA PlacesStep == TypeInv /\ [Next]_vars => Places' /\ HasToken'
<1> SUFFICES ASSUME TypeInv, [Next]_vars PROVE Places' /\ HasToken'
  OBVIOUS
<1>0. /\ TypeOK /\ TypeOK' /\ Places /\ Held /\ JoinHeld /\ HasToken
      /\ \A i : Live(i) <=> body[i] = "live" \/ Queued(i)
  BY TypeStep, LiveIs DEF TypeInv, Held
<1>00. \A i : Live(i)' <=> body'[i] = "live" \/ Queued(i)'
  BY <1>0 DEF TypeOK, Live, Queued
<1>1. ASSUME NEW c \in Callers,
             \/ \E k \in Keys : CallUnique(c, k)
             \/ \E i \in Ids : CallCancel(c, i)
             \/ CancelPrevious(c) \/ CancelMark(c) \/ RecordStarted(c) \/ StoreKey(c)
      PROVE  Places' /\ HasToken'
  <2>1. CallMoves(c)
    BY <1>0, <1>1, Moves
  <2>2. (\A i : (InCall(i)' <=> InCall(i)) /\ (Queued(i)' <=> Queued(i))) /\ Places'
    BY <1>0, <2>1, CallMovesKeeps
  <2>3. tokens' = tokens /\ body' = body
    BY <1>1 DEF CallUnique, CallCancel, CancelPrevious, CancelMark, RecordStarted, StoreKey, taskVars, runVars
  <2> QED
    BY <1>0, <1>00, <2>2, <2>3 DEF HasToken
<1>2. ASSUME NEW c \in Callers, CallPlain(c) \/ AllocUnique(c) PROVE Places' /\ HasToken'
  <2>1. CallAllocates(c) /\ tokens' = tokens \cup {nextId}
    BY <1>0, <1>2, Allocates
  <2>2. (\A i : (InCall(i)' <=> InCall(i) \/ i = nextId) /\ (Queued(i)' <=> Queued(i))) /\ Places'
    BY <1>0, <2>1, CallAllocatesKeeps
  <2>3. body' = body
    BY <2>1 DEF CallAllocates
  <2> QED
    BY <1>0, <1>00, <2>1, <2>2, <2>3 DEF HasToken
<1>3. ASSUME NEW c \in Callers, Send(c) PROVE Places' /\ HasToken'
  <2>1. CallLetsGo(c) /\ call[c].id \in Ids
    BY <1>0, <1>3, LetsGo
  <2>2. mailbox' = Append(mailbox, call[c].id) /\ tokens' = tokens /\ body' = body
    BY <1>3 DEF Send, taskVars
  <2>3. (\A i : Queued(i)' <=> Queued(i) \/ i = call[c].id) /\ Places'
    BY <1>0, <2>1, <2>2, SendKeeps
  <2>4. (\A i : InCall(i)' <=> InCall(i) /\ i # call[c].id) /\ InCall(call[c].id)
    BY <1>0, <2>1, CallLetsGoKeeps DEF CallLetsGo, InCall
  <2> QED
    BY <1>0, <1>00, <2>2, <2>3, <2>4 DEF HasToken
<1>4. ASSUME NEW c \in Callers, SendRefused(c) PROVE Places' /\ HasToken'
  <2>1. CallLetsGo(c) /\ call[c].id \in Ids
    BY <1>0, <1>4, LetsGo
  <2>2. mailbox' = mailbox /\ tokens' = tokens \ {call[c].id} /\ body' = body
    BY <1>4 DEF SendRefused, runVars
  <2>3. (\A i : Queued(i)' <=> Queued(i)) /\ Places'
    BY <1>0, <2>1, <2>2, DropKeeps
  <2>4. (\A i : InCall(i)' <=> InCall(i) /\ i # call[c].id) /\ InCall(call[c].id)
    BY <1>0, <2>1, CallLetsGoKeeps DEF CallLetsGo, InCall
  <2>5. ~Queued(call[c].id) /\ body[call[c].id] = "none"
    BY <1>0, <2>1, <2>4 DEF Places, Apart
  <2> QED
    BY <1>0, <1>00, <2>2, <2>3, <2>4, <2>5 DEF HasToken
<1>5. ASSUME Receive PROVE Places' /\ HasToken'
  <2>1. (\A i : (InCall(i)' <=> InCall(i)) /\ (Live(i)' => Live(i))) /\ Places'
    BY <1>0, <1>5, ReceiveKeeps
  <2>2. tokens' = tokens
    BY <1>5 DEF Receive, taskVars
  <2> QED
    BY <1>0, <2>1, <2>2, TokensStay
<1>6. ASSUME NEW i \in Ids,
             JoinError(i) \/ Resolve(i) \/ Panic(i) \/ ObserveCancel(i) \/ Abort(i)
      PROVE  Places' /\ HasToken'
  <2>1. BodyMoves(i) /\ tokens' = tokens /\ body'[i] # "live"
    BY <1>0, <1>6, BodiesMove DEF taskVars
  <2>2. (\A j : (InCall(j)' <=> InCall(j)) /\ (Queued(j)' <=> Queued(j))) /\ Places'
    BY <1>0, <2>1, BodyMovesKeeps
  <2> QED
    BY <1>0, <1>00, <2>1, <2>2 DEF HasToken, BodyMoves
<1>7. ASSUME JoinWrite PROVE Places' /\ HasToken'
  <2>1. BodyMoves(joining.id) /\ tokens' = tokens /\ body'[joining.id] # "live"
    BY <1>0, <1>7, WriteMoves DEF JoinWrite
  <2>2. (\A j : (InCall(j)' <=> InCall(j)) /\ (Queued(j)' <=> Queued(j))) /\ Places'
    BY <1>0, <2>1, BodyMovesKeeps
  <2> QED
    BY <1>0, <1>00, <2>1, <2>2 DEF HasToken, BodyMoves
<1>8. ASSUME NEW i \in Ids, Join(i) PROVE Places' /\ HasToken'
  <2>1. /\ (\A j : (InCall(j)' <=> InCall(j)) /\ (Queued(j)' <=> Queued(j)) /\ (Live(j)' <=> Live(j)))
        /\ Places'
    BY <1>0, <1>8, UnchangedPlaces DEF Join, runVars
  <2>2. body[i] \in {"ok", "err"} /\ tokens' = tokens \ {i}
    BY <1>8 DEF Join
  <2>3. ~InCall(i) /\ ~Live(i)
    BY <1>0, <2>2 DEF Places, Apart
  <2> QED
    BY <1>0, <2>1, <2>2, <2>3 DEF HasToken
<1>9. ASSUME JoinKeys \/ JoinCheck \/ Drain \/ UNCHANGED vars PROVE Places' /\ HasToken'
  <2>1. UNCHANGED <<nextId, mailbox, body, call, owner>> /\ tokens' = tokens
    BY <1>9 DEF JoinKeys, JoinCheck, Drain, vars, runVars, taskVars
  <2>2. /\ (\A j : (InCall(j)' <=> InCall(j)) /\ (Queued(j)' <=> Queued(j)) /\ (Live(j)' <=> Live(j)))
        /\ Places'
    BY <1>0, <2>1, UnchangedPlaces
  <2> QED
    BY <1>0, <2>1, <2>2, TokensStay
<1>10. ASSUME Gone PROVE Places' /\ HasToken'
  <2>1. mailbox' = <<>> /\ UNCHANGED <<nextId, body, call, owner, tokens>>
    BY <1>10 DEF Gone, taskVars
  <2>2. \A i : (InCall(i)' <=> InCall(i)) /\ ~Queued(i)'
    BY <2>1 DEF InCall, Sending, Queued
  <2>3. Places'
    BY <1>0, <2>1, <2>2 DEF Places, Unrepeated, OneCall, Sending, Apart
  <2> QED
    BY <1>0, <1>00, <2>1, <2>2, <2>3 DEF HasToken
<1> QED
  BY <1>1, <1>2, <1>3, <1>4, <1>5, <1>6, <1>7, <1>8, <1>9, <1>10 DEF Next, CallStep, SupervisorStep

LEMMA TypeInvStep == TypeInv /\ [Next]_vars => TypeInv'
<1> SUFFICES ASSUME TypeInv, [Next]_vars PROVE TypeInv'
  OBVIOUS
<1>1. TypeOK' /\ Held'
  BY TypeStep, HeldStep DEF TypeInv
<1>2. Places' /\ HasToken'
  BY PlacesStep
<1> QED
  BY <1>1, <1>2 DEF TypeInv

LEMMA TypeInvInit == Init => TypeInv
<1> SUFFICES ASSUME Init PROVE TypeInv
  OBVIOUS
<1>1. TypeOK
  BY TasksAssumption DEF Init, TypeOK, Ids, NoCall, NoJoin, Finished, Ended
<1>2. /\ \A i \in Ids : body[i] = "none" /\ owner[i] = NoKey
      /\ \A c \in Callers : ~Sending(c) /\ call[c].at = "idle" /\ call[c].key = NoKey
      /\ mailbox = <<>> /\ joining.at = "idle"
  BY DEF Init, NoCall, NoJoin, Sending
<1>3. \A i : ~Queued(i) /\ ~InCall(i)
  BY <1>2 DEF Queued, InCall
<1>4. Places
  BY <1>2, <1>3 DEF Places, Unrepeated, OneCall, Apart
<1>5. Held
  BY <1>2 DEF Held, HeldBy, JoinHeld
<1>6. HasToken
  BY <1>1, <1>2, <1>3, LiveIs DEF HasToken
<1> QED
  BY <1>1, <1>4, <1>5, <1>6 DEF TypeInv

(* Every state is well formed: a task is in one place, and what can run has *)
(* its token.                                                               *)
THEOREM TasksTypeOK == Spec => []TypeOK
<1>1. Spec => []TypeInv
  BY TypeInvInit, TypeInvStep, PTL DEF Spec
<1>2. TypeInv => TypeOK
  BY DEF TypeInv
<1> QED
  BY <1>1, <1>2, PTL

-----------------------------------------------------------------------------
(* Nothing is left over.                                                   *)

\* Only a call that still has its task sets a record to Running.
LEMMA RunningBegins ==
  TypeOK /\ Held /\ [Next]_vars =>
    \A j \in Ids : records'[j] = "running" => records[j] = "running" \/ InCall(j)
<1> SUFFICES ASSUME TypeOK, Held, [Next]_vars, NEW j \in Ids, records'[j] = "running"
             PROVE  records[j] = "running" \/ InCall(j)
  OBVIOUS
<1>0. records \in [Ids -> Finished \cup {"none", "running"}]
  BY DEF TypeOK
<1>1. ASSUME NEW c \in Callers, CancelMark(c) PROVE records[j] = "running"
  BY <1>0, <1>1 DEF CancelMark
<1>2. ASSUME NEW c \in Callers, RecordStarted(c) PROVE records[j] = "running" \/ InCall(j)
  <2> DEFINE recs == [records EXCEPT ![call[c].id] = "running"]
  <2>1. records' = Trimmed(recs) /\ call[c].at = "record"
    BY <1>2 DEF RecordStarted, At
  <2>2. records'[j] = "running" => recs[j] = "running"
    BY <2>1 DEF Trimmed
  <2>3. recs[j] = "running" => records[j] = "running" \/ call[c].id = j
    BY <1>0
  <2> QED
    BY <2>1, <2>2, <2>3 DEF InCall, Sending
<1>3. ASSUME NEW c \in Callers, SendRefused(c) PROVE records[j] = "running"
  BY <1>0, <1>3 DEF SendRefused
<1>4. ASSUME JoinWrite PROVE records[j] = "running"
  BY <1>0, <1>4 DEF JoinWrite, Observed
<1>5. CASE UNCHANGED records
  BY <1>5
<1> QED
  BY <1>1, <1>2, <1>3, <1>4, <1>5 DEF Next, CallStep, SupervisorStep, CallUnique, CallPlain, CallCancel,
     CancelPrevious, AllocUnique, Alloc, Send, StoreKey, Receive, Join, JoinError, JoinKeys, JoinCheck, Gone,
     Resolve, Panic, ObserveCancel, Abort, Drain, vars, taskVars

LEMMA AccountedStep == LeftInv /\ [Next]_vars => Accounted'
<1> SUFFICES ASSUME LeftInv, [Next]_vars, supervisor' = "serving", NEW i \in Ids,
                    i \in tokens' \/ records'[i] = "running"
             PROVE  InCall(i)' \/ Queued(i)' \/ body'[i] \in Ended \cup {"live", "lost"}
  BY DEF Accounted
<1> DEFINE Somewhere == InCall(i) \/ Queued(i) \/ body[i] \in Ended \cup {"live", "lost"}
<1>0. /\ TypeOK /\ Places /\ Held /\ JoinHeld /\ supervisor = "serving"
      /\ i \in tokens \/ records[i] = "running" => Somewhere
  <2>1. supervisor = "serving"
    BY DEF LeftInv, TypeInv, TypeOK, Next, CallStep, SupervisorStep, CallUnique, CallPlain, CallCancel,
     CancelPrevious, CancelMark, RecordStarted, SendRefused, JoinWrite,
     AllocUnique, Alloc, Send, StoreKey, Receive, Join, JoinError, JoinKeys, JoinCheck, Gone,
     Resolve, Panic, ObserveCancel, Abort, Drain, vars
  <2> QED
    BY <2>1 DEF LeftInv, TypeInv, Held, Accounted
<1>00. records'[i] = "running" => records[i] = "running" \/ InCall(i)
  BY <1>0, RunningBegins
<1>1. ASSUME NEW c \in Callers,
             \/ \E k \in Keys : CallUnique(c, k)
             \/ \E j \in Ids : CallCancel(c, j)
             \/ CancelPrevious(c) \/ CancelMark(c) \/ RecordStarted(c) \/ StoreKey(c)
      PROVE  Somewhere'
  <2>1. (InCall(i)' <=> InCall(i)) /\ (Queued(i)' <=> Queued(i))
    BY <1>0, <1>1, Moves, CallMovesKeeps
  <2>2. tokens' = tokens /\ body' = body
    BY <1>1 DEF CallUnique, CallCancel, CancelPrevious, CancelMark, RecordStarted, StoreKey, taskVars, runVars
  <2> QED
    BY <1>0, <1>00, <2>1, <2>2
<1>2. ASSUME NEW c \in Callers, CallPlain(c) \/ AllocUnique(c) PROVE Somewhere'
  <2>1. CallAllocates(c) /\ tokens' = tokens \cup {nextId}
    BY <1>0, <1>2, Allocates
  <2>2. (InCall(i)' <=> InCall(i) \/ i = nextId) /\ (Queued(i)' <=> Queued(i))
    BY <1>0, <2>1, CallAllocatesKeeps
  <2>3. body' = body
    BY <2>1 DEF CallAllocates
  <2> QED
    BY <1>0, <1>00, <2>1, <2>2, <2>3
<1>3. ASSUME NEW c \in Callers, Send(c) PROVE Somewhere'
  <2>1. CallLetsGo(c) /\ call[c].id \in Ids
    BY <1>0, <1>3, LetsGo
  <2>2. mailbox' = Append(mailbox, call[c].id) /\ UNCHANGED <<tokens, body>>
    BY <1>3 DEF Send, taskVars
  <2>3. (Queued(i)' <=> Queued(i) \/ i = call[c].id) /\ (InCall(i)' <=> InCall(i) /\ i # call[c].id)
    BY <1>0, <2>1, <2>2, SendKeeps, CallLetsGoKeeps
  <2> QED
    BY <1>0, <1>00, <2>2, <2>3
<1>4. ASSUME NEW c \in Callers, SendRefused(c) PROVE Somewhere'
  BY <1>0, <1>4 DEF SendRefused
<1>5. ASSUME Receive PROVE Somewhere'
  <2>1. /\ InCall(i)' <=> InCall(i)
        /\ Queued(i) => Queued(i)' \/ body'[i] = "live"
        /\ body'[i] = body[i] \/ body'[i] = "live"
    BY <1>0, <1>5, ReceiveKeeps
  <2>2. tokens' = tokens
    BY <1>5 DEF Receive, taskVars
  <2> QED
    BY <1>0, <1>00, <2>1, <2>2
<1>6. ASSUME NEW j \in Ids,
             JoinError(j) \/ Resolve(j) \/ Panic(j) \/ ObserveCancel(j) \/ Abort(j)
      PROVE  Somewhere'
  <2>1. BodyMoves(j) /\ tokens' = tokens
    BY <1>0, <1>6, BodiesMove DEF taskVars
  <2>2. (InCall(i)' <=> InCall(i)) /\ (Queued(i)' <=> Queued(i))
    BY <1>0, <2>1, BodyMovesKeeps
  <2>3. body'[i] = body[i] \/ body'[i] \in Ended \cup {"lost"}
    BY <1>0, <1>6 DEF TypeOK, JoinError, Resolve, Panic, ObserveCancel, Abort, Ended
  <2> QED
    BY <1>0, <1>00, <2>1, <2>2, <2>3
<1>7. ASSUME JoinWrite PROVE Somewhere'
  <2>1. BodyMoves(joining.id) /\ tokens' = tokens
    BY <1>0, <1>7, WriteMoves DEF JoinWrite
  <2>2. (InCall(i)' <=> InCall(i)) /\ (Queued(i)' <=> Queued(i))
    BY <1>0, <2>1, BodyMovesKeeps
  <2>3. i # joining.id
    <3>1. joining.id \in Ids /\ joining.id \notin tokens
      BY <1>0, <1>7 DEF JoinHeld, JoinWrite
    <3>2. joining.cancelled => records[joining.id] # "running"
      BY <1>7 DEF LeftInv, CancelledJoin, JoinWrite
    <3>3. records'[joining.id] # "running"
      BY <1>0, <1>7, <3>1, <3>2 DEF JoinWrite, Observed, TypeOK
    <3> QED
      BY <2>1, <3>1, <3>3
  <2>4. body'[i] = body[i]
    BY <2>1, <2>3 DEF BodyMoves
  <2> QED
    BY <1>0, <1>00, <2>1, <2>2, <2>4
<1>8. ASSUME \/ \E j \in Ids : Join(j)
             \/ JoinKeys \/ JoinCheck \/ Drain \/ UNCHANGED vars
      PROVE  Somewhere'
  <2>1. UNCHANGED <<nextId, mailbox, body, call, owner>> /\ tokens' \subseteq tokens
    BY <1>8 DEF Join, JoinKeys, JoinCheck, Drain, vars, runVars, taskVars
  <2>2. (InCall(i)' <=> InCall(i)) /\ (Queued(i)' <=> Queued(i))
    BY <2>1, UnchangedPlaces
  <2> QED
    BY <1>0, <1>00, <2>1, <2>2
<1>9. ASSUME Gone PROVE Somewhere'
  BY <1>9 DEF Gone
<1> QED
  BY <1>1, <1>2, <1>3, <1>4, <1>5, <1>6, <1>7, <1>8, <1>9 DEF Next, CallStep, SupervisorStep

LEMMA CancelledJoinStep == LeftInv /\ [Next]_vars => CancelledJoin'
<1> SUFFICES ASSUME LeftInv, [Next]_vars, joining'.at = "write", joining'.cancelled
             PROVE  records'[joining'.id] # "running"
  BY DEF CancelledJoin
<1>0. TypeOK /\ Held /\ JoinHeld /\ Places
  BY DEF LeftInv, TypeInv, Held
<1>1. CASE JoinCheck
  <2>1. joining'.id = joining.id /\ joining'.cancelled = (records[joining.id] = "cancelled")
    BY <1>0, <1>1 DEF JoinCheck, TypeOK
  <2> QED
    BY <1>1, <2>1 DEF JoinCheck, taskVars
<1>2. CASE UNCHANGED joining
  <2>1. joining.id \in Ids /\ body[joining.id] \in {"ok", "err"}
    BY <1>0, <1>2 DEF JoinHeld
  <2>2. ~InCall(joining.id) /\ records[joining.id] # "running"
    BY <1>0, <1>2, <2>1 DEF Places, Apart, LeftInv, CancelledJoin
  <2> QED
    BY <1>0, <1>2, <2>1, <2>2, RunningBegins
<1>3. ASSUME NEW i \in Ids, Join(i) PROVE FALSE
  BY <1>3 DEF Join
<1>4. ASSUME JoinKeys PROVE FALSE
  BY <1>0, <1>4 DEF JoinKeys, TypeOK
<1>5. ASSUME JoinWrite PROVE FALSE
  BY <1>5 DEF JoinWrite, NoJoin
<1> QED
  BY <1>1, <1>2, <1>3, <1>4, <1>5 DEF Next, CallStep, SupervisorStep, CallUnique, CallPlain, CallCancel,
     CancelPrevious, CancelMark, RecordStarted, SendRefused, AllocUnique, Alloc, Send, StoreKey, Receive,
     JoinError, Gone, Resolve, Panic, ObserveCancel, Abort, Drain, vars

(* NothingLeftOver (tasks.rs, handle_join and spawn_async): when the        *)
(* supervisor has nothing to do and no call is under way, the only tasks    *)
(* with a token or a Running record are those that panicked.                *)
THEOREM TasksNothingLeftOver == Spec => []NothingLeftOver
<1>1. Init => LeftInv
  BY TypeInvInit DEF Init, LeftInv, Accounted, CancelledJoin, NoJoin
<1>2. LeftInv /\ [Next]_vars => LeftInv'
  BY TypeInvStep, AccountedStep, CancelledJoinStep DEF LeftInv
<1>3. LeftInv => NothingLeftOver
  <2> SUFFICES ASSUME LeftInv, supervisor = "serving", mailbox = <<>>, NEW i \in Ids,
                      body[i] \in {"none", "joined", "lost"}, \A c \in Callers : At(c, "idle"),
                      i \in tokens \/ records[i] = "running"
               PROVE  body[i] = "lost"
    BY DEF NothingLeftOver
  <2>1. ~InCall(i) /\ ~Queued(i)
    BY DEF InCall, Queued, Sending, At
  <2> QED
    BY <2>1 DEF LeftInv, Accounted, Ended
<1> QED
  BY <1>1, <1>2, <1>3, PTL DEF Spec

-----------------------------------------------------------------------------
(* Lifecycle: who is paused.                                                *)

GensBounded ==
  /\ \A d \in DisplayIds : gen[d] <= inputs
  /\ sessionGen <= inputs

FreshDisplays == \A d \in DisplayIds \ seen : ~requested[d]

SessionTimers ==
  /\ \A g \in sessionResumes : g <= sessionGen
  /\ sessionGen \in sessionResumes => ~locked /\ ~inactive

PauseTypeInv == PauseTypeOK /\ GensBounded

SafeInv == PauseTypeInv /\ FreshDisplays /\ SessionTimers /\ ResumePending /\ PauseComplete

-----------------------------------------------------------------------------
(* Every step keeps the types and moves no generation past the inputs.     *)
LEMMA PauseTypeStep == PauseTypeInv /\ [PauseNext]_pauseVars => PauseTypeInv'
<1> SUFFICES ASSUME PauseTypeInv, [PauseNext]_pauseVars PROVE PauseTypeInv'
  OBVIOUS
<1> USE LifecycleAssumption DEF PauseTypeInv, PauseTypeOK, GensBounded, Gens, Askers
<1>1. ASSUME NEW r \in Renderers, NEW k \in Askers, RegisterRenderer(r, k) PROVE PauseTypeInv'
  BY <1>1 DEF RegisterRenderer, ReconcileDue, calm, settings, autopause, session
<1>2. ASSUME NEW r \in Renderers, NEW k \in Askers, UnregisterRenderer(r, k) PROVE PauseTypeInv'
  BY <1>2 DEF UnregisterRenderer, ReconcileDue, calm, settings, autopause, session
<1>3. ASSUME NEW ds \in SUBSET DisplayIds, NEW r \in Renderers, NEW k \in Askers,
             Relink(ds, r, k)
      PROVE  PauseTypeInv'
  BY <1>3 DEF Relink, Input, ReconcileDue, calm, settings, autopause, session
<1>4. ASSUME NEW d \in DisplayIds, RegisterDisplay(d) PROVE PauseTypeInv'
  BY <1>4 DEF RegisterDisplay, ReconcileDue, calm, settings, autopause, session
<1>5. ASSUME NEW d \in DisplayIds, UnregisterDisplay(d) PROVE PauseTypeInv'
  BY <1>5 DEF UnregisterDisplay, ReconcileDue, calm, settings, autopause, session
<1>6. ASSUME NEW d \in DisplayIds, WindowPause(d) PROVE PauseTypeInv'
  <2>1. gen[d] \in Nat /\ gen[d] + 1 <= inputs' /\ inputs' \in 0..MaxInputs
    BY <1>6 DEF WindowPause, Input
  <2>2. gen' \in [DisplayIds -> Gens] /\ \A x \in DisplayIds : gen'[x] <= inputs'
    BY <1>6, <2>1 DEF WindowPause, Input
  <2>3. raw' \in [DisplayIds -> BOOLEAN] /\ requested' \in [DisplayIds -> BOOLEAN]
    BY <1>6 DEF WindowPause
  <2>4. due' \in [Askers -> Nat] /\ sessionGen <= inputs'
    BY <1>6 DEF WindowPause, Input, ReconcileDue
  <2>5. UNCHANGED <<calm, routing, resumes, session, manual, paused>>
    BY <1>6 DEF WindowPause
  <2> QED
    BY <2>1, <2>2, <2>3, <2>4, <2>5 DEF calm, settings, routing, session
<1>7. ASSUME NEW d \in DisplayIds, WindowResume(d) PROVE PauseTypeInv'
  <2>1. gen[d] \in Nat /\ gen[d] + 1 <= inputs' /\ inputs' \in 0..MaxInputs
    BY <1>7 DEF WindowResume, Input
  <2>2. resumes' \subseteq DisplayIds \X Gens
    BY <1>7, <2>1 DEF WindowResume
  <2>3. gen' \in [DisplayIds -> Gens] /\ \A x \in DisplayIds : gen'[x] <= inputs'
    BY <1>7, <2>1 DEF WindowResume, Input
  <2>4. raw' \in [DisplayIds -> BOOLEAN]
    BY <1>7 DEF WindowResume
  <2>5. sessionGen <= inputs'
    BY <1>7 DEF WindowResume, Input
  <2>6. UNCHANGED <<calm, routing, requested, session, manual, paused, due>>
    BY <1>7 DEF WindowResume
  <2> QED
    BY <2>1, <2>2, <2>3, <2>4, <2>5, <2>6 DEF calm, settings, routing, session
<1>8. ASSUME NEW d \in DisplayIds, NEW g \in Gens, FireResume(d, g) PROVE PauseTypeInv'
  <2>1. requested' \in [DisplayIds -> BOOLEAN]
    <3>1. requested' = [requested EXCEPT ![d] = FALSE] \/ requested' = requested
      BY <1>8 DEF FireResume
    <3> QED
      BY <3>1
  <2>4. due' \in [Askers -> Nat]
    <3>1. due' = [due EXCEPT !["other"] = @ + 1] \/ due' = due
      BY <1>8 DEF FireResume, ReconcileDue
    <3> QED
      BY <3>1
  <2>2. resumes' \subseteq DisplayIds \X Gens
    BY <1>8 DEF FireResume
  <2>3. UNCHANGED <<calm, routing, raw, gen, session, manual, paused, inputs>>
    BY <1>8 DEF FireResume
  <2> QED
    BY <2>1, <2>2, <2>3, <2>4 DEF calm, settings, routing, session
<1>9. ASSUME NEW l \in BOOLEAN, NEW i \in BOOLEAN, SessionState(l, i) PROVE PauseTypeInv'
  <2>1. sessionGen \in Nat /\ sessionGen + 1 <= inputs' /\ inputs' \in 0..MaxInputs
    BY <1>9 DEF SessionState, Input
  <2>b. locked' \in BOOLEAN /\ inactive' \in BOOLEAN /\ sessionGen' = sessionGen + 1
    BY <1>9 DEF SessionState
  <2>c. sessionGen + 1 \in Gens
    BY <2>1
  <2>2. sessionResumes' \subseteq Gens
    <3>1. \/ sessionResumes' = sessionResumes
          \/ sessionResumes' = sessionResumes \cup {sessionGen + 1}
      BY <1>9 DEF SessionState
    <3> QED
      BY <2>c, <3>1
  <2>5. due' \in [Askers -> Nat]
    <3>1. due' = [due EXCEPT !["other"] = @ + 1] \/ due' = due
      BY <1>9 DEF SessionState, ReconcileDue
    <3> QED
      BY <3>1
  <2>3. \A d \in DisplayIds : gen[d] <= inputs'
    BY <1>9 DEF SessionState, Input
  <2>4. UNCHANGED <<calm, routing, autopause, manual, paused>>
    BY <1>9 DEF SessionState
  <2> QED
    BY <2>1, <2>b, <2>c, <2>2, <2>3, <2>4, <2>5 DEF calm, settings, routing, autopause
<1>10. ASSUME NEW g \in Gens, FireSessionResume(g) PROVE PauseTypeInv'
  BY <1>10 DEF FireSessionResume, ReconcileDue, calm, settings, routing, autopause
<1>11. ASSUME NEW b \in BOOLEAN, SetManualPause(b) PROVE PauseTypeInv'
  BY <1>11 DEF SetManualPause, Input, ReconcileDue, calm, settings, routing, autopause, session
<1>12. ASSUME NEW k \in Askers, Reconcile(k) PROVE PauseTypeInv'
  <2>1. due' \in [Askers -> Nat]
    BY <1>12 DEF Reconcile
  <2> QED
    BY <1>12, <2>1 DEF Reconcile, routing, autopause, session, settings
<1>13. CASE CancelReconcile
  BY <1>13 DEF CancelReconcile, routing, autopause, session, settings
<1>15. ASSUME NEW l \in BOOLEAN, NEW i \in BOOLEAN, SettingsSet(l, i) PROVE PauseTypeInv'
  <2>1. cut' \in BOOLEAN /\ pauseOnLock' \in BOOLEAN /\ pauseOnSwitch' \in BOOLEAN
    BY <1>15 DEF SettingsSet, SessionPauses
  <2>2. inputs' \in 0..MaxInputs /\ inputs <= inputs'
    BY <1>15 DEF SettingsSet, Input
  <2>3. UNCHANGED <<routing, autopause, session, manual, paused, due>>
    BY <1>15 DEF SettingsSet
  <2> QED
    BY <2>1, <2>2, <2>3 DEF routing, autopause, session
<1>14. CASE UNCHANGED pauseVars
  BY <1>14 DEF pauseVars, calm, settings, routing, autopause, session
<1> HIDE DEF PauseTypeInv, PauseTypeOK, GensBounded, Gens, Askers
<1> QED
  BY <1>1, <1>2, <1>3, <1>4, <1>5, <1>6, <1>7, <1>8, <1>9, <1>10, <1>11, <1>12, <1>13, <1>14, <1>15
  DEF PauseNext

LEMMA PauseTypeInit == PauseInit => PauseTypeInv
<1> SUFFICES ASSUME PauseInit PROVE PauseTypeInv
  OBVIOUS
<1> USE LifecycleAssumption DEF PauseInit, Gens
<1>1. due \in [Askers -> Nat]
  OBVIOUS
<1>2. /\ link \in [DisplayIds -> Renderers \cup {NoRenderer}]
      /\ raw \in [DisplayIds -> BOOLEAN]
      /\ requested \in [DisplayIds -> BOOLEAN]
      /\ gen \in [DisplayIds -> Gens]
  OBVIOUS
<1>3. 0 \in Gens /\ 0 \in Nat
  OBVIOUS
<1>4. GensBounded
  BY <1>3 DEF GensBounded
<1>5. PauseTypeOK
  BY <1>1, <1>2, <1>3 DEF PauseTypeOK
<1> QED
  BY <1>4, <1>5 DEF PauseTypeInv

(* The table, the pause flags and the generations keep their types.        *)
THEOREM LifecycleTypeOK == PauseSpec => []PauseTypeOK
<1>1. PauseTypeInv => PauseTypeOK
  BY DEF PauseTypeInv
<1> QED
  BY <1>1, PauseTypeInit, PauseTypeStep, PTL DEF PauseSpec

-----------------------------------------------------------------------------
(* The display side: whoever lets requested or gen change sets the resume  *)
(* task that matches them.                                                 *)
DisplayInv == FreshDisplays /\ ResumePending

LEMMA DisplayStep == PauseTypeInv /\ DisplayInv /\ [PauseNext]_pauseVars => DisplayInv'
<1> SUFFICES ASSUME PauseTypeInv, DisplayInv, [PauseNext]_pauseVars PROVE DisplayInv'
  OBVIOUS
<1> USE DEF DisplayInv, FreshDisplays, ResumePending
<1>0. /\ present \subseteq seen /\ seen \subseteq DisplayIds
      /\ raw \in [DisplayIds -> BOOLEAN]
      /\ requested \in [DisplayIds -> BOOLEAN]
      /\ gen \in [DisplayIds -> Gens]
  BY DEF PauseTypeInv, PauseTypeOK
<1>a. ASSUME UNCHANGED <<autopause, present, seen>> PROVE DisplayInv'
  BY <1>a DEF autopause
<1>1. ASSUME NEW r \in Renderers, NEW k \in Askers, RegisterRenderer(r, k) PROVE DisplayInv'
  BY <1>1, <1>a DEF RegisterRenderer
<1>2. ASSUME NEW r \in Renderers, NEW k \in Askers, UnregisterRenderer(r, k) PROVE DisplayInv'
  BY <1>2, <1>a DEF UnregisterRenderer
<1>3. ASSUME NEW ds \in SUBSET DisplayIds, NEW r \in Renderers, NEW k \in Askers,
             Relink(ds, r, k)
      PROVE  DisplayInv'
  BY <1>3, <1>a DEF Relink
<1>4. ASSUME NEW d \in DisplayIds, RegisterDisplay(d) PROVE DisplayInv'
  BY <1>0, <1>4 DEF RegisterDisplay, autopause
<1>5. ASSUME NEW d \in DisplayIds, UnregisterDisplay(d) PROVE DisplayInv'
  BY <1>0, <1>5 DEF UnregisterDisplay, autopause
<1>6. ASSUME NEW d \in DisplayIds, WindowPause(d) PROVE DisplayInv'
  BY <1>0, <1>6 DEF WindowPause, routing
<1>7. ASSUME NEW d \in DisplayIds, WindowResume(d) PROVE DisplayInv'
  <2>1. FreshDisplays'
    BY <1>0, <1>7 DEF WindowResume, routing
  <2>2. ASSUME NEW e \in present', requested'[e], ~raw'[e]
        PROVE  <<e, gen'[e]>> \in resumes'
    <3>1. e \in present /\ requested[e] /\ e \in DisplayIds
      BY <1>0, <1>7, <2>2 DEF WindowResume, routing
    <3>2. CASE e = d
      <4>1. gen'[e] = gen[e] + 1 /\ resumes' = resumes \cup {<<e, gen[e] + 1>>}
        BY <1>0, <1>7, <3>1, <3>2 DEF WindowResume
      <4> QED
        BY <4>1
    <3>3. CASE e # d
      <4>1. gen'[e] = gen[e] /\ raw'[e] = raw[e] /\ resumes \subseteq resumes'
        BY <1>0, <1>7, <3>1, <3>3 DEF WindowResume
      <4> QED
        BY <2>2, <3>1, <4>1
    <3> QED
      BY <3>2, <3>3
  <2> QED
    BY <2>1, <2>2
<1>8. ASSUME NEW d \in DisplayIds, NEW g \in Gens, FireResume(d, g) PROVE DisplayInv'
  <2>1. UNCHANGED <<routing, raw, gen>> /\ resumes' = resumes \ {<<d, g>>}
    BY <1>8 DEF FireResume
  <2>2. \A e \in DisplayIds : requested'[e] => requested[e]
    BY <1>0, <1>8 DEF FireResume
  <2>3. FreshDisplays'
    BY <2>1, <2>2 DEF routing
  <2>4. ASSUME NEW e \in present', requested'[e], ~raw'[e]
        PROVE  <<e, gen'[e]>> \in resumes'
    <3>1. e \in present /\ e \in DisplayIds /\ requested[e] /\ ~raw[e] /\ gen'[e] = gen[e]
      BY <1>0, <2>1, <2>2, <2>4 DEF routing
    <3>2. <<e, gen[e]>> \in resumes
      BY <3>1
    <3>3. <<e, gen[e]>> # <<d, g>>
      <4> SUFFICES ASSUME e = d, gen[e] = g PROVE FALSE
        OBVIOUS
      <4>1. requested' = [requested EXCEPT ![d] = FALSE]
        BY <1>8, <3>1 DEF FireResume
      <4> QED
        BY <1>0, <2>4, <3>1, <4>1
    <3> QED
      BY <2>1, <3>1, <3>2, <3>3
  <2> QED
    BY <2>3, <2>4
<1>9. ASSUME NEW l \in BOOLEAN, NEW i \in BOOLEAN, SessionState(l, i) PROVE DisplayInv'
  BY <1>9, <1>a DEF SessionState, routing
<1>10. ASSUME NEW g \in Gens, FireSessionResume(g) PROVE DisplayInv'
  BY <1>10, <1>a DEF FireSessionResume, routing
<1>11. ASSUME NEW b \in BOOLEAN, SetManualPause(b) PROVE DisplayInv'
  BY <1>11, <1>a DEF SetManualPause, routing
<1>12. ASSUME NEW k \in Askers, Reconcile(k) PROVE DisplayInv'
  BY <1>12, <1>a DEF Reconcile, routing
<1>13. CASE CancelReconcile
  BY <1>13, <1>a DEF CancelReconcile, routing
<1>15. ASSUME NEW l \in BOOLEAN, NEW i \in BOOLEAN, SettingsSet(l, i) PROVE DisplayInv'
  BY <1>15, <1>a DEF SettingsSet, routing
<1>14. CASE UNCHANGED pauseVars
  BY <1>14, <1>a DEF pauseVars, routing
<1> QED
  BY <1>1, <1>2, <1>3, <1>4, <1>5, <1>6, <1>7, <1>8, <1>9, <1>10, <1>11, <1>12, <1>13, <1>14, <1>15
  DEF PauseNext

(* The session side: locking bumps session_gen, so a timer of the current  *)
(* generation exists only after the flags were cleared last.               *)
LEMMA SessionStep == PauseTypeInv /\ SessionTimers /\ [PauseNext]_pauseVars => SessionTimers'
<1> SUFFICES ASSUME PauseTypeInv, SessionTimers, [PauseNext]_pauseVars PROVE SessionTimers'
  OBVIOUS
<1> USE DEF SessionTimers
<1>0. sessionGen \in Nat /\ sessionResumes \subseteq Nat
  BY LifecycleAssumption DEF PauseTypeInv, PauseTypeOK, Gens
<1>1. ASSUME NEW l \in BOOLEAN, NEW i \in BOOLEAN, SessionState(l, i) PROVE SessionTimers'
  <2>1. sessionGen' = sessionGen + 1 /\ locked' = l /\ inactive' = i
    BY <1>1 DEF SessionState
  <2>2. CASE l \/ i
    <3>1. sessionResumes' = sessionResumes
      BY <1>1, <2>2 DEF SessionState
    <3> QED
      BY <1>0, <2>1, <3>1
  <2>3. CASE ~(l \/ i)
    <3>1. sessionResumes' = sessionResumes \cup {sessionGen + 1}
      BY <1>1, <2>3 DEF SessionState
    <3> QED
      BY <1>0, <2>1, <2>3, <3>1
  <2> QED
    BY <2>2, <2>3
<1>2. ASSUME NEW g \in Gens, FireSessionResume(g) PROVE SessionTimers'
  BY <1>2 DEF FireSessionResume
<1>3. ASSUME UNCHANGED session PROVE SessionTimers'
  BY <1>3 DEF session
<1> QED
  BY <1>1, <1>2, <1>3
  DEF PauseNext, RegisterRenderer, UnregisterRenderer, Relink, RegisterDisplay, UnregisterDisplay,
      WindowPause, WindowResume, FireResume, SetManualPause, Reconcile, CancelReconcile,
      SettingsSet, pauseVars

-----------------------------------------------------------------------------
(* Every step that changes a decision of reconcile_lifecycle owes a call   *)
(* of it, or sets the session's timer.                                     *)
reasons == <<manual, link, present, requested, locked, inactive, settings>>

LEMMA SameReasons ==
  ASSUME NEW r \in Renderers, UNCHANGED reasons
  PROVE  ShouldPause(r)' = ShouldPause(r)
BY DEF reasons, settings, ShouldPause, Audience, SessionPauses

LEMMA PauseStep ==
  PauseTypeInv /\ SessionTimers /\ PauseComplete /\ [PauseNext]_pauseVars => PauseComplete'
<1> SUFFICES ASSUME PauseTypeInv, SessionTimers, PauseComplete, [PauseNext]_pauseVars PROVE PauseComplete'
  OBVIOUS
<1>0. /\ due \in [Askers -> Nat] /\ registered \subseteq Renderers /\ sessionGen \in Nat
      /\ requested \in [DisplayIds -> BOOLEAN]
  BY LifecycleAssumption DEF PauseTypeInv, PauseTypeOK, Gens
<1>a. ASSUME NEW k \in Askers, ReconcileDue(k) PROVE PauseComplete'
  <2>1. due'[k] > 0
    BY <1>0, <1>a DEF ReconcileDue
  <2> QED
    BY <2>1 DEF PauseComplete, Owed
<1>b. ASSUME UNCHANGED <<reasons, registered, paused, due, cut, sessionGen, sessionResumes>>
      PROVE  PauseComplete'
  BY <1>0, <1>b, SameReasons DEF PauseComplete, Owed
<1>c. "other" \in Askers
  BY DEF Askers
<1>1. ASSUME NEW d \in DisplayIds, WindowPause(d) PROVE PauseComplete'
  <2>1. CASE requested[d]
    <3>1. requested' = requested
      BY <1>0, <1>1, <2>1 DEF WindowPause
    <3> QED
      BY <1>1, <1>b, <2>1, <3>1 DEF WindowPause, reasons, calm, settings, routing, session
  <2>2. CASE ~requested[d]
    BY <1>1, <1>a, <1>c, <2>2 DEF WindowPause
  <2> QED
    BY <2>1, <2>2
<1>2. ASSUME NEW d \in DisplayIds, WindowResume(d) PROVE PauseComplete'
  BY <1>2, <1>b DEF WindowResume, reasons, calm, settings, routing, session
<1>3. ASSUME NEW d \in DisplayIds, NEW g \in Gens, FireResume(d, g) PROVE PauseComplete'
  <2>1. CASE d \in present /\ gen[d] = g /\ ~raw[d] /\ requested[d]
    BY <1>3, <1>a, <1>c, <2>1 DEF FireResume
  <2>2. CASE ~(d \in present /\ gen[d] = g /\ ~raw[d] /\ requested[d])
    <3>1. UNCHANGED <<requested, due>>
      BY <1>3, <2>2 DEF FireResume
    <3> QED
      BY <1>3, <1>b, <3>1 DEF FireResume, reasons, calm, settings, routing, session
  <2> QED
    BY <2>1, <2>2
<1>4. ASSUME NEW l \in BOOLEAN, NEW i \in BOOLEAN, SessionState(l, i) PROVE PauseComplete'
  <2>1. CASE l \/ i
    BY <1>4, <1>a, <1>c, <2>1 DEF SessionState
  <2>2. CASE ~(l \/ i)
    <3> SUFFICES ASSUME NEW r \in registered'
                 PROVE  /\ ShouldPause(r)' /\ r \notin paused' => Owed' \/ cut'
                        /\ ~ShouldPause(r)' /\ r \in paused' =>
                             Owed' \/ cut' \/ sessionGen' \in sessionResumes'
      BY DEF PauseComplete
    <3>1. sessionGen' \in sessionResumes' /\ Owed' = Owed /\ cut' = cut
      BY <1>4, <2>2 DEF SessionState, calm, Owed
    <3>2. r \in registered /\ paused' = paused
      BY <1>4 DEF SessionState, routing
    <3>3. ~SessionPauses'
      BY <1>4, <2>2 DEF SessionState, SessionPauses
    <3>4. UNCHANGED <<manual, link, present, requested>>
      BY <1>4 DEF SessionState, routing, autopause
    <3>5. ShouldPause(r)' => ShouldPause(r)
      BY <3>3, <3>4 DEF ShouldPause, Audience
    <3> QED
      BY <3>1, <3>2, <3>5 DEF PauseComplete
  <2> QED
    BY <2>1, <2>2
<1>5. ASSUME NEW g \in Gens, FireSessionResume(g) PROVE PauseComplete'
  <2>1. CASE sessionGen = g /\ ~locked /\ ~inactive
    BY <1>5, <1>a, <1>c, <2>1 DEF FireSessionResume
  <2>2. CASE ~(sessionGen = g /\ ~locked /\ ~inactive)
    <3>1. sessionGen # g
      BY <1>5, <2>2 DEF FireSessionResume, SessionTimers
    <3>2. sessionGen \in sessionResumes => sessionGen' \in sessionResumes'
      BY <1>5, <3>1 DEF FireSessionResume
    <3>3. UNCHANGED <<reasons, registered, paused, cut, due>>
      BY <1>5, <2>2 DEF FireSessionResume, reasons, calm, settings, routing, autopause
    <3>4. \A r \in registered : ShouldPause(r)' = ShouldPause(r)
      BY <1>0, <3>3, SameReasons
    <3> QED
      BY <3>2, <3>3, <3>4 DEF PauseComplete, Owed
  <2> QED
    BY <2>1, <2>2
<1>6. ASSUME NEW k \in Askers, Reconcile(k) PROVE PauseComplete'
  <2>1. UNCHANGED <<reasons, registered>>
    BY <1>6 DEF Reconcile, reasons, routing, autopause, session
  <2>2. \A r \in registered : ShouldPause(r)' = ShouldPause(r)
    BY <1>0, <2>1, SameReasons
  <2>3. \A r \in registered' : r \in paused' <=> ShouldPause(r)'
    BY <1>6, <2>1, <2>2 DEF Reconcile
  <2> QED
    BY <2>3 DEF PauseComplete
<1>7. CASE CancelReconcile
  <2>1. UNCHANGED <<reasons, registered, paused, sessionGen, sessionResumes>>
    BY <1>7 DEF CancelReconcile, reasons, routing, autopause, session
  <2>2. Owed' \/ cut'
    BY <1>7 DEF CancelReconcile
  <2> QED
    BY <2>2 DEF PauseComplete
<1>9. ASSUME NEW l \in BOOLEAN, NEW i \in BOOLEAN, SettingsSet(l, i) PROVE PauseComplete'
  <2>1. UNCHANGED <<manual, link, present, requested, registered, paused, sessionGen,
                    sessionResumes, due>>
    BY <1>9 DEF SettingsSet, routing, autopause, session
  <2>2. CASE SessionPauses' = SessionPauses
    <3>1. cut' = cut /\ Owed' = Owed
      BY <1>9, <2>1, <2>2 DEF SettingsSet, Owed, PauseTypeInv, PauseTypeOK
    <3>2. \A r \in registered : ShouldPause(r)' = ShouldPause(r)
      BY <2>1, <2>2 DEF ShouldPause, Audience
    <3> QED
      BY <2>1, <3>1, <3>2 DEF PauseComplete
  <2>3. CASE SessionPauses' # SessionPauses
    BY <1>9, <2>3 DEF SettingsSet, PauseComplete
  <2> QED
    BY <2>2, <2>3
<1>8. CASE UNCHANGED pauseVars
  BY <1>8, <1>b DEF pauseVars, calm, reasons, settings, routing, autopause, session
<1> QED
  BY <1>1, <1>2, <1>3, <1>4, <1>5, <1>6, <1>7, <1>8, <1>9, <1>a, <1>c
  DEF PauseNext, RegisterRenderer, UnregisterRenderer, Relink, RegisterDisplay, UnregisterDisplay,
      SetManualPause

-----------------------------------------------------------------------------
LEMMA SafeInit == PauseInit => SafeInv
<1> SUFFICES ASSUME PauseInit PROVE SafeInv
  OBVIOUS
<1>1. FreshDisplays /\ SessionTimers /\ ResumePending /\ PauseComplete
  BY DEF PauseInit, FreshDisplays, SessionTimers, ResumePending, PauseComplete
<1> QED
  BY <1>1, PauseTypeInit DEF SafeInv

LEMMA SafeStep == SafeInv /\ [PauseNext]_pauseVars => SafeInv'
BY PauseTypeStep, DisplayStep, SessionStep, PauseStep DEF SafeInv, DisplayInv

(* A display held paused against its windows' wish has the resume task of  *)
(* its current generation asleep (update_display_window_state), whatever   *)
(* the number of displays and flaps.                                       *)
THEOREM LifecycleResumePending == PauseSpec => []ResumePending
<1>1. SafeInv => ResumePending
  BY DEF SafeInv
<1> QED
  BY <1>1, SafeInit, SafeStep, PTL DEF PauseSpec

(* A renderer that is out of step with the reasons to pause it has a       *)
(* reconcile coming, or the session's resume timer (reconcile_lifecycle    *)
(* and every operation that ends in it), unless a cancelled apply took the *)
(* last reconcile along or the session's settings were changed.            *)
THEOREM LifecyclePauseComplete == PauseSpec => []PauseComplete
<1>1. SafeInv => PauseComplete
  BY DEF SafeInv
<1> QED
  BY <1>1, SafeInit, SafeStep, PTL DEF PauseSpec

-----------------------------------------------------------------------------
(* Playback: what the displays play.                                       *)

IsCursor(c) == DOMAIN c = {"items", "mode", "pos", "order", "opos", "current"}
CursorOf(c, items, m) == IsCursor(c) /\ c.items = items /\ c.mode = m
IsJob(j) ==
  DOMAIN j = {"do", "at", "todo", "on", "bound", "items", "mode", "cursor", "item", "auto", "saw"}

PlayShape ==
  /\ here \subseteq everHere /\ everHere \subseteq Displays /\ Owned \subseteq everHere
  /\ rots \in Nat /\ rot \in [Displays -> 0..rots]
  /\ \A d, e \in Owned : rot[d] = rot[e] => d = e
  /\ cursor = [n \in 1..rots |-> cursor[n]] /\ \A n \in 1..rots : IsCursor(cursor[n])
  /\ DOMAIN job = Actors /\ edits \in Nat
  /\ feed \in Seq({"upsert", "removed"} \X everHere)
  /\ \A i \in DOMAIN feed : feed[i][1] = "removed" => feed[i][2] \notin here
  /\ list \in Seq(Items) /\ (~exists => Owned \subseteq stale)

Starting == {"activate", "resume"}
Stopping == {"deactivate", "manual", "delete"}
Steps == {"idle", "collect", "read", "resolve", "displays", "apply", "insert", "persist", "cursors", "show"}
OnOne == {"apply", "insert", "persist"}

\* A job that has read the playlist.
HasRead(j) ==
  \/ j.do \in Starting /\ j.at \in {"resolve", "displays"} \cup OnOne
  \/ j.do = "rebuild" /\ j.at \in {"resolve", "cursors", "show"}

\* A number of a rotation that was a display's is no other display's.
IsBound(b) == b \in everHere \X (1..rots) /\ \A e \in Owned : rot[e] = b[2] => e = b[1]

\* What a request knows at each of its steps.
Knows(p) ==
  LET j == job[p]
  IN /\ j.at = "idle" => j = NoJob
     /\ IsJob(j) /\ j.at \in Steps /\ j.todo \subseteq everHere /\ j.saw \in 0..edits
     /\ j.at \in {"collect", "cursors", "show"} => j.do \in {"rebuild", "jump"}
     /\ j.at \in {"read", "resolve"} => j.do \in Starting \cup {"rebuild"}
     /\ j.at \in {"displays", "persist"} => j.do \in Starting \cup Stopping
     /\ j.at \in {"apply", "insert"} => j.do \in Starting
     /\ j.at \in OnOne => j.on \in everHere
     /\ j.do = "resume" => p = Watcher
     /\ j.do \in {"rebuild", "jump", "delete"} => \A b \in j.bound : IsBound(b)
     /\ j.do = "delete" => \A d \in Owned : <<d, rot[d]>> \in j.bound => d \in j.todo
     /\ HasRead(j) /\ j.saw = edits =>
          exists /\ j.mode = mode /\ (j.at # "resolve" => AsListed(j.items))
     /\ j.at = "insert" => CursorOf(j.cursor, j.items, j.mode)

\* The watcher will restore d.
ToResume(d) ==
  \/ \E i \in DOMAIN feed : feed[i] = <<"upsert", d>>
  \/ job[Watcher].do = "resume" /\ d \in job[Watcher].todo

\* A display plays what is assigned to it, or will.
Follows(d) ==
  /\ \A p, q \in Actors : IsOn(p, d) /\ IsOn(q, d) => p = q
  /\ \A p \in Actors : IsOn(p, d) => (d \in Owned <=> job[p].at = "persist" /\ job[p].do \in Starting)
  /\ (\A p \in Actors : ~IsOn(p, d)) =>
       /\ d \in Owned => d \in assigned
       /\ d \in assigned => d \in Owned \/ d \in refused \/ ToResume(d)

\* A rotation is of the list as it is, or some request will see to it.
Current(d) == exists /\ AsListed(cursor[rot[d]].items) /\ cursor[rot[d]].mode = mode
WillSee(p, d) ==
  \/ /\ job[p].do = "rebuild"
     /\ \/ job[p].at = "collect"
        \/ /\ <<d, rot[d]>> \in job[p].bound
           /\ job[p].at = "read" \/ (job[p].at \in {"resolve", "cursors", "show"} /\ job[p].saw = edits)
  \/ job[p].do = "deactivate" /\ job[p].at \in {"displays", "persist"} /\ d \in job[p].todo
Plays(d) == Current(d) \/ \E p \in Actors : WillSee(p, d)

PlayInv ==
  /\ PlayShape
  /\ \A p \in Actors : Knows(p)
  /\ \A d \in here \ crossed : Follows(d)
  /\ \A d \in Owned \ stale : Plays(d)

-----------------------------------------------------------------------------
(* Cursors keep what they go through.                                      *)

LEMMA PlayingKeeps ==
  ASSUME NEW c, IsCursor(c), NEW i
  PROVE  CursorOf(Playing(c, i), c.items, c.mode)
BY DEF IsCursor, CursorOf, Playing

LEMMA BuiltKeeps ==
  ASSUME NEW c, IsCursor(c), NEW b \in Built(c)
  PROVE  CursorOf(b, c.items, c.mode)
BY DEF IsCursor, CursorOf, Built

LEMMA OrderedKeeps ==
  ASSUME NEW c, IsCursor(c), NEW b \in Ordered(c)
  PROVE  CursorOf(b, c.items, c.mode)
BY BuiltKeeps DEF Ordered, CursorOf

LEMMA NewKeeps ==
  ASSUME NEW items, NEW m, NEW c \in New(items, m)
  PROVE  CursorOf(c, items, m)
<1> DEFINE n == [items |-> items, mode |-> m, pos |-> 1, order |-> <<>>, opos |-> 1, current |-> NoItem]
<1>1. CursorOf(n, items, m)
  BY DEF CursorOf, IsCursor
<1>2. c = n \/ c \in Built(n)
  BY DEF New
<1>3. CASE c = n
  BY <1>1, <1>3
<1>4. CASE c \in Built(n)
  BY <1>1, <1>4, BuiltKeeps DEF CursorOf
<1> QED BY <1>2, <1>3, <1>4

LEMMA FirstKeeps ==
  ASSUME NEW c, IsCursor(c), NEW f \in First(c)
  PROVE  CursorOf(f, c.items, c.mode)
<1>1. CASE c.mode = "shuffle"
  <2>1. PICK b \in Ordered(c) : f = Playing([b EXCEPT !.opos = 1], b.order[1])
    BY <1>1 DEF First
  <2>2. CursorOf([b EXCEPT !.opos = 1], c.items, c.mode)
    BY OrderedKeeps DEF CursorOf, IsCursor
  <2> QED BY <2>1, <2>2, PlayingKeeps DEF CursorOf
<1>2. CASE c.mode # "shuffle"
  <2>1. \E i : f = Playing([c EXCEPT !.pos = i], i)
    BY <1>2 DEF First
  <2>2. PICK i : f = Playing([c EXCEPT !.pos = i], i)
    BY <2>1
  <2>3. CursorOf([c EXCEPT !.pos = i], c.items, c.mode)
    BY DEF CursorOf, IsCursor
  <2> QED BY <2>2, <2>3, PlayingKeeps DEF CursorOf
<1> QED BY <1>1, <1>2

LEMMA SetCurrentKeeps ==
  ASSUME NEW c, IsCursor(c), NEW item, NEW f \in SetCurrent(c, item)
  PROVE  CursorOf(f, c.items, c.mode)
<1> DEFINE i == IndexOf(c.items, item)
<1>1. PICK b \in IF c.mode = "shuffle" THEN Ordered(c) ELSE {c} :
        f = Playing([b EXCEPT !.pos = i, !.opos = IF c.mode = "shuffle" THEN IndexOf(b.order, i) ELSE @], i)
  BY DEF SetCurrent
<1>2. CursorOf(b, c.items, c.mode)
  BY OrderedKeeps DEF CursorOf
<1> HIDE DEF i
<1>3. ASSUME NEW o
      PROVE  CursorOf([b EXCEPT !.pos = i, !.opos = o], c.items, c.mode)
  BY <1>2 DEF CursorOf, IsCursor
<1>4. \E o : f = Playing([b EXCEPT !.pos = i, !.opos = o], i)
  BY <1>1
<1>5. PICK o : f = Playing([b EXCEPT !.pos = i, !.opos = o], i)
  BY <1>4
<1> DEFINE g == [b EXCEPT !.pos = i, !.opos = o]
<1>6. CursorOf(g, c.items, c.mode)
  BY <1>3
<1> HIDE DEF g
<1>7. f = Playing(g, i)
  BY <1>5 DEF g
<1>8. CursorOf(Playing(g, i), g.items, g.mode)
  BY <1>6, PlayingKeeps DEF CursorOf
<1> QED BY <1>6, <1>7, <1>8 DEF CursorOf

LEMMA RebuiltIs ==
  ASSUME NEW c, IsCursor(c), NEW items, NEW m, NEW f \in Rebuilt(c, items, m)
  PROVE  CursorOf(f, items, m)
<1> DEFINE r == [c EXCEPT !.items = items, !.mode = m]
<1>1. CursorOf(r, items, m)
  BY DEF CursorOf, IsCursor
<1>2. f \in SetCurrent(r, c.current) \/ f \in First(r)
  BY DEF Rebuilt
<1> HIDE DEF r
<1> QED BY <1>1, <1>2, SetCurrentKeeps, FirstKeeps DEF CursorOf

LEMMA Next1Keeps ==
  ASSUME NEW c, IsCursor(c), NEW f \in Next1(c)
  PROVE  CursorOf(f, c.items, c.mode)
<1> DEFINE n == Len(c.items)
           up(i) == (i % n) + 1
           moved(b) == [b EXCEPT !.opos = up(@)]
<1>1. CASE c.mode \in {"sequential", "random"}
  <2>1. \E i : f = Playing([c EXCEPT !.pos = i], i)
    <3>1. CASE c.mode = "sequential"
      <4>1. [c EXCEPT !.pos = up(@)] = [c EXCEPT !.pos = up(c.pos)]
        OBVIOUS
      <4> QED BY <3>1, <4>1 DEF Next1
    <3>2. CASE c.mode = "random"
      BY <3>2 DEF Next1
    <3> QED BY <1>1, <3>1, <3>2
  <2>2. PICK i : f = Playing([c EXCEPT !.pos = i], i)
    BY <2>1
  <2>3. CursorOf([c EXCEPT !.pos = i], c.items, c.mode)
    BY DEF CursorOf, IsCursor
  <2> QED BY <2>2, <2>3, PlayingKeeps DEF CursorOf
<1>2. CASE c.mode \notin {"sequential", "random"}
  <2>1. PICK b \in Ordered(c) :
          \E r \in IF moved(b).opos = 1 THEN Built(moved(b)) ELSE {moved(b)} : f = Playing(r, r.order[r.opos])
    BY <1>2 DEF Next1
  <2>2. CursorOf(moved(b), c.items, c.mode)
    <3>1. CursorOf(b, c.items, c.mode)
      BY OrderedKeeps
    <3>2. ASSUME NEW o PROVE CursorOf([b EXCEPT !.opos = o], c.items, c.mode)
      BY <3>1 DEF CursorOf, IsCursor
    <3> QED BY <3>2
  <2> HIDE DEF moved
  <2>3. PICK r \in IF moved(b).opos = 1 THEN Built(moved(b)) ELSE {moved(b)} : f = Playing(r, r.order[r.opos])
    BY <2>1
  <2>4. CursorOf(r, c.items, c.mode)
    BY <2>2, <2>3, BuiltKeeps DEF CursorOf
  <2> QED BY <2>3, <2>4, PlayingKeeps DEF CursorOf
<1> QED BY <1>1, <1>2

\* A sequence with one more element.
LEMMA AppendIs ==
  ASSUME NEW n \in Nat, NEW s, s = [i \in 1..n |-> s[i]], NEW x
  PROVE  /\ Append(s, x) = [i \in 1..(n + 1) |-> Append(s, x)[i]]
         /\ \A i \in 1..n : Append(s, x)[i] = s[i]
         /\ Append(s, x)[n + 1] = x
<1> DEFINE S == {s[i] : i \in 1..n} \cup {x}
<1>1. s \in [1..n -> S]
  OBVIOUS
<1>2. s \in Seq(S) /\ Len(s) = n
  BY <1>1
<1>3. /\ Append(s, x) \in Seq(S) /\ Len(Append(s, x)) = n + 1
      /\ \A i \in 1..n : Append(s, x)[i] = s[i]
      /\ Append(s, x)[n + 1] = x
  BY <1>2, AppendProperties
<1> HIDE DEF S
<1>4. Append(s, x) \in [1..(n + 1) -> S]
  BY <1>3, LenProperties
<1> QED BY <1>3, <1>4
-----------------------------------------------------------------------------
(* What a step leaves as it is.                                            *)

\* The playlist is the one it was, but for wallpapers lost, unless it counts
\* as edited.
ListGoesOn ==
  /\ edits' \in Nat /\ edits <= edits'
  /\ edits' = edits =>
       exists' = exists /\ mode' = mode /\ \A items : AsListed(items) => AsListed(items)'

\* Numbers are never given twice.
RotsGoOn ==
  /\ rots' \in Nat /\ rots <= rots'
  /\ \A d \in Displays : rot'[d] \in {0, rot[d]} \/ rot'[d] > rots

LEMMA StillListed ==
  ASSUME UNCHANGED <<list, gone>>
  PROVE  \A items : AsListed(items) <=> AsListed(items)'
BY DEF AsListed, Before

LEMMA StillBound ==
  ASSUME PlayShape, RotsGoOn, everHere \subseteq everHere', everHere' \subseteq Displays, NEW b, IsBound(b)
  PROVE  IsBound(b)'
<1>1. b \in everHere \X (1..rots) /\ b[2] \in 1..rots /\ rots \in Nat /\ rots' \in Nat /\ rots <= rots'
  BY DEF IsBound, RotsGoOn, PlayShape
<1>2. b \in everHere' \X (1..rots')
  BY <1>1
<1>3. ASSUME NEW e \in Owned', rot'[e] = b[2] PROVE e = b[1]
  <2>1. e \in Displays /\ rot'[e] # 0 /\ ~(rot'[e] > rots)
    BY <1>1, <1>3 DEF Owned
  <2>2. rot'[e] = rot[e] /\ e \in Owned
    BY <2>1 DEF RotsGoOn, Owned
  <2> QED BY <1>3, <2>2 DEF IsBound
<1> QED BY <1>2, <1>3 DEF IsBound

LEMMA OthersKnow ==
  ASSUME PlayShape, ListGoesOn, RotsGoOn, everHere \subseteq everHere', everHere' \subseteq Displays,
         NEW q \in Actors, Knows(q), job'[q] = job[q]
  PROVE  Knows(q)'
<1>0. PICK j : j = job[q]
  OBVIOUS
<1>1. edits \in Nat /\ rots \in Nat /\ rot \in [Displays -> 0..rots]
  BY DEF PlayShape
<1>2. /\ j.at = "idle" => j = NoJob
      /\ IsJob(j) /\ j.at \in Steps /\ j.todo \subseteq everHere /\ j.saw \in 0..edits
      /\ j.at \in {"collect", "cursors", "show"} => j.do \in {"rebuild", "jump"}
      /\ j.at \in {"read", "resolve"} => j.do \in Starting \cup {"rebuild"}
      /\ j.at \in {"displays", "persist"} => j.do \in Starting \cup Stopping
      /\ j.at \in {"apply", "insert"} => j.do \in Starting
      /\ j.at \in OnOne => j.on \in everHere
      /\ j.do = "resume" => q = Watcher
      /\ j.at = "insert" => CursorOf(j.cursor, j.items, j.mode)
  BY <1>0 DEF Knows
<1>3. j.todo \subseteq everHere' /\ j.saw \in 0..edits' /\ (j.at \in OnOne => j.on \in everHere')
  BY <1>1, <1>2 DEF ListGoesOn
<1>4. ASSUME j.do \in {"rebuild", "jump", "delete"}, NEW b \in j.bound PROVE IsBound(b)'
  BY <1>0, <1>4, StillBound DEF Knows
<1>5. ASSUME j.do = "delete", NEW d \in Owned', <<d, rot'[d]>> \in j.bound PROVE d \in j.todo
  <2>1. IsBound(<<d, rot'[d]>>)
    BY <1>0, <1>5 DEF Knows
  <2>2. rot'[d] \in 1..rots /\ d \in Displays
    BY <1>5, <2>1 DEF IsBound, Owned
  <2>3. rot'[d] = rot[d] /\ d \in Owned
    BY <1>1, <2>2 DEF RotsGoOn, Owned
  <2> QED BY <1>0, <1>5, <2>3 DEF Knows
<1>6. ASSUME HasRead(j), j.saw = edits'
      PROVE  exists' /\ j.mode = mode' /\ (j.at # "resolve" => AsListed(j.items)')
  <2>1. edits' = edits /\ j.saw = edits
    BY <1>1, <1>2, <1>6 DEF ListGoesOn
  <2>2. exists /\ j.mode = mode /\ (j.at # "resolve" => AsListed(j.items))
    BY <1>0, <1>6, <2>1 DEF Knows
  <2> QED BY <2>1, <2>2 DEF ListGoesOn
<1>7. job'[q] = j
  BY <1>0
<1> QED BY <1>2, <1>3, <1>4, <1>5, <1>6, <1>7 DEF Knows

\* A step of p alone.
Only(p) == DOMAIN job' = Actors /\ \A q \in Actors \ {p} : job'[q] = job[q]

LEMMA GoesAlone ==
  ASSUME PlayShape, NEW p \in Actors, NEW j, JobGoes(p, j)
  PROVE  Only(p) /\ job'[p] = j
BY DEF JobGoes, Only, PlayShape

\* A display goes on following its settings, unless a step is about it.
LEMMA FollowsOn ==
  ASSUME NEW p \in Actors, Only(p), NEW d, Follows(d),
         d \in Owned' <=> d \in Owned, d \in assigned' <=> d \in assigned,
         d \in refused => d \in refused',
         IsOn(p, d)' <=> IsOn(p, d),
         IsOn(p, d) => (job'[p].at = "persist" /\ job'[p].do \in Starting
                          <=> job[p].at = "persist" /\ job[p].do \in Starting),
         d \in assigned /\ ToResume(d) => d \in Owned \/ d \in refused' \/ ToResume(d)'
  PROVE  Follows(d)'
<1>1. \A q \in Actors : IsOn(q, d)' <=> IsOn(q, d)
  BY DEF IsOn, Only
<1>2. \A q, r \in Actors : IsOn(q, d)' /\ IsOn(r, d)' => q = r
  BY <1>1 DEF Follows
<1>3. \A q \in Actors : IsOn(q, d)' => (d \in Owned' <=> job'[q].at = "persist" /\ job'[q].do \in Starting)
  BY <1>1 DEF Follows, Only
<1>4. (\A q \in Actors : ~IsOn(q, d)') =>
        /\ d \in Owned' => d \in assigned'
        /\ d \in assigned' => d \in Owned' \/ d \in refused' \/ ToResume(d)'
  BY <1>1 DEF Follows
<1> QED BY <1>2, <1>3, <1>4 DEF Follows

\* ... and playing what it should.
LEMMA PlaysOn ==
  ASSUME NEW p \in Actors, Only(p), NEW d, Plays(d), ListGoesOn, edits' = edits, rot'[d] = rot[d],
         cursor'[rot[d]].items = cursor[rot[d]].items, cursor'[rot[d]].mode = cursor[rot[d]].mode,
         WillSee(p, d) => WillSee(p, d)' \/ Current(d)'
  PROVE  Plays(d)'
<1>1. CASE Current(d)
  <2>1. PICK items : items = cursor[rot[d]].items
    OBVIOUS
  <2>2. AsListed(items)'
    BY <1>1, <2>1 DEF Current, ListGoesOn
  <2>3. exists' /\ cursor'[rot'[d]].mode = mode' /\ cursor'[rot'[d]].items = items
    BY <1>1, <2>1 DEF Current, ListGoesOn
  <2>4. Current(d)'
    BY <2>2, <2>3 DEF Current, AsListed
  <2> QED BY <2>4 DEF Plays
<1>2. ASSUME NEW q \in Actors, q # p, WillSee(q, d) PROVE WillSee(q, d)'
  BY <1>2 DEF WillSee, Only
<1> QED BY <1>1, <1>2 DEF Plays

\* A step that touches neither the rotations, the list nor the settings.
LEMMA InnerStep ==
  ASSUME PlayInv, NEW p \in Actors, Only(p), Knows(p)',
         UNCHANGED <<here, everHere, feed, assigned, exists, list, mode, gone, rot, cursor, rots,
                     crossed, edits, stale>>,
         refused \subseteq refused',
         \/ job[p].at \notin OnOne /\ job'[p].at \notin OnOne
         \/ /\ job[p].at \in {"apply", "insert"} /\ job'[p].at \in {"apply", "insert"}
            /\ job'[p].on = job[p].on,
         \A d \in job[p].todo :
           p = Watcher /\ job[p].do = "resume" => d \in refused' \/ ToResume(d)',
         \A d \in Owned \ stale : WillSee(p, d) => WillSee(p, d)' \/ Current(d)'
  PROVE  PlayInv'
<1>1. PlayShape /\ Owned' = Owned
  BY DEF PlayInv, Owned
<1>2. PlayShape'
  BY <1>1 DEF PlayShape, Only
<1>3. ListGoesOn /\ RotsGoOn
  BY <1>1, StillListed DEF ListGoesOn, RotsGoOn, PlayShape
<1>4. ASSUME NEW q \in Actors PROVE Knows(q)'
  <2>1. CASE q = p
    BY <2>1
  <2>2. CASE q # p
    BY <1>1, <1>3, <2>2, OthersKnow DEF PlayInv, Only, PlayShape
  <2> QED BY <2>1, <2>2
<1>5. ASSUME NEW d \in here \ crossed PROVE Follows(d)'
  <2>1. Follows(d) /\ d \in Displays
    BY <1>1 DEF PlayInv, PlayShape
  <2>2. IsOn(p, d)' <=> IsOn(p, d)
    BY DEF IsOn, OnOne
  <2>3. IsOn(p, d) => job'[p].at # "persist" /\ job[p].at # "persist"
    BY DEF IsOn, OnOne
  <2>4. ToResume(d) => ToResume(d)' \/ d \in refused'
    <3>1. CASE \E i \in DOMAIN feed : feed[i] = <<"upsert", d>>
      BY <3>1 DEF ToResume
    <3>2. CASE p = Watcher
      BY <3>2 DEF ToResume
    <3>3. CASE p # Watcher
      <4>1. job'[Watcher] = job[Watcher]
        BY <3>3 DEF Only, Actors
      <4> QED BY <4>1 DEF ToResume
    <3> QED BY <3>2, <3>3
  <2> QED BY <1>1, <2>1, <2>2, <2>3, <2>4, FollowsOn
<1>6. ASSUME NEW d \in Owned \ stale PROVE Plays(d)'
  <2>1. Plays(d)
    BY DEF PlayInv
  <2> QED BY <1>3, <2>1, PlaysOn
<1> QED BY <1>1, <1>2, <1>4, <1>5, <1>6 DEF PlayInv

-----------------------------------------------------------------------------
(* The steps of a request.                                                 *)

LEMMA NoJobIs ==
  /\ IsJob(NoJob) /\ NoJob.do = "idle" /\ NoJob.at = "idle" /\ NoJob.todo = {} /\ NoJob.saw = 0
  /\ NoJob.bound = {}
BY DEF IsJob, NoJob

LEMMA IdleKnows ==
  ASSUME NEW p \in Actors, edits' \in Nat, job'[p] = NoJob
  PROVE  Knows(p)'
BY NoJobIs DEF Knows, Steps, Starting, Stopping, OnOne, HasRead

\* A request that ends.
LEMMA EndKeeps ==
  ASSUME PlayInv, NEW p \in Actors, JobGoes(p, NoJob), job[p].at \notin OnOne,
         UNCHANGED <<here, everHere, feed, assigned, exists, list, mode, gone, rot, cursor, rots,
                     crossed, edits, stale>>,
         refused \subseteq refused',
         job[p].todo = {} \/ job[p].todo \subseteq refused' \/ job[p].do # "resume",
         \A d \in Owned \ stale : ~WillSee(p, d)
  PROVE  PlayInv'
<1>1. Only(p) /\ job'[p] = NoJob
  BY GoesAlone DEF PlayInv
<1>2. edits' \in Nat
  BY DEF PlayInv, PlayShape
<1>3. Knows(p)'
  BY <1>1, <1>2, IdleKnows
<1>4. job'[p].at \notin OnOne
  BY <1>1, NoJobIs DEF OnOne
<1> QED BY <1>1, <1>3, <1>4, InnerStep

LEMMA CollectKeeps ==
  ASSUME PlayInv, NEW p \in Actors, Collect(p)
  PROVE  PlayInv'
<1>1. /\ UNCHANGED <<here, everHere, feed, assigned, exists, list, mode, gone, rot, cursor, rots>>
      /\ UNCHANGED <<crossed, refused, edits, stale>> /\ job[p].at = "collect"
  BY DEF Collect, displayVars, wantVars, listVars, engineVars, history
<1>2. Knows(p) /\ job[p].do \in {"rebuild", "jump"} /\ PlayShape
  BY <1>1 DEF PlayInv, Knows
<1>3. CASE Bound = {}
  <2>1. JobGoes(p, NoJob)
    BY <1>3 DEF Collect
  <2>2. Owned = {}
    BY <1>3 DEF Bound
  <2> QED BY <1>1, <1>2, <2>1, <2>2, EndKeeps DEF OnOne
<1>4. CASE Bound # {}
  <2> DEFINE j == [job[p] EXCEPT !.bound = Bound, !.at = IF job[p].do = "jump" THEN "cursors" ELSE "read"]
  <2>1. JobGoes(p, j)
    BY <1>4 DEF Collect
  <2>2. /\ IsJob(j) /\ j.bound = Bound /\ j.at = (IF job[p].do = "jump" THEN "cursors" ELSE "read")
        /\ j.do = job[p].do /\ j.todo = job[p].todo /\ j.saw = job[p].saw
    BY <1>2 DEF Knows, IsJob
  <2> HIDE DEF j
  <2>3. Only(p) /\ job'[p] = j
    BY <1>2, <2>1, GoesAlone
  <2>4. \A b \in Bound : IsBound(b)'
    BY <1>1, <1>2 DEF Bound, IsBound, PlayShape, Owned
  <2>5. Knows(p)'
    BY <1>1, <1>2, <2>2, <2>3, <2>4 DEF Knows, Steps, Starting, Stopping, OnOne, HasRead
  <2>6. ASSUME NEW d \in Owned, WillSee(p, d) PROVE WillSee(p, d)'
    BY <1>1, <1>2, <2>2, <2>3, <2>6 DEF WillSee, Bound
  <2> QED BY <1>1, <1>2, <2>2, <2>3, <2>5, <2>6, InnerStep DEF OnOne
<1> QED BY <1>3, <1>4

LEMMA ReadKeeps ==
  ASSUME PlayInv, NEW p \in Actors, ReadPlaylist(p)
  PROVE  PlayInv'
<1>1. /\ UNCHANGED <<here, everHere, feed, assigned, exists, list, mode, gone, rot, cursor, rots>>
      /\ UNCHANGED <<crossed, edits, stale>> /\ job[p].at = "read"
  BY DEF ReadPlaylist, displayVars, wantVars, listVars, engineVars
<1>2. Knows(p) /\ job[p].do \in Starting \cup {"rebuild"} /\ PlayShape
  BY <1>1 DEF PlayInv, Knows
<1>3. CASE ~exists
  <2>1. JobGoes(p, NoJob) /\ GivesUp(p)
    BY <1>3 DEF ReadPlaylist
  <2>2. refused \subseteq refused' /\ (job[p].do = "resume" => job[p].todo \subseteq refused')
    BY <2>1 DEF GivesUp
  <2>3. Owned \ stale = {}
    BY <1>2, <1>3 DEF PlayShape
  <2> QED BY <1>1, <2>1, <2>2, <2>3, EndKeeps DEF OnOne
<1>4. CASE exists
  <2> DEFINE j == [job[p] EXCEPT !.mode = mode, !.saw = edits, !.at = "resolve"]
  <2>1. JobGoes(p, j) /\ refused' = refused
    BY <1>4 DEF ReadPlaylist
  <2>2. /\ IsJob(j) /\ j.mode = mode /\ j.saw = edits /\ j.at = "resolve"
        /\ j.do = job[p].do /\ j.todo = job[p].todo /\ j.bound = job[p].bound
    BY <1>2 DEF Knows, IsJob
  <2> HIDE DEF j
  <2>3. Only(p) /\ job'[p] = j
    BY <1>2, <2>1, GoesAlone
  <2>4. \A b : IsBound(b)' <=> IsBound(b)
    BY <1>1 DEF IsBound, Owned
  <2>5. edits \in 0..edits /\ Owned' = Owned
    BY <1>1, <1>2 DEF PlayShape, Owned
  <2>6. Knows(p)'
    BY <1>1, <1>2, <1>4, <2>2, <2>3, <2>4, <2>5 DEF Knows, Steps, Starting, Stopping, OnOne, HasRead
  <2>7. ASSUME NEW d \in Owned, WillSee(p, d) PROVE WillSee(p, d)'
    BY <1>1, <1>2, <2>2, <2>3, <2>7 DEF WillSee
  <2>8. ASSUME NEW d \in job[p].todo, p = Watcher, job[p].do = "resume" PROVE ToResume(d)'
    BY <2>2, <2>3, <2>8 DEF ToResume
  <2> QED BY <1>1, <1>2, <2>1, <2>2, <2>3, <2>6, <2>7, <2>8, InnerStep DEF OnOne
<1> QED BY <1>3, <1>4

LEMMA ResolveKeeps ==
  ASSUME PlayInv, NEW p \in Actors, ResolveItems(p)
  PROVE  PlayInv'
<1>1. /\ UNCHANGED <<here, everHere, feed, assigned, exists, list, mode, gone, rot, cursor, rots>>
      /\ UNCHANGED <<crossed, refused, edits, stale>> /\ job[p].at = "resolve"
  BY DEF ResolveItems, displayVars, wantVars, listVars, engineVars, history
<1>2. Knows(p) /\ job[p].do \in Starting \cup {"rebuild"} /\ PlayShape
  BY <1>1 DEF PlayInv, Knows
<1>3. PICK j : /\ JobGoes(p, j)
               /\ j = IF job[p].do = "rebuild" THEN [job[p] EXCEPT !.items = list, !.at = "cursors"]
                      ELSE [job[p] EXCEPT !.items = list, !.at = "displays",
                                          !.todo = IF @ = {} THEN here ELSE @]
  BY DEF ResolveItems
<1>4. /\ IsJob(j) /\ j.items = list /\ j.at = (IF job[p].do = "rebuild" THEN "cursors" ELSE "displays")
      /\ j.do = job[p].do /\ j.bound = job[p].bound /\ j.mode = job[p].mode /\ j.saw = job[p].saw
      /\ j.todo \subseteq everHere /\ (job[p].todo \subseteq j.todo)
  BY <1>2, <1>3 DEF Knows, IsJob, PlayShape
<1>5. Only(p) /\ job'[p] = j
  BY <1>2, <1>3, GoesAlone
<1>6. (\A b : IsBound(b)' <=> IsBound(b)) /\ Owned' = Owned
  BY <1>1 DEF IsBound, Owned
<1>7. AsListed(j.items)'
  BY <1>1, <1>4 DEF AsListed
<1>8. HasRead(job[p]) /\ HasRead(j)
  BY <1>1, <1>2, <1>4 DEF HasRead, Starting
<1>9. j.saw = edits => exists /\ j.mode = mode
  BY <1>2, <1>4, <1>8 DEF Knows
<1>10. Knows(p)'
  BY <1>1, <1>2, <1>4, <1>5, <1>6, <1>7, <1>9 DEF Knows, Steps, Starting, Stopping, OnOne
<1>11. ASSUME NEW d \in Owned, WillSee(p, d) PROVE WillSee(p, d)'
  BY <1>1, <1>2, <1>4, <1>5, <1>11 DEF WillSee
<1>12. ASSUME NEW d \in job[p].todo, p = Watcher, job[p].do = "resume" PROVE ToResume(d)'
  BY <1>4, <1>5, <1>12 DEF ToResume
<1> QED BY <1>1, <1>4, <1>5, <1>10, <1>11, <1>12, InnerStep DEF OnOne

LEMMA ResolveNothingKeeps ==
  ASSUME PlayInv, NEW p \in Actors, ResolveNothing(p)
  PROVE  PlayInv'
<1>1. /\ UNCHANGED <<here, everHere, feed, assigned, exists, list, mode, gone, rot, cursor, rots>>
      /\ UNCHANGED <<crossed, edits, stale>> /\ job[p].at = "resolve"
  BY DEF ResolveNothing, displayVars, wantVars, listVars, engineVars
<1>2. Knows(p) /\ job[p].do \in Starting \cup {"rebuild"} /\ PlayShape
  BY <1>1 DEF PlayInv, Knows
<1>3. refused \subseteq refused' /\ (job[p].do = "resume" => job[p].todo \subseteq refused')
  BY DEF ResolveNothing, GivesUp
<1>4. CASE job[p].do # "rebuild"
  <2>1. JobGoes(p, NoJob)
    BY <1>4 DEF ResolveNothing
  <2>2. \A d \in Owned \ stale : ~WillSee(p, d)
    BY <1>1, <1>4 DEF WillSee
  <2> QED BY <1>1, <1>3, <2>1, <2>2, EndKeeps DEF OnOne
<1>5. CASE job[p].do = "rebuild"
  <2> DEFINE j == [NoJob EXCEPT !.do = "deactivate", !.at = "displays", !.todo = {b[1] : b \in job[p].bound}]
  <2>1. JobGoes(p, j)
    BY <1>5 DEF ResolveNothing
  <2>2. /\ IsJob(j) /\ j.do = "deactivate" /\ j.at = "displays" /\ j.saw = 0
        /\ j.todo = {b[1] : b \in job[p].bound}
    BY DEF IsJob, NoJob
  <2> HIDE DEF j
  <2>3. Only(p) /\ job'[p] = j
    BY <1>2, <2>1, GoesAlone
  <2>4. j.todo \subseteq everHere /\ \A d : <<d, rot[d]>> \in job[p].bound => d \in j.todo
    BY <1>2, <1>5, <2>2 DEF Knows, IsBound
  <2>5. j.saw \in 0..edits
    BY <1>2, <2>2 DEF PlayShape
  <2>6. Knows(p)'
    BY <1>1, <2>2, <2>3, <2>4, <2>5 DEF Knows, Steps, Starting, Stopping, OnOne, HasRead
  <2>7. ASSUME NEW d \in Owned, WillSee(p, d) PROVE WillSee(p, d)'
    BY <1>1, <1>5, <2>2, <2>3, <2>4, <2>7 DEF WillSee
  <2> QED BY <1>1, <1>3, <1>5, <2>2, <2>3, <2>6, <2>7, InnerStep DEF OnOne
<1> QED BY <1>4, <1>5

LEMMA ApplyFirstKeeps ==
  ASSUME PlayInv, NEW p \in Actors, ApplyFirst(p)
  PROVE  PlayInv'
<1>1. /\ UNCHANGED <<here, everHere, feed, assigned, exists, list, mode, gone, rot, cursor, rots>>
      /\ UNCHANGED <<crossed, refused, edits, stale>> /\ job[p].at = "apply"
  BY DEF ApplyFirst, displayVars, wantVars, listVars, engineVars, history
<1>2. Knows(p) /\ job[p].do \in Starting /\ PlayShape
  BY <1>1 DEF PlayInv, Knows
<1>3. PICK c \in New(job[p].items, job[p].mode) :
        \E f \in First(c) \cup IF job[p].do = "resume" /\ c.mode # "random"
                               THEN UNION {SetCurrent(c, i) : i \in Range(c.items)} ELSE {} :
          JobGoes(p, [job[p] EXCEPT !.cursor = f, !.at = "insert"])
  BY DEF ApplyFirst
<1>4. PICK f \in First(c) \cup IF job[p].do = "resume" /\ c.mode # "random"
                               THEN UNION {SetCurrent(c, i) : i \in Range(c.items)} ELSE {} :
        JobGoes(p, [job[p] EXCEPT !.cursor = f, !.at = "insert"])
  BY <1>3
<1>5. CursorOf(f, job[p].items, job[p].mode)
  <2>1. IsCursor(c) /\ c.items = job[p].items /\ c.mode = job[p].mode
    BY NewKeeps DEF CursorOf
  <2>2. f \in First(c) \/ \E i : f \in SetCurrent(c, i)
    BY <1>4
  <2>3. CursorOf(f, c.items, c.mode)
    BY <2>1, <2>2, FirstKeeps, SetCurrentKeeps
  <2> QED BY <2>1, <2>3
<1>6. PICK j : JobGoes(p, j) /\ j = [job[p] EXCEPT !.cursor = f, !.at = "insert"]
  BY <1>4
<1>7. /\ IsJob(j) /\ j.todo = job[p].todo /\ j.at = "insert" /\ j.cursor = f /\ j.saw = job[p].saw
      /\ j.do = job[p].do /\ j.on = job[p].on /\ j.items = job[p].items /\ j.mode = job[p].mode
  BY <1>2, <1>6 DEF Knows, IsJob
<1>8. Only(p) /\ job'[p] = j
  BY <1>2, <1>6, GoesAlone
<1>9. j.saw = edits => exists /\ j.mode = mode /\ AsListed(j.items)
  BY <1>1, <1>2, <1>7 DEF Knows, HasRead, OnOne
<1>10. j.saw = edits' => exists' /\ j.mode = mode' /\ AsListed(j.items)'
  BY <1>1, <1>9, StillListed
<1>11. Knows(p)'
  BY <1>1, <1>2, <1>5, <1>7, <1>8, <1>10 DEF Knows, Steps, Starting, Stopping, OnOne
<1>12. \A d \in Owned : ~WillSee(p, d)
  BY <1>1, <1>2 DEF WillSee, Starting
<1>13. ASSUME NEW d \in job[p].todo, p = Watcher, job[p].do = "resume" PROVE ToResume(d)'
  BY <1>7, <1>8, <1>13 DEF ToResume
<1> QED BY <1>1, <1>7, <1>8, <1>11, <1>12, <1>13, InnerStep

LEMMA ShowOneKeeps ==
  ASSUME PlayInv, NEW p \in Actors, ShowOne(p)
  PROVE  PlayInv'
<1>1. /\ UNCHANGED <<here, everHere, feed, assigned, exists, list, mode, gone, rot, cursor, rots>>
      /\ UNCHANGED <<crossed, refused, edits, stale>> /\ job[p].at = "show"
  BY DEF ShowOne, displayVars, wantVars, listVars, engineVars, history
<1>2. Knows(p) /\ job[p].do \in {"rebuild", "jump"} /\ PlayShape
  BY <1>1 DEF PlayInv, Knows
<1>3. CASE job[p].do = "jump" /\ job[p].item \in gone
  <2>1. JobGoes(p, NoJob)
    BY <1>3 DEF ShowOne
  <2>2. \A d \in Owned \ stale : ~WillSee(p, d)
    BY <1>3 DEF WillSee
  <2> QED BY <1>1, <1>3, <2>1, <2>2, EndKeeps DEF OnOne
<1>4. CASE ~(job[p].do = "jump" /\ job[p].item \in gone)
  <2>1. PICK j : JobGoes(p, j) /\ j = [job[p] EXCEPT !.at = "cursors"]
    BY <1>4 DEF ShowOne
  <2>2. /\ j.at = "cursors" /\ j.do = job[p].do /\ j.bound = job[p].bound /\ j.todo = job[p].todo
        /\ j.items = job[p].items /\ j.mode = job[p].mode /\ j.saw = job[p].saw /\ IsJob(j)
    BY <1>2, <2>1 DEF Knows, IsJob
  <2>3. Only(p) /\ job'[p] = j
    BY <1>2, <2>1, GoesAlone
  <2>4. (\A b : IsBound(b)' <=> IsBound(b)) /\ Owned' = Owned
    BY <1>1 DEF IsBound, Owned
  <2>5. j.do = "rebuild" /\ j.saw = edits => exists /\ j.mode = mode /\ AsListed(j.items)
    BY <1>1, <1>2, <2>2 DEF Knows, HasRead
  <2>6. j.do = "rebuild" /\ j.saw = edits' => exists' /\ j.mode = mode' /\ AsListed(j.items)'
    BY <1>1, <2>5, StillListed
  <2>7. Knows(p)'
    BY <1>1, <1>2, <2>2, <2>3, <2>4, <2>6 DEF Knows, Steps, Starting, Stopping, OnOne, HasRead
  <2>8. ASSUME NEW d \in Owned, WillSee(p, d) PROVE WillSee(p, d)'
    BY <1>1, <1>2, <2>2, <2>3, <2>8 DEF WillSee
  <2>9. job[p].do # "resume"
    BY <1>2
  <2> QED BY <1>1, <2>2, <2>3, <2>7, <2>8, <2>9, InnerStep DEF OnOne
<1> QED BY <1>3, <1>4

LEMMA DoneKeeps ==
  ASSUME PlayInv, NEW p \in Actors, CursorsDone(p) \/ Finish(p)
  PROVE  PlayInv'
<1>1. /\ UNCHANGED <<here, everHere, feed, assigned, exists, list, mode, gone, rot, cursor, rots>>
      /\ UNCHANGED <<crossed, refused, edits, stale>> /\ JobGoes(p, NoJob)
      /\ \/ job[p].at = "cursors" /\ job[p].bound = {}
         \/ job[p].at = "displays" /\ job[p].todo = {}
  BY DEF CursorsDone, Finish, displayVars, wantVars, listVars, engineVars, history
<1>2. Knows(p)
  BY DEF PlayInv
<1>3. \A d \in Owned \ stale : ~WillSee(p, d)
  BY <1>1 DEF WillSee
<1>4. job[p].do # "resume" \/ job[p].todo = {}
  BY <1>1, <1>2 DEF Knows
<1> QED BY <1>1, <1>3, <1>4, EndKeeps DEF OnOne

LEMMA DetachKeeps ==
  ASSUME PlayInv, NEW p \in Actors, NEW d \in Displays, Detach(p, d)
  PROVE  PlayInv'
<1>1. /\ UNCHANGED <<here, everHere, feed, assigned, exists, list, mode, gone, cursor, rots, edits, stale>>
      /\ d \in job[p].todo /\ job[p].at = "displays" /\ rot' = [rot EXCEPT ![d] = 0]
      /\ crossed' = (IF \E q \in Actors \ {p} : IsOn(q, d) THEN crossed \cup {d} ELSE crossed \ {d})
      /\ refused' = refused \ {d}
  BY DEF Detach, displayVars, wantVars, listVars
<1>2. Knows(p) /\ job[p].do \in Starting \cup Stopping /\ PlayShape
  BY <1>1 DEF PlayInv, Knows
<1>3. PICK j : /\ JobGoes(p, j)
               /\ j = [job[p] EXCEPT !.todo = @ \ {d}, !.on = d,
                         !.at = IF job[p].do \in {"activate", "resume"} THEN "apply" ELSE "persist"]
  BY DEF Detach
<1>4. /\ IsJob(j) /\ j.todo = job[p].todo \ {d} /\ j.on = d /\ j.do = job[p].do /\ j.items = job[p].items
      /\ j.mode = job[p].mode /\ j.saw = job[p].saw /\ j.bound = job[p].bound
      /\ j.at = IF job[p].do \in {"activate", "resume"} THEN "apply" ELSE "persist"
  BY <1>2, <1>3 DEF Knows, IsJob
<1>5. Only(p) /\ job'[p] = j
  BY <1>2, <1>3, GoesAlone
<1>6. Owned' = Owned \ {d} /\ rot' \in [Displays -> 0..rots] /\ \A e \in Displays \ {d} : rot'[e] = rot[e]
  BY <1>1, <1>2 DEF Owned, PlayShape
<1>7. ListGoesOn /\ RotsGoOn
  BY <1>1, <1>2, StillListed DEF ListGoesOn, RotsGoOn, PlayShape
<1>8. PlayShape'
  BY <1>1, <1>2, <1>5, <1>6 DEF PlayShape, Only
<1>9. Knows(p)'
  <2>1. d \in everHere
    BY <1>1, <1>2 DEF Knows
  <2>2. ASSUME j.do = "delete" PROVE \A b \in j.bound : IsBound(b)'
    BY <1>2, <1>4, <1>7, <2>2, <1>1, StillBound DEF Knows, PlayShape
  <2>3. ASSUME j.do = "delete", NEW e \in Owned', <<e, rot'[e]>> \in j.bound PROVE e \in j.todo
    BY <1>2, <1>4, <1>6, <2>3 DEF Knows, Owned
  <2>4. HasRead(j) /\ j.saw = edits => exists /\ j.mode = mode /\ AsListed(j.items)
    BY <1>1, <1>2, <1>4 DEF Knows, HasRead, Starting, Stopping, OnOne
  <2>5. HasRead(j) /\ j.saw = edits' => exists' /\ j.mode = mode' /\ AsListed(j.items)'
    BY <1>1, <2>4, StillListed
  <2>6. j.at = (IF j.do \in Starting THEN "apply" ELSE "persist")
    BY <1>4 DEF Starting
  <2>7. j.todo \subseteq everHere /\ j.saw \in 0..edits /\ (j.do = "resume" => p = Watcher)
    BY <1>2, <1>4 DEF Knows
  <2> QED BY <1>1, <1>2, <1>4, <1>5, <2>1, <2>2, <2>3, <2>5, <2>6, <2>7 DEF Knows, Steps, Starting, Stopping, OnOne
<1>10. ASSUME NEW q \in Actors PROVE Knows(q)'
  <2>1. CASE q = p
    BY <1>9, <2>1
  <2>2. CASE q # p
    BY <1>1, <1>2, <1>5, <1>7, <2>2, OthersKnow DEF PlayInv, Only, PlayShape
  <2> QED BY <2>1, <2>2
<1>11. ASSUME NEW e \in here \ crossed' PROVE Follows(e)'
  <2>1. CASE e = d
    <3>1. \A q \in Actors \ {p} : ~IsOn(q, d)
      BY <1>1, <1>11, <2>1
    <3>2. \A q \in Actors \ {p} : ~IsOn(q, d)'
      BY <1>5, <3>1 DEF IsOn, Only
    <3>3. IsOn(p, d)' /\ (j.at = "persist" => j.do \notin Starting)
      BY <1>4, <1>5 DEF IsOn, Starting
    <3>4. d \notin Owned'
      BY <1>6
    <3> QED BY <1>5, <2>1, <3>2, <3>3, <3>4 DEF Follows
  <2>2. CASE e # d
    <3>1. Follows(e) /\ e \in Displays
      BY <1>1, <1>2, <2>2 DEF PlayInv, PlayShape
    <3>2. ~IsOn(p, e) /\ ~IsOn(p, e)'
      BY <1>1, <1>4, <1>5, <2>2 DEF IsOn
    <3>3. ToResume(e) => ToResume(e)'
      BY <1>1, <1>4, <1>5, <2>2 DEF ToResume, Only, Actors
    <3> QED BY <1>1, <1>5, <1>6, <2>2, <3>1, <3>2, <3>3, FollowsOn
  <2> QED BY <2>1, <2>2
<1>12. ASSUME NEW e \in Owned' \ stale PROVE Plays(e)'
  <2>1. e \in Owned /\ e # d /\ e \in Displays /\ Plays(e)
    BY <1>6 DEF PlayInv, Owned
  <2>2. WillSee(p, e) => WillSee(p, e)'
    BY <1>1, <1>2, <1>4, <1>5, <2>1 DEF WillSee, Starting
  <2> QED BY <1>1, <1>5, <1>6, <1>7, <2>1, <2>2, PlaysOn
<1> QED BY <1>1, <1>8, <1>10, <1>11, <1>12 DEF PlayInv

LEMMA InsertKeeps ==
  ASSUME PlayInv, NEW p \in Actors, Insert(p)
  PROVE  PlayInv'
<1>0. PICK d : d = job[p].on
  OBVIOUS
<1>1. /\ UNCHANGED <<here, everHere, feed, assigned, exists, list, mode, gone, crossed, refused, edits>>
      /\ job[p].at = "insert" /\ rots' = rots + 1 /\ rot' = [rot EXCEPT ![d] = rots + 1]
      /\ cursor' = Append(cursor, job[p].cursor) /\ FollowsEdits(p, d)
  BY <1>0 DEF Insert, displayVars, wantVars, listVars
<1>2. /\ Knows(p) /\ PlayShape /\ job[p].do \in Starting /\ d \in Displays /\ d \in everHere
      /\ CursorOf(job[p].cursor, job[p].items, job[p].mode)
  BY <1>0, <1>1 DEF PlayInv, Knows, PlayShape, OnOne
<1>3. PICK j : JobGoes(p, j) /\ j = [job[p] EXCEPT !.cursor = <<>>, !.at = "persist"]
  BY DEF Insert
<1>4. /\ IsJob(j) /\ j.todo = job[p].todo /\ j.on = d /\ j.do = job[p].do /\ j.items = job[p].items
      /\ j.mode = job[p].mode /\ j.at = "persist" /\ j.saw = job[p].saw
  BY <1>0, <1>2, <1>3 DEF Knows, IsJob
<1>5. Only(p) /\ job'[p] = j
  BY <1>2, <1>3, GoesAlone
<1>6. /\ cursor' = [n \in 1..rots' |-> cursor'[n]] /\ \A n \in 1..rots : cursor'[n] = cursor[n]
      /\ cursor'[rots + 1] = job[p].cursor
  BY <1>1, <1>2, AppendIs DEF PlayShape
<1>7. /\ Owned' = Owned \cup {d} /\ rot' \in [Displays -> 0..rots'] /\ \A e \in Displays \ {d} : rot'[e] = rot[e]
      /\ rot'[d] = rots + 1 /\ \A e \in Owned : rot[e] \in 1..rots
  BY <1>1, <1>2 DEF Owned, PlayShape
<1>8. \A n \in 1..rots' : IsCursor(cursor'[n])
  BY <1>1, <1>2, <1>6 DEF PlayShape, CursorOf
<1>9. ListGoesOn /\ RotsGoOn
  BY <1>1, <1>2, <1>7, StillListed DEF ListGoesOn, RotsGoOn, PlayShape
<1>10. job[p].saw = edits => exists /\ j.mode = mode /\ AsListed(j.items)
  BY <1>1, <1>2, <1>4 DEF Knows, HasRead, OnOne
<1>11. job[p].saw = edits => exists' /\ j.mode = mode' /\ AsListed(j.items)'
  BY <1>1, <1>10, StillListed
<1>12. stale' = IF job[p].saw = edits THEN stale \ {d} ELSE stale \cup {d}
  BY <1>1 DEF FollowsEdits
<1>13. PlayShape'
  <2>1. rots' \in Nat
    BY <1>1, <1>2 DEF PlayShape
  <2>2. \A e, f \in Owned' : rot'[e] = rot'[f] => e = f
    <3>1. \A e \in Owned \ {d} : rot'[e] = rot[e] /\ rot'[e] # rots + 1
      BY <1>2, <1>7 DEF PlayShape, Owned
    <3> QED BY <1>2, <1>7, <3>1 DEF PlayShape
  <2>3. ~exists' => Owned' \subseteq stale'
    BY <1>1, <1>2, <1>7, <1>10, <1>12 DEF PlayShape
  <2> QED BY <1>1, <1>2, <1>5, <1>6, <1>7, <1>8, <2>1, <2>2, <2>3 DEF PlayShape, Only
<1>14. Knows(p)'
  <2>1. j.todo \subseteq everHere /\ j.saw \in 0..edits /\ (j.do = "resume" => p = Watcher) /\ j.do \in Starting
    BY <1>2, <1>4 DEF Knows
  <2> QED BY <1>1, <1>2, <1>4, <1>5, <1>11, <2>1 DEF Knows, Steps, Starting, Stopping, OnOne
<1>15. ASSUME NEW q \in Actors PROVE Knows(q)'
  <2>1. CASE q = p
    BY <1>14, <2>1
  <2>2. CASE q # p
    BY <1>1, <1>2, <1>5, <1>9, <2>2, OthersKnow DEF PlayInv, Only, PlayShape
  <2> QED BY <2>1, <2>2
<1>16. ASSUME NEW e \in here \ crossed PROVE Follows(e)'
  <2>0. Follows(e) /\ e \in Displays
    BY <1>2 DEF PlayInv, PlayShape
  <2>1. CASE e = d
    <3>1. IsOn(p, d) /\ IsOn(p, d)'
      BY <1>0, <1>1, <1>4, <1>5 DEF IsOn
    <3>2. \A q \in Actors \ {p} : ~IsOn(q, d)
      BY <2>0, <2>1, <3>1 DEF Follows
    <3>3. \A q \in Actors \ {p} : ~IsOn(q, d)'
      BY <1>5, <3>2 DEF IsOn, Only
    <3> QED BY <1>2, <1>4, <1>5, <1>7, <2>1, <3>1, <3>3 DEF Follows
  <2>2. CASE e # d
    <3>1. ~IsOn(p, e) /\ ~IsOn(p, e)'
      BY <1>0, <1>4, <1>5, <2>2 DEF IsOn
    <3>2. ToResume(e) => ToResume(e)'
      BY <1>1, <1>4, <1>5, <2>2 DEF ToResume, Only, Actors
    <3> QED BY <1>1, <1>5, <1>7, <2>0, <2>2, <3>1, <3>2, FollowsOn
  <2> QED BY <2>1, <2>2
<1>17. ASSUME NEW e \in Owned' \ stale' PROVE Plays(e)'
  <2>1. CASE e = d
    <3>1. exists' /\ j.mode = mode' /\ AsListed(j.items)'
      BY <1>11, <1>12, <1>17, <2>1
    <3>2. cursor'[rot'[d]].items = j.items /\ cursor'[rot'[d]].mode = j.mode
      BY <1>2, <1>4, <1>6, <1>7 DEF CursorOf
    <3>3. Current(d)'
      BY <3>1, <3>2 DEF Current, AsListed
    <3> QED BY <2>1, <3>3 DEF Plays
  <2>2. CASE e # d
    <3>1. e \in Owned \ stale /\ e \in Displays /\ Plays(e)
      BY <1>7, <1>12, <2>2 DEF PlayInv, Owned
    <3>2. ~WillSee(p, e)
      BY <1>1, <1>2 DEF WillSee, Starting
    <3> QED BY <1>1, <1>5, <1>6, <1>7, <1>9, <2>2, <3>1, <3>2, PlaysOn
  <2> QED BY <2>1, <2>2
<1> QED BY <1>1, <1>13, <1>15, <1>16, <1>17 DEF PlayInv

LEMMA PersistKeeps ==
  ASSUME PlayInv, NEW p \in Actors, Persist(p)
  PROVE  PlayInv'
<1>0. PICK d : d = job[p].on
  OBVIOUS
<1>1. /\ UNCHANGED <<here, everHere, feed, exists, list, mode, gone, rot, cursor, rots,
                     crossed, refused, edits, stale>>
      /\ job[p].at = "persist"
      /\ assigned' = IF d \notin here THEN assigned
                     ELSE IF job[p].do \in Starting THEN assigned \cup {d} ELSE assigned \ {d}
  BY <1>0 DEF Persist, displayVars, listVars, engineVars, history, Starting
<1>2. Knows(p) /\ PlayShape /\ job[p].do \in Starting \cup Stopping
  BY <1>1 DEF PlayInv, Knows
<1>3. PICK j : JobGoes(p, j) /\ j = [job[p] EXCEPT !.at = "displays"]
  BY DEF Persist
<1>4. /\ IsJob(j) /\ j.todo = job[p].todo /\ j.on = d /\ j.do = job[p].do /\ j.items = job[p].items
      /\ j.mode = job[p].mode /\ j.at = "displays" /\ j.saw = job[p].saw /\ j.bound = job[p].bound
  BY <1>0, <1>2, <1>3 DEF Knows, IsJob
<1>5. Only(p) /\ job'[p] = j
  BY <1>2, <1>3, GoesAlone
<1>6. Owned' = Owned /\ \A b : IsBound(b)' <=> IsBound(b)
  BY <1>1 DEF Owned, IsBound
<1>7. ListGoesOn /\ RotsGoOn
  BY <1>1, <1>2, StillListed DEF ListGoesOn, RotsGoOn, PlayShape
<1>8. PlayShape'
  BY <1>1, <1>2, <1>5, <1>6 DEF PlayShape, Only
<1>9. HasRead(j) /\ j.saw = edits => exists /\ j.mode = mode /\ AsListed(j.items)
  BY <1>1, <1>2, <1>4 DEF Knows, HasRead, Starting, Stopping, OnOne
<1>10. HasRead(j) /\ j.saw = edits' => exists' /\ j.mode = mode' /\ AsListed(j.items)'
  BY <1>1, <1>9, StillListed
<1>11. Knows(p)'
  BY <1>1, <1>2, <1>4, <1>5, <1>6, <1>10 DEF Knows, Steps, OnOne
<1>12. ASSUME NEW q \in Actors PROVE Knows(q)'
  <2>1. CASE q = p
    BY <1>11, <2>1
  <2>2. CASE q # p
    BY <1>1, <1>2, <1>5, <1>7, <2>2, OthersKnow DEF PlayInv, Only, PlayShape
  <2> QED BY <2>1, <2>2
<1>13. ASSUME NEW e \in here \ crossed PROVE Follows(e)'
  <2>0. Follows(e) /\ e \in Displays
    BY <1>2 DEF PlayInv, PlayShape
  <2>1. CASE e = d
    <3>1. IsOn(p, d) /\ ~IsOn(p, d)'
      BY <1>0, <1>1, <1>4, <1>5 DEF IsOn
    <3>2. \A q \in Actors \ {p} : ~IsOn(q, d)
      BY <2>0, <2>1, <3>1 DEF Follows
    <3>3. \A q \in Actors : ~IsOn(q, d)'
      BY <1>5, <3>1, <3>2 DEF IsOn, Only
    <3>4. d \in Owned <=> job[p].do \in Starting
      BY <1>1, <2>0, <2>1, <3>1 DEF Follows
    <3>5. d \in assigned' <=> job[p].do \in Starting
      BY <1>1, <2>1
    <3> QED BY <1>6, <2>1, <3>3, <3>4, <3>5 DEF Follows
  <2>2. CASE e # d
    <3>1. ~IsOn(p, e) /\ ~IsOn(p, e)'
      BY <1>0, <1>4, <1>5, <2>2 DEF IsOn
    <3>2. ToResume(e) => ToResume(e)'
      BY <1>1, <1>4, <1>5, <2>2 DEF ToResume, Only, Actors
    <3> QED BY <1>1, <1>5, <1>6, <2>0, <2>2, <3>1, <3>2, FollowsOn
  <2> QED BY <2>1, <2>2
<1>14. ASSUME NEW e \in Owned \ stale PROVE Plays(e)'
  <2>1. e \in Displays /\ Plays(e)
    BY DEF PlayInv, Owned
  <2>2. WillSee(p, e) => WillSee(p, e)'
    BY <1>1, <1>4, <1>5 DEF WillSee
  <2> QED BY <1>1, <1>5, <1>7, <2>1, <2>2, PlaysOn
<1> QED BY <1>1, <1>6, <1>8, <1>12, <1>13, <1>14 DEF PlayInv

LEMMA FinishDeleteKeeps ==
  ASSUME PlayInv, NEW p \in Actors, FinishDelete(p)
  PROVE  PlayInv'
<1>1. /\ UNCHANGED <<here, everHere, feed, assigned, mode, gone, rot, cursor, rots, crossed, refused>>
      /\ job[p].at = "displays" /\ job[p].do = "delete" /\ job[p].todo = {} /\ edits' = edits + 1
      /\ list' = <<>> /\ JobGoes(p, NoJob) /\ stale' = stale \cup {d \in Owned : <<d, rot[d]>> \notin job[p].bound}
  BY DEF FinishDelete, displayVars, wantVars, engineVars, Edited
<1>2. Knows(p) /\ PlayShape /\ Owned' = Owned
  BY <1>1 DEF PlayInv, Owned
<1>3. Only(p) /\ job'[p] = NoJob
  BY <1>1, <1>2, GoesAlone
<1>4. ListGoesOn /\ RotsGoOn
  BY <1>1, <1>2 DEF ListGoesOn, RotsGoOn, PlayShape
<1>5. Owned \subseteq stale'
  BY <1>1, <1>2 DEF Knows
<1>6. PlayShape'
  BY <1>1, <1>2, <1>3, <1>5 DEF PlayShape, Only
<1>7. Knows(p)'
  BY <1>3, <1>6, IdleKnows DEF PlayShape
<1>8. ASSUME NEW q \in Actors PROVE Knows(q)'
  <2>1. CASE q = p
    BY <1>7, <2>1
  <2>2. CASE q # p
    BY <1>1, <1>2, <1>3, <1>4, <2>2, OthersKnow DEF PlayInv, Only, PlayShape
  <2> QED BY <2>1, <2>2
<1>9. ASSUME NEW e \in here \ crossed PROVE Follows(e)'
  <2>1. Follows(e) /\ ~IsOn(p, e) /\ ~IsOn(p, e)'
    BY <1>1, <1>3, NoJobIs DEF PlayInv, IsOn
  <2>2. ToResume(e) => ToResume(e)'
    BY <1>1, <1>3 DEF ToResume, Only, Actors
  <2> QED BY <1>1, <1>2, <1>3, <2>1, <2>2, FollowsOn
<1> QED BY <1>1, <1>2, <1>5, <1>6, <1>8, <1>9 DEF PlayInv

\* The cursor of one rotation moves.
CursorMoves(n, c) == cursor' = [cursor EXCEPT ![n] = c]

LEMMA MovedCursor ==
  ASSUME PlayShape, NEW n \in 1..rots, NEW c, CursorMoves(n, c), IsCursor(c)
  PROVE  /\ cursor' = [m \in 1..rots |-> cursor'[m]] /\ \A m \in 1..rots : IsCursor(cursor'[m])
         /\ cursor'[n] = c /\ \A m \in 1..rots \ {n} : cursor'[m] = cursor[m]
BY DEF PlayShape, CursorMoves

LEMMA RebuildOneKeeps ==
  ASSUME PlayInv, NEW p \in Actors, NEW b \in job[p].bound, RebuildOne(p, b)
  PROVE  PlayInv'
<1>1. /\ UNCHANGED <<here, everHere, feed, assigned, exists, list, mode, gone, rot, rots, crossed, refused, edits>>
      /\ job[p].at = "cursors" /\ job[p].do = "rebuild"
      /\ IF rot[b[1]] = b[2] THEN FollowsEdits(p, b[1]) ELSE UNCHANGED stale
  BY DEF RebuildOne, displayVars, wantVars, listVars
<1>2. /\ Knows(p) /\ PlayShape /\ IsBound(b) /\ b[2] \in 1..rots /\ b = <<b[1], b[2]>> /\ b[1] \in Displays
      /\ Owned' = Owned /\ \A x : IsBound(x)' <=> IsBound(x)
  BY <1>1 DEF PlayInv, Knows, IsBound, PlayShape, Owned
<1>3. PICK c \in Rebuilt(cursor[b[2]], job[p].items, job[p].mode) :
        /\ CursorMoves(b[2], c)
        /\ JobGoes(p, [job[p] EXCEPT !.bound = @ \ {b}, !.on = b[1], !.item = c.current,
                         !.at = IF Holds(c, cursor[b[2]].current) THEN "cursors" ELSE "show"])
  BY DEF RebuildOne, CursorMoves
<1>4. CursorOf(c, job[p].items, job[p].mode) /\ IsCursor(c)
  BY <1>2, <1>3, RebuiltIs DEF PlayShape, CursorOf
<1>5. /\ cursor' = [m \in 1..rots |-> cursor'[m]] /\ \A m \in 1..rots : IsCursor(cursor'[m])
      /\ cursor'[b[2]] = c /\ \A m \in 1..rots \ {b[2]} : cursor'[m] = cursor[m]
  BY <1>2, <1>3, <1>4, MovedCursor
<1>6. PICK j : /\ JobGoes(p, j)
               /\ j = [job[p] EXCEPT !.bound = @ \ {b}, !.on = b[1], !.item = c.current,
                         !.at = IF Holds(c, cursor[b[2]].current) THEN "cursors" ELSE "show"]
  BY <1>3
<1>7. /\ IsJob(j) /\ j.todo = job[p].todo /\ j.do = "rebuild" /\ j.items = job[p].items
      /\ j.mode = job[p].mode /\ j.at \in {"cursors", "show"} /\ j.saw = job[p].saw
      /\ j.bound = job[p].bound \ {b}
  BY <1>1, <1>2, <1>6 DEF Knows, IsJob
<1>8. Only(p) /\ job'[p] = j
  BY <1>2, <1>6, GoesAlone
<1>9. ListGoesOn /\ RotsGoOn
  BY <1>1, <1>2, StillListed DEF ListGoesOn, RotsGoOn, PlayShape
<1>10. j.saw = edits => exists /\ j.mode = mode /\ AsListed(j.items)
  BY <1>1, <1>2, <1>7 DEF Knows, HasRead
<1>11. j.saw = edits' => exists' /\ j.mode = mode' /\ AsListed(j.items)'
  BY <1>1, <1>10, StillListed
<1>12. stale' = IF rot[b[1]] # b[2] THEN stale ELSE IF j.saw = edits THEN stale \ {b[1]} ELSE stale \cup {b[1]}
  BY <1>1, <1>7 DEF FollowsEdits
<1>13. PlayShape'
  <2>1. ~exists => Owned \subseteq stale'
    BY <1>2, <1>10, <1>12 DEF PlayShape
  <2> QED BY <1>1, <1>2, <1>5, <1>8, <2>1 DEF PlayShape, Only
<1>14. Knows(p)'
  BY <1>1, <1>2, <1>7, <1>8, <1>11 DEF Knows, Steps, Starting, Stopping, OnOne
<1>15. ASSUME NEW q \in Actors PROVE Knows(q)'
  <2>1. CASE q = p
    BY <1>14, <2>1
  <2>2. CASE q # p
    BY <1>1, <1>2, <1>8, <1>9, <2>2, OthersKnow DEF PlayInv, Only, PlayShape
  <2> QED BY <2>1, <2>2
<1>16. ASSUME NEW e \in here \ crossed PROVE Follows(e)'
  <2>1. Follows(e) /\ ~IsOn(p, e) /\ ~IsOn(p, e)'
    BY <1>1, <1>7, <1>8 DEF PlayInv, IsOn
  <2>2. ToResume(e) => ToResume(e)'
    BY <1>1, <1>7, <1>8 DEF ToResume, Only, Actors
  <2> QED BY <1>1, <1>2, <1>8, <2>1, <2>2, FollowsOn
<1>17. ASSUME NEW e \in Owned \ stale' PROVE Plays(e)'
  <2>0. e \in Displays /\ rot[e] \in 1..rots
    BY <1>2 DEF Owned, PlayShape
  <2>1. CASE rot[e] = b[2]
    <3>1. e = b[1]
      BY <1>2, <2>1 DEF IsBound
    <3>2. exists' /\ j.mode = mode' /\ AsListed(j.items)'
      BY <1>1, <1>11, <1>12, <1>17, <2>1, <3>1
    <3>3. cursor'[rot'[e]].items = j.items /\ cursor'[rot'[e]].mode = j.mode
      BY <1>1, <1>4, <1>5, <1>7, <2>1 DEF CursorOf
    <3>4. Current(e)'
      BY <3>2, <3>3 DEF Current, AsListed
    <3> QED BY <3>4 DEF Plays
  <2>2. CASE rot[e] # b[2]
    <3>1. e \notin stale /\ Plays(e)
      BY <1>12, <2>2, <1>17 DEF PlayInv
    <3>2. <<e, rot[e]>> # b
      BY <2>2
    <3>3. WillSee(p, e) => WillSee(p, e)'
      BY <1>1, <1>7, <1>8, <3>2 DEF WillSee
    <3>4. cursor'[rot[e]] = cursor[rot[e]]
      BY <1>5, <2>0, <2>2
    <3> QED BY <1>1, <1>8, <1>9, <3>1, <3>3, <3>4, PlaysOn
  <2> QED BY <2>1, <2>2
<1> QED BY <1>1, <1>2, <1>13, <1>15, <1>16, <1>17 DEF PlayInv

\* A cursor that moves is of the same list.
LEMMA MoveStep ==
  ASSUME PlayInv, NEW p \in Actors, Only(p), Knows(p)',
         UNCHANGED <<here, everHere, feed, assigned, exists, list, mode, gone, rot, rots,
                     crossed, refused, edits, stale>>,
         NEW n \in 1..rots, NEW c, CursorMoves(n, c), CursorOf(c, cursor[n].items, cursor[n].mode),
         job'[p] = job[p] \/ (job[p].at \notin OnOne /\ job'[p].at \notin OnOne),
         job'[p].do = job[p].do, job'[p].todo = job[p].todo,
         \A d \in Owned : WillSee(p, d) => WillSee(p, d)'
  PROVE  PlayInv'
<1>1. PlayShape /\ Owned' = Owned
  BY DEF PlayInv, Owned
<1>2. /\ cursor' = [m \in 1..rots |-> cursor'[m]] /\ \A m \in 1..rots : IsCursor(cursor'[m])
      /\ cursor'[n] = c /\ \A m \in 1..rots \ {n} : cursor'[m] = cursor[m]
  BY <1>1, MovedCursor DEF CursorOf
<1>3. PlayShape'
  BY <1>1, <1>2 DEF PlayShape, Only
<1>4. ListGoesOn /\ RotsGoOn
  BY <1>1, StillListed DEF ListGoesOn, RotsGoOn, PlayShape
<1>5. ASSUME NEW q \in Actors PROVE Knows(q)'
  <2>1. CASE q = p
    BY <2>1
  <2>2. CASE q # p
    BY <1>1, <1>4, <2>2, OthersKnow DEF PlayInv, Only, PlayShape
  <2> QED BY <2>1, <2>2
<1>6. ASSUME NEW d \in here \ crossed PROVE Follows(d)'
  <2>1. Follows(d) /\ (IsOn(p, d)' <=> IsOn(p, d))
    BY DEF PlayInv, IsOn, OnOne
  <2>2. IsOn(p, d) => job'[p] = job[p]
    BY DEF IsOn, OnOne
  <2>3. ToResume(d) => ToResume(d)'
    BY DEF ToResume, Only, Actors
  <2> QED BY <1>1, <2>1, <2>2, <2>3, FollowsOn
<1>7. ASSUME NEW d \in Owned \ stale PROVE Plays(d)'
  <2>1. Plays(d) /\ rot[d] \in 1..rots
    BY <1>1 DEF PlayInv, PlayShape, Owned
  <2>2. cursor'[rot[d]].items = cursor[rot[d]].items /\ cursor'[rot[d]].mode = cursor[rot[d]].mode
    BY <1>2, <2>1 DEF CursorOf
  <2> QED BY <1>4, <2>1, <2>2, PlaysOn
<1> QED BY <1>1, <1>3, <1>5, <1>6, <1>7 DEF PlayInv

LEMMA JumpOneKeeps ==
  ASSUME PlayInv, NEW p \in Actors, NEW b \in job[p].bound, JumpOne(p, b)
  PROVE  PlayInv'
<1>1. /\ UNCHANGED <<here, everHere, feed, assigned, exists, list, mode, gone, rot, rots,
                     crossed, refused, edits, stale>>
      /\ job[p].at = "cursors" /\ job[p].do = "jump"
  BY DEF JumpOne, displayVars, wantVars, listVars, history
<1>2. /\ Knows(p) /\ PlayShape /\ b[2] \in 1..rots
      /\ Owned' = Owned /\ \A x : IsBound(x)' <=> IsBound(x)
  BY <1>1 DEF PlayInv, Knows, IsBound, PlayShape, Owned
<1>3. \A d \in Owned : ~WillSee(p, d)
  BY <1>1 DEF WillSee
<1>4. ASSUME NEW j, JobGoes(p, j), IsJob(j), j.todo = job[p].todo, j.do = "jump", j.at \in {"cursors", "show"},
             j.bound \subseteq job[p].bound, j.saw = job[p].saw
      PROVE  Knows(p)' /\ Only(p) /\ job'[p] = j
  <2>1. Only(p) /\ job'[p] = j
    BY <1>2, <1>4, GoesAlone
  <2> QED BY <1>1, <1>2, <1>4, <2>1 DEF Knows, Steps, Starting, Stopping, OnOne, HasRead
<1>5. CASE Holds(cursor[b[2]], job[p].item)
  <2>1. PICK c \in SetCurrent(cursor[b[2]], job[p].item) : CursorMoves(b[2], c)
    BY <1>5 DEF JumpOne, CursorMoves
  <2>2. CursorOf(c, cursor[b[2]].items, cursor[b[2]].mode)
    BY <1>2, <2>1, SetCurrentKeeps DEF PlayShape
  <2>3. PICK j : JobGoes(p, j) /\ j = [job[p] EXCEPT !.bound = @ \ {b}, !.on = b[1], !.at = "show"]
    BY <1>5 DEF JumpOne
  <2>4. /\ IsJob(j) /\ j.todo = job[p].todo /\ j.do = "jump" /\ j.at = "show"
        /\ j.bound = job[p].bound \ {b} /\ j.saw = job[p].saw
    BY <1>1, <1>2, <2>3 DEF Knows, IsJob
  <2>5. Knows(p)' /\ Only(p) /\ job'[p] = j
    BY <1>4, <2>3, <2>4
  <2> QED BY <1>1, <1>2, <1>3, <2>1, <2>2, <2>4, <2>5, MoveStep DEF OnOne
<1>6. CASE ~Holds(cursor[b[2]], job[p].item)
  <2>1. cursor' = cursor
    BY <1>6 DEF JumpOne
  <2>2. PICK j : JobGoes(p, j) /\ j = [job[p] EXCEPT !.bound = @ \ {b}]
    BY <1>6 DEF JumpOne
  <2>3. /\ IsJob(j) /\ j.todo = job[p].todo /\ j.do = "jump" /\ j.at = "cursors"
        /\ j.bound = job[p].bound \ {b} /\ j.saw = job[p].saw
    BY <1>1, <1>2, <2>2 DEF Knows, IsJob
  <2>4. Knows(p)' /\ Only(p) /\ job'[p] = j
    BY <1>4, <2>2, <2>3
  <2> QED BY <1>1, <1>3, <2>1, <2>3, <2>4, InnerStep DEF OnOne
<1> QED BY <1>5, <1>6

LEMMA JobKeeps ==
  ASSUME PlayInv, NEW p \in Actors, Job(p)
  PROVE  PlayInv'
BY CollectKeeps, ReadKeeps, ResolveKeeps, ResolveNothingKeeps, DetachKeeps, ApplyFirstKeeps, InsertKeeps,
   PersistKeeps, DoneKeeps, FinishDeleteKeeps, RebuildOneKeeps, JumpOneKeeps, ShowOneKeeps DEF Job

-----------------------------------------------------------------------------
(* The watcher, the rotations and the queue.                               *)

LEMMA TickKeeps ==
  ASSUME PlayInv, NEW d \in Displays, Tick(d)
  PROVE  PlayInv'
<1>1. /\ UNCHANGED <<here, everHere, feed, assigned, exists, list, mode, gone, rot, rots,
                     crossed, refused, edits, stale, job>>
      /\ d \in Owned
  BY DEF Tick, displayVars, wantVars, listVars, history
<1>2. PlayShape /\ rot[d] \in 1..rots /\ Watcher \in Actors /\ Owned' = Owned
  BY <1>1 DEF PlayInv, PlayShape, Owned, Actors
<1>3. PICK c \in Next1(cursor[rot[d]]) : CursorMoves(rot[d], c)
  BY DEF Tick, CursorMoves
<1>4. CursorOf(c, cursor[rot[d]].items, cursor[rot[d]].mode)
  BY <1>2, Next1Keeps DEF PlayShape
<1>5. Only(Watcher) /\ ListGoesOn /\ RotsGoOn
  BY <1>1, <1>2, StillListed DEF Only, PlayShape, ListGoesOn, RotsGoOn
<1>6. Knows(Watcher)'
  BY <1>1, <1>2, <1>5, OthersKnow DEF PlayInv, PlayShape
<1>7. \A e \in Owned : WillSee(Watcher, e) => WillSee(Watcher, e)'
  BY <1>1 DEF WillSee
<1> QED BY <1>1, <1>2, <1>3, <1>4, <1>5, <1>6, <1>7, MoveStep

\* Nothing that PlayInv is about changes.
LEMMA StillKeeps ==
  ASSUME PlayInv,
         UNCHANGED <<here, everHere, feed, assigned, exists, list, mode, gone, rot, cursor, rots,
                     crossed, refused, edits, stale, job>>
  PROVE  PlayInv'
<1>1. PlayShape /\ Watcher \in Actors /\ Owned' = Owned
  BY DEF PlayInv, Owned, Actors
<1>2. Only(Watcher) /\ ListGoesOn /\ RotsGoOn
  BY <1>1, StillListed DEF Only, PlayShape, ListGoesOn, RotsGoOn
<1>3. PlayShape'
  BY <1>1 DEF PlayShape
<1>4. ASSUME NEW q \in Actors PROVE Knows(q)'
  BY <1>1, <1>2, OthersKnow DEF PlayInv, PlayShape
<1>5. ASSUME NEW d \in here \ crossed PROVE Follows(d)'
  <2>1. Follows(d) /\ (IsOn(Watcher, d)' <=> IsOn(Watcher, d)) /\ (ToResume(d) => ToResume(d)')
    BY DEF PlayInv, IsOn, ToResume
  <2> QED BY <1>1, <1>2, <2>1, FollowsOn
<1>6. ASSUME NEW d \in Owned \ stale PROVE Plays(d)'
  <2>1. Plays(d) /\ (WillSee(Watcher, d) => WillSee(Watcher, d)')
    BY DEF PlayInv, WillSee
  <2> QED BY <1>1, <1>2, <2>1, PlaysOn
<1> QED BY <1>1, <1>3, <1>4, <1>5, <1>6 DEF PlayInv

LEMMA TickApplyKeeps ==
  ASSUME PlayInv, NEW d \in Displays, TickApply(d)
  PROVE  PlayInv'
<1>1. UNCHANGED <<here, everHere, feed, assigned, exists, list, mode, gone, rot, cursor, rots,
                  crossed, refused, edits, stale, job>>
  BY DEF TickApply, displayVars, wantVars, listVars, history
<1> QED BY <1>1, StillKeeps

QueueStep ==
  \/ \E s \in QueueUsers :
       StepFails(s) \/ StepRandom(s) \/ StepSequential(s) \/ StepLooks(s) \/ StepBuild(s) \/ StepAdvance(s)
       \/ StepApply(s)
  \/ RotatorTick
  \/ \E s \in Steppers, forward \in BOOLEAN : Step(s, forward)
  \/ \E m \in Modes : ResetRound(m)

LEMMA QueueKeeps ==
  ASSUME PlayInv, QueueStep
  PROVE  PlayInv'
<1>1. UNCHANGED <<here, everHere, feed, assigned, exists, list, mode, gone, rot, cursor, rots,
                  crossed, refused, edits, stale, job>>
  BY DEF QueueStep, StepFails, StepRandom, StepSequential, StepLooks, StepBuild, StepAdvance, StepApply,
         RotatorTick, Step, Starts, ResetRound, OnlyQueue, displayVars, wantVars, listVars, engineVars, history
<1> QED BY <1>1, StillKeeps

LEMMA HotplugKeeps ==
  ASSUME PlayInv, HotplugReceives
  PROVE  PlayInv'
<1>0. PICK kind, d : kind = Head(feed)[1] /\ d = Head(feed)[2]
  OBVIOUS
<1>1. /\ UNCHANGED <<here, everHere, assigned, exists, list, mode, gone, cursor, rots,
                     crossed, refused, edits, stale>>
      /\ job[Watcher].at = "idle" /\ feed # <<>> /\ feed' = Tail(feed)
      /\ rot' = IF kind = "removed" THEN [rot EXCEPT ![d] = 0] ELSE rot
  BY <1>0 DEF HotplugReceives, wantVars, listVars, history
<1>2. PICK j : /\ JobGoes(Watcher, j)
               /\ j = IF kind = "upsert" /\ d \notin Owned /\ (d \in assigned \/ attached)
                      THEN [NoJob EXCEPT !.do = "resume", !.at = "read", !.todo = {d}] ELSE NoJob
  BY <1>0 DEF HotplugReceives
<1>3. PlayShape /\ Watcher \in Actors /\ job[Watcher] = NoJob
  BY <1>1 DEF PlayInv, Actors, Knows
<1>4. /\ feed[1] = <<kind, d>> /\ kind \in {"upsert", "removed"} /\ d \in everHere /\ 1 \in DOMAIN feed
      /\ feed' \in Seq({"upsert", "removed"} \X everHere)
      /\ \A i \in DOMAIN feed : i # 1 => i - 1 \in DOMAIN feed' /\ feed'[i - 1] = feed[i]
      /\ \A i \in DOMAIN feed' : i + 1 \in DOMAIN feed /\ feed'[i] = feed[i + 1]
  <2> DEFINE S == {"upsert", "removed"} \X everHere
  <2>1. feed \in Seq(S)
    BY <1>3 DEF PlayShape
  <2> HIDE DEF S
  <2>2. /\ feed[1] \in S /\ Head(feed) = feed[1] /\ Len(feed) \in Nat \ {0} /\ DOMAIN feed = 1..Len(feed)
        /\ feed' \in Seq(S) /\ Len(feed') = Len(feed) - 1 /\ DOMAIN feed' = 1..(Len(feed) - 1)
        /\ \A i \in 1..(Len(feed) - 1) : feed'[i] = feed[i + 1]
    BY <1>1, <2>1, HeadTailProperties, LenProperties
  <2>3. feed[1] = <<kind, d>> /\ kind \in {"upsert", "removed"} /\ d \in everHere
    BY <1>0, <2>2 DEF S
  <2>4. \A i \in DOMAIN feed : i # 1 => i - 1 \in DOMAIN feed' /\ feed'[i - 1] = feed[i]
    BY <2>2
  <2>5. feed' \in Seq({"upsert", "removed"} \X everHere)
    BY <2>2 DEF S
  <2>6. \A i \in DOMAIN feed' : i + 1 \in DOMAIN feed /\ feed'[i] = feed[i + 1]
    BY <2>2
  <2>7. 1 \in DOMAIN feed
    BY <2>2
  <2> HIDE DEF S
  <2> QED BY <2>3, <2>4, <2>5, <2>6, <2>7
<1>5. kind = "removed" => d \notin here
  <2>1. feed[1] = <<kind, d>> /\ 1 \in DOMAIN feed
    BY <1>4
  <2>2. feed[1][1] = kind /\ feed[1][2] = d
    BY <2>1
  <2>3. feed[1][1] = "removed" => feed[1][2] \notin here
    BY <1>3, <2>1 DEF PlayShape
  <2> QED BY <2>2, <2>3
<1>6. /\ rot' \in [Displays -> 0..rots] /\ \A e \in Displays : rot'[e] = rot[e] \/ (rot'[e] = 0 /\ e \notin here)
      /\ Owned' \subseteq Owned /\ (\A e \in here : e \in Owned' <=> e \in Owned)
      /\ \A e \in Owned' : rot'[e] = rot[e]
  <2>1. rot \in [Displays -> 0..rots] /\ rots \in Nat /\ here \subseteq Displays /\ d \in Displays
    BY <1>3, <1>4 DEF PlayShape
  <2>2. CASE kind = "removed"
    <3>1. rot' = [rot EXCEPT ![d] = 0] /\ d \notin here
      BY <1>1, <1>5, <2>2
    <3>2. rot' \in [Displays -> 0..rots] /\ \A e \in Displays : rot'[e] = IF e = d THEN 0 ELSE rot[e]
      BY <2>1, <3>1
    <3> QED BY <2>1, <3>1, <3>2 DEF Owned
  <2>3. CASE kind # "removed"
    <3>1. rot' = rot
      BY <1>1, <2>3
    <3>2. Owned' = Owned
      BY <3>1 DEF Owned
    <3> QED BY <2>1, <3>1, <3>2
  <2> QED BY <2>2, <2>3
<1>7. /\ Only(Watcher) /\ job'[Watcher] = j
  BY <1>2, <1>3, GoesAlone
<1>8. \/ j = NoJob
      \/ /\ IsJob(j) /\ j.do = "resume" /\ j.at = "read" /\ j.todo = {d} /\ j.saw = 0
         /\ kind = "upsert"
  BY <1>2 DEF IsJob, NoJob
<1>9. j.at \notin OnOne
  BY <1>8, NoJobIs DEF OnOne
<1>10. ListGoesOn /\ RotsGoOn
  BY <1>1, <1>3, <1>6, StillListed DEF ListGoesOn, RotsGoOn, PlayShape
<1>11. PlayShape'
  BY <1>1, <1>3, <1>4, <1>6, <1>7 DEF PlayShape, Only
<1>12. Knows(Watcher)'
  <2>1. CASE j = NoJob
    BY <1>3, <1>7, <1>11, <2>1, IdleKnows DEF PlayShape
  <2>2. CASE j # NoJob
    <3>1. 0 \in 0..edits
      BY <1>3 DEF PlayShape
    <3> QED BY <1>1, <1>4, <1>7, <1>8, <2>2, <3>1 DEF Knows, Steps, Starting, Stopping, OnOne, HasRead
  <2> QED BY <2>1, <2>2
<1>13. ASSUME NEW q \in Actors PROVE Knows(q)'
  <2>1. CASE q = Watcher
    BY <1>12, <2>1
  <2>2. CASE q # Watcher
    BY <1>1, <1>3, <1>7, <1>10, <2>2, OthersKnow DEF PlayInv, Only, PlayShape
  <2> QED BY <2>1, <2>2
<1>14. ASSUME NEW e \in here \ crossed PROVE Follows(e)'
  <2>1. Follows(e) /\ ~IsOn(Watcher, e) /\ ~IsOn(Watcher, e)'
    BY <1>1, <1>7, <1>9 DEF PlayInv, IsOn, OnOne
  <2>2. ASSUME e \in assigned, ToResume(e), e \notin Owned PROVE ToResume(e)'
    <3>1. PICK i \in DOMAIN feed : feed[i] = <<"upsert", e>>
      BY <1>3, <2>2, NoJobIs DEF ToResume
    <3>2. CASE i = 1
      <4>1. kind = "upsert" /\ d = e
        BY <1>4, <3>1, <3>2
      <4>2. j.do = "resume" /\ j.todo = {d}
        BY <1>2, <2>2, <4>1 DEF NoJob
      <4> QED BY <1>7, <4>1, <4>2 DEF ToResume
    <3>3. CASE i # 1
      BY <1>4, <3>1, <3>3 DEF ToResume
    <3> QED BY <3>2, <3>3
  <2> QED BY <1>1, <1>3, <1>6, <1>7, <2>1, <2>2, FollowsOn
<1>15. ASSUME NEW e \in Owned' \ stale PROVE Plays(e)'
  <2>1. Plays(e) /\ rot'[e] = rot[e] /\ ~WillSee(Watcher, e)
    BY <1>3, <1>6, NoJobIs DEF PlayInv, WillSee
  <2> QED BY <1>1, <1>3, <1>7, <1>10, <2>1, PlaysOn
<1> QED BY <1>1, <1>11, <1>13, <1>14, <1>15 DEF PlayInv

-----------------------------------------------------------------------------
(* Displays and the database.                                              *)

LEMMA DisplaysKeep ==
  ASSUME PlayInv, NEW d \in Displays, Come(d) \/ Touch(d) \/ Leave(d)
  PROVE  PlayInv'
<1>1. /\ UNCHANGED <<assigned, exists, list, mode, gone, rot, cursor, rots,
                     crossed, refused, edits, stale, job>>
      /\ PlayShape /\ Owned' = Owned /\ Watcher \in Actors
  BY DEF Come, Touch, Leave, OnlyDisplays, wantVars, listVars, engineVars, history, PlayInv, Owned, Actors
<1>2. PICK k \in {"upsert", "removed"} :
        /\ feed' = Append(feed, <<k, d>>)
        /\ \/ /\ k = "upsert" /\ here' = here \cup {d} /\ everHere' = everHere \cup {d}
              /\ d \notin here => d \notin everHere
           \/ k = "removed" /\ here' = here \ {d} /\ everHere' = everHere /\ d \in everHere
  BY <1>1 DEF Come, Touch, Leave, PlayShape
<1>3. d \in everHere' /\ everHere \subseteq everHere' /\ everHere' \subseteq Displays /\ here' \subseteq everHere'
  BY <1>1, <1>2 DEF PlayShape
<1>4. /\ feed' \in Seq({"upsert", "removed"} \X everHere')
      /\ \A i \in DOMAIN feed : i \in DOMAIN feed' /\ feed'[i] = feed[i] /\ feed[i][2] \in everHere
      /\ \A i \in DOMAIN feed' : i \in DOMAIN feed \/ feed'[i] = <<k, d>>
      /\ \E i \in DOMAIN feed' : feed'[i] = <<k, d>>
  <2> DEFINE S == {"upsert", "removed"} \X everHere
             T == {"upsert", "removed"} \X everHere'
  <2>1. feed \in Seq(S) /\ <<k, d>> \in T /\ S \subseteq T
    BY <1>1, <1>3 DEF PlayShape
  <2>2. \A x \in S : x[2] \in everHere
    OBVIOUS
  <2> HIDE DEF S, T
  <2>3. /\ feed \in Seq(T) /\ feed' \in Seq(T) /\ Len(feed') = Len(feed) + 1 /\ feed'[Len(feed) + 1] = <<k, d>>
        /\ \A i \in 1..Len(feed) : feed'[i] = feed[i]
    BY <1>2, <2>1, AppendProperties
  <2>4. DOMAIN feed = 1..Len(feed) /\ DOMAIN feed' = 1..(Len(feed) + 1) /\ Len(feed) \in Nat
    BY <2>3, LenProperties
  <2>5. \A i \in DOMAIN feed : feed[i] \in S
    BY <2>1, <2>4
  <2>6. feed' \in Seq({"upsert", "removed"} \X everHere')
    BY <2>3 DEF T
  <2>7. \A i \in DOMAIN feed : i \in DOMAIN feed' /\ feed'[i] = feed[i]
    BY <2>3, <2>4
  <2>8. \A i \in DOMAIN feed : feed[i][2] \in everHere
    BY <2>2, <2>5
  <2>9. \A i \in DOMAIN feed' : i \in DOMAIN feed \/ feed'[i] = <<k, d>>
    BY <2>3, <2>4
  <2>10. Len(feed) + 1 \in DOMAIN feed'
    BY <2>4
  <2> QED BY <2>3, <2>6, <2>7, <2>8, <2>9, <2>10
<1>5. \A i \in DOMAIN feed' : feed'[i][1] = "removed" => feed'[i][2] \notin here'
  <2> SUFFICES ASSUME NEW i \in DOMAIN feed', feed'[i][1] = "removed" PROVE feed'[i][2] \notin here'
    OBVIOUS
  <2>1. CASE i \in DOMAIN feed
    <3>1. feed'[i] = feed[i] /\ feed[i][2] \in everHere /\ feed[i][2] \notin here
      BY <1>1, <1>4, <2>1 DEF PlayShape
    <3> QED BY <1>2, <3>1
  <2>2. CASE feed'[i] = <<k, d>>
    BY <1>2, <2>2
  <2> QED BY <1>4, <2>1, <2>2
<1>6. PlayShape'
  BY <1>1, <1>3, <1>4, <1>5 DEF PlayShape
<1>7. Only(Watcher) /\ ListGoesOn /\ RotsGoOn
  BY <1>1, StillListed DEF Only, PlayShape, ListGoesOn, RotsGoOn
<1>8. ASSUME NEW q \in Actors PROVE Knows(q)'
  BY <1>1, <1>3, <1>7, OthersKnow DEF PlayInv
<1>9. ASSUME NEW e \in here' \ crossed PROVE Follows(e)'
  <2>1. CASE e \in here
    <3>1. Follows(e) /\ (IsOn(Watcher, e)' <=> IsOn(Watcher, e))
      BY <1>1, <2>1, <1>9 DEF PlayInv, IsOn
    <3>2. ToResume(e) => ToResume(e)'
      BY <1>1, <1>4 DEF ToResume
    <3> QED BY <1>1, <1>7, <3>1, <3>2, FollowsOn
  <2>2. CASE e \notin here
    <3>1. e = d /\ k = "upsert" /\ d \notin everHere
      BY <1>2, <1>9, <2>2
    <3>2. d \notin Owned /\ \A q \in Actors : ~IsOn(q, d)
      BY <1>1, <3>1 DEF PlayShape, PlayInv, Knows, IsOn, OnOne
    <3>3. \A q \in Actors : ~IsOn(q, d)'
      BY <1>1, <3>2 DEF IsOn
    <3>4. ToResume(d)'
      BY <1>4, <3>1 DEF ToResume
    <3> QED BY <1>1, <3>1, <3>2, <3>3, <3>4 DEF Follows
  <2> QED BY <2>1, <2>2
<1>10. ASSUME NEW e \in Owned \ stale PROVE Plays(e)'
  <2>1. Plays(e) /\ (WillSee(Watcher, e) => WillSee(Watcher, e)')
    BY <1>1 DEF PlayInv, WillSee
  <2> QED BY <1>1, <1>7, <2>1, PlaysOn
<1> QED BY <1>1, <1>6, <1>8, <1>9, <1>10 DEF PlayInv

LEMMA RemoveAtKeeps ==
  ASSUME NEW S, NEW s \in Seq(S), NEW k \in DOMAIN s
  PROVE  /\ RemoveAt(s, k) \in Seq(S)
         /\ \A x, y : x # s[k] /\ y # s[k] => (Before(RemoveAt(s, k), x, y) <=> Before(s, x, y))
<1> DEFINE n == Len(s)
           a == SubSeq(s, 1, k - 1)
           b == SubSeq(s, k + 1, n)
           r == RemoveAt(s, k)
<1>1. n \in Nat /\ k \in 1..n /\ DOMAIN s = 1..n
  BY LenProperties
<1>2. a \in Seq(S) /\ Len(a) = k - 1 /\ \A i \in 1..(k - 1) : a[i] = s[i]
  BY <1>1, SubSeqProperties
<1>3. b \in Seq(S) /\ Len(b) = n - k /\ \A i \in 1..(n - k) : b[i] = s[k + i]
  BY <1>1, SubSeqProperties
<1>4. r = a \o b
  BY DEF RemoveAt
<1> HIDE DEF a, b, r
<1>5. /\ r \in Seq(S) /\ Len(r) = n - 1
      /\ \A i \in 1..(n - 1) : r[i] = IF i <= k - 1 THEN a[i] ELSE b[i - (k - 1)]
  <2>1. /\ a \o b \in Seq(S) /\ Len(a \o b) = Len(a) + Len(b)
        /\ \A i \in 1..(Len(a) + Len(b)) : (a \o b)[i] = IF i <= Len(a) THEN a[i] ELSE b[i - Len(a)]
    BY <1>2, <1>3, ConcatProperties
  <2>2. Len(a) = k - 1 /\ Len(a) + Len(b) = n - 1
    BY <1>1, <1>2, <1>3
  <2> HIDE DEF n
  <2> QED BY <1>4, <2>1, <2>2
<1>6. DOMAIN r = 1..(n - 1)
  BY <1>1, <1>5, LenProperties
<1>7. \A i \in 1..(n - 1) : r[i] = IF i < k THEN s[i] ELSE s[i + 1]
  <2> HIDE DEF n
  <2> SUFFICES ASSUME NEW i \in 1..(n - 1) PROVE r[i] = IF i < k THEN s[i] ELSE s[i + 1]
    OBVIOUS
  <2>1. CASE i < k
    <3>1. i \in 1..(k - 1) /\ i <= k - 1
      BY <1>1, <2>1
    <3> QED BY <1>2, <1>5, <2>1, <3>1
  <2>2. CASE ~(i < k)
    <3>1. i - (k - 1) \in 1..(n - k) /\ ~(i <= k - 1) /\ k + (i - (k - 1)) = i + 1
      BY <1>1, <2>2
    <3> QED BY <1>3, <1>5, <2>2, <3>1
  <2> QED BY <2>1, <2>2
<1> HIDE DEF n
<1>8. ASSUME NEW x, NEW y, x # s[k], y # s[k], Before(r, x, y) PROVE Before(s, x, y)
  <2>1. PICK i, j \in 1..(n - 1) : i <= j /\ r[i] = x /\ r[j] = y
    BY <1>6, <1>8 DEF Before
  <2> DEFINE f(m) == IF m < k THEN m ELSE m + 1
  <2>2. f(i) \in 1..n /\ f(j) \in 1..n /\ f(i) <= f(j)
    BY <1>1, <2>1
  <2>3. \A m \in 1..(n - 1) : r[m] = s[f(m)]
    BY <1>7
  <2> HIDE DEF f
  <2>4. s[f(i)] = x /\ s[f(j)] = y
    BY <2>1, <2>3
  <2> QED BY <1>1, <2>2, <2>4 DEF Before
<1>9. ASSUME NEW x, NEW y, x # s[k], y # s[k], Before(s, x, y) PROVE Before(r, x, y)
  <2>1. PICK i, j \in 1..n : i <= j /\ s[i] = x /\ s[j] = y
    BY <1>1, <1>9 DEF Before
  <2>2. i # k /\ j # k
    BY <1>9, <2>1
  <2> DEFINE g(m) == IF m < k THEN m ELSE m - 1
  <2>3. g(i) \in 1..(n - 1) /\ g(j) \in 1..(n - 1) /\ g(i) <= g(j)
    BY <1>1, <2>1, <2>2
  <2>4. ASSUME NEW m \in 1..n, m # k PROVE r[g(m)] = s[m]
    <3>1. CASE m < k
      <4>1. g(m) = m /\ m \in 1..(n - 1)
        BY <1>1, <3>1
      <4> QED BY <1>7, <3>1, <4>1
    <3>2. CASE ~(m < k)
      <4>1. g(m) = m - 1 /\ m - 1 \in 1..(n - 1) /\ ~(m - 1 < k) /\ (m - 1) + 1 = m
        BY <1>1, <2>4, <3>2
      <4> HIDE DEF g
      <4> QED BY <1>7, <4>1
    <3> QED BY <3>1, <3>2
  <2> HIDE DEF g
  <2>5. r[g(i)] = x /\ r[g(j)] = y
    BY <2>1, <2>2, <2>4
  <2> QED BY <1>6, <2>3, <2>5 DEF Before
<1> QED BY <1>5, <1>8, <1>9 DEF r

\* A wallpaper that goes leaves the order of the others as it was.
LEMMA SweepKeeps ==
  ASSUME PlayInv, NEW i \in Items, Sweep(i)
  PROVE  PlayInv'
<1>1. /\ UNCHANGED <<here, everHere, feed, assigned, exists, mode, rot, cursor, rots,
                     crossed, refused, edits, stale, job>>
      /\ PlayShape /\ Owned' = Owned /\ Watcher \in Actors /\ gone' = gone \cup {i}
  BY DEF Sweep, displayVars, wantVars, engineVars, history, PlayInv, Owned, Actors
<1>2. /\ list' \in Seq(Items)
      /\ \A x, y : x # i /\ y # i => (Before(list', x, y) <=> Before(list, x, y))
  <2>1. list \in Seq(Items)
    BY <1>1 DEF PlayShape
  <2>2. CASE i \in Range(list)
    <3> DEFINE k == CHOOSE n \in DOMAIN list : list[n] = i
    <3>1. \E n \in DOMAIN list : list[n] = i
      BY <2>2 DEF Range
    <3>2. k \in DOMAIN list /\ list[k] = i
      BY <3>1
    <3>3. list' = RemoveAt(list, k)
      BY <2>2 DEF Sweep
    <3> HIDE DEF k
    <3> QED BY <2>1, <3>2, <3>3, RemoveAtKeeps
  <2>3. CASE i \notin Range(list)
    BY <2>1, <2>3 DEF Sweep
  <2> QED BY <2>2, <2>3
<1>3. ASSUME NEW items, AsListed(items) PROVE AsListed(items)'
  <2>1. \A x, y \in Items \ gone' : x # i /\ y # i /\ (Before(items, x, y) <=> Before(list, x, y))
    BY <1>1, <1>3 DEF AsListed
  <2>2. \A x, y \in Items \ gone' : Before(items, x, y) <=> Before(list', x, y)
    BY <1>2, <2>1
  <2> QED BY <2>2 DEF AsListed, Before
<1>4. Only(Watcher) /\ ListGoesOn /\ RotsGoOn
  BY <1>1, <1>3 DEF Only, PlayShape, ListGoesOn, RotsGoOn
<1>5. PlayShape'
  BY <1>1, <1>2 DEF PlayShape
<1>6. ASSUME NEW q \in Actors PROVE Knows(q)'
  BY <1>1, <1>4, OthersKnow DEF PlayInv, PlayShape
<1>7. ASSUME NEW d \in here \ crossed PROVE Follows(d)'
  <2>1. Follows(d) /\ (IsOn(Watcher, d)' <=> IsOn(Watcher, d)) /\ (ToResume(d) => ToResume(d)')
    BY <1>1 DEF PlayInv, IsOn, ToResume
  <2> QED BY <1>1, <1>4, <2>1, FollowsOn
<1>8. ASSUME NEW d \in Owned \ stale PROVE Plays(d)'
  <2>1. Plays(d) /\ (WillSee(Watcher, d) => WillSee(Watcher, d)')
    BY <1>1 DEF PlayInv, WillSee
  <2> QED BY <1>1, <1>4, <2>1, PlaysOn
<1> QED BY <1>1, <1>5, <1>6, <1>7, <1>8 DEF PlayInv

-----------------------------------------------------------------------------
(* Requests.                                                               *)

LEMMA RequestIs ==
  ASSUME PlayInv, NEW p \in Clients, NEW new, Request(p, new)
  PROVE  /\ PlayShape /\ p \in Actors /\ job[p] = NoJob /\ Only(p) /\ job'[p] = new
         /\ UNCHANGED <<here, everHere, feed, assigned, rot, cursor, rots, crossed, refused, stale>>
         /\ Owned' = Owned /\ \A b : IsBound(b)' <=> IsBound(b)
<1>1. p \in Actors /\ PlayShape
  BY DEF Actors, PlayInv
<1>2. JobGoes(p, new)
  BY DEF Request, JobGoes
<1>3. UNCHANGED <<here, everHere, feed, assigned, rot, cursor, rots, crossed, refused, stale>>
  BY DEF Request, displayVars, wantVars, engineVars
<1>4. Owned' = Owned /\ \A b : IsBound(b)' <=> IsBound(b)
  BY <1>3 DEF Owned, IsBound
<1>5. job[p] = NoJob
  BY <1>1 DEF Request, PlayInv, Knows
<1> QED BY <1>1, <1>2, <1>3, <1>4, <1>5, GoesAlone

\* A request that changes nothing of the playlist itself.
LEMMA UneditedKeeps ==
  ASSUME PlayInv, NEW p \in Clients, NEW new, Request(p, new), Unedited,
         IsJob(new), new.todo \subseteq everHere, new.saw = 0,
         \/ new.do = "activate" /\ new.at = "read"
         \/ new.do \in {"deactivate", "manual"} /\ new.at = "displays"
         \/ new.do = "delete" /\ new.at = "displays" /\ new.todo = Owned /\ new.bound = Bound
         \/ new.do = "jump" /\ new.at = "collect" /\ new.bound = {}
  PROVE  PlayInv'
<1>1. /\ PlayShape /\ p \in Actors /\ job[p] = NoJob /\ Only(p) /\ job'[p] = new
      /\ UNCHANGED <<here, everHere, feed, assigned, rot, cursor, rots, crossed, refused, stale>>
      /\ Owned' = Owned /\ \A b : IsBound(b)' <=> IsBound(b)
  BY RequestIs
<1>2. UNCHANGED <<exists, list, mode, gone, edits>>
  BY DEF Unedited, listVars
<1>3. \A b \in Bound : IsBound(b)
  BY <1>1 DEF Bound, IsBound, PlayShape, Owned
<1>4. new.saw \in 0..edits
  BY <1>1 DEF PlayShape
<1>5. Knows(p)'
  BY <1>1, <1>2, <1>3, <1>4 DEF Knows, Steps, Starting, Stopping, OnOne, HasRead
<1>6. \A d : ~WillSee(p, d)
  BY <1>1, NoJobIs DEF WillSee
<1>7. job[p].at \notin OnOne /\ new.at \notin OnOne /\ job[p].todo = {}
  BY <1>1, NoJobIs DEF OnOne
<1> QED BY <1>1, <1>2, <1>5, <1>6, <1>7, InnerStep

\* One that does, and has every rotation rebuilt.
LEMMA EditedKeeps ==
  ASSUME PlayInv, NEW p \in Clients, Request(p, Rebuild), Edited, exists, exists' = exists,
         gone' = gone, list' \in Seq(Items)
  PROVE  PlayInv'
<1>1. /\ PlayShape /\ p \in Actors /\ job[p] = NoJob /\ Only(p) /\ job'[p] = Rebuild
      /\ UNCHANGED <<here, everHere, feed, assigned, rot, cursor, rots, crossed, refused, stale>>
      /\ Owned' = Owned /\ \A b : IsBound(b)' <=> IsBound(b)
  BY RequestIs
<1>2. /\ IsJob(Rebuild) /\ Rebuild.do = "rebuild" /\ Rebuild.at = "collect" /\ Rebuild.todo = {}
      /\ Rebuild.saw = 0 /\ Rebuild.bound = {}
  BY DEF Rebuild, IsJob, NoJob
<1>3. edits' = edits + 1 /\ edits \in Nat
  BY <1>1 DEF Edited, PlayShape
<1>4. ListGoesOn /\ RotsGoOn /\ PlayShape'
  BY <1>1, <1>3 DEF ListGoesOn, RotsGoOn, PlayShape, Only
<1>5. Knows(p)'
  BY <1>1, <1>2, <1>3 DEF Knows, Steps, Starting, Stopping, OnOne, HasRead
<1>6. ASSUME NEW q \in Actors PROVE Knows(q)'
  <2>1. CASE q = p
    BY <1>5, <2>1
  <2>2. CASE q # p
    BY <1>1, <1>4, <2>2, OthersKnow DEF PlayInv, Only, PlayShape
  <2> QED BY <2>1, <2>2
<1>7. ASSUME NEW d \in here \ crossed PROVE Follows(d)'
  <2>1. Follows(d) /\ ~IsOn(p, d) /\ ~IsOn(p, d)'
    BY <1>1, <1>2, NoJobIs DEF PlayInv, IsOn
  <2>2. p # Watcher
    BY PlaybackAssumption
  <2>3. ToResume(d) => ToResume(d)'
    BY <1>1, <2>2 DEF ToResume, Only, Actors
  <2> QED BY <1>1, <2>1, <2>3, FollowsOn
<1>8. ASSUME NEW d \in Owned \ stale PROVE Plays(d)'
  BY <1>1, <1>2 DEF Plays, WillSee
<1> QED BY <1>1, <1>4, <1>6, <1>7, <1>8 DEF PlayInv

ClientAsks(p) ==
  \/ \E ds \in SUBSET here :
       \/ \E auto \in {FALSE, budget["auto"] > 0} : Activate(p, ds, auto) \/ Deactivate(p, ds, auto)
       \/ \E item \in Items : ManualApply(p, ds, item)
  \/ Delete(p) \/ \E new \in Lists : SetItems(p, new)
  \/ \E m \in Modes : SetMode(p, m)
  \/ \E item \in Items : JumpTo(p, item)

LEMMA RequestsKeep ==
  ASSUME PlayInv, NEW p \in Clients, ClientAsks(p)
  PROVE  PlayInv'
<1>1. PlayShape /\ here \subseteq everHere /\ Owned \subseteq everHere
  BY DEF PlayInv, PlayShape
<1>2. ASSUME NEW ds \in SUBSET here, NEW auto, Activate(p, ds, auto) PROVE PlayInv'
  <2> DEFINE new == [NoJob EXCEPT !.do = "activate", !.at = "read", !.todo = ds, !.auto = auto]
  <2>1. IsJob(new) /\ new.do = "activate" /\ new.at = "read" /\ new.todo = ds /\ new.saw = 0
    BY DEF IsJob, NoJob
  <2>2. Request(p, new) /\ Unedited
    BY <1>2 DEF Activate
  <2> HIDE DEF new
  <2> QED BY <1>1, <2>1, <2>2, UneditedKeeps
<1>3. ASSUME NEW ds \in SUBSET here, NEW auto, Deactivate(p, ds, auto) PROVE PlayInv'
  <2> DEFINE new == [NoJob EXCEPT !.do = "deactivate", !.at = "displays", !.auto = auto,
                                  !.todo = IF ds = {} THEN Owned ELSE ds]
  <2>1. /\ IsJob(new) /\ new.do = "deactivate" /\ new.at = "displays" /\ new.saw = 0
        /\ new.todo = IF ds = {} THEN Owned ELSE ds
    BY DEF IsJob, NoJob
  <2>2. Request(p, new) /\ Unedited
    BY <1>3 DEF Deactivate
  <2> HIDE DEF new
  <2> QED BY <1>1, <2>1, <2>2, UneditedKeeps
<1>4. ASSUME NEW ds \in SUBSET here, NEW item, ManualApply(p, ds, item) PROVE PlayInv'
  <2> DEFINE new == [NoJob EXCEPT !.do = "manual", !.at = "displays", !.item = item, !.bound = ds,
                                  !.todo = IF ds = {} THEN Owned ELSE ds]
  <2>1. /\ IsJob(new) /\ new.do = "manual" /\ new.at = "displays" /\ new.saw = 0
        /\ new.todo = IF ds = {} THEN Owned ELSE ds
    BY DEF IsJob, NoJob
  <2>2. Request(p, new) /\ Unedited
    BY <1>4 DEF ManualApply
  <2> HIDE DEF new
  <2> QED BY <1>1, <2>1, <2>2, UneditedKeeps
<1>5. CASE Delete(p)
  <2> DEFINE new == [NoJob EXCEPT !.do = "delete", !.at = "displays", !.todo = Owned, !.bound = Bound]
  <2>1. /\ IsJob(new) /\ new.do = "delete" /\ new.at = "displays" /\ new.saw = 0
        /\ new.todo = Owned /\ new.bound = Bound
    BY DEF IsJob, NoJob
  <2>2. Request(p, new) /\ Unedited
    BY <1>5 DEF Delete
  <2> HIDE DEF new
  <2> QED BY <1>1, <2>1, <2>2, UneditedKeeps
<1>6. ASSUME NEW item, JumpTo(p, item) PROVE PlayInv'
  <2> DEFINE new == [NoJob EXCEPT !.do = "jump", !.at = "collect", !.item = item]
  <2>1. /\ IsJob(new) /\ new.do = "jump" /\ new.at = "collect" /\ new.saw = 0
        /\ new.todo = {} /\ new.bound = {}
    BY DEF IsJob, NoJob
  <2>2. Request(p, new) /\ Unedited
    BY <1>6 DEF JumpTo
  <2> HIDE DEF new
  <2> QED BY <1>1, <2>1, <2>2, UneditedKeeps
<1>7. ASSUME NEW new \in Lists, SetItems(p, new) PROVE PlayInv'
  <2>1. new \in Seq(Items)
    BY PlaybackAssumption
  <2> QED BY <1>7, <2>1, EditedKeeps DEF SetItems
<1>8. ASSUME NEW m, SetMode(p, m) PROVE PlayInv'
  <2>1. list' \in Seq(Items)
    BY <1>1, <1>8 DEF SetMode, PlayShape
  <2> QED BY <1>8, <2>1, EditedKeeps DEF SetMode
<1> QED BY <1>2, <1>3, <1>4, <1>5, <1>6, <1>7, <1>8 DEF ClientAsks

-----------------------------------------------------------------------------

LEMMA PlayInvHolds ==
  /\ PlayInit => PlayInv
  /\ PlayInv /\ [PlayNext]_playVars => PlayInv'
<1>1. ASSUME PlayInit PROVE PlayInv
  <2>1. /\ everHere = here /\ exists /\ rots = 0 /\ feed = <<>> /\ cursor = <<>> /\ edits = 0
        /\ rot = [d \in Displays |-> 0] /\ job = [p \in Actors |-> NoJob]
        /\ assigned \subseteq Displays \ here /\ list \in Lists
    BY <1>1 DEF PlayInit
  <2>2. here \subseteq Displays /\ list \in Seq(Items)
    BY <1>1, PlaybackAssumption DEF PlayInit
  <2>3. Owned = {}
    BY <2>1 DEF Owned
  <2>4. \A p \in Actors : job[p] = NoJob
    BY <2>1
  <2>5. feed \in Seq({"upsert", "removed"} \X everHere) /\ DOMAIN feed = {} /\ cursor = [n \in 1..0 |-> cursor[n]]
    BY <2>1
  <2>6. PlayShape
    BY <2>1, <2>2, <2>3, <2>5 DEF PlayShape
  <2>7. ASSUME NEW p \in Actors PROVE Knows(p)
    BY <2>1, <2>4, NoJobIs DEF Knows, Steps, Starting, Stopping, OnOne, HasRead
  <2>8. ASSUME NEW d \in here PROVE Follows(d)
    BY <2>1, <2>3, <2>4, NoJobIs DEF Follows, IsOn
  <2> QED BY <2>3, <2>6, <2>7, <2>8 DEF PlayInv
<1>2. ASSUME PlayInv, PlayNext PROVE PlayInv'
  <2>1. CASE Internal
    BY <1>2, <2>1, JobKeeps, HotplugKeeps, QueueKeeps DEF Internal, QueueStep
  <2>2. CASE Ticks
    BY <1>2, <2>2, TickKeeps, TickApplyKeeps DEF Ticks
  <2>3. CASE RotatorTick
    BY <1>2, <2>3, QueueKeeps DEF QueueStep
  <2>4. CASE Environment
    <3>1. CASE \E d \in Displays : Come(d) \/ Touch(d) \/ Leave(d)
      BY <1>2, <3>1, DisplaysKeep
    <3>2. CASE \E i \in Items : Sweep(i)
      BY <1>2, <3>2, SweepKeeps
    <3>3. CASE \E p \in Clients : ClientAsks(p)
      BY <1>2, <3>3, RequestsKeep
    <3>4. CASE (\E s \in Steppers, forward \in BOOLEAN : Step(s, forward)) \/ \E m \in Modes : ResetRound(m)
      BY <1>2, <3>4, QueueKeeps DEF QueueStep
    <3> QED BY <2>4, <3>1, <3>2, <3>3, <3>4 DEF Environment, ClientAsks
  <2> QED BY <1>2, <2>1, <2>2, <2>3, <2>4 DEF PlayNext
<1>3. ASSUME PlayInv, UNCHANGED playVars PROVE PlayInv'
  <2>1. UNCHANGED <<here, everHere, feed, assigned, exists, list, mode, gone, rot, cursor, rots,
                    crossed, refused, edits, stale, job>>
    BY <1>3 DEF playVars, displayVars, wantVars, listVars, engineVars, history
  <2> QED BY <1>3, <2>1, StillKeeps
<1> QED BY <1>1, <1>2, <1>3

\* When no request is under way the displays that are there play what their
\* settings restore (engine.rs persist_assignment, restore.rs), however many
\* clients asked and displays came and went meanwhile, but for the displays
\* that two requests handled at once and those whose playlist could not be
\* resumed.
THEOREM PlaybackFollowsSettings == PlaySpec => []SettingsFollowEngine
<1>1. PlayInv => SettingsFollowEngine
  <2> SUFFICES ASSUME PlayInv, Quiet, NEW d \in here \ crossed
               PROVE  (d \in Owned => d \in assigned) /\ (d \in assigned => d \in Owned \/ d \in refused)
    BY DEF SettingsFollowEngine
  <2>1. feed = <<>> /\ \A p \in Actors : job[p] = NoJob
    BY DEF Quiet
  <2>2. (\A p \in Actors : ~IsOn(p, d)) /\ ~ToResume(d)
    BY <2>1, NoJobIs DEF IsOn, ToResume, Actors
  <2> QED BY <2>2 DEF PlayInv, Follows
<1> QED BY <1>1, PlayInvHolds, PTL DEF PlaySpec

\* ... and they play the playlist as the last edit left it (engine.rs
\* rebuild_for_playlist), whoever edited it while they were started, rebuilt or
\* stopped and whatever wallpapers were lost, but for the rotations made from
\* what was read before that edit.
THEOREM PlaybackPlaysTheList == PlaySpec => []PlaysTheList
<1>1. PlayInv => PlaysTheList
  <2> SUFFICES ASSUME PlayInv, Quiet, NEW d \in Owned \ stale
               PROVE  exists /\ AsListed(cursor[rot[d]].items) /\ cursor[rot[d]].mode = mode
    BY DEF PlaysTheList
  <2>1. \A p \in Actors : ~WillSee(p, d)
    BY NoJobIs DEF Quiet, WillSee
  <2> QED BY <2>1 DEF PlayInv, Plays, Current
<1> QED BY <1>1, PlayInvHolds, PTL DEF PlaySpec
=============================================================================
