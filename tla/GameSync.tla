------------------------------ MODULE GameSync ------------------------------
(***************************************************************************)
(* One economy shared by every Claude Code session on the machine, over a  *)
(* key-value store whose get and set are not atomic together (mod/sync.ts).*)
(* A session applies its inputs to its own view at once, queues them, and  *)
(* a flush reads the store, replays the queue on what it finds and writes  *)
(* the result back.  Sessions are processes of their own, and within one   *)
(* the inputs keep coming while a flush waits for the store.               *)
(*                                                                         *)
(* The engine is deterministic, so a game state is the sequence of inputs  *)
(* that led to it: nothing that distinguishes two states is lost.          *)
(***************************************************************************)
EXTENDS Naturals, Sequences, FiniteSets

CONSTANTS
  Writers,    \* sessions that run the mod
  MaxPushes,  \* bound: inputs, of all sessions
  MaxQueued,  \* bound: flushes and refreshes waiting in a session's chain
  MaxUpsets   \* bound: kv.set calls that reject and sessions that end

ASSUME SyncAssumption ==
  /\ MaxPushes \in Nat /\ MaxQueued \in Nat /\ MaxUpsets \in Nat

VARIABLES
  store,     \* the save record in $.store: its stamp and its game
  base,      \* GameSync.base
  baseStamp, \* GameSync.baseStamp
  pending,   \* GameSync.pending
  view,      \* GameSync.view
  chain,     \* GameSync.chain: the work that waits for its turn
  step,      \* where the work at the head of the chain is
  batch,     \* how much of pending the running flush has taken
  next,      \* the record the running flush writes
  \* History and bounds
  pushes,    \* inputs a session has pushed
  writes,    \* flushes a session has computed: what makes a stamp unique
  readStamp, \* the stamp the running flush found in the store
  gone,      \* inputs dropped with a session's queue or overwritten in the store
  ambiguous, \* sessions one of whose writes landed and was reported as failed
  upsets

economyVars == <<base, baseStamp, pending, view>>
jobVars == <<chain, step, batch, next, readStamp>>
historyVars == <<pushes, writes, gone, ambiguous, upsets>>
syncVars == <<store, economyVars, jobVars, historyVars>>

Inputs == Writers \X Nat   \* <<w, n>>: the n-th of session w
Games == Seq(Inputs)
Stamps == (Writers \X Nat) \cup {<<>>}   \* <<>>: nothing written, nothing adopted
Records == [stamp : Stamps, game : Games]
Jobs == {"flush", "refresh"}
Steps == {"idle", "writing", "landed"}

InputsOf(game) == {game[i] : i \in 1..Len(game)}
Pushed == UNION {{w} \X (1..pushes[w]) : w \in Writers}

\* initialGameState: what a session that has read nothing starts from.
InitialGame == <<>>
NothingStored == [stamp |-> <<>>, game |-> InitialGame]

SyncInit ==
  /\ store = NothingStored
  /\ base = [w \in Writers |-> InitialGame]
  /\ baseStamp = [w \in Writers |-> <<>>]
  /\ pending = [w \in Writers |-> <<>>]
  /\ view = [w \in Writers |-> InitialGame]
  /\ chain = [w \in Writers |-> <<"refresh">>]
  /\ step = [w \in Writers |-> "idle"]
  /\ batch = [w \in Writers |-> 0]
  /\ next = [w \in Writers |-> NothingStored]
  /\ readStamp = [w \in Writers |-> <<>>]
  /\ pushes = [w \in Writers |-> 0]
  /\ writes = [w \in Writers |-> 0]
  /\ gone = {}
  /\ ambiguous = {}
  /\ upsets = 0

-----------------------------------------------------------------------------

\* push(input)
Push(w) ==
  LET input == <<w, pushes[w] + 1>> IN
  /\ Cardinality(Pushed) < MaxPushes
  /\ pushes' = [pushes EXCEPT ![w] = @ + 1]
  /\ view' = [view EXCEPT ![w] = Append(@, input)]
  /\ pending' = [pending EXCEPT ![w] = Append(@, input)]
  /\ UNCHANGED <<store, base, baseStamp, jobVars, writes, gone, ambiguous, upsets>>

\* serial(work): the work is put at the end of the chain.
Serial(w, job) ==
  /\ Len(chain[w]) < MaxQueued
  /\ chain' = [chain EXCEPT ![w] = Append(@, job)]

\* flush(): the flush timer, a player's action, the end of a turn.
Flush(w) ==
  /\ Serial(w, "flush")
  /\ UNCHANGED <<store, economyVars, step, batch, next, readStamp, historyVars>>

\* refresh(): every REFRESH_EVERY_MS; with inputs queued it is a flush.
Refresh(w) ==
  /\ Serial(w, IF pending[w] # <<>> THEN "flush" ELSE "refresh")
  /\ UNCHANGED <<store, economyVars, step, batch, next, readStamp, historyVars>>

\* Mutant: rebase shows the synced game without the inputs queued.
RebaseWithoutQueue(w, record, queued) ==
  /\ base' = [base EXCEPT ![w] = record.game]
  /\ baseStamp' = [baseStamp EXCEPT ![w] = record.stamp]
  /\ view' = [view EXCEPT ![w] = record.game]

\* rebase(game, stamp), with the inputs queued on top.
Rebase(w, record, queued) ==
  /\ base' = [base EXCEPT ![w] = record.game]
  /\ baseStamp' = [baseStamp EXCEPT ![w] = record.stamp]
  /\ view' = [view EXCEPT ![w] = record.game \o queued]

\* The head of the chain has nothing left to do, and its locals are gone.
EndJob(w) ==
  /\ chain' = [chain EXCEPT ![w] = Tail(@)]
  /\ step' = [step EXCEPT ![w] = "idle"]
  /\ batch' = [batch EXCEPT ![w] = 0]
  /\ next' = [next EXCEPT ![w] = NothingStored]
  /\ readStamp' = [readStamp EXCEPT ![w] = <<>>]

\* Mutant: a refresh adopts a save only the first time.
RunRefreshOnce(w) ==
  /\ step[w] = "idle" /\ chain[w] # <<>> /\ Head(chain[w]) = "refresh"
  /\ IF store.stamp # <<>> /\ baseStamp[w] = <<>>
       THEN Rebase(w, store, pending[w])
       ELSE UNCHANGED <<base, baseStamp, view>>
  /\ EndJob(w)
  /\ UNCHANGED <<store, pending, historyVars>>

\* A refresh has its turn: it reads, and adopts what somebody else has written.
RunRefresh(w) ==
  /\ step[w] = "idle" /\ chain[w] # <<>> /\ Head(chain[w]) = "refresh"
  /\ IF store.stamp # <<>> /\ store.stamp # baseStamp[w]
       THEN Rebase(w, store, pending[w])
       ELSE UNCHANGED <<base, baseStamp, view>>
  /\ EndJob(w)
  /\ UNCHANGED <<store, pending, historyVars>>

\* A flush has its turn and nothing to write.
SkipFlush(w) ==
  /\ step[w] = "idle" /\ chain[w] # <<>> /\ Head(chain[w]) = "flush"
  /\ pending[w] = <<>>
  /\ EndJob(w)
  /\ UNCHANGED <<store, economyVars, historyVars>>

\* Mutant: a stamp names its writer and not the write.
StampOfWriter(w) == <<w>>

\* The stamp of a write: unlike every other.
Stamp(w) == <<w, writes[w] + 1>>

\* Mutant: a flush replays the queue on the game this session synced last.
ReplayOnBase(w) ==
  /\ step[w] = "idle" /\ chain[w] # <<>> /\ Head(chain[w]) = "flush"
  /\ pending[w] # <<>>
  /\ batch' = [batch EXCEPT ![w] = Len(pending[w])]
  /\ next' = [next EXCEPT ![w] = [stamp |-> Stamp(w), game |-> base[w] \o pending[w]]]
  /\ readStamp' = [readStamp EXCEPT ![w] = store.stamp]
  /\ writes' = [writes EXCEPT ![w] = @ + 1]
  /\ step' = [step EXCEPT ![w] = "writing"]
  /\ UNCHANGED <<store, economyVars, chain, pushes, gone, ambiguous, upsets>>

\* A flush reads the store and replays the queue on it.  (An input pushed between
\* the answer of get and the replay commutes with the answer.)
ReadAndReplay(w) ==
  LET game == IF store.stamp = <<>> THEN base[w] ELSE store.game IN
  /\ step[w] = "idle" /\ chain[w] # <<>> /\ Head(chain[w]) = "flush"
  /\ pending[w] # <<>>
  /\ batch' = [batch EXCEPT ![w] = Len(pending[w])]
  /\ next' = [next EXCEPT ![w] = [stamp |-> Stamp(w), game |-> game \o pending[w]]]
  /\ readStamp' = [readStamp EXCEPT ![w] = store.stamp]
  /\ writes' = [writes EXCEPT ![w] = @ + 1]
  /\ step' = [step EXCEPT ![w] = "writing"]
  /\ UNCHANGED <<store, economyVars, chain, pushes, gone, ambiguous, upsets>>

\* kv.set takes effect: what the store held that the new game does not is lost.
Land(w) ==
  /\ step[w] = "writing"
  /\ store' = next[w]
  /\ gone' = gone \cup (InputsOf(store.game) \ InputsOf(next[w].game))
  /\ step' = [step EXCEPT ![w] = "landed"]
  /\ UNCHANGED <<economyVars, chain, batch, next, readStamp, pushes, writes, ambiguous,
                 upsets>>

\* Mutant: the batch stays in the queue.
FinishKeepsBatch(w) ==
  /\ step[w] = "landed"
  /\ LET queued == pending[w] IN
     /\ pending' = [pending EXCEPT ![w] = queued]
     /\ Rebase(w, next[w], queued)
  /\ EndJob(w)
  /\ UNCHANGED <<store, historyVars>>

\* Mutant: the queue is emptied, with what came in while the store was written.
FinishClearsQueue(w) ==
  /\ step[w] = "landed"
  /\ LET queued == <<>> IN
     /\ pending' = [pending EXCEPT ![w] = queued]
     /\ Rebase(w, next[w], queued)
  /\ EndJob(w)
  /\ UNCHANGED <<store, historyVars>>

\* kv.set resolves: the batch leaves the queue, and the view is rebuilt.
Finish(w) ==
  /\ step[w] = "landed"
  /\ LET queued == SubSeq(pending[w], batch[w] + 1, Len(pending[w])) IN
     /\ pending' = [pending EXCEPT ![w] = queued]
     /\ Rebase(w, next[w], queued)
  /\ EndJob(w)
  /\ UNCHANGED <<store, historyVars>>

\* kv.set rejects, with or without having stored the record: the queue stays.
Reject(w) ==
  /\ step[w] \in {"writing", "landed"}
  /\ upsets < MaxUpsets
  /\ upsets' = upsets + 1
  /\ ambiguous' = IF step[w] = "landed" THEN ambiguous \cup {w} ELSE ambiguous
  /\ EndJob(w)
  /\ UNCHANGED <<store, economyVars, pushes, writes, gone>>

\* The session ends, perhaps before its last flush is through, and another starts:
\* session.start builds a new GameSync, which refreshes.  What was queued is lost.
Exit(w) ==
  /\ upsets < MaxUpsets
  /\ upsets' = upsets + 1
  /\ gone' = gone \cup (InputsOf(pending[w]) \ InputsOf(store.game))
  /\ base' = [base EXCEPT ![w] = InitialGame]
  /\ baseStamp' = [baseStamp EXCEPT ![w] = <<>>]
  /\ pending' = [pending EXCEPT ![w] = <<>>]
  /\ view' = [view EXCEPT ![w] = InitialGame]
  /\ chain' = [chain EXCEPT ![w] = <<"refresh">>]
  /\ step' = [step EXCEPT ![w] = "idle"]
  /\ batch' = [batch EXCEPT ![w] = 0]
  /\ next' = [next EXCEPT ![w] = NothingStored]
  /\ readStamp' = [readStamp EXCEPT ![w] = <<>>]
  /\ UNCHANGED <<store, pushes, writes, ambiguous>>

-----------------------------------------------------------------------------

Work(w) == RunRefresh(w) \/ SkipFlush(w) \/ ReadAndReplay(w) \/ Land(w) \/ Finish(w)

SyncNext == \E w \in Writers : Push(w) \/ Flush(w) \/ Refresh(w) \/ Work(w) \/ Reject(w) \/ Exit(w)

SyncSpec == SyncInit /\ [][SyncNext]_syncVars

\* The store answers, and the refresh interval keeps firing.  (Strong fairness: the
\* code's chain is unbounded, so that the interval always finds room in it; here
\* flushes may keep filling the MaxQueued places.)
Fairness == \A w \in Writers : WF_syncVars(Work(w)) /\ SF_syncVars(Refresh(w))

FairSyncSpec == SyncSpec /\ Fairness

-----------------------------------------------------------------------------
(* Properties                                                              *)

SyncTypeOK ==
  /\ store \in Records
  /\ base \in [Writers -> Games] /\ view \in [Writers -> Games]
  /\ pending \in [Writers -> Games] /\ baseStamp \in [Writers -> Stamps]
  /\ chain \in [Writers -> Seq(Jobs)] /\ step \in [Writers -> Steps]
  /\ batch \in [Writers -> Nat] /\ next \in [Writers -> Records]
  /\ readStamp \in [Writers -> Stamps]
  /\ pushes \in [Writers -> Nat] /\ writes \in [Writers -> Nat]
  /\ gone \subseteq Inputs /\ ambiguous \subseteq Writers
  /\ upsets \in 0..MaxUpsets

(***************************************************************************)
(* "The economy as this session sees it: the last synced state plus its    *)
(* own queue", whatever was pushed while a flush was in flight.            *)
(***************************************************************************)
ViewIsBasePlusQueue == \A w \in Writers : view[w] = base[w] \o pending[w]

(***************************************************************************)
(* A session's inputs reach the shared economy in the order it pushed them *)
(* and once each, whoever else writes in between; only a write that took   *)
(* effect and was reported as failed is replayed.                          *)
(***************************************************************************)
AppliedInOrder ==
  \A i, j \in 1..Len(store.game) :
    i < j /\ store.game[i][1] = store.game[j][1] /\ store.game[i][1] \notin ambiguous
      => store.game[i][2] < store.game[j][2]

(***************************************************************************)
(* No input disappears: it is queued in its session, or in the store, or   *)
(* was dropped with a session's queue or overwritten.                      *)
(***************************************************************************)
EveryInputAccounted ==
  Pushed \subseteq (UNION {InputsOf(pending[w]) : w \in Writers}) \cup InputsOf(store.game) \cup gone

(***************************************************************************)
(* "Only a write landing between that read and that write is lost": a      *)
(* write takes an input out of the store only if somebody wrote after the  *)
(* flush had read.                                                         *)
(***************************************************************************)
LossNeedsOverlap ==
  [][\A w \in Writers :
       step[w] = "writing" /\ step'[w] = "landed" /\ readStamp[w] = store.stamp
         => InputsOf(store.game) \subseteq InputsOf(store'.game)]_syncVars

(***************************************************************************)
(* Every session ends up showing the economy that is in the store.         *)
(***************************************************************************)
Converges == \A w \in Writers : <>[](view[w] = store.game)

-----------------------------------------------------------------------------
(* The inductive invariant behind them                                     *)

\* A flush in flight is the head of its chain.
WorkHasJob == \A w \in Writers : step[w] # "idle" => chain[w] # <<>>

\* The stamps of the writes that have taken effect or never will.
LastSettled(w) == IF step[w] = "writing" THEN writes[w] - 1 ELSE writes[w]
SettledStamps == {<<>>} \cup {s \in Writers \X Nat : s[2] <= LastSettled(s[1])}

\* No flush in flight shares its stamp with the store or with what another has read.
StampsAreFresh ==
  /\ store.stamp \in SettledStamps
  /\ \A w \in Writers :
       /\ readStamp[w] \in SettledStamps
       /\ step[w] # "idle" => writes[w] > 0 /\ next[w].stamp = <<w, writes[w]>>

\* A flush that read what is still stored writes all of it.
ReadIsKept ==
  /\ store.stamp = <<>> => store.game = InitialGame
  /\ \A w \in Writers :
       step[w] = "writing" /\ readStamp[w] = store.stamp
         => InputsOf(store.game) \subseteq InputsOf(next[w].game)

\* A flush in flight writes its batch, which is the front of the queue; once
\* it has landed, the batch is stored or has been overwritten.
Batch(w) == SubSeq(pending[w], 1, batch[w])
BatchIsWritten ==
  \A w \in Writers : step[w] # "idle" =>
    /\ batch[w] <= Len(pending[w])
    /\ InputsOf(Batch(w)) \subseteq InputsOf(next[w].game)
    /\ step[w] = "landed" => InputsOf(Batch(w)) \subseteq InputsOf(store.game) \cup gone

FlushInv == WorkHasJob /\ StampsAreFresh /\ ReadIsKept /\ BatchIsWritten

-----------------------------------------------------------------------------
(* The inductive invariant behind the order                                *)

\* The inputs a session no longer queues are its first ones.
Applied(w) == pushes[w] - Len(pending[w])
QueueIsLatest ==
  \A w \in Writers :
    /\ Len(pending[w]) <= pushes[w]
    /\ \A k \in 1..Len(pending[w]) : pending[w][k] = <<w, Applied(w) + k>>

\* The inputs of w in a game are in order, and none comes after its n-th.
InputsOrdered(game, w, n) ==
  /\ \A i \in 1..Len(game) : game[i][1] = w => game[i][2] <= n
  /\ \A i, j \in 1..Len(game) :
       i < j /\ game[i][1] = w /\ game[j][1] = w => game[i][2] < game[j][2]

\* How much of the queue of w has reached the store, and how much a write of v in
\* flight will have brought there.
Stored(w) == IF step[w] = "landed" THEN batch[w] ELSE 0
Brought(w, v) == IF v = w THEN batch[w] ELSE Stored(w)

\* No flush takes effect before the store has a record, and until then no session
\* has adopted one.
NothingAdopted == store.stamp = <<>> => \A w \in Writers : base[w] = InitialGame /\ step[w] # "landed"

GamesOrdered ==
  \A w \in Writers \ ambiguous :
    /\ InputsOrdered(store.game, w, Applied(w) + Stored(w))
    /\ \A v \in Writers :
         step[v] = "writing" => InputsOrdered(next[v].game, w, Applied(w) + Brought(w, v))

OrderInv == QueueIsLatest /\ NothingAdopted /\ GamesOrdered
=============================================================================
