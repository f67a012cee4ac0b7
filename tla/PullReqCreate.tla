------------------------------ MODULE PullReqCreate ------------------------------
(***************************************************************************)
(* Controller.Create of src/app/api/controller/pullreq/pr_create.go, run   *)
(* by several requests at once against one target repository.  Each       *)
(* request is an actor with its own program counter; one action per        *)
(* blocking call of Create.                                                *)
(*                                                                         *)
(* The checks before the transaction (lines 78-151) read committed state,  *)
(* the duplicate check of line 109 included.  The transaction of line 155  *)
(* re-fetches the repository, bumps PullReqSeq under the store's           *)
(* optimistic lock (the row stays locked until commit), inserts the pull   *)
(* request, assigns reviewers and labels and writes the PR head ref in     *)
(* git.  The git ref is outside the database transaction: a rollback       *)
(* leaves it behind.  TxOptLock re-runs the whole closure on a version    *)
(* conflict and returns any other error.                                   *)
(***************************************************************************)
EXTENDS Naturals, FiniteSets

CONSTANTS
  Clients,                \* concurrent Create requests; a client's source SHA is itself
  Pairs,                  \* (source branch, target branch) pairs
  PairOf,                 \* client -> the branch pair it asks for
  NoClient,               \* the row lock is free
  StoreRejectsDuplicate,  \* the pull request store refuses a second open PR of a pair
  LabelsOf,               \* client -> how many labels its CreateInput assigns
  ReviewersOf,            \* client -> how many reviewers its CreateInput names
  MaxAttempts             \* where the retry count stops counting

ASSUME PairOf \in [Clients -> Pairs]
ASSUME NoClient \notin Clients
ASSUME StoreRejectsDuplicate \in BOOLEAN
ASSUME LabelsOf \in [Clients -> Nat] /\ ReviewersOf \in [Clients -> Nat]
\* A request retries at most once per commit of another request
\* (RetriesCausedByCommits), so only a retry loop that never ends reaches
\* MaxAttempts.
ASSUME MaxAttempts \in Nat /\ MaxAttempts >= Cardinality(Clients)

PCs == {"start", "find", "update", "create", "assign", "ref", "commit",
        "publish", "done"}

VARIABLES
  repo,      \* the committed repository row: PullReqSeq and its version
  lock,      \* the client whose transaction holds the repository row lock
  prs,       \* committed pull requests
  refs,      \* git PR head refs: number -> SHA (written outside the transaction)
  pc,        \* where each Create is
  local,     \* each transaction's targetRepoFull, as read by Find and bumped
  attempts,  \* closure runs TxOptLock repeated after a version conflict
  result,    \* what each Create returned
  created,   \* numbers of the pull requests a Created event was reported for
  pending,   \* each transaction's label-assign activities: their orders
  acts       \* committed activities: [number, order]

vars == <<repo, lock, prs, refs, pc, local, attempts, result, created, pending, acts>>

Init ==
  /\ repo = [seq |-> 0, version |-> 0]
  /\ lock = NoClient
  /\ prs = {}
  /\ refs = [n \in {} |-> NoClient]
  /\ pc = [c \in Clients |-> "start"]
  /\ local = [c \in Clients |-> repo]
  /\ attempts = [c \in Clients |-> 0]
  /\ result = [c \in Clients |-> "none"]
  /\ created = {}
  /\ pending = [c \in Clients |-> {}]
  /\ acts = {}

OpenPRExists(pair) == \E p \in prs : p.pair = pair

\* Lines 182-183: the activity sequence stored with the pull request, one
\* number per label and reviewer of the input.
ActivitySeqOf(c) == LabelsOf[c] + ReviewersOf[c]

\* Lines 397-434: the pull request newPullReq builds, numbered by the bumped
\* PullReqSeq; the source SHA stands for the client.
NewPullReq(c) == [number |-> local[c].seq, pair |-> PairOf[c], sha |-> c,
                  actSeq |-> ActivitySeqOf(c)]

\* Mutant of Rollback: the row lock is not given back.
RollbackKeepLock(c) ==
  /\ lock' = lock
  /\ pc' = [pc EXCEPT ![c] = "done"]
  /\ result' = [result EXCEPT ![c] = "error"]
  /\ UNCHANGED <<pending, acts, repo, prs, refs, local, attempts, created>>

\* Lines 217-218 and TxOptLock: any error but a version conflict ends the
\* transaction, rolls its database writes back (the row lock with them) and
\* returns the error.  A git ref already written stays.
Rollback(c) ==
  /\ lock' = IF lock = c THEN NoClient ELSE lock
  /\ pc' = [pc EXCEPT ![c] = "done"]
  /\ result' = [result EXCEPT ![c] = "error"]
  /\ UNCHANGED <<pending, acts, repo, prs, refs, local, attempts, created>>

\* Lines 78-151: sanitize, access, branch, duplicate (line 109), merge base,
\* diff stats and label checks, all against committed state and outside the
\* transaction; any of them may fail.
Precheck(c) ==
  /\ pc[c] = "start"
  /\ \/ /\ ~OpenPRExists(PairOf[c])
        /\ pc' = [pc EXCEPT ![c] = "find"]
        /\ UNCHANGED result
     \/ /\ pc' = [pc EXCEPT ![c] = "done"]
        /\ result' = [result EXCEPT ![c] = "error"]
  /\ UNCHANGED <<pending, acts, repo, lock, prs, refs, local, attempts, created>>

\* Mutant of Find: the transaction works on the repository fetched before it,
\* from the cache.
FindCached(c) ==
  /\ pc[c] = "find"
  /\ \/ /\ local' = [local EXCEPT ![c] = [seq |-> 0, version |-> 0]]
        /\ pc' = [pc EXCEPT ![c] = "update"]
        /\ UNCHANGED <<pending, acts, repo, lock, prs, refs, attempts, result, created>>
     \/ Rollback(c)

\* Lines 156-161: re-fetch the repository at the start of the transaction.
Find(c) ==
  /\ pc[c] = "find"
  /\ \/ /\ local' = [local EXCEPT ![c] = repo]
        /\ pc' = [pc EXCEPT ![c] = "update"]
        /\ UNCHANGED <<pending, acts, repo, lock, prs, refs, attempts, result, created>>
     \/ Rollback(c)

\* TxOptLock: a version conflict rolls the closure back and runs it again.
\* The count stays at MaxAttempts once there, so an endless retry loop is a
\* cycle of finitely many states.
RetryTx(c) ==
  /\ lock' = lock
  /\ pc' = [pc EXCEPT ![c] = "find"]
  /\ attempts' = [attempts EXCEPT ![c] = IF @ < MaxAttempts THEN @ + 1 ELSE @]
  /\ UNCHANGED <<pending, acts, repo, prs, refs, local, result, created>>

\* Mutant of Update: the row is written without the version check or lock.
UpdateNoLock(c) ==
  /\ pc[c] = "update"
  /\ local' = [local EXCEPT ![c].seq = @ + 1]
  /\ pc' = [pc EXCEPT ![c] = "create"]
  /\ UNCHANGED <<pending, acts, repo, lock, prs, refs, attempts, result, created>>

\* Lines 163-169: PullReqSeq++ and repoStore.Update.  The update waits for
\* the row lock of another transaction; it conflicts when the version read
\* by Find is no longer the committed one.
Update(c) ==
  /\ pc[c] = "update"
  /\ lock = NoClient
  /\ \/ /\ local[c].version = repo.version
        /\ lock' = c
        /\ local' = [local EXCEPT ![c].seq = @ + 1]
        /\ pc' = [pc EXCEPT ![c] = "create"]
        /\ UNCHANGED <<pending, acts, repo, prs, refs, attempts, result, created>>
     \/ /\ local[c].version # repo.version
        /\ RetryTx(c)
     \/ Rollback(c)

\* Lines 171-188: pullreqStore.Create inside the transaction.
CreatePR(c) ==
  /\ pc[c] = "create"
  /\ \/ /\ ~(StoreRejectsDuplicate /\ OpenPRExists(PairOf[c]))
        /\ pc' = [pc EXCEPT ![c] = "assign"]
        /\ UNCHANGED <<pending, acts, repo, lock, prs, refs, local, attempts, result, created>>
     \/ Rollback(c)

\* Lines 249-312: createReviewers returns at once for no reviewers, and
\* otherwise may fail on the self-review check or any store or permission
\* call of its loop.
MayFail(n) == IF n = 0 THEN {"ok"} ELSE {"ok", "error"}

\* Lines 342-369: assignLabels loops over the prepared labels.
AssignLabelsOutcomes(c) == MayFail(LabelsOf[c])

\* Lines 380-396: storeLabelAssignActivity bumps pr.ActivitySeq before each
\* activity it writes, starting from the sequence stored at line 183, and
\* the activity is recorded under the bumped value; a failed write is only
\* logged, its number still taken.
LabelActivityOrders(c) == {ActivitySeqOf(c) + k : k \in 1..LabelsOf[c]}

\* Lines 190-200: reviewers, labels, then the label activities.
Assign(c) ==
  /\ pc[c] = "assign"
  /\ \E rv \in MayFail(ReviewersOf[c]), lb \in AssignLabelsOutcomes(c) :
       \/ /\ rv = "ok" /\ lb = "ok"
          /\ \E w \in SUBSET LabelActivityOrders(c) : pending' = [pending EXCEPT ![c] = w]
          /\ pc' = [pc EXCEPT ![c] = "ref"]
          /\ UNCHANGED <<acts, repo, lock, prs, refs, local, attempts, result, created>>
       \/ /\ "error" \in {rv, lb}
          /\ Rollback(c)

\* The PR head ref after a successful UpdateRef of number n to sha.
WriteRef(n, sha) == [m \in DOMAIN refs \cup {n} |-> IF m = n THEN sha ELSE refs[m]]

\* Mutant of SetRef: a ref that is already there is left as it is.
KeepRef(n, sha) == IF n \in DOMAIN refs THEN refs ELSE WriteRef(n, sha)

\* Lines 204-210: OldValue sha.None, so whatever the ref held is replaced.
SetRef(n, sha) == WriteRef(n, sha)

\* Lines 202-213: the git ref is written at once, outside the transaction.
UpdateRef(c) ==
  /\ pc[c] = "ref"
  /\ \/ /\ refs' = SetRef(local[c].seq, c)
        /\ pc' = [pc EXCEPT ![c] = "commit"]
        /\ UNCHANGED <<pending, acts, repo, lock, prs, local, attempts, result, created>>
     \/ Rollback(c)

\* Mutant of Commit: the row lock outlives the transaction.
CommitKeepLock(c) ==
  /\ pc[c] = "commit"
  /\ \/ /\ repo' = [seq |-> local[c].seq, version |-> repo.version + 1]
        /\ prs' = prs \cup {NewPullReq(c)}
        /\ acts' = acts \cup {[number |-> local[c].seq, order |-> o] : o \in pending[c]}
        /\ pc' = [pc EXCEPT ![c] = "publish"]
        /\ UNCHANGED <<pending, lock, refs, local, attempts, result, created>>
     \/ Rollback(c)

\* Lines 214-219: the closure returned nil and the transaction commits, or
\* the commit fails and the Create returns its error.
Commit(c) ==
  /\ pc[c] = "commit"
  /\ \/ /\ repo' = [seq |-> local[c].seq, version |-> repo.version + 1]
        /\ prs' = prs \cup {NewPullReq(c)}
        /\ lock' = NoClient
        /\ acts' = acts \cup {[number |-> local[c].seq, order |-> o] : o \in pending[c]}
        /\ pc' = [pc EXCEPT ![c] = "publish"]
        /\ UNCHANGED <<pending, refs, local, attempts, result, created>>
     \/ Rollback(c)

\* Lines 221-246: Created event, SSE publish, instrumentation (whose error is
\* only logged), and the pull request returned.
Publish(c) ==
  /\ pc[c] = "publish"
  /\ created' = created \cup {local[c].seq}
  /\ pc' = [pc EXCEPT ![c] = "done"]
  /\ result' = [result EXCEPT ![c] = "ok"]
  /\ UNCHANGED <<pending, acts, repo, lock, prs, refs, local, attempts>>

\* Every request has returned.
Finished ==
  /\ \A c \in Clients : pc[c] = "done"
  /\ UNCHANGED vars

Next ==
  \/ \E c \in Clients :
       \/ Precheck(c) \/ Find(c) \/ Update(c) \/ CreatePR(c) \/ Assign(c)
       \/ UpdateRef(c) \/ Commit(c) \/ Publish(c)
  \/ Finished

\* Each request runs on its own goroutine and every store and git call
\* returns, so a request that can take its next step eventually does.
Fairness ==
  \A c \in Clients :
    WF_vars(Precheck(c) \/ Find(c) \/ Update(c) \/ CreatePR(c) \/ Assign(c)
            \/ UpdateRef(c) \/ Commit(c) \/ Publish(c))

Spec == Init /\ [][Next]_vars /\ Fairness

-----------------------------------------------------------------------------
(***************************************************************************)
(* Properties.                                                             *)
(***************************************************************************)

\* Types; the row lock is held only by a transaction between its Update and
\* its commit or rollback.
TypeOK ==
  /\ repo \in [seq : Nat, version : Nat]
  /\ lock \in {c \in Clients : pc[c] \in {"create", "assign", "ref", "commit"}}
                \cup {NoClient}
  /\ prs \subseteq [number : Nat, pair : Pairs, sha : Clients, actSeq : Nat]
  /\ DOMAIN refs \subseteq Nat /\ \A n \in DOMAIN refs : refs[n] \in Clients
  /\ pc \in [Clients -> PCs]
  /\ local \in [Clients -> [seq : Nat, version : Nat]]
  /\ attempts \in [Clients -> 0..MaxAttempts]
  /\ result \in [Clients -> {"none", "ok", "error"}]
  /\ created \subseteq Nat
  /\ pending \in [Clients -> SUBSET Nat]
  /\ acts \subseteq [number : Nat, order : Nat]

\* The numbering promise of Create (PullReqNumbering) under the mapping
\* below: every commit opens exactly one pull request, numbered one past
\* the committed PullReqSeq, for a pair with no open one, and a Created
\* event is reported once per committed pull request, and eventually (lines
\* 215-223: nothing between the commit and eventReporter.Created can fail),
\* however the requests race for the row, retry after a conflict or roll
\* back.
Numbering == INSTANCE PullReqNumbering
               WITH Shas <- Clients, seq <- repo.seq, reported <- created,
                    prs <- {[number |-> p.number, pair |-> p.pair, sha |-> p.sha] : p \in prs}

RefinesNumbering == Numbering!LiveSpec

\* UpdateRef with OldValue sha.None: every committed pull request's head ref
\* names its own source SHA, even when a rolled-back transaction left a ref
\* of the same number behind.
HeadRefMatchesPR ==
  \A p \in prs : p.number \in DOMAIN refs /\ refs[p.number] = p.sha

\* TxOptLock re-runs the closure only after a version conflict, and a
\* conflict means another request committed since this one's Find: a
\* request retries at most once per pull request the others committed.
RetriesCausedByCommits ==
  \A c \in Clients : attempts[c] <= Cardinality({p \in prs : p.sha # c})

\* "Calculate the activity sequence" (line 182): the pull request's stored
\* ActivitySeq covers the activities its Create wrote, so the next
\* activity, numbered one past it, takes a fresh order.
ActivityOrdersWithinSeq ==
  \A a \in acts : \A p \in prs : p.number = a.number => a.order <= p.actSeq

\* Every Create returns: a transaction waiting for the row lock gets it
\* once the holder commits or rolls back, and TxOptLock's retry loop (line
\* 155), which has no bound of its own, ends because the closure re-reads
\* the repository (line 156) and so conflicts only after another commit.
AllCreatesReturn == \A c \in Clients : <>(pc[c] = "done")

=============================================================================
