----------------------------- MODULE Publishing -----------------------------
(***************************************************************************)
(* Rebalance runs against the contract: cmdRebalance of the aggregator's   *)
(* CLI (packages/aggregator/src/cli.js) with the transaction it submits    *)
(* (publisher.js) and the state directory it keeps (state.js), started by  *)
(* hand on a host or by the weekly workflow                                *)
(* (.github/workflows/rebalance.yml).                                      *)
(*                                                                         *)
(* A run is one process; each awaited call to the chain or the disk is an  *)
(* action, so runs interleave with each other, with the ledger and with    *)
(* the operator between any two of them.  The basket and divisor a run     *)
(* computes are a token naming the epoch, the run and the run whose state  *)
(* it continued; the update it publishes carries no more than that.        *)
(***************************************************************************)
EXTENDS Oracle

CONSTANTS
  Job,            \* runs of the workflow, each in a checkout of its own
  Local,          \* runs by hand, in the state directory of one host
  Fixture,        \* runs by hand on fixtures, in the fixtures directory
  NoRun,          \* no run: the basis of inception
  Host, FixtureDir, Repo,   \* the shared directories; Repo is the pushed branch
  Admin,          \* the contract's admin
  PublisherKey,   \* the accounts that may hold the publishing key
  Level, Weights, \* what every run publishes (computed in other modules)
  Due             \* the cadence, less its tolerance, in ledger ticks

Run == Job \cup Local \cup Fixture
Dir == Job \cup {Host, FixtureDir, Repo}

ASSUME PublishingAssumption ==
  /\ Job \cap Local = {} /\ Job \cap Fixture = {} /\ Local \cap Fixture = {}
  /\ NoRun \notin Run
  /\ Host # FixtureDir /\ Host # Repo /\ FixtureDir # Repo
  /\ Job \cap {Host, FixtureDir, Repo} = {}
  /\ Admin \in Address /\ PublisherKey \subseteq Address
  /\ Level \in Value /\ Level > 0
  /\ Weights \in Basket /\ Normalized(Weights)
  /\ Due \in Nat

VARIABLES
  pc,             \* the next step of each run
  mode,           \* the flags it was started with
  key,            \* the secret key it read from its environment
  prev,           \* the state it loaded
  tx,             \* what became of its transaction
  disk,           \* state.json of each directory
  tmp,            \* state.json.tmp of each directory
  audit,          \* the audit records of each directory
  origin          \* history: the computation behind each published epoch

runVars == <<pc, mode, key, prev, tx>>
dirVars == <<disk, tmp, audit>>
vars == <<oracleVars, runVars, dirVars, origin>>

-----------------------------------------------------------------------------
(* A rebalance state: which run computed which epoch, continuing whose.    *)

NoState == [epoch |-> NoHead, run |-> NoRun, basis |-> NoRun]
State == [epoch : Epoch, run : Run, basis : Run \cup {NoRun}]

\* runRebalance: the epoch after the loaded state, or inception.
Computed(r) == [epoch |-> prev[r].epoch + 1, run |-> r, basis |-> prev[r].run]

\* Mutant: fixtures on a host share its state directory.
DirOfShared(r) == IF r \in Job THEN r ELSE Host
\* loadConfig's stateDir, under the working directory of the run.
DirOf(r) ==
  IF r \in Job THEN r ELSE IF r \in Local THEN Host ELSE FixtureDir

\* --if-due only decides the exit code of a run that finds it is not due.  The
\* workflow never forces.
ModesOf(r) == {"gated", "dry-run"} \cup (IF r \in Job THEN {} ELSE {"force"})

\* Writing one audit file per epoch: newer records replace older ones.
Recorded(old, new) ==
  {a \in old : \A b \in new : b.epoch # a.epoch} \cup new

Steps == {"gate", "load", "check", "simulate", "send", "poll", "save",
          "rename", "audit", "push"}
Endings == {"done", "declined", "failed", "unconfirmed", "stranded",
            "restored", "cancelled"}
Running(r) == pc[r] \in Steps

Goto(r, step) == pc' = [pc EXCEPT ![r] = step]

-----------------------------------------------------------------------------
Init ==
  /\ OracleInit
  /\ pc = [r \in Run |-> "idle"]
  /\ mode = [r \in Run |-> "gated"]
  /\ key = [r \in Run |-> NoAddress]
  /\ prev = [r \in Run |-> NoState]
  /\ tx = [r \in Run |-> "none"]
  /\ disk = [d \in Dir |-> NoState]
  /\ tmp = [d \in Dir |-> NoState]
  /\ audit = [d \in Dir |-> {}]
  /\ origin = [e \in Epoch |-> NoState]

(* Starting a run. *)

\* The process reads its flags and its key and, unless it is dry or forced,
\* goes through the cadence gate first.
Begin(r, m, k) ==
  /\ mode' = [mode EXCEPT ![r] = m]
  /\ key' = [key EXCEPT ![r] = k]
  /\ Goto(r, IF m \in {"dry-run", "force"} THEN "load" ELSE "gate")
  /\ UNCHANGED <<oracleVars, prev, tx, dirVars, origin>>

StartByHand(r, m, k) ==
  /\ r \in Local \cup Fixture
  /\ pc[r] = "idle"
  /\ Begin(r, m, k)

\* The workflow is triggered, by cron or by hand.  What it will check out is
\* fixed now; it waits for its turn in the concurrency group, where a newer
\* waiting job replaces an older one.
Trigger(r) ==
  /\ r \in Job
  /\ pc[r] = "idle"
  /\ pc' = [q \in Run |-> IF q = r THEN "queued"
                          ELSE IF q \in Job /\ pc[q] = "queued" THEN "cancelled"
                          ELSE pc[q]]
  /\ disk' = [disk EXCEPT ![r] = disk[Repo]]
  /\ audit' = [audit EXCEPT ![r] = audit[Repo]]
  /\ UNCHANGED <<oracleVars, mode, key, prev, tx, tmp, origin>>

\* The group admits one job at a time.
StartJob(r, m, k) ==
  /\ r \in Job
  /\ pc[r] = "queued"
  /\ \A q \in Job : ~Running(q)
  /\ Begin(r, m, k)

-----------------------------------------------------------------------------
(* cmdRebalance, step by step. *)

\* Mutant: a tolerance of a whole tick.
IsAlmostDue == head # NoHead => now - Latest.published_at >= Due - 1
IsDue == head # NoHead => now - Latest.published_at >= Due

\* cadenceCheck.  Head and latest are two reads; only whether the first found
\* anything matters, and the head never becomes absent again.
CheckCadence(r) ==
  /\ pc[r] = "gate"
  /\ Goto(r, IF IsDue THEN "load" ELSE "declined")
  /\ UNCHANGED <<oracleVars, mode, key, prev, tx, dirVars, origin>>

\* store.load and runRebalance, which touches nothing shared.
Load(r) ==
  /\ pc[r] = "load"
  /\ prev' = [prev EXCEPT ![r] = disk[DirOf(r)]]
  /\ Goto(r, IF mode[r] = "dry-run" THEN "done" ELSE "check")
  /\ UNCHANGED <<oracleVars, mode, key, tx, dirVars, origin>>

\* The chain is asked for its head before a fee is spent.
CheckHead(r) ==
  /\ pc[r] = "check"
  /\ Goto(r, IF Computed(r).epoch = Expected THEN "simulate" ELSE "failed")
  /\ UNCHANGED <<oracleVars, mode, key, prev, tx, dirVars, origin>>

WouldPublish(r) == CanPublish({key[r]}, Computed(r).epoch, Level, Weights)

Simulate(r) ==
  /\ pc[r] = "simulate"
  /\ Goto(r, IF WouldPublish(r) THEN "send" ELSE "failed")
  /\ UNCHANGED <<oracleVars, mode, key, prev, tx, dirVars, origin>>

Send(r) ==
  /\ pc[r] = "send"
  /\ tx' = [tx EXCEPT ![r] = "pending"]
  /\ Goto(r, "poll")
  /\ UNCHANGED <<oracleVars, mode, key, prev, dirVars, origin>>

\* Mutant: an accepted submission counts as confirmed.
ConfirmOnSubmit(r) ==
  /\ pc[r] = "poll"
  /\ Goto(r, "save")
  /\ UNCHANGED <<oracleVars, mode, key, prev, tx, dirVars, origin>>
\* A poll finds the transaction applied.
Confirm(r) ==
  /\ pc[r] = "poll"
  /\ tx[r] = "applied"
  /\ Goto(r, "save")
  /\ UNCHANGED <<oracleVars, mode, key, prev, tx, dirVars, origin>>

\* Mutant: no deadline, the loop ends only with a result.
GiveUpOnResult(r) ==
  /\ pc[r] = "poll" /\ tx[r] = "rejected"
  /\ Goto(r, "unconfirmed")
  /\ UNCHANGED <<oracleVars, mode, key, prev, tx, dirVars, origin>>
\* It failed on chain, or the deadline passed with the RPC still answering
\* NOT_FOUND: because it expired, is still pending, or was applied in a ledger
\* the RPC had not ingested.
GiveUp(r) ==
  /\ pc[r] = "poll"
  /\ Goto(r, "unconfirmed")
  /\ UNCHANGED <<oracleVars, mode, key, prev, tx, dirVars, origin>>

\* Mutant: the state file is opened for writing, with no temporary file's help.
WriteTmpInPlace(r) ==
  /\ pc[r] = "save"
  /\ tmp' = [tmp EXCEPT ![DirOf(r)] = Computed(r)]
  /\ disk' = [disk EXCEPT ![DirOf(r)] = NoState]
  /\ Goto(r, "rename")
  /\ UNCHANGED <<oracleVars, mode, key, prev, tx, audit, origin>>
\* store.save writes the temporary file ...
WriteTmp(r) ==
  /\ pc[r] = "save"
  /\ tmp' = [tmp EXCEPT ![DirOf(r)] = Computed(r)]
  /\ Goto(r, "rename")
  /\ UNCHANGED <<oracleVars, mode, key, prev, tx, disk, audit, origin>>

\* ... and renames it over the state.
Rename(r) ==
  /\ pc[r] = "rename"
  /\ tmp[DirOf(r)] # NoState
  /\ disk' = [disk EXCEPT ![DirOf(r)] = tmp[DirOf(r)]]
  /\ tmp' = [tmp EXCEPT ![DirOf(r)] = NoState]
  /\ Goto(r, "audit")
  /\ UNCHANGED <<oracleVars, mode, key, prev, tx, audit, origin>>

\* Mutants: the record is of the state before; the job ends without its commit.
WriteAuditOfPrevious(r) ==
  /\ pc[r] = "audit"
  /\ audit' = [audit EXCEPT ![DirOf(r)] = Recorded(@, {prev[r]})]
  /\ Goto(r, IF r \in Job THEN "push" ELSE "done")
  /\ UNCHANGED <<oracleVars, mode, key, prev, tx, disk, tmp, origin>>
WriteAuditAndStop(r) ==
  /\ pc[r] = "audit"
  /\ audit' = [audit EXCEPT ![DirOf(r)] = Recorded(@, {Computed(r)})]
  /\ Goto(r, "done")
  /\ UNCHANGED <<oracleVars, mode, key, prev, tx, disk, tmp, origin>>
\* store.saveAudit; a workflow run then goes on to commit its state.
WriteAudit(r) ==
  /\ pc[r] = "audit"
  /\ audit' = [audit EXCEPT ![DirOf(r)] = Recorded(@, {Computed(r)})]
  /\ Goto(r, IF r \in Job THEN "push" ELSE "done")
  /\ UNCHANGED <<oracleVars, mode, key, prev, tx, disk, tmp, origin>>

\* The commit reaches the branch, rebased on whatever left the state alone.
Push(r) ==
  /\ r \in Job
  /\ pc[r] = "push"
  /\ disk[Repo] = prev[r]
  /\ disk' = [disk EXCEPT ![Repo] = disk[r]]
  /\ audit' = [audit EXCEPT ![Repo] = Recorded(@, audit[r])]
  /\ Goto(r, "done")
  /\ UNCHANGED <<oracleVars, mode, key, prev, tx, tmp, origin>>

\* Three failed pushes, a conflicting rebase, or an audit that could not be
\* written: the job fails with its state in the uploaded artifact only.
Strand(r) ==
  /\ r \in Job
  /\ pc[r] \in {"audit", "push"}
  /\ Goto(r, "stranded")
  /\ UNCHANGED <<oracleVars, mode, key, prev, tx, dirVars, origin>>

\* An exception, a killed process or a lost runner, before any step.
Abort(r) ==
  /\ Running(r)
  /\ Goto(r, "failed")
  /\ UNCHANGED <<oracleVars, mode, key, prev, tx, dirVars, origin>>

-----------------------------------------------------------------------------
(* The network and the ledger. *)

\* A submitted transaction is applied, even if its sender is gone.
Land(r) ==
  /\ tx[r] = "pending"
  /\ Publish({key[r]}, Computed(r).epoch, Level, Weights)
  /\ tx' = [tx EXCEPT ![r] = "applied"]
  /\ origin' = [origin EXCEPT ![Computed(r).epoch] = Computed(r)]
  /\ UNCHANGED <<pc, mode, key, prev, dirVars>>

\* It fails on chain, or its time bounds pass.
Lapse(r) ==
  /\ tx[r] = "pending"
  /\ tx' = [tx EXCEPT ![r] = IF WouldPublish(r) THEN "expired" ELSE "rejected"]
  /\ UNCHANGED <<oracleVars, pc, mode, key, prev, dirVars, origin>>

Tick == CloseLedger /\ UNCHANGED <<runVars, dirVars, origin>>

(* The operator. *)

\* The init command, on a freshly deployed contract.
CmdInit(p) == Initialize(Admin, p) /\ UNCHANGED <<runVars, dirVars, origin>>

Rotate(p) == SetPublisher({Admin}, p) /\ UNCHANGED <<runVars, dirVars, origin>>

Copy(from, to) ==
  /\ disk' = [disk EXCEPT ![to] = disk[from]]
  /\ audit' = [audit EXCEPT ![to] = Recorded(@, audit[from])]
  /\ UNCHANGED <<oracleVars, mode, key, prev, tx, tmp, origin>>

\* The artifact of a failed push is downloaded and committed.
Restore(r) ==
  /\ r \in Job
  /\ pc[r] = "stranded"
  /\ Copy(r, Repo)
  /\ Goto(r, "restored")

\* The host is a clone of the repository: git pull, and git commit and push.
Pull ==
  /\ disk[Repo].epoch > disk[Host].epoch
  /\ Copy(Repo, Host)
  /\ UNCHANGED pc
PushByHand ==
  /\ disk[Host].epoch > disk[Repo].epoch
  /\ Copy(Host, Repo)
  /\ UNCHANGED pc

-----------------------------------------------------------------------------
Step(r) ==
  \/ CheckCadence(r) \/ Load(r) \/ CheckHead(r) \/ Simulate(r) \/ Send(r)
  \/ Confirm(r) \/ GiveUp(r) \/ WriteTmp(r) \/ Rename(r) \/ WriteAudit(r)
  \/ Push(r) \/ Strand(r)

Next ==
  \/ \E r \in Run, k \in PublisherKey : \E m \in ModesOf(r) :
       StartByHand(r, m, k) \/ StartJob(r, m, k)
  \/ \E r \in Run : Trigger(r) \/ Step(r) \/ Abort(r) \/ Land(r) \/ Lapse(r)
                    \/ Restore(r)
  \/ \E p \in PublisherKey : CmdInit(p) \/ Rotate(p)
  \/ Tick \/ Pull \/ PushByHand

Spec == Init /\ [][Next]_vars

\* A process that can go on does: the polling loop has a deadline, and every
\* other await an answer or an exception.  The concurrency group admits a
\* waiting job once the group is free.
FairSpec ==
  /\ Spec
  /\ \A r \in Run : WF_vars(Step(r))
  /\ \A r \in Job : WF_vars(\E k \in PublisherKey : \E m \in ModesOf(r) :
                              StartJob(r, m, k))

-----------------------------------------------------------------------------
(* Properties. *)

\* Every variable holds a value of its kind; what is on disk is a state of an
\* epoch that fits the contract's u32.
TypeOK ==
  /\ pc \in [Run -> Steps \cup Endings \cup {"idle", "queued"}]
  /\ mode \in [Run -> {"gated", "dry-run", "force"}]
  /\ key \in [Run -> PublisherKey \cup {NoAddress}]
  /\ prev \in [Run -> State \cup {NoState}]
  /\ tx \in [Run -> {"none", "pending", "applied", "rejected", "expired"}]
  /\ disk \in [Dir -> State \cup {NoState}]
  /\ tmp \in [Dir -> State \cup {NoState}]
  /\ audit \in [Dir -> SUBSET State]
  /\ origin \in [Epoch -> State \cup {NoState}]

\* The index level is continuous: the computation behind epoch e continued
\* from the very computation behind epoch e - 1, whichever process, checkout
\* or host each of them ran in, and epoch 0 from nothing.
Continuity ==
  \A e \in Epoch : epochs[e] # NoUpdate =>
    /\ origin[e].epoch = e
    /\ origin[e].basis = IF e = 0 THEN NoRun ELSE origin[e - 1].run

\* Nothing reaches a state file, a half-done save or an audit record before the
\* chain has it, and what is there is what the chain has: a run that lost a
\* race leaves no trace that a later run could build on.
StateIsPublished ==
  \A d \in Dir : \A s \in {disk[d], tmp[d]} \cup audit[d] :
    s # NoState => s = origin[s.epoch]

\* The temporary file has one name per directory, yet no two runs are ever
\* inside save in the same directory: what a run renames is what it wrote.
SaveNotShared ==
  \A r \in Run : pc[r] = "rename" => tmp[DirOf(r)] = Computed(r)

\* A run that reports success for an epoch has put its state and its audit
\* record where the next run looks.
SuccessIsDurable ==
  \A e \in Epoch :
    LET r == origin[e].run
        d == IF r \in Job THEN Repo ELSE DirOf(r)
    IN origin[e] # NoState /\ pc[r] \in {"done", "restored"} =>
         /\ disk[d].epoch >= e
         /\ pc[r] = "done" => origin[e] \in audit[d]

\* A workflow job never publishes before the cadence is due, although the gate
\* reads the chain long before the transaction lands and other runs publish in
\* between: its checkout was fixed before the gate.
JobsKeepCadence ==
  \A e \in Epoch \ {0} :
    epochs[e] # NoUpdate /\ origin[e].run \in Job =>
      epochs[e].published_at >= epochs[e - 1].published_at + Due

\* The state of no directory ever goes back to an earlier epoch, not by a late
\* save, a push, a pull or a restored artifact.
StateNeverRegresses ==
  [][\A d \in Dir : disk'[d].epoch >= disk[d].epoch]_vars

\* Fixtures and live data never mix.  The fixtures directory holds states of
\* fixture runs only, and no other directory holds any, not through a save, a
\* push or a pull; and a feed whose first epoch is of one kind is of that kind
\* to its head, although a fixture run may publish to the same contract, before
\* or between live ones.
FixturesStayApart ==
  /\ \A d \in Dir : \A s \in {disk[d], tmp[d]} \cup audit[d] :
       s # NoState => (s.run \in Fixture <=> d = FixtureDir)
  /\ \A e \in Epoch : epochs[e] # NoUpdate =>
       (origin[e].run \in Fixture <=> origin[0].run \in Fixture)

\* Every run that is started ends, and every triggered job gets its turn or is
\* replaced: no step waits for something that need not happen.
RunsEnd == \A r \in Run : pc[r] # "idle" ~> pc[r] \in Endings

-----------------------------------------------------------------------------
(* Statements of the code's comments and documents that do not hold. *)

\* README.md: the CLI refuses to publish before the cadence is due.
CadenceHolds ==
  \A e \in Epoch \ {0} :
    epochs[e] # NoUpdate /\ mode[origin[e].run] # "force" =>
      epochs[e].published_at >= epochs[e - 1].published_at + Due

=============================================================================
