-------------------------- MODULE PublishingProofs --------------------------
(***************************************************************************)
(* Theorems about rebalance runs, for any number of jobs, of runs by hand  *)
(* and of keys, and any u32.                                               *)
(*                                                                         *)
(* The argument: the chain accepts epoch e + 1 only from a run whose       *)
(* loaded state is epoch e; every state a run can load was put there by a  *)
(* run that had seen its own transaction applied; so the state is the very *)
(* computation the chain has at e.  Hence continuity, and hence that all   *)
(* runs behind epochs before the head are past their save, so that at most *)
(* one run is ever inside it.                                              *)
(***************************************************************************)
EXTENDS Publishing, OracleProofs

\* The steps before a transaction exists, and those after the state is saved.
BeforeTx == {"idle", "queued", "gate", "load", "check", "simulate", "send"}
Saved    == {"audit", "push"} \cup Endings

\* The history names, for each published epoch, a computation of that epoch.
OriginMatches ==
  \A e \in Epoch : /\ origin[e] # NoState <=> e <= head
                   /\ origin[e] # NoState => origin[e].epoch = e

\* s is the computation behind a published epoch, or no state at all.
Published(s) == s # NoState => s \in State /\ s = origin[s.epoch]

StoresPublished ==
  /\ \A d \in Dir : Published(disk[d]) /\ Published(tmp[d])
  /\ \A d \in Dir : \A a \in audit[d] : Published(a)
  /\ \A r \in Run : Published(prev[r])

\* A transaction exists only once the state it builds on is loaded, never for
\* a dry run, and a save only once it is applied.
TxAt(r) ==
  /\ pc[r] \in BeforeTx => tx[r] = "none"
  /\ pc[r] \in {"save", "rename", "audit"} => tx[r] = "applied"
  /\ tx[r] = "applied" => Published(Computed(r))
  /\ tx[r] # "none" \/ pc[r] \in {"check", "simulate", "send"} =>
       mode[r] # "dry-run"
  /\ r \in Job => mode[r] # "force"
TxMatches == \A r \in Run : TxAt(r)

\* Whatever can be built upon belongs to a run that is past its save.
BasisIsSaved ==
  /\ \A e \in Epoch : e < head => pc[origin[e].run] \in Saved
  /\ \A d \in Dir : disk[d] # NoState => pc[disk[d].run] \in Saved
  /\ \A r \in Run : prev[r] # NoState => pc[prev[r].run] \in Saved

\* The state a run computes from, or is about to.
Base(r) == IF pc[r] = "load" THEN disk[r] ELSE prev[r]

\* What the gate found stays true of the epoch the job builds on, as long as
\* that epoch is the head.
GateAt(r) ==
  /\ pc[r] \in {"load", "check", "simulate", "send", "poll"} \/ tx[r] = "pending"
  /\ mode[r] = "gated"
  /\ head # NoHead
  /\ Base(r).epoch = head
  => now - epochs[head].published_at >= Due
GateHolds == \A r \in Job : GateAt(r)

IInv ==
  /\ OracleInv
  /\ TypeOK
  /\ OriginMatches
  /\ StoresPublished
  /\ Continuity
  /\ TxMatches
  /\ BasisIsSaved
  /\ SaveNotShared
  /\ GateHolds
  /\ JobsKeepCadence

-----------------------------------------------------------------------------
(* Small facts. *)

\* NoRun is no run, so no computation is NoState.
LEMMA ComputedIsSome == \A r \in Run : Computed(r) # NoState
  BY PublishingAssumption DEF Computed, NoState

\* A state names an epoch and a run; having none is different.
LEMMA StatesApart == \A s \in State : s # NoState /\ s.epoch \in Epoch /\ s.run \in Run
  BY PublishingAssumption, OracleAssumption DEF State, NoState, Epoch, NoHead

\* Each run has a directory, a job its own.
LEMMA DirOfRun == \A r \in Run : DirOf(r) \in Dir /\ (r \in Job => DirOf(r) = r)
  BY DEF DirOf, Dir, Run

\* No step but Land touches what the chain holds.
LEMMA ChainFrame ==
  ASSUME IInv, UNCHANGED <<oracleVars, origin>>
  PROVE  OracleInv' /\ OriginMatches' /\ Continuity' /\ JobsKeepCadence'
<1>1. OracleInv'
  BY StepInv DEF IInv
<1> QED
  BY <1>1 DEF IInv, oracleVars, OriginMatches, Continuity, JobsKeepCadence

\* A step of one run that writes no state keeps the invariant, if the run's own
\* conjuncts still hold.
LEMMA QuietInv ==
  ASSUME IInv, NEW r \in Run,
         UNCHANGED <<oracleVars, prev, dirVars, origin>>,
         TypeOK', TxAt(r)', r \in Job => GateAt(r)',
         \A q \in Run \ {r} :
           pc'[q] = pc[q] /\ tx'[q] = tx[q] /\ mode'[q] = mode[q],
         pc[r] \in Saved => pc'[r] \in Saved,
         pc'[r] = "rename" => pc[r] = "rename"
  PROVE  IInv'
<1>1. OracleInv' /\ OriginMatches' /\ Continuity' /\ JobsKeepCadence'
  BY ChainFrame
<1>2. StoresPublished'
  BY DEF IInv, StoresPublished, Published, dirVars
<1>3. TxMatches'
  BY DEF IInv, TxMatches, TxAt, Published, Computed
<1>4. \A q \in Run : pc[q] \in Saved => pc'[q] \in Saved
  OBVIOUS
<1>5. BasisIsSaved'
  <2>1. \A e \in Epoch : e < head => origin[e].run \in Run
    BY StatesApart, OracleAssumption
    DEF IInv, TypeOK, OriginMatches, OracleInv, OracleTypeOK, Epoch, NoHead
  <2>2. \A d \in Dir : disk[d] # NoState => disk[d].run \in Run
    BY StatesApart DEF IInv, TypeOK
  <2>3. \A q \in Run : prev[q] # NoState => prev[q].run \in Run
    BY StatesApart DEF IInv, TypeOK
  <2> QED
    BY <1>4, <2>1, <2>2, <2>3 DEF IInv, BasisIsSaved, dirVars, oracleVars
<1>6. SaveNotShared'
  BY DEF IInv, SaveNotShared, Computed, dirVars
<1>7. GateHolds'
  BY DEF IInv, GateHolds, GateAt, Base, dirVars, oracleVars, Run
<1> QED  BY <1>1, <1>2, <1>3, <1>5, <1>6, <1>7 DEF IInv

-----------------------------------------------------------------------------
(* The steps that write no state. *)

\* A run begins.
LEMMA BeginInv ==
  ASSUME IInv, NEW r \in Run, NEW k \in PublisherKey, NEW m \in ModesOf(r),
         pc[r] \in {"idle", "queued"}, Begin(r, m, k)
  PROVE  IInv'
<1>1. TypeOK'
  BY DEF IInv, TypeOK, Begin, Goto, Steps, Endings, ModesOf, dirVars
<1>2. TxAt(r)'
  BY DEF IInv, TypeOK, TxMatches, TxAt, Begin, Goto, ModesOf, BeforeTx, Saved,
         Steps, Endings
<1>3. r \in Job => GateAt(r)'
  BY DEF IInv, TypeOK, TxMatches, TxAt, Begin, Goto, ModesOf, GateAt, BeforeTx
<1>4. /\ pc[r] \in Saved => pc'[r] \in Saved
      /\ pc'[r] = "rename" => pc[r] = "rename"
      /\ \A q \in Run \ {r} :
           pc'[q] = pc[q] /\ tx'[q] = tx[q] /\ mode'[q] = mode[q]
      /\ UNCHANGED <<oracleVars, prev, dirVars, origin>>
  BY DEF IInv, TypeOK, Begin, Goto, Saved, Endings
<1> QED  BY <1>1, <1>2, <1>3, <1>4, QuietInv

\* The gate is passed or not.
LEMMA CheckCadenceInv ==
  ASSUME IInv, NEW r \in Run, CheckCadence(r)
  PROVE  IInv'
<1>1. TypeOK'
  BY DEF IInv, TypeOK, CheckCadence, Goto, Steps, Endings, dirVars
<1>2. TxAt(r)'
  BY DEF IInv, TypeOK, TxMatches, TxAt, CheckCadence, Goto, BeforeTx
<1>3. r \in Job => GateAt(r)'
  BY DEF IInv, TypeOK, TxMatches, TxAt, CheckCadence, Goto, GateAt, BeforeTx,
         IsDue, Latest, AtEpoch, oracleVars
<1>4. /\ pc[r] \in Saved => pc'[r] \in Saved
      /\ pc'[r] = "rename" => pc[r] = "rename"
      /\ \A q \in Run \ {r} :
           pc'[q] = pc[q] /\ tx'[q] = tx[q] /\ mode'[q] = mode[q]
      /\ UNCHANGED <<oracleVars, prev, dirVars, origin>>
  BY DEF IInv, TypeOK, CheckCadence, Goto, Saved, Endings
<1> QED  BY <1>1, <1>2, <1>3, <1>4, QuietInv

\* CheckHead, Simulate, Send, Confirm, GiveUp, Strand, Abort and Lapse: the run
\* goes to a step that asks no more of it than the one it leaves, or ends.
LEMMA AdvanceInv ==
  ASSUME IInv, NEW r \in Run,
         \/ CheckHead(r) \/ Simulate(r) \/ Send(r) \/ Confirm(r) \/ GiveUp(r)
         \/ Strand(r) \/ Abort(r) \/ Lapse(r)
  PROVE  IInv'
<1> USE DEF CheckHead, Simulate, Send, Confirm, GiveUp, Strand, Abort, Lapse,
            Running, Goto
<1>1. TypeOK'
  BY DEF IInv, TypeOK, Steps, Endings, dirVars
<1>2. TxAt(r)'
  BY DEF IInv, TypeOK, TxMatches, TxAt, BeforeTx, Published, Computed, Steps
<1>3. r \in Job => GateAt(r)'
  <2> DEFINE Past == \/ pc[r] \in {"load", "check", "simulate", "send", "poll"}
                     \/ tx[r] = "pending"
  <2>1. Past' => Past /\ pc[r] # "load" /\ pc'[r] # "load"
    BY DEF IInv, TypeOK, TxMatches, TxAt, BeforeTx, Steps
  <2> QED  BY <2>1 DEF IInv, GateHolds, GateAt, Base, oracleVars
<1>4. /\ pc[r] \in Saved => pc'[r] \in Saved
      /\ pc'[r] = "rename" => pc[r] = "rename"
      /\ \A q \in Run \ {r} :
           pc'[q] = pc[q] /\ tx'[q] = tx[q] /\ mode'[q] = mode[q]
      /\ UNCHANGED <<oracleVars, prev, dirVars, origin>>
  BY DEF IInv, TypeOK, Saved, Steps, Endings
<1> QED  BY <1>1, <1>2, <1>3, <1>4, QuietInv

-----------------------------------------------------------------------------
(* The steps that copy a state from one directory to another. *)

\* No record comes from nowhere.
LEMMA RecordedSubset == \A old, new : Recorded(old, new) \subseteq old \cup new
  BY DEF Recorded

\* A directory is copied to another.
LEMMA CopyInv ==
  ASSUME IInv, NEW from \in Dir, NEW to \in Dir, NEW STATE records,
         disk' = [disk EXCEPT ![to] = disk[from]],
         audit' = [audit EXCEPT ![to] = records],
         records \subseteq audit[to] \cup audit[from],
         UNCHANGED <<oracleVars, mode, key, prev, tx, tmp, origin>>,
         pc' \in [Run -> Steps \cup Endings \cup {"idle", "queued"}],
         \A r \in Run : \/ pc'[r] = pc[r]
                        \/ pc[r] = "idle" /\ pc'[r] = "queued"
                        \/ pc[r] \notin Steps /\ pc'[r] \in Endings
                        \/ pc[r] = "push" /\ pc'[r] \in Endings,
         to \in Job => pc[to] = "idle"
  PROVE  IInv'
<1> USE DEF IInv
<1>1. OracleInv' /\ OriginMatches' /\ Continuity' /\ JobsKeepCadence'
  BY ChainFrame
<1>2. TypeOK'
  BY DEF TypeOK
<1>3. StoresPublished'
  BY DEF TypeOK, StoresPublished, Published
<1>4. TxMatches'
  BY DEF TypeOK, TxMatches, TxAt, Published, Computed, BeforeTx, Endings, Steps
<1>5. \A r \in Run : pc[r] \in Saved => pc'[r] \in Saved
  BY DEF Saved, Steps, Endings
<1>6. BasisIsSaved'
  <2>1. \A e \in Epoch : e < head => origin[e].run \in Run
    BY StatesApart, OracleAssumption
    DEF TypeOK, OriginMatches, OracleInv, OracleTypeOK, Epoch, NoHead
  <2>2. \A d \in Dir : disk[d] # NoState => disk[d].run \in Run
    BY StatesApart DEF TypeOK
  <2>3. \A q \in Run : prev[q] # NoState => prev[q].run \in Run
    BY StatesApart DEF TypeOK
  <2>4. \A d \in Dir : disk'[d] \in {disk[d], disk[from]}
    BY DEF TypeOK
  <2> QED  BY <1>5, <2>1, <2>2, <2>3, <2>4 DEF BasisIsSaved, oracleVars
<1>7. SaveNotShared'
  BY DEF SaveNotShared, Computed, Endings
<1>8. GateHolds'
  <2> SUFFICES ASSUME NEW r \in Job PROVE GateAt(r)'
    BY DEF GateHolds
  <2>1. CASE r = to
    BY <2>1 DEF TypeOK, TxMatches, TxAt, BeforeTx, GateAt, Steps, Endings, Run
  <2>2. CASE r # to
    BY <2>2 DEF TypeOK, GateHolds, GateAt, Base, oracleVars, Run, Steps, Endings
  <2> QED  BY <2>1, <2>2
<1> QED  BY <1>1, <1>2, <1>3, <1>4, <1>6, <1>7, <1>8

\* A job is triggered and checks the branch out.
LEMMA TriggerInv ==
  ASSUME IInv, NEW r \in Run, Trigger(r)
  PROVE  IInv'
<1>1. r \in Dir /\ Repo \in Dir /\ pc[r] = "idle"
  BY DEF Trigger, Dir
<1>2. /\ disk' = [disk EXCEPT ![r] = disk[Repo]]
      /\ audit' = [audit EXCEPT ![r] = audit[Repo]]
      /\ UNCHANGED <<oracleVars, mode, key, prev, tx, tmp, origin>>
  BY DEF Trigger
<1>3. /\ pc' \in [Run -> Steps \cup Endings \cup {"idle", "queued"}]
      /\ \A q \in Run : \/ pc'[q] = pc[q]
                        \/ pc[q] = "idle" /\ pc'[q] = "queued"
                        \/ pc[q] \notin Steps /\ pc'[q] \in Endings
  BY DEF Trigger, IInv, TypeOK, Steps, Endings
<1> QED  BY <1>1, <1>2, <1>3, CopyInv

\* A job pushes its directory to the branch.
LEMMA PushInv ==
  ASSUME IInv, NEW r \in Run, Push(r)
  PROVE  IInv'
<1>1. r \in Dir /\ Repo \in Dir /\ Repo \notin Job
  BY PublishingAssumption DEF Dir, Push
<1>2. /\ disk' = [disk EXCEPT ![Repo] = disk[r]]
      /\ audit' = [audit EXCEPT ![Repo] = Recorded(audit[Repo], audit[r])]
      /\ UNCHANGED <<oracleVars, mode, key, prev, tx, tmp, origin>>
  BY DEF Push
<1>3. /\ pc' \in [Run -> Steps \cup Endings \cup {"idle", "queued"}]
      /\ \A q \in Run : \/ pc'[q] = pc[q]
                        \/ pc[q] = "push" /\ pc'[q] \in Endings
  BY DEF Push, Goto, IInv, TypeOK, Steps, Endings
<1> QED  BY <1>1, <1>2, <1>3, CopyInv, RecordedSubset

\* A job's artifact is restored by hand.
LEMMA RestoreInv ==
  ASSUME IInv, NEW r \in Run, Restore(r)
  PROVE  IInv'
<1>1. r \in Dir /\ Repo \in Dir /\ Repo \notin Job
  BY PublishingAssumption DEF Dir, Restore
<1>2. /\ disk' = [disk EXCEPT ![Repo] = disk[r]]
      /\ audit' = [audit EXCEPT ![Repo] = Recorded(audit[Repo], audit[r])]
      /\ UNCHANGED <<oracleVars, mode, key, prev, tx, tmp, origin>>
  BY DEF Restore, Copy
<1>3. /\ pc' \in [Run -> Steps \cup Endings \cup {"idle", "queued"}]
      /\ \A q \in Run : \/ pc'[q] = pc[q]
                        \/ pc[q] \notin Steps /\ pc'[q] \in Endings
  BY DEF Restore, Goto, IInv, TypeOK, Steps, Endings
<1> QED  BY <1>1, <1>2, <1>3, CopyInv, RecordedSubset

\* The host pulls from the branch, or pushes to it.
LEMMA CloneInv ==
  ASSUME IInv, Pull \/ PushByHand
  PROVE  IInv'
<1>1. Host \in Dir /\ Repo \in Dir /\ Repo \notin Job /\ Host \notin Job
  BY PublishingAssumption DEF Dir
<1>2. PICK from \in {Host, Repo}, to \in {Host, Repo} :
        /\ disk' = [disk EXCEPT ![to] = disk[from]]
        /\ audit' = [audit EXCEPT ![to] = Recorded(audit[to], audit[from])]
        /\ UNCHANGED <<oracleVars, mode, key, prev, tx, tmp, origin, pc>>
  BY DEF Pull, PushByHand, Copy
<1>3. pc' \in [Run -> Steps \cup Endings \cup {"idle", "queued"}]
  BY <1>2 DEF IInv, TypeOK
<1>4. from \in Dir /\ to \in Dir /\ (to \in Job => pc[to] = "idle")
  BY <1>1
<1>5. \A q \in Run : pc'[q] = pc[q]
  BY <1>2
<1>6. Recorded(audit[to], audit[from]) \subseteq audit[to] \cup audit[from]
  BY RecordedSubset
<1> QED  BY <1>2, <1>3, <1>4, <1>5, <1>6, CopyInv

-----------------------------------------------------------------------------
(* The steps that load and save. *)

\* Facts about which runs the invariant speaks of, used by every step below.
LEMMA RunsOfStates ==
  ASSUME IInv
  PROVE  /\ \A e \in Epoch : e <= head => origin[e] \in State
         /\ \A e \in Epoch : e <= head => origin[e].run \in Run
         /\ \A d \in Dir : disk[d] # NoState => disk[d].run \in Run
         /\ \A r \in Run : prev[r] # NoState => prev[r].run \in Run
         /\ \A e \in Epoch : e < head => e <= head
  BY StatesApart, OracleAssumption
  DEF IInv, TypeOK, OriginMatches, OracleInv, OracleTypeOK, Epoch, NoHead

\* A run loads its state.
LEMMA LoadInv ==
  ASSUME IInv, NEW r \in Run, Load(r)
  PROVE  IInv'
<1> USE DEF IInv
<1>1. OracleInv' /\ OriginMatches' /\ Continuity' /\ JobsKeepCadence'
  BY ChainFrame DEF Load
<1>2. /\ pc[r] = "load" /\ pc' = [pc EXCEPT ![r] = pc'[r]]
      /\ pc'[r] \in {"done", "check"}
      /\ pc'[r] = "check" => mode[r] # "dry-run"
      /\ prev' = [prev EXCEPT ![r] = disk[DirOf(r)]]
      /\ UNCHANGED <<mode, key, tx, disk, tmp, audit, origin>>
      /\ UNCHANGED <<head, epochs, now>>
  BY DEF Load, Goto, TypeOK, dirVars, oracleVars
<1>3. DirOf(r) \in Dir /\ (r \in Job => DirOf(r) = r)
  BY DirOfRun
<1>4. tx[r] = "none"
  BY <1>2 DEF TxMatches, TxAt, BeforeTx
<1>5. TypeOK'
  BY <1>2, <1>3 DEF TypeOK, Steps, Endings
<1>6. StoresPublished'
  BY <1>2, <1>3 DEF TypeOK, StoresPublished, Published
<1>7. TxMatches'
  <2>1. TxAt(r)'
    BY <1>2, <1>4 DEF TypeOK, TxMatches, TxAt, BeforeTx
  <2>2. \A q \in Run \ {r} : TxAt(q)'
    BY <1>2 DEF TypeOK, TxMatches, TxAt, Published, Computed
  <2> QED  BY <2>1, <2>2 DEF TxMatches
<1>8. BasisIsSaved'
  <2>1. \A q \in Run : pc[q] \in Saved => pc'[q] \in Saved
    BY <1>2 DEF TypeOK, Saved, Endings
  <2>2. \A q \in Run : prev'[q] \in {prev[q], disk[DirOf(r)]}
    BY <1>2 DEF TypeOK
  <2> QED  BY <1>2, <1>3, <2>1, <2>2, RunsOfStates DEF BasisIsSaved
<1>9. SaveNotShared'
  BY <1>2 DEF TypeOK, SaveNotShared, Computed
<1>10. GateHolds'
  <2>1. r \in Job => GateAt(r)'
    BY <1>2, <1>3, <1>4 DEF TypeOK, GateHolds, GateAt, Base
  <2>2. \A q \in Job \ {r} : GateAt(q)'
    BY <1>2 DEF TypeOK, GateHolds, GateAt, Base, Run
  <2> QED  BY <2>1, <2>2 DEF GateHolds
<1> QED  BY <1>1, <1>5, <1>6, <1>7, <1>8, <1>9, <1>10

\* Two runs inside save would both be behind the head, so they are one run.
LEMMA OneSaver ==
  ASSUME IInv, NEW r \in Run, NEW q \in Run,
         pc[r] \in {"save", "rename"}, pc[q] \in {"save", "rename"}
  PROVE  q = r
<1>1. ASSUME NEW p \in Run, pc[p] \in {"save", "rename"}
      PROVE  p = origin[head].run
  <2>1. Computed(p) \in State /\ Computed(p) = origin[Computed(p).epoch]
    BY <1>1, ComputedIsSome DEF IInv, TxMatches, TxAt, Published
  <2> DEFINE e == Computed(p).epoch
  <2>2. e \in Epoch /\ e <= head /\ origin[e].run = p
    BY <2>1, StatesApart DEF IInv, OriginMatches, Computed
  <2>3. pc[p] \notin Saved
    BY <1>1 DEF Saved, Endings
  <2>4. ~(e < head)
    BY <2>2, <2>3 DEF IInv, BasisIsSaved
  <2>5. head \in Int
    BY OracleAssumption DEF IInv, OracleInv, OracleTypeOK, Epoch, NoHead
  <2> QED  BY <2>2, <2>4, <2>5 DEF Epoch
<1> QED  BY <1>1

\* The three steps that write a run's own computation into its directory.
LEMMA WriteInv ==
  ASSUME IInv, NEW r \in Run, WriteTmp(r) \/ Rename(r) \/ WriteAudit(r)
  PROVE  IInv'
<1> USE DEF IInv
<1>1. OracleInv' /\ OriginMatches' /\ Continuity' /\ JobsKeepCadence'
  BY ChainFrame DEF WriteTmp, Rename, WriteAudit
<1> DEFINE d == DirOf(r)
<1>2. /\ pc[r] \in {"save", "rename", "audit"}
      /\ pc' = [pc EXCEPT ![r] = pc'[r]]
      /\ pc[r] = "save" => pc'[r] = "rename"
      /\ pc[r] = "rename" => pc'[r] = "audit"
      /\ pc[r] = "audit" => pc'[r] \in {"push", "done"}
      /\ UNCHANGED <<mode, key, prev, tx, origin>>
      /\ UNCHANGED <<head, epochs, now>>
  BY DEF WriteTmp, Rename, WriteAudit, Goto, TypeOK, oracleVars
<1>3. d \in Dir /\ (r \in Job => d = r)
  BY DirOfRun
<1>4. /\ tx[r] = "applied"
      /\ Computed(r) \in State /\ Computed(r) # NoState
      /\ Computed(r) = origin[Computed(r).epoch]
  BY <1>2, ComputedIsSome DEF TxMatches, TxAt, Published
<1>5. /\ disk' \in {disk, [disk EXCEPT ![d] = Computed(r)]}
      /\ disk' # disk => pc'[r] = "audit"
      /\ \/ tmp' = [tmp EXCEPT ![d] = Computed(r)] /\ pc[r] = "save"
         \/ tmp' = [tmp EXCEPT ![d] = NoState] /\ pc[r] = "rename"
         \/ tmp' = tmp /\ pc[r] = "audit"
      /\ \/ audit' = audit
         \/ audit' = [audit EXCEPT ![d] = Recorded(audit[d], {Computed(r)})]
  BY DEF WriteTmp, Rename, WriteAudit, SaveNotShared, Goto, TypeOK
<1>6. \A c \in Dir : audit'[c] \subseteq audit[c] \cup {Computed(r)}
  BY <1>5, RecordedSubset DEF TypeOK
<1>7. TypeOK'
  <2>1. pc' \in [Run -> Steps \cup Endings \cup {"idle", "queued"}]
    BY <1>2 DEF TypeOK, Steps, Endings
  <2>2. disk' \in [Dir -> State \cup {NoState}] /\ tmp' \in [Dir -> State \cup {NoState}]
    BY <1>4, <1>5 DEF TypeOK
  <2>3. audit' \in [Dir -> SUBSET State]
    BY <1>4, <1>5, <1>6 DEF TypeOK
  <2> QED  BY <1>2, <2>1, <2>2, <2>3 DEF TypeOK
<1>8. StoresPublished'
  <2>1. \A c \in Dir : disk'[c] \in {disk[c], Computed(r)}
    BY <1>5 DEF TypeOK
  <2>2. \A c \in Dir : tmp'[c] \in {tmp[c], Computed(r), NoState}
    BY <1>5 DEF TypeOK
  <2> QED
    BY <1>2, <1>4, <1>6, <2>1, <2>2 DEF StoresPublished, Published
<1>9. TxMatches'
  BY <1>2, <1>4 DEF TypeOK, TxMatches, TxAt, Published, Computed, BeforeTx
<1>10. BasisIsSaved'
  <2>1. \A q \in Run : pc[q] \in Saved => pc'[q] \in Saved
    BY <1>2 DEF TypeOK, Saved, Endings
  <2>2. \A c \in Dir : \/ disk'[c] = disk[c]
                       \/ disk'[c] = Computed(r) /\ pc'[r] = "audit"
    BY <1>5 DEF TypeOK
  <2>3. Computed(r).run = r /\ "audit" \in Saved
    BY DEF Computed, Saved
  <2>4. \A c \in Dir : disk'[c] # NoState => pc'[disk'[c].run] \in Saved
    BY <2>1, <2>2, <2>3, RunsOfStates DEF BasisIsSaved
  <2>5. \A q \in Run : prev'[q] # NoState => pc'[prev'[q].run] \in Saved
    BY <1>2, <2>1, RunsOfStates DEF BasisIsSaved
  <2>6. \A e \in Epoch : e < head' => pc'[origin'[e].run] \in Saved
    BY <1>2, <2>1, RunsOfStates DEF BasisIsSaved
  <2> QED  BY <2>4, <2>5, <2>6 DEF BasisIsSaved
<1>11. SaveNotShared'
  <2> SUFFICES ASSUME NEW q \in Run, pc'[q] = "rename"
               PROVE  tmp'[DirOf(q)] = Computed(q)'
    BY DEF SaveNotShared
  <2>1. Computed(q)' = Computed(q)
    BY <1>2 DEF Computed
  <2>2. CASE pc[r] = "audit"
    BY <1>2, <1>5, <2>1, <2>2 DEF TypeOK, SaveNotShared
  <2>3. CASE pc[r] \in {"save", "rename"}
    <3>1. q = r
      BY <1>2, <2>3, OneSaver DEF TypeOK
    <3> QED  BY <1>2, <1>3, <1>5, <2>1, <2>3, <3>1 DEF TypeOK
  <2> QED  BY <1>2, <2>2, <2>3
<1>12. GateHolds'
  <2>1. r \in Job => GateAt(r)'
    BY <1>2, <1>4 DEF TypeOK, GateAt
  <2>2. \A q \in Job \ {r} : disk'[q] = disk[q]
    BY <1>3, <1>5, PublishingAssumption DEF TypeOK, Dir, DirOf, Run
  <2>3. \A q \in Job \ {r} : GateAt(q)'
    BY <1>2, <2>2 DEF TypeOK, GateHolds, GateAt, Base, Run
  <2> QED  BY <2>1, <2>3 DEF GateHolds
<1> QED
  BY <1>1, <1>7, <1>8, <1>9, <1>10, <1>11, <1>12

-----------------------------------------------------------------------------
(* The ledger and the operator. *)

\* The heart of the matter: a transaction lands only on the epoch its run's
\* state continues, and that state is what the chain has there.
LEMMA LandInv ==
  ASSUME IInv, NEW r \in Run, Land(r), OracleInv'
  PROVE  IInv'
<1> USE DEF IInv
<1> DEFINE c == Computed(r)
<1>1. /\ c.epoch = head + 1 /\ head' = c.epoch /\ c.epoch \in Epoch
      /\ epochs' = [epochs EXCEPT ![c.epoch] =
            [epoch |-> c.epoch, value |-> Level, constituents |-> Weights,
             published_at |-> now]]
      /\ tx[r] = "pending" /\ tx' = [tx EXCEPT ![r] = "applied"]
      /\ origin' = [origin EXCEPT ![c.epoch] = c]
      /\ UNCHANGED <<pc, mode, key, prev, disk, tmp, audit, now>>
  BY DEF Land, Publish, CanPublish, Expected, dirVars
<1>2. /\ c = [epoch |-> prev[r].epoch + 1, run |-> r, basis |-> prev[r].run]
      /\ c.run = r /\ c.basis = prev[r].run /\ prev[r].epoch + 1 = head + 1
  BY <1>1 DEF Computed
<1>3. head \in Int /\ head \in Epoch \cup {NoHead} /\ prev[r].epoch \in Int
  BY OracleAssumption, StatesApart
  DEF OracleInv, OracleTypeOK, TypeOK, Epoch, NoHead, NoState
<1>4. prev[r].epoch = head
  BY <1>2, <1>3
<1>5. head # NoHead => /\ head \in Epoch /\ prev[r] # NoState
                       /\ prev[r] = origin[head] /\ pc[prev[r].run] \in Saved
  BY <1>3, <1>4, OracleAssumption
  DEF StoresPublished, Published, BasisIsSaved, NoState, NoHead, Epoch
<1>6. head = NoHead => prev[r] = NoState
  BY <1>3, <1>4, StatesApart, OracleAssumption DEF TypeOK, Epoch, NoHead
<1>7. c \in State /\ c # NoState
  BY <1>1, <1>2, <1>5, <1>6, StatesApart, ComputedIsSome
  DEF State, TypeOK, NoState
<1>8. \A e \in Epoch : e # c.epoch => origin'[e] = origin[e] /\ epochs'[e] = epochs[e]
  BY <1>1 DEF OracleInv, OracleTypeOK, TypeOK
<1>9. origin'[c.epoch] = c /\ epochs'[c.epoch].published_at = now
  BY <1>1 DEF OracleInv, OracleTypeOK, TypeOK
<1>10. \A s : Published(s) => Published(s)'
  <2> SUFFICES ASSUME NEW s, Published(s), s # NoState
               PROVE  s \in State /\ s = origin'[s.epoch]
    BY DEF Published
  <2>1. s \in State /\ s = origin[s.epoch] /\ s.epoch \in Epoch
    BY StatesApart DEF Published
  <2>2. s.epoch <= head
    BY <2>1 DEF OriginMatches
  <2>3. s.epoch # c.epoch
    BY <1>1, <1>3, <2>1, <2>2, OracleAssumption DEF Epoch
  <2> QED  BY <1>8, <2>1, <2>3
<1>11. TypeOK'
  BY <1>1, <1>7 DEF TypeOK
<1>12. OriginMatches'
  <2>1. \A e \in Epoch : e <= head' <=> e <= head \/ e = c.epoch
    BY <1>1, <1>3, OracleAssumption DEF Epoch
  <2> QED  BY <1>1, <1>7, <1>8, <1>9, <2>1 DEF OriginMatches
<1>13. StoresPublished'
  BY <1>1, <1>10 DEF StoresPublished
<1>14. Continuity'
  <2> SUFFICES ASSUME NEW e \in Epoch, epochs'[e] # NoUpdate
               PROVE  /\ origin'[e].epoch = e
                      /\ origin'[e].basis =
                           IF e = 0 THEN NoRun ELSE origin'[e - 1].run
    BY DEF Continuity
  <2>1. CASE e = c.epoch
    <3>1. e = 0 => head = NoHead
      BY <1>1, <1>3, <2>1 DEF NoHead
    <3>2. e # 0 => e - 1 = head /\ head # NoHead /\ head # c.epoch
      BY <1>1, <1>3, <2>1, OracleAssumption DEF NoHead, Epoch
    <3> QED
      BY <1>2, <1>5, <1>6, <1>8, <1>9, <2>1, <3>1, <3>2 DEF NoState
  <2>2. CASE e # c.epoch
    <3>1. epochs[e] # NoUpdate /\ origin'[e] = origin[e]
      BY <1>8, <2>2
    <3>2. e # 0 => e - 1 \in Epoch /\ e - 1 # c.epoch
      BY <1>1, <1>3, <3>1, OracleAssumption
      DEF OracleInv, PublishedIsPrefix, Epoch
    <3> QED  BY <1>8, <3>1, <3>2 DEF Continuity
  <2> QED  BY <2>1, <2>2
<1>15. TxMatches'
  <2> SUFFICES ASSUME NEW q \in Run PROVE TxAt(q)'
    BY DEF TxMatches
  <2>1. Computed(q)' = Computed(q)
    BY <1>1 DEF Computed
  <2>2. Published(c)'
    <3>1. c' = c
      BY <1>1 DEF Computed
    <3> QED  BY <1>7, <1>9, <3>1 DEF Published
  <2>3. CASE q = r
    BY <1>1, <2>1, <2>2, <2>3
    DEF TypeOK, TxMatches, TxAt, Published, BeforeTx
  <2>4. CASE q # r
    <3>1. tx'[q] = tx[q] /\ TxAt(q)
      BY <1>1, <2>4 DEF TypeOK, TxMatches
    <3>2. Published(Computed(q)) => Published(Computed(q))'
      BY <1>10, <2>1 DEF Published
    <3> QED  BY <1>1, <2>1, <3>1, <3>2 DEF TxAt, Published
  <2> QED  BY <2>3, <2>4
<1>16. BasisIsSaved'
  <2>1. \A e \in Epoch : e < head' => e < head \/ (e = head /\ head # NoHead)
    BY <1>1, <1>3, OracleAssumption DEF Epoch, NoHead
  <2>2. \A e \in Epoch : e < head' => origin'[e] = origin[e]
    BY <1>1, <1>3, <1>8, OracleAssumption DEF Epoch
  <2> QED  BY <1>1, <1>5, <2>1, <2>2 DEF BasisIsSaved
<1>17. SaveNotShared'
  BY <1>1 DEF SaveNotShared, Computed
<1>18. \A q \in Job : Base(q).epoch # head'
  <2> SUFFICES ASSUME NEW q \in Job
               PROVE  Base(q).epoch \in Int /\ Base(q).epoch <= head
    BY <1>1, <1>3
  <2>1. q \in Run /\ q \in Dir
    BY DEF Run, Dir
  <2>2. Base(q) \in State \cup {NoState} /\ Published(Base(q))
    BY <2>1 DEF Base, TypeOK, StoresPublished
  <2>3. CASE Base(q) = NoState
    BY <1>3, <2>3, OracleAssumption DEF NoState, NoHead, Epoch
  <2>4. CASE Base(q) # NoState
    BY <2>2, <2>4, StatesApart DEF Published, OriginMatches, Epoch
  <2> QED  BY <2>3, <2>4
<1>19. GateHolds'
  BY <1>1, <1>18 DEF GateHolds, GateAt, Base
<1>20. JobsKeepCadence'
  <2> SUFFICES ASSUME NEW e \in Epoch \ {0}, epochs'[e] # NoUpdate,
                      origin'[e].run \in Job
               PROVE  epochs'[e].published_at >= epochs'[e - 1].published_at + Due
    BY DEF JobsKeepCadence
  <2>1. CASE e = c.epoch
    <3>1. e - 1 = head /\ head # NoHead /\ head # c.epoch
      BY <1>1, <1>3, <2>1, OracleAssumption DEF NoHead, Epoch
    <3>2. r \in Job
      BY <1>2, <1>9, <2>1
    <3>3. pc[r] # "load" /\ mode[r] = "gated"
      BY <1>1, <3>2 DEF TxMatches, TxAt, TypeOK, BeforeTx
    <3>4. now - epochs[head].published_at >= Due
      BY <1>1, <1>4, <3>1, <3>2, <3>3 DEF GateHolds, GateAt, Base
    <3>5. epochs'[e].published_at = now /\ epochs'[e - 1] = epochs[head]
      BY <1>5, <1>8, <1>9, <2>1, <3>1
    <3>6. epochs[head] # NoUpdate
      BY <1>3, <1>5, <3>1 DEF OracleInv, PublishedIsPrefix
    <3>7. now \in Int /\ epochs[head].published_at \in Int
      BY <1>5, <3>1, <3>6, OracleAssumption
      DEF OracleInv, OracleTypeOK, Update
    <3> QED  BY <3>4, <3>5, <3>7, PublishingAssumption
  <2>2. CASE e # c.epoch
    <3>1. epochs[e] # NoUpdate /\ origin'[e] = origin[e] /\ epochs'[e] = epochs[e]
      BY <1>8, <2>2
    <3>2. e - 1 \in Epoch /\ e - 1 # c.epoch
      BY <1>1, <1>3, <3>1, OracleAssumption
      DEF OracleInv, PublishedIsPrefix, Epoch
    <3> QED  BY <1>8, <3>1, <3>2 DEF JobsKeepCadence
  <2> QED  BY <2>1, <2>2
<1> QED
  BY <1>11, <1>12, <1>13, <1>14, <1>15, <1>16, <1>17, <1>19, <1>20

\* Time, init and rotation leave the runs and their files alone.
LEMMA EnvironmentInv ==
  ASSUME IInv, OracleInv', UNCHANGED <<runVars, dirVars, origin, head, epochs>>,
         now' >= now, now' \in Int
  PROVE  IInv'
<1> USE DEF IInv, runVars, dirVars
<1>1. TypeOK' /\ OriginMatches' /\ StoresPublished' /\ Continuity'
  BY DEF TypeOK, OriginMatches, StoresPublished, Published, Continuity
<1>2. TxMatches' /\ BasisIsSaved' /\ SaveNotShared' /\ JobsKeepCadence'
  BY DEF TxMatches, TxAt, Published, Computed, BasisIsSaved, SaveNotShared,
         JobsKeepCadence
<1>3. GateHolds'
  <2> SUFFICES ASSUME NEW r \in Job, GateAt(r) PROVE GateAt(r)'
    BY DEF GateHolds
  <2>1. head # NoHead => epochs[head].published_at \in Int
    BY OracleAssumption
    DEF OracleInv, OracleTypeOK, PublishedIsPrefix, Update, Epoch, NoHead
  <2>2. now \in Int
    BY OracleAssumption DEF OracleInv, OracleTypeOK
  <2> QED  BY <2>1, <2>2, PublishingAssumption DEF GateAt, Base
<1> QED  BY <1>1, <1>2, <1>3

-----------------------------------------------------------------------------
(* The theorems. *)

\* Every step is a call the contract allows, or none.
LEMMA StepIsOracleStep ==
  ASSUME OracleTypeOK, TypeOK, [Next]_vars
  PROVE  [OracleNext]_oracleVars
<1>1. ASSUME NEW r \in Run, Land(r)
      PROVE  OracleNext
  <2>1. /\ Publish({key[r]}, Computed(r).epoch, Level, Weights)
        /\ Computed(r).epoch \in Epoch
        /\ {key[r]} \in SUBSET Address
    BY <1>1 DEF Land, Publish, CanPublish, OracleTypeOK, Expected
  <2> QED  BY <2>1, PublishingAssumption DEF OracleNext
<1>2. ASSUME NEW p \in PublisherKey, CmdInit(p) \/ Rotate(p)
      PROVE  OracleNext
  BY <1>2, PublishingAssumption DEF CmdInit, Rotate, OracleNext
<1>3. CASE Tick
  BY <1>3 DEF Tick, OracleNext
<1>4. ASSUME NEW r \in Run, Trigger(r) \/ Step(r) \/ Abort(r) \/ Lapse(r) \/ Restore(r)
      PROVE  UNCHANGED oracleVars
  BY <1>4
  DEF Trigger, Step, Abort, Lapse, Restore, Copy, CheckCadence, Load, CheckHead,
      Simulate, Send, Confirm, GiveUp, WriteTmp, Rename, WriteAudit, Push, Strand
<1>5. ASSUME NEW r \in Run, NEW k \in PublisherKey, NEW m \in ModesOf(r),
             StartByHand(r, m, k) \/ StartJob(r, m, k)
      PROVE  UNCHANGED oracleVars
  BY <1>5 DEF StartByHand, StartJob, Begin
<1>6. CASE Pull \/ PushByHand
  BY <1>6 DEF Pull, PushByHand, Copy
<1>7. CASE UNCHANGED vars
  BY <1>7 DEF vars
<1> QED  BY <1>1, <1>2, <1>3, <1>4, <1>5, <1>6, <1>7 DEF Next

\* The inductive invariant holds initially,
LEMMA InitIInv == Init => IInv
<1> SUFFICES ASSUME Init PROVE IInv
  OBVIOUS
<1>1. OracleInv
  BY InitInv DEF Init
<1>2. TypeOK
  BY DEF Init, TypeOK
<1>3. OriginMatches /\ StoresPublished /\ Continuity /\ JobsKeepCadence
  BY OracleAssumption
  DEF Init, OracleInit, OriginMatches, StoresPublished, Published, Continuity,
      JobsKeepCadence, Epoch, NoHead
<1>4. TxMatches /\ SaveNotShared /\ GateHolds
  BY PublishingAssumption
  DEF Init, OracleInit, TxMatches, TxAt, SaveNotShared, GateHolds, GateAt, Run
<1>5. BasisIsSaved
  BY OracleAssumption DEF Init, OracleInit, BasisIsSaved, Epoch, NoHead
<1> QED  BY <1>1, <1>2, <1>3, <1>4, <1>5 DEF IInv

\* no step breaks it,
LEMMA NextIInv == IInv /\ [Next]_vars => IInv'
<1> SUFFICES ASSUME IInv, [Next]_vars PROVE IInv'
  OBVIOUS
<1>1. OracleInv'
  BY StepIsOracleStep, StepInv DEF IInv, OracleInv
<1>2. ASSUME NEW r \in Run, NEW k \in PublisherKey, NEW m \in ModesOf(r),
             StartByHand(r, m, k) \/ StartJob(r, m, k)
      PROVE  IInv'
  BY <1>2, BeginInv DEF StartByHand, StartJob
<1>3. ASSUME NEW r \in Run, Step(r) PROVE IInv'
  BY <1>3, CheckCadenceInv, LoadInv, AdvanceInv, WriteInv, PushInv DEF Step
<1>4. ASSUME NEW r \in Run,
             Trigger(r) \/ Abort(r) \/ Land(r) \/ Lapse(r) \/ Restore(r)
      PROVE  IInv'
  BY <1>1, <1>4, TriggerInv, AdvanceInv, LandInv, RestoreInv
<1>5. ASSUME NEW p \in PublisherKey, CmdInit(p) \/ Rotate(p) PROVE IInv'
  <2>1. /\ UNCHANGED <<runVars, dirVars, origin, head, epochs>>
        /\ now' = now
    BY <1>5 DEF CmdInit, Rotate, Initialize, SetPublisher
  <2>2. now \in Int
    BY OracleAssumption DEF IInv, OracleInv, OracleTypeOK
  <2> QED  BY <1>1, <2>1, <2>2, EnvironmentInv
<1>6. CASE Tick
  <2>1. now \in Int
    BY OracleAssumption DEF IInv, OracleInv, OracleTypeOK
  <2> QED  BY <1>1, <1>6, <2>1, EnvironmentInv DEF Tick, CloseLedger
<1>7. CASE Pull \/ PushByHand
  BY <1>7, CloneInv
<1>8. CASE UNCHANGED vars
  <2>1. now \in Int
    BY OracleAssumption DEF IInv, OracleInv, OracleTypeOK
  <2> QED
    BY <1>1, <1>8, <2>1, EnvironmentInv
    DEF vars, oracleVars, runVars, dirVars
<1> QED  BY <1>2, <1>3, <1>4, <1>5, <1>6, <1>7, <1>8 DEF Next

\* and so it holds throughout.
LEMMA Invariance == Spec => []IInv
  BY InitIInv, NextIInv, PTL DEF Spec

\* Each epoch continues the computation behind the epoch before it.
THEOREM RunsAreContinuous == Spec => []Continuity
<1>1. IInv => Continuity
  BY DEF IInv
<1> QED  BY <1>1, Invariance, PTL

\* Nothing is on disk, half saved or audited that the chain does not have.
THEOREM StoresFollowTheChain == Spec => []StateIsPublished
<1>1. IInv => StateIsPublished
  BY DEF IInv, StoresPublished, Published, StateIsPublished
<1> QED  BY <1>1, Invariance, PTL

\* No two runs are inside save in one directory.
THEOREM SavesDoNotCollide == Spec => []SaveNotShared
<1>1. IInv => SaveNotShared
  BY DEF IInv
<1> QED  BY <1>1, Invariance, PTL

\* A workflow job never publishes before the cadence is due.
THEOREM JobsAreOnTime == Spec => []JobsKeepCadence
<1>1. IInv => JobsKeepCadence
  BY DEF IInv
<1> QED  BY <1>1, Invariance, PTL

\* The variables keep their types.
THEOREM PublishingTypes == Spec => []TypeOK
<1>1. IInv => TypeOK
  BY DEF IInv
<1> QED  BY <1>1, Invariance, PTL

-----------------------------------------------------------------------------
(* Fixture states and live ones never meet: each directory holds one kind,   *)
(* a run builds on what its directory holds, and an epoch lands only on the  *)
(* computation its run built on.                                             *)

\* s may be kept in directory d.
BelongsIn(s, d) == s # NoState => (s.run \in Fixture <=> d = FixtureDir)

DirsApart ==
  \A d \in Dir : /\ BelongsIn(disk[d], d) /\ BelongsIn(tmp[d], d)
                 /\ \A a \in audit[d] : BelongsIn(a, d)
RunsApart == \A r \in Run : BelongsIn(prev[r], DirOf(r))
FeedApart ==
  \A e \in Epoch : epochs[e] # NoUpdate =>
    (origin[e].run \in Fixture <=> origin[0].run \in Fixture)
Apart == DirsApart /\ RunsApart /\ FeedApart

\* Fixture runs, and no others, work in the fixtures directory.
LEMMA FixtureDirIs ==
  \A r \in Run : /\ DirOf(r) = FixtureDir <=> r \in Fixture
                 /\ BelongsIn(Computed(r), DirOf(r))
  BY PublishingAssumption DEF DirOf, Run, BelongsIn, Computed

\* What is neither loaded, stored nor published cannot mix.
LEMMA QuietApart ==
  ASSUME Apart, UNCHANGED <<epochs, prev, dirVars, origin>>
  PROVE  Apart'
  BY DEF Apart, DirsApart, RunsApart, FeedApart, BelongsIn, dirVars

\* A run loads what its directory holds.
LEMMA LoadApart ==
  ASSUME TypeOK, Apart, NEW r \in Run, Load(r)
  PROVE  Apart'
<1>1. /\ prev' = [prev EXCEPT ![r] = disk[DirOf(r)]]
      /\ UNCHANGED <<epochs, disk, tmp, audit, origin>>
  BY DEF Load, dirVars, oracleVars
<1>2. RunsApart'
  BY <1>1, DirOfRun DEF Apart, DirsApart, RunsApart, BelongsIn, TypeOK
<1> QED  BY <1>1, <1>2 DEF Apart, DirsApart, FeedApart, BelongsIn

\* A run writes its computation into its directory.
LEMMA WriteApart ==
  ASSUME TypeOK, Apart, NEW r \in Run, WriteTmp(r) \/ Rename(r) \/ WriteAudit(r)
  PROVE  Apart'
<1>1. UNCHANGED <<epochs, prev, origin>>
  BY DEF WriteTmp, Rename, WriteAudit, oracleVars
<1>2. \A d \in Dir : /\ disk'[d] \in {disk[d], tmp[d]}
                     /\ tmp'[d] \in {tmp[d], NoState}
                          \cup (IF d = DirOf(r) THEN {Computed(r)} ELSE {})
                     /\ audit'[d] \subseteq audit[d]
                          \cup (IF d = DirOf(r) THEN {Computed(r)} ELSE {})
  BY RecordedSubset, DirOfRun DEF TypeOK, WriteTmp, Rename, WriteAudit
<1>3. BelongsIn(Computed(r), DirOf(r))
  BY FixtureDirIs
<1>4. DirsApart'
  <2> SUFFICES ASSUME NEW d \in Dir
               PROVE  /\ BelongsIn(disk'[d], d) /\ BelongsIn(tmp'[d], d)
                      /\ \A a \in audit'[d] : BelongsIn(a, d)
    BY DEF DirsApart, BelongsIn
  <2>1. BelongsIn(NoState, d)
    BY DEF BelongsIn
  <2> QED  BY <1>2, <1>3, <2>1 DEF Apart, DirsApart
<1> QED  BY <1>1, <1>4 DEF Apart, RunsApart, FeedApart, BelongsIn

\* A push, a restored artifact and a pull copy neither from nor to fixtures.
LEMMA CopyApart ==
  ASSUME TypeOK, Apart, NEW from \in Dir, NEW to \in Dir,
         from # FixtureDir, to # FixtureDir,
         disk' = [disk EXCEPT ![to] = disk[from]],
         audit' = [audit EXCEPT ![to] = Recorded(audit[to], audit[from])],
         UNCHANGED <<epochs, prev, tmp, origin>>
  PROVE  Apart'
<1>1. \A d \in Dir : /\ disk'[d] = disk[d] \/ (d = to /\ disk'[d] = disk[from])
                     /\ audit'[d] \subseteq audit[d]
                          \cup (IF d = to THEN audit[from] ELSE {})
  BY RecordedSubset DEF TypeOK
<1>2. DirsApart'
  BY <1>1 DEF Apart, DirsApart, BelongsIn
<1> QED  BY <1>2 DEF Apart, RunsApart, FeedApart, BelongsIn

\* A job checks the branch out.
LEMMA TriggerApart ==
  ASSUME TypeOK, Apart, NEW r \in Run, Trigger(r)
  PROVE  Apart'
<1>1. /\ r \in Dir /\ Repo \in Dir /\ r # FixtureDir /\ Repo # FixtureDir
      /\ disk' = [disk EXCEPT ![r] = disk[Repo]]
      /\ audit' = [audit EXCEPT ![r] = audit[Repo]]
      /\ UNCHANGED <<epochs, prev, tmp, origin>>
  BY PublishingAssumption DEF Trigger, Dir, oracleVars
<1>2. DirsApart'
  BY <1>1 DEF TypeOK, Apart, DirsApart, BelongsIn
<1> QED  BY <1>1, <1>2 DEF Apart, RunsApart, FeedApart, BelongsIn

\* A transaction lands on the epoch its run loaded, which is of the run's kind.
LEMMA LandApart ==
  ASSUME IInv, Apart, NEW r \in Run, Land(r)
  PROVE  Apart'
<1> DEFINE c == Computed(r)
<1>1. /\ c.epoch = head + 1 /\ c.epoch \in Epoch
      /\ \A e \in Epoch : e # c.epoch => epochs'[e] = epochs[e] /\ origin'[e] = origin[e]
      /\ origin'[c.epoch] = c
      /\ UNCHANGED <<prev, disk, tmp, audit>>
  BY DEF Land, Publish, CanPublish, Expected, dirVars, IInv, TypeOK,
         OracleInv, OracleTypeOK
<1>2. c.run = r /\ prev[r].epoch + 1 = head + 1
  BY <1>1 DEF Computed
<1>3. head \in Int /\ head \in Epoch \cup {NoHead} /\ prev[r].epoch \in Int
  BY OracleAssumption, StatesApart
  DEF IInv, OracleInv, OracleTypeOK, TypeOK, Epoch, NoHead, NoState
<1>4. prev[r].epoch = head
  BY <1>2, <1>3
<1>5. DirsApart' /\ RunsApart'
  BY <1>1 DEF Apart, DirsApart, RunsApart, BelongsIn
<1>6. FeedApart'
  <2>1. CASE head = NoHead
    <3>1. c.epoch = 0
      BY <1>1, <2>1 DEF NoHead
    <3>2. \A e \in Epoch : epochs[e] = NoUpdate
      BY <2>1, OracleAssumption DEF IInv, OracleInv, PublishedIsPrefix, Epoch, NoHead
    <3> QED  BY <1>1, <3>1, <3>2 DEF FeedApart
  <2>2. CASE head # NoHead
    <3>1. head \in Epoch /\ prev[r] # NoState /\ prev[r] = origin[head]
      BY <1>3, <1>4, <2>2, OracleAssumption
      DEF IInv, StoresPublished, Published, NoState, NoHead, Epoch
    <3>2. r \in Fixture <=> origin[head].run \in Fixture
      BY <3>1, FixtureDirIs DEF Apart, RunsApart, BelongsIn
    <3>3. epochs[head] # NoUpdate
      BY <1>3, <3>1 DEF IInv, OracleInv, PublishedIsPrefix
    <3>4. r \in Fixture <=> origin[0].run \in Fixture
      BY <3>1, <3>2, <3>3 DEF Apart, FeedApart
    <3>5. c.epoch # 0 /\ 0 \in Epoch
      BY <1>1, <1>3, <3>1, OracleAssumption DEF Epoch
    <3>6. origin'[0] = origin[0]
      BY <1>1, <3>5
    <3> SUFFICES ASSUME NEW e \in Epoch, epochs'[e] # NoUpdate
                 PROVE  origin'[e].run \in Fixture <=> origin'[0].run \in Fixture
      BY DEF FeedApart
    <3>7. CASE e = c.epoch
      BY <1>1, <1>2, <3>4, <3>6, <3>7
    <3>8. CASE e # c.epoch
      BY <1>1, <3>6, <3>8 DEF Apart, FeedApart
    <3> QED  BY <3>7, <3>8
  <2> QED  BY <2>1, <2>2
<1> QED  BY <1>5, <1>6 DEF Apart

\* No step mixes the two kinds.
LEMMA NextApart == IInv /\ Apart /\ [Next]_vars => Apart'
<1> SUFFICES ASSUME IInv, Apart, [Next]_vars PROVE Apart'
  OBVIOUS
<1>1. TypeOK
  BY DEF IInv
<1>2. /\ {Host, Repo} \subseteq Dir /\ FixtureDir \notin {Host, Repo}
      /\ \A r \in Job : r \in Dir /\ r # FixtureDir
  BY PublishingAssumption DEF Dir
<1>3. ASSUME NEW r \in Run, NEW k \in PublisherKey, NEW m \in ModesOf(r),
             StartByHand(r, m, k) \/ StartJob(r, m, k)
      PROVE  Apart'
  BY <1>3, QuietApart DEF StartByHand, StartJob, Begin, oracleVars
<1>4. ASSUME NEW r \in Run, Step(r) PROVE Apart'
  <2>1. CASE \/ CheckCadence(r) \/ CheckHead(r) \/ Simulate(r) \/ Send(r)
             \/ Confirm(r) \/ GiveUp(r) \/ Strand(r)
    BY <2>1, QuietApart
    DEF CheckCadence, CheckHead, Simulate, Send, Confirm, GiveUp, Strand,
        oracleVars
  <2>2. CASE Push(r)
    <3>1. /\ r \in Job
          /\ disk' = [disk EXCEPT ![Repo] = disk[r]]
          /\ audit' = [audit EXCEPT ![Repo] = Recorded(audit[Repo], audit[r])]
          /\ UNCHANGED <<epochs, prev, tmp, origin>>
      BY <2>2 DEF Push, oracleVars
    <3> QED  BY <1>1, <1>2, <3>1, CopyApart
  <2> QED  BY <1>1, <1>4, <2>1, <2>2, LoadApart, WriteApart DEF Step
<1>5. ASSUME NEW r \in Run, Abort(r) \/ Lapse(r) PROVE Apart'
  BY <1>5, QuietApart DEF Abort, Lapse, oracleVars
<1>6. ASSUME NEW r \in Run, Restore(r) PROVE Apart'
  <2>1. /\ r \in Job
        /\ disk' = [disk EXCEPT ![Repo] = disk[r]]
        /\ audit' = [audit EXCEPT ![Repo] = Recorded(audit[Repo], audit[r])]
        /\ UNCHANGED <<epochs, prev, tmp, origin>>
    BY <1>6 DEF Restore, Copy, oracleVars
  <2> QED  BY <1>1, <1>2, <2>1, CopyApart
<1>7. ASSUME NEW p \in PublisherKey, CmdInit(p) \/ Rotate(p) PROVE Apart'
  BY <1>7, QuietApart DEF CmdInit, Rotate, Initialize, SetPublisher, runVars
<1>8. CASE Tick \/ UNCHANGED vars
  BY <1>8, QuietApart DEF Tick, CloseLedger, vars, oracleVars, runVars
<1>9. CASE Pull \/ PushByHand
  <2>1. PICK from \in {Host, Repo}, to \in {Host, Repo} :
          /\ disk' = [disk EXCEPT ![to] = disk[from]]
          /\ audit' = [audit EXCEPT ![to] = Recorded(audit[to], audit[from])]
          /\ UNCHANGED <<epochs, prev, tmp, origin>>
    BY <1>9 DEF Pull, PushByHand, Copy, oracleVars
  <2> QED  BY <1>1, <1>2, <2>1, CopyApart
<1> QED
  BY <1>1, <1>3, <1>4, <1>5, <1>6, <1>7, <1>8, <1>9, TriggerApart, LandApart DEF Next

\* No fixture state is kept among live ones, nor a live one among fixtures, and
\* no feed has epochs of both kinds.
THEOREM FixturesNeverMix == Spec => []FixturesStayApart
<1>1. Init => Apart
  BY DEF Init, OracleInit, Apart, DirsApart, RunsApart, FeedApart, BelongsIn
<1>2. Apart => FixturesStayApart
  BY DEF Apart, DirsApart, FeedApart, BelongsIn, FixturesStayApart
<1> QED  BY <1>1, <1>2, Invariance, NextApart, PTL DEF Spec

-----------------------------------------------------------------------------
(* State files never go back to an earlier epoch, and what a run reports as  *)
(* done stays where the next run looks.  As long as a job has not delivered  *)
(* its state to the branch, nobody else has seen that state, so nobody has   *)
(* built on it and the chain cannot be past it.  Delivering it late, by a    *)
(* push or from the artifact, therefore never overwrites a later epoch.      *)

\* Behind each published epoch is what its run computes to this day: a run
\* loads no state again once its transaction is applied.
OriginIsComputed ==
  \A e \in Epoch : origin[e] # NoState =>
    /\ origin[e] = Computed(origin[e].run)
    /\ tx[origin[e].run] = "applied"

\* A job's checkout is empty before the job, and has its state and its record
\* from the save to the push.
CheckoutAt(r) ==
  /\ pc[r] = "idle" => disk[r] = NoState
  /\ pc[r] \in {"audit", "push", "stranded"} => disk[r] = Computed(r)
  /\ pc[r] = "push" => Computed(r) \in audit[r]
CheckoutHolds == \A r \in Job : CheckoutAt(r)

\* Before a job delivers its state, nobody but the job has it.
UnseenAt(r) ==
  pc[r] \notin {"done", "restored"} =>
    /\ \A d \in Dir \ {r} : disk[d].run # r
    /\ \A q \in Run : prev[q].run # r
UndeliveredIsUnseen == \A r \in Job : UnseenAt(r)

\* A run past its save has nothing pending, and its directory is as far as it.
SavedAt(r) ==
  /\ pc[r] \in {"audit", "push", "stranded", "restored", "done"} =>
       tx[r] # "pending"
  /\ pc[r] = "audit" => disk[DirOf(r)].epoch >= Computed(r).epoch
SaveHolds == \A r \in Run : SavedAt(r)

Kept ==
  /\ OriginIsComputed
  /\ CheckoutHolds
  /\ UndeliveredIsUnseen
  /\ SaveHolds
  /\ SuccessIsDurable

NoRegress == \A d \in Dir : disk'[d].epoch >= disk[d].epoch

\* SuccessIsDurable, of one epoch.
Home(r) == IF r \in Job THEN Repo ELSE DirOf(r)
DurableAt(e) ==
  origin[e] # NoState /\ pc[origin[e].run] \in {"done", "restored"} =>
    /\ disk[Home(origin[e].run)].epoch >= e
    /\ pc[origin[e].run] = "done" => origin[e] \in audit[Home(origin[e].run)]

-----------------------------------------------------------------------------
(* Small facts. *)

\* Durability, epoch by epoch.
LEMMA DurableByEpoch == SuccessIsDurable <=> \A e \in Epoch : DurableAt(e)
  BY DEF SuccessIsDurable, DurableAt, Home

\* Where the next run looks is no job's checkout.
LEMMA HomeIsShared == \A r \in Run : Home(r) \in Dir \ Job
  BY PublishingAssumption DEF Home, DirOf, Run, Dir

\* Epochs of states are numbers.
LEMMA StateEpochs ==
  \A s \in State \cup {NoState} : s.epoch \in Int /\ s.epoch >= NoHead
  BY StatesApart, OracleAssumption DEF NoState, NoHead, Epoch

\* The epochs on disk are numbers, and none is ahead of the chain.
LEMMA EpochsOnDisk ==
  ASSUME IInv
  PROVE  /\ head \in Int
         /\ \A d \in Dir : disk[d].epoch \in Int /\ disk[d].epoch <= head
                           /\ disk[d].epoch >= NoHead
         /\ \A r \in Run : prev[r].epoch \in Int /\ Computed(r).epoch \in Int
                           /\ Computed(r).epoch = prev[r].epoch + 1
                           /\ Computed(r).run = r
         /\ \A e \in Epoch : e \in Int
<1> USE DEF IInv
<1>1. /\ head \in Int /\ head >= NoHead
      /\ \A e \in Epoch : e \in Int /\ e >= NoHead
  BY OracleAssumption DEF OracleInv, OracleTypeOK, Epoch, NoHead
<1>2. ASSUME NEW d \in Dir
      PROVE  disk[d].epoch \in Int /\ disk[d].epoch <= head /\ disk[d].epoch >= NoHead
  <2>1. CASE disk[d] = NoState
    BY <1>1, <2>1 DEF NoState, NoHead
  <2>2. CASE disk[d] # NoState
    <3>1. disk[d] = origin[disk[d].epoch] /\ disk[d].epoch \in Epoch
      BY <2>2, StatesApart DEF TypeOK, StoresPublished, Published
    <3> QED  BY <1>1, <2>2, <3>1 DEF OriginMatches
  <2> QED  BY <2>1, <2>2
<1>3. \A r \in Run : prev[r].epoch \in Int
  BY <1>1, StatesApart DEF TypeOK, NoState, NoHead
<1> QED  BY <1>1, <1>2, <1>3 DEF Computed

\* Who is behind an epoch, in terms of its run.
LEMMA OriginRun ==
  ASSUME IInv, OriginIsComputed, NEW e \in Epoch, origin[e] # NoState
  PROVE  /\ origin[e].run \in Run
         /\ origin[e] = Computed(origin[e].run)
         /\ Computed(origin[e].run).epoch = e
         /\ tx[origin[e].run] = "applied"
  BY RunsOfStates DEF IInv, OriginMatches, OriginIsComputed

\* A run inside save is the one behind the head.
LEMMA SaverIsHead ==
  ASSUME IInv, NEW r \in Run, pc[r] \in {"save", "rename"}
  PROVE  Computed(r).epoch = head
<1>1. Computed(r) \in State /\ Computed(r) = origin[Computed(r).epoch]
  BY ComputedIsSome DEF IInv, TxMatches, TxAt, Published
<1>2. /\ Computed(r).epoch \in Epoch /\ Computed(r).epoch <= head
      /\ origin[Computed(r).epoch].run = r
  BY <1>1, StatesApart DEF IInv, OriginMatches, Computed
<1>3. pc[r] \notin Saved
  BY DEF Saved, Endings
<1>4. ~(Computed(r).epoch < head)
  BY <1>2, <1>3 DEF IInv, BasisIsSaved
<1> QED  BY <1>2, <1>4, EpochsOnDisk

\* A record is only ever replaced by the same record.
LEMMA RecordedKeeps ==
  ASSUME NEW old, NEW new, \A a \in old \cup new : a = origin[a.epoch]
  PROVE  old \cup new \subseteq Recorded(old, new)
  BY DEF Recorded

\* Every record is the computation behind its epoch.
LEMMA AuditsPublished ==
  ASSUME IInv, NEW d \in Dir, NEW a \in audit[d]
  PROVE  a = origin[a.epoch]
  BY StatesApart DEF IInv, TypeOK, StoresPublished, Published

-----------------------------------------------------------------------------
(* What most steps keep. *)

\* The history and the transactions it rests on.
LEMMA OriginKept ==
  ASSUME IInv, OriginIsComputed, origin' = origin,
         \A q \in Run : tx[q] = "applied" => tx'[q] = "applied" /\ prev'[q] = prev[q]
  PROVE  OriginIsComputed'
<1> SUFFICES ASSUME NEW e \in Epoch, origin[e] # NoState
             PROVE  /\ origin[e] = Computed(origin[e].run)'
                    /\ tx'[origin[e].run] = "applied"
  BY DEF OriginIsComputed, Computed
<1> QED  BY OriginRun DEF Computed

\* Success stays durable when no state goes back and no shared record is lost,
\* if the one run that may succeed in the step does so durably.
LEMMA DurableKept ==
  ASSUME IInv, IInv', OriginIsComputed, SuccessIsDurable, NoRegress,
         origin' = origin,
         NEW r \in Run,
         \A d \in Dir \ Job : audit[d] \subseteq audit'[d],
         \A q \in Run \ {r} : pc'[q] \in {"done", "restored"} => pc'[q] = pc[q],
         \A e \in Epoch : origin[e].run = r => DurableAt(e)'
  PROVE  SuccessIsDurable'
<1>1. \A d \in Dir : /\ disk'[d].epoch \in Int /\ disk[d].epoch \in Int
                     /\ disk'[d].epoch >= disk[d].epoch
  <2>1. \A d \in Dir : disk'[d].epoch \in Int
    BY StateEpochs DEF IInv, TypeOK
  <2> QED  BY <2>1, EpochsOnDisk DEF NoRegress
<1>2. ASSUME NEW e \in Epoch, origin[e].run # r
      PROVE  DurableAt(e)'
  <2> DEFINE q == origin[e].run
  <2> SUFFICES ASSUME origin[e] # NoState, pc'[q] \in {"done", "restored"}
               PROVE  /\ disk'[Home(q)].epoch >= e
                      /\ pc'[q] = "done" => origin[e] \in audit'[Home(q)]
    BY DEF DurableAt, Home, DirOf
  <2>1. q \in Run /\ Home(q) \in Dir \ Job /\ e \in Int
    BY OriginRun, HomeIsShared, EpochsOnDisk
  <2>2. pc[q] = pc'[q]
    BY <1>2, <2>1
  <2>3. /\ disk[Home(q)].epoch >= e
        /\ pc[q] = "done" => origin[e] \in audit[Home(q)]
    BY <2>2, DurableByEpoch DEF DurableAt
  <2>4. disk'[Home(q)].epoch >= e
    BY <1>1, <2>1, <2>3
  <2> QED  BY <2>1, <2>2, <2>3, <2>4
<1>3. \A e \in Epoch : DurableAt(e)'
  BY <1>2
<1> QED  BY <1>3 DEF SuccessIsDurable, DurableAt, Home

-----------------------------------------------------------------------------
(* The steps that leave states and records alone: a run moves on, or ends. *)

Moves(q) ==
  /\ tx[q] = "applied" => tx'[q] = "applied"
  /\ tx'[q] = "pending" => tx[q] = "pending" \/ pc'[q] = "poll"
  /\ \/ pc'[q] = pc[q]
     \/ /\ pc[q] \notin Endings
        /\ pc'[q] \notin {"idle", "audit", "push", "stranded", "restored", "done"}
     \/ q \in Job /\ pc[q] \in {"audit", "push"} /\ pc'[q] = "stranded"

\* Steps that touch no file keep Kept.
LEMMA QuietKept ==
  ASSUME IInv, IInv', Kept, UNCHANGED <<prev, disk, audit, origin>>,
         \A q \in Run : Moves(q)
  PROVE  Kept' /\ NoRegress
<1> USE DEF Kept
<1>1. OriginIsComputed'
  BY OriginKept DEF Moves
<1>2. \A q \in Run : Computed(q)' = Computed(q)
  BY DEF Computed
<1>3. CheckoutHolds'
  BY <1>2 DEF CheckoutHolds, CheckoutAt, Moves, Run
<1>4. UndeliveredIsUnseen'
  BY DEF UndeliveredIsUnseen, UnseenAt, Moves, Run, Endings
<1>5. SaveHolds'
  BY <1>2 DEF SaveHolds, SavedAt, Moves, DirOf
<1>6. NoRegress
  BY EpochsOnDisk DEF NoRegress
<1>7. SuccessIsDurable'
  <2> SUFFICES ASSUME NEW e \in Epoch PROVE DurableAt(e)'
    BY DEF SuccessIsDurable, DurableAt, Home
  <2>1. origin[e] # NoState => origin[e].run \in Run
    BY OriginRun
  <2> QED
    BY <2>1, DurableByEpoch DEF DurableAt, Home, DirOf, Moves
<1> QED  BY <1>1, <1>3, <1>4, <1>5, <1>6, <1>7

\* Starting, CheckCadence, CheckHead, Simulate, Send, Confirm, GiveUp, WriteTmp,
\* Strand, Abort and Lapse are such steps.
LEMMA AdvanceKept ==
  ASSUME IInv, IInv', Kept, NEW r \in Run,
         \/ \E k \in PublisherKey : \E m \in ModesOf(r) :
              StartByHand(r, m, k) \/ StartJob(r, m, k)
         \/ CheckCadence(r) \/ CheckHead(r) \/ Simulate(r) \/ Send(r)
         \/ Confirm(r) \/ GiveUp(r) \/ WriteTmp(r) \/ Strand(r)
         \/ Abort(r) \/ Lapse(r)
  PROVE  Kept' /\ NoRegress
<1>1. UNCHANGED <<prev, disk, audit, origin>>
  BY DEF StartByHand, StartJob, Begin, CheckCadence, CheckHead, Simulate, Send,
         Confirm, GiveUp, WriteTmp, Strand, Abort, Lapse, dirVars
<1>2. Moves(r)
  <2>1. pc'[r] = pc[r] \/ pc[r] \in {"idle", "queued"} \cup Steps
    BY DEF StartByHand, StartJob, CheckCadence, CheckHead, Simulate, Send,
           Confirm, GiveUp, WriteTmp, Strand, Abort, Lapse, Running, Steps
  <2>2. \/ /\ pc[r] \notin {"audit", "push"} \/ pc'[r] = "failed"
           /\ pc'[r] \in {"gate", "load", "declined", "simulate", "failed", "send",
                          "poll", "save", "unconfirmed", "rename"}
        \/ r \in Job /\ pc[r] \in {"audit", "push"} /\ pc'[r] = "stranded"
        \/ pc'[r] = pc[r]
    BY DEF IInv, TypeOK, StartByHand, StartJob, Begin, CheckCadence, CheckHead,
           Simulate, Send, Confirm, GiveUp, WriteTmp, Strand, Abort, Lapse, Goto
  <2>3. /\ tx[r] = "applied" => tx'[r] = "applied"
        /\ tx'[r] = "pending" => tx[r] = "pending" \/ pc'[r] = "poll"
    BY DEF IInv, TypeOK, TxMatches, TxAt, BeforeTx, StartByHand, StartJob, Begin,
           CheckCadence, CheckHead, Simulate, Send, Confirm, GiveUp, WriteTmp,
           Strand, Abort, Lapse, Goto
  <2> QED  BY <2>1, <2>2, <2>3 DEF Moves, Steps, Endings
<1>3. \A q \in Run \ {r} : pc'[q] = pc[q] /\ tx'[q] = tx[q]
  BY DEF IInv, TypeOK, StartByHand, StartJob, Begin, CheckCadence, CheckHead,
         Simulate, Send, Confirm, GiveUp, WriteTmp, Strand, Abort, Lapse, Goto
<1>4. \A q \in Run : Moves(q)
  BY <1>2, <1>3 DEF Moves
<1> QED  BY <1>1, <1>4, QuietKept
-----------------------------------------------------------------------------
(* The steps that move a state. *)

\* What a run loads is not its own state: its own is not yet saved.
LEMMA LoadKept ==
  ASSUME IInv, IInv', Kept, NEW r \in Run, Load(r)
  PROVE  Kept' /\ NoRegress
<1> USE DEF Kept
<1>1. /\ pc[r] = "load" /\ pc' = [pc EXCEPT ![r] = pc'[r]]
      /\ pc'[r] \in {"done", "check"}
      /\ prev' = [prev EXCEPT ![r] = disk[DirOf(r)]]
      /\ UNCHANGED <<tx, disk, audit, origin>>
  BY DEF Load, Goto, IInv, TypeOK, dirVars
<1>2. tx[r] = "none"
  BY <1>1 DEF IInv, TxMatches, TxAt, BeforeTx
<1>3. /\ \A q \in Run \ {r} : pc'[q] = pc[q] /\ prev'[q] = prev[q]
                             /\ Computed(q)' = Computed(q)
      /\ prev'[r] = disk[DirOf(r)]
  BY <1>1 DEF IInv, TypeOK, Computed
<1>4. OriginIsComputed'
  BY <1>1, <1>2, <1>3, OriginKept
<1>5. CheckoutHolds'
  BY <1>1, <1>3 DEF CheckoutHolds, CheckoutAt, Run
<1>6. UndeliveredIsUnseen'
  <2> SUFFICES ASSUME NEW s \in Job, pc'[s] \notin {"done", "restored"}
               PROVE  /\ \A d \in Dir \ {s} : disk'[d].run # s
                      /\ \A q \in Run : prev'[q].run # s
    BY DEF UndeliveredIsUnseen, UnseenAt
  <2>1. pc[s] \notin {"done", "restored"} /\ s \in Run
    BY <1>1, <1>3 DEF Run
  <2>2. /\ \A d \in Dir \ {s} : disk[d].run # s
        /\ \A q \in Run : prev[q].run # s
    BY <2>1 DEF UndeliveredIsUnseen, UnseenAt
  <2>3. prev'[r].run # s
    <3>1. CASE DirOf(r) # s
      BY <1>3, <2>2, <3>1, DirOfRun
    <3>2. CASE DirOf(r) = s
      <4>1. r = s
        BY <3>2, PublishingAssumption DEF DirOf
      <4>2. pc[s] \notin Saved
        BY <1>1, <4>1 DEF Saved, Endings
      <4>3. disk[s] # NoState => disk[s].run # s
        BY <4>2, <3>2, DirOfRun DEF IInv, BasisIsSaved
      <4>4. NoState.run # s
        BY <2>1, PublishingAssumption DEF NoState
      <4> QED  BY <1>3, <3>2, <4>3, <4>4
    <3> QED  BY <3>1, <3>2
  <2> QED  BY <1>1, <1>3, <2>2, <2>3
<1>7. SaveHolds'
  BY <1>1, <1>2, <1>3 DEF SaveHolds, SavedAt, DirOf
<1>8. NoRegress
  BY <1>1, EpochsOnDisk DEF NoRegress
<1>9. \A e \in Epoch : origin[e].run = r => DurableAt(e)'
  BY <1>1, <1>2, OriginRun DEF DurableAt
<1>10. SuccessIsDurable'
  BY <1>1, <1>3, <1>8, <1>9, DurableKept
<1> QED  BY <1>4, <1>5, <1>6, <1>7, <1>8, <1>10

\* The checkout of a triggered job was empty.
LEMMA TriggerKept ==
  ASSUME IInv, IInv', Kept, NEW r \in Run, Trigger(r)
  PROVE  Kept' /\ NoRegress
<1> USE DEF Kept
<1>1. /\ r \in Job /\ pc[r] = "idle" /\ pc'[r] = "queued"
      /\ \A q \in Run \ {r} :
           pc'[q] # pc[q] => pc[q] = "queued" /\ pc'[q] = "cancelled"
      /\ disk' = [disk EXCEPT ![r] = disk[Repo]]
      /\ audit' = [audit EXCEPT ![r] = audit[Repo]]
      /\ UNCHANGED <<tx, prev, origin>>
  BY DEF Trigger
<1>2. Repo \in Dir \ Job /\ r \in Dir
  BY <1>1, PublishingAssumption DEF Dir
<1>3. /\ disk'[r] = disk[Repo] /\ disk[r] = NoState
      /\ \A d \in Dir \ {r} : disk'[d] = disk[d] /\ audit'[d] = audit[d]
  BY <1>1, <1>2 DEF IInv, TypeOK, CheckoutHolds, CheckoutAt
<1>4. \A q \in Run : Computed(q)' = Computed(q)
  BY <1>1 DEF Computed
<1>5. OriginIsComputed'
  BY <1>1, OriginKept
<1>6. CheckoutHolds'
  BY <1>1, <1>3, <1>4 DEF CheckoutHolds, CheckoutAt, Run, Dir
<1>7. UndeliveredIsUnseen'
  BY <1>1, <1>2, <1>3 DEF UndeliveredIsUnseen, UnseenAt, Run
<1>8. NoRegress
  BY <1>2, <1>3, EpochsOnDisk DEF NoRegress, NoState
<1>9. SaveHolds'
  <2> SUFFICES ASSUME NEW q \in Run PROVE SavedAt(q)'
    BY DEF SaveHolds
  <2>1. pc'[q] \in {"audit", "push", "stranded", "restored", "done"} => pc'[q] = pc[q]
    BY <1>1
  <2>2. pc'[q] = "audit" => q # r /\ DirOf(q) \in Dir \ {r}
    BY <1>1, PublishingAssumption DEF DirOf, Run, Dir
  <2> QED  BY <1>1, <1>3, <1>4, <2>1, <2>2 DEF SaveHolds, SavedAt, DirOf
<1>10. \A e \in Epoch : origin[e].run = r => DurableAt(e)'
  BY <1>1 DEF DurableAt
<1>11. SuccessIsDurable'
  BY <1>1, <1>2, <1>3, <1>8, <1>10, DurableKept
<1> QED  BY <1>5, <1>6, <1>7, <1>8, <1>9, <1>11

\* A save writes the head's state, and no directory is ahead of the head.
LEMMA RenameKept ==
  ASSUME IInv, IInv', Kept, NEW r \in Run, Rename(r)
  PROVE  Kept' /\ NoRegress
<1> USE DEF Kept
<1> DEFINE d == DirOf(r)
<1>1. /\ pc[r] = "rename" /\ pc'[r] = "audit"
      /\ \A q \in Run \ {r} : pc'[q] = pc[q]
      /\ disk' = [disk EXCEPT ![d] = Computed(r)]
      /\ UNCHANGED <<tx, prev, audit, origin>>
  BY DEF Rename, Goto, IInv, TypeOK, SaveNotShared
<1>2. d \in Dir /\ (r \in Job => d = r) /\ (r \notin Job => d \notin Job)
  BY DirOfRun, PublishingAssumption DEF DirOf
<1>3. /\ disk'[d] = Computed(r)
      /\ \A c \in Dir \ {d} : disk'[c] = disk[c]
  BY <1>1, <1>2 DEF IInv, TypeOK
<1>4. \A q \in Run : Computed(q)' = Computed(q)
  BY <1>1 DEF Computed
<1>5. NoRegress
  BY <1>1, <1>2, <1>3, SaverIsHead, EpochsOnDisk DEF NoRegress
<1>6. OriginIsComputed'
  BY <1>1, OriginKept
<1>7. CheckoutHolds'
  BY <1>1, <1>2, <1>3, <1>4 DEF CheckoutHolds, CheckoutAt, Run, Dir
<1>8. UndeliveredIsUnseen'
  BY <1>1, <1>2, <1>3, EpochsOnDisk DEF UndeliveredIsUnseen, UnseenAt, Run
<1>9. SaveHolds'
  <2> SUFFICES ASSUME NEW q \in Run PROVE SavedAt(q)'
    BY DEF SaveHolds
  <2>1. CASE q = r
    BY <1>1, <1>3, <1>4, <2>1, EpochsOnDisk
    DEF SavedAt, DirOf, IInv, TxMatches, TxAt
  <2>2. CASE q # r
    <3>1. disk'[DirOf(q)].epoch \in Int /\ disk[DirOf(q)].epoch \in Int
          /\ disk'[DirOf(q)].epoch >= disk[DirOf(q)].epoch
      BY <1>5, DirOfRun, StateEpochs DEF NoRegress, IInv, TypeOK
    <3> QED
      BY <1>1, <1>4, <2>2, <3>1, EpochsOnDisk DEF SaveHolds, SavedAt, DirOf
  <2> QED  BY <2>1, <2>2
<1>10. \A e \in Epoch : origin[e].run = r => DurableAt(e)'
  BY <1>1 DEF DurableAt
<1>11. SuccessIsDurable'
  BY <1>1, <1>5, <1>10, DurableKept
<1> QED  BY <1>5, <1>6, <1>7, <1>8, <1>9, <1>11
-----------------------------------------------------------------------------
(* The steps that deliver a state, and the step that publishes one. *)

\* The record of a finished save is in the directory, with all before it.
LEMMA WriteAuditKept ==
  ASSUME IInv, IInv', Kept, NEW r \in Run, WriteAudit(r)
  PROVE  Kept' /\ NoRegress
<1> USE DEF Kept
<1> DEFINE d == DirOf(r)
<1>1. /\ pc[r] = "audit" /\ pc'[r] = IF r \in Job THEN "push" ELSE "done"
      /\ \A q \in Run \ {r} : pc'[q] = pc[q]
      /\ audit' = [audit EXCEPT ![d] = Recorded(audit[d], {Computed(r)})]
      /\ UNCHANGED <<tx, prev, disk, origin>>
  BY DEF WriteAudit, Goto, IInv, TypeOK
<1>2. d \in Dir /\ (r \in Job => d = r) /\ (r \notin Job => d \notin Job)
  BY DirOfRun, PublishingAssumption DEF DirOf
<1>3. /\ audit[d] \cup {Computed(r)} \subseteq audit'[d]
      /\ \A c \in Dir \ {d} : audit'[c] = audit[c]
  <2>1. Computed(r) = origin[Computed(r).epoch]
    BY <1>1, ComputedIsSome DEF IInv, TxMatches, TxAt, Published
  <2>2. \A a \in audit[d] \cup {Computed(r)} : a = origin[a.epoch]
    BY <1>2, <2>1, AuditsPublished
  <2>3. audit[d] \cup {Computed(r)} \subseteq Recorded(audit[d], {Computed(r)})
    BY <2>2, RecordedKeeps
  <2> QED  BY <1>1, <1>2, <2>3 DEF IInv, TypeOK
<1>4. \A q \in Run : Computed(q)' = Computed(q)
  BY <1>1 DEF Computed
<1>5. NoRegress
  BY <1>1, EpochsOnDisk DEF NoRegress
<1>6. OriginIsComputed'
  BY <1>1, OriginKept
<1>7. CheckoutHolds'
  BY <1>1, <1>2, <1>3, <1>4 DEF CheckoutHolds, CheckoutAt, Run, Dir
<1>8. UndeliveredIsUnseen'
  BY <1>1 DEF UndeliveredIsUnseen, UnseenAt, Run
<1>9. SaveHolds'
  BY <1>1, <1>4 DEF SaveHolds, SavedAt, DirOf
<1>10. ASSUME NEW e \in Epoch, origin[e].run = r
       PROVE  DurableAt(e)'
  <2> SUFFICES ASSUME origin[e] # NoState, r \notin Job
               PROVE  disk[d].epoch >= e /\ origin[e] \in audit'[d]
    BY <1>1, <1>10 DEF DurableAt, Home, DirOf
  <2>1. origin[e] = Computed(r) /\ Computed(r).epoch = e
    BY <1>10, OriginRun
  <2> QED  BY <1>1, <1>3, <2>1 DEF SaveHolds, SavedAt
<1>11. SuccessIsDurable'
  BY <1>1, <1>2, <1>3, <1>5, <1>10, DurableKept
<1> QED  BY <1>5, <1>6, <1>7, <1>8, <1>9, <1>11

\* Copying a shared directory, or a job's, to a shared one loses no record.
LEMMA CopyKeepsRecords ==
  ASSUME IInv, NEW from \in Dir, NEW to \in Dir,
         audit' = [audit EXCEPT ![to] = Recorded(audit[to], audit[from])]
  PROVE  /\ \A d \in Dir : audit[d] \subseteq audit'[d]
         /\ audit[from] \subseteq audit'[to]
         /\ \A d \in Dir \ {to} : audit'[d] = audit[d]
<1>1. \A a \in audit[to] \cup audit[from] : a = origin[a.epoch]
  BY AuditsPublished
<1>2. audit[to] \cup audit[from] \subseteq Recorded(audit[to], audit[from])
  BY <1>1, RecordedKeeps
<1> QED  BY <1>2 DEF IInv, TypeOK

\* Nobody has built on what a job has not delivered: the branch is not past it.
LEMMA RepoIsNotPast ==
  ASSUME IInv, Kept, NEW r \in Job, pc[r] = "stranded"
  PROVE  disk[Repo].epoch <= disk[r].epoch
<1> USE DEF IInv, Kept
<1> DEFINE e == disk[r].epoch
<1>1. r \in Run /\ r \in Dir /\ Repo \in Dir
  BY DEF Run, Dir
<1>2. disk[r] = Computed(r) /\ disk[r] # NoState
  BY <1>1, ComputedIsSome DEF CheckoutHolds, CheckoutAt
<1>3. e \in Epoch /\ origin[e] = disk[r] /\ origin[e].run = r
  BY <1>1, <1>2, StatesApart, EpochsOnDisk
  DEF TypeOK, StoresPublished, Published
<1> SUFFICES ASSUME disk[Repo].epoch > e PROVE FALSE
  BY <1>1, EpochsOnDisk
<1>4. e + 1 \in Epoch /\ e + 1 <= head /\ e + 1 # 0 /\ (e + 1) - 1 = e
  <2>1. disk[Repo].epoch \in Int /\ disk[Repo].epoch <= head /\ head \in Int
    BY <1>1, EpochsOnDisk
  <2>2. head <= U32Max
    BY OracleAssumption DEF OracleInv, OracleTypeOK, Epoch, NoHead
  <2> QED  BY <1>3, <2>1, <2>2, OracleAssumption DEF Epoch
<1>5. origin[e + 1] # NoState /\ epochs[e + 1] # NoUpdate
  BY <1>4 DEF OriginMatches, OracleInv, PublishedIsPrefix
<1>6. origin[e + 1].basis = r
  BY <1>3, <1>4, <1>5 DEF Continuity
<1>7. PICK q \in Run : origin[e + 1] = Computed(q)
  BY <1>4, <1>5, OriginRun
<1>8. prev[q].run = r
  BY <1>6, <1>7 DEF Computed
<1> QED  BY <1>8 DEF UndeliveredIsUnseen, UnseenAt
\* A job delivers its state, by the push or from the artifact.
LEMMA DeliverKept ==
  ASSUME IInv, IInv', Kept, NEW r \in Run, Push(r) \/ Restore(r)
  PROVE  Kept' /\ NoRegress
<1> USE DEF Kept
<1>1. /\ r \in Job
      /\ \/ pc[r] = "push" /\ pc'[r] = "done" /\ disk[Repo] = prev[r]
         \/ pc[r] = "stranded" /\ pc'[r] = "restored"
      /\ \A q \in Run \ {r} : pc'[q] = pc[q]
      /\ disk' = [disk EXCEPT ![Repo] = disk[r]]
      /\ audit' = [audit EXCEPT ![Repo] = Recorded(audit[Repo], audit[r])]
      /\ UNCHANGED <<tx, prev, origin>>
  BY DEF Push, Restore, Copy, Goto, IInv, TypeOK
<1>2. Repo \in Dir \ Job /\ r \in Dir
  BY <1>1, PublishingAssumption DEF Dir
<1>3. /\ disk[r] = Computed(r)
      /\ disk'[Repo] = Computed(r)
      /\ \A d \in Dir \ {Repo} : disk'[d] = disk[d]
  BY <1>1, <1>2 DEF CheckoutHolds, CheckoutAt, IInv, TypeOK
<1>4. /\ \A d \in Dir : audit[d] \subseteq audit'[d]
      /\ audit[r] \subseteq audit'[Repo]
      /\ \A d \in Dir \ {Repo} : audit'[d] = audit[d]
  BY <1>1, <1>2, CopyKeepsRecords
<1>5. \A q \in Run : Computed(q)' = Computed(q)
  BY <1>1 DEF Computed
<1>6. NoRegress
  <2>1. disk'[Repo].epoch >= disk[Repo].epoch
    BY <1>1, <1>3, RepoIsNotPast, EpochsOnDisk
  <2> QED  BY <1>2, <1>3, <2>1, EpochsOnDisk DEF NoRegress
<1>7. OriginIsComputed'
  BY <1>1, OriginKept
<1>8. CheckoutHolds'
  BY <1>1, <1>2, <1>3, <1>4, <1>5 DEF CheckoutHolds, CheckoutAt, Run, Dir
<1>9. UndeliveredIsUnseen'
  BY <1>1, <1>2, <1>3, EpochsOnDisk DEF UndeliveredIsUnseen, UnseenAt, Run
<1>10. SaveHolds'
  <2> SUFFICES ASSUME NEW q \in Run PROVE SavedAt(q)'
    BY DEF SaveHolds
  <2>1. CASE q = r
    BY <1>1, <1>5, <2>1 DEF SaveHolds, SavedAt
  <2>2. CASE q # r
    <3>1. DirOf(q) \in Dir \ {Repo}
      BY PublishingAssumption, DirOfRun DEF DirOf
    <3> QED  BY <1>1, <1>3, <1>5, <2>2, <3>1 DEF SaveHolds, SavedAt, DirOf
  <2> QED  BY <2>1, <2>2
<1>11. ASSUME NEW e \in Epoch, origin[e].run = r
       PROVE  DurableAt(e)'
  <2> SUFFICES ASSUME origin[e] # NoState
               PROVE  /\ disk'[Repo].epoch >= e
                      /\ pc'[r] = "done" => origin[e] \in audit'[Repo]
    BY <1>1, <1>11 DEF DurableAt, Home
  <2>1. origin[e] = Computed(r) /\ Computed(r).epoch = e /\ e \in Int
    BY <1>11, OriginRun, EpochsOnDisk
  <2> QED  BY <1>1, <1>3, <1>4, <2>1 DEF CheckoutHolds, CheckoutAt
<1>12. SuccessIsDurable'
  BY <1>1, <1>4, <1>6, <1>11, DurableKept
<1> QED  BY <1>6, <1>7, <1>8, <1>9, <1>10, <1>12

\* git moves a state between host and branch only forward.
LEMMA CloneKept ==
  ASSUME IInv, IInv', Kept, Pull \/ PushByHand
  PROVE  Kept' /\ NoRegress
<1> USE DEF Kept
<1>1. Host \in Dir \ Job /\ Repo \in Dir \ Job
  BY PublishingAssumption DEF Dir
<1>2. PICK from \in {Host, Repo}, to \in {Host, Repo} :
        /\ disk[from].epoch > disk[to].epoch
        /\ disk' = [disk EXCEPT ![to] = disk[from]]
        /\ audit' = [audit EXCEPT ![to] = Recorded(audit[to], audit[from])]
        /\ UNCHANGED <<tx, prev, origin, pc>>
  BY DEF Pull, PushByHand, Copy
<1>3. /\ from \in Dir \ Job /\ to \in Dir \ Job
      /\ disk'[to] = disk[from]
      /\ \A d \in Dir \ {to} : disk'[d] = disk[d]
  BY <1>1, <1>2 DEF IInv, TypeOK
<1>4. /\ \A d \in Dir : audit[d] \subseteq audit'[d]
      /\ \A d \in Dir \ {to} : audit'[d] = audit[d]
  BY <1>2, <1>3, CopyKeepsRecords
<1>5. \A q \in Run : Computed(q)' = Computed(q)
  BY <1>2 DEF Computed
<1>6. NoRegress
  BY <1>2, <1>3, EpochsOnDisk DEF NoRegress
<1>7. OriginIsComputed'
  BY <1>2, OriginKept
<1>8. CheckoutHolds'
  BY <1>2, <1>3, <1>4, <1>5 DEF CheckoutHolds, CheckoutAt, Run, Dir
<1>9. UndeliveredIsUnseen'
  BY <1>2, <1>3 DEF UndeliveredIsUnseen, UnseenAt, Run
<1>10. SaveHolds'
  <2> SUFFICES ASSUME NEW q \in Run, pc[q] = "audit"
               PROVE  disk'[DirOf(q)].epoch >= Computed(q).epoch
    BY <1>2, <1>5 DEF SaveHolds, SavedAt, DirOf
  <2>1. disk'[DirOf(q)].epoch \in Int /\ disk[DirOf(q)].epoch \in Int
        /\ disk'[DirOf(q)].epoch >= disk[DirOf(q)].epoch
    BY <1>6, DirOfRun, StateEpochs DEF NoRegress, IInv, TypeOK
  <2> QED  BY <2>1, EpochsOnDisk DEF SaveHolds, SavedAt
<1>11. SuccessIsDurable'
  <2> SUFFICES ASSUME NEW e \in Epoch, origin[e] # NoState,
                      pc[origin[e].run] \in {"done", "restored"}
               PROVE  DurableAt(e)'
    BY <1>2 DEF SuccessIsDurable, DurableAt, Home
  <2> DEFINE h == Home(origin[e].run)
  <2>1. h \in Dir /\ e \in Int
    BY OriginRun, HomeIsShared, EpochsOnDisk
  <2>2. /\ disk[h].epoch >= e
        /\ pc[origin[e].run] = "done" => origin[e] \in audit[h]
    BY DurableByEpoch DEF DurableAt
  <2>3. disk'[h].epoch \in Int /\ disk[h].epoch \in Int
        /\ disk'[h].epoch >= disk[h].epoch
    BY <1>6, <2>1, StateEpochs DEF NoRegress, IInv, TypeOK
  <2> QED  BY <1>2, <1>4, <2>1, <2>2, <2>3 DEF DurableAt, Home, DirOf
<1> QED  BY <1>6, <1>7, <1>8, <1>9, <1>10, <1>11

\* A run whose transaction lands is not yet past its save.
LEMMA LandKept ==
  ASSUME IInv, IInv', Kept, NEW r \in Run, Land(r)
  PROVE  Kept' /\ NoRegress
<1> USE DEF Kept
<1> DEFINE c == Computed(r)
<1>1. /\ tx[r] = "pending" /\ tx'[r] = "applied"
      /\ \A q \in Run \ {r} : tx'[q] = tx[q]
      /\ c.epoch \in Epoch /\ c.run = r
      /\ origin'[c.epoch] = c
      /\ \A e \in Epoch \ {c.epoch} : origin'[e] = origin[e]
      /\ UNCHANGED <<pc, prev, disk, audit>>
  BY DEF Land, Publish, CanPublish, Expected, Computed, IInv, TypeOK, dirVars
<1>2. \A q \in Run : Computed(q)' = Computed(q)
  BY <1>1 DEF Computed
<1>3. NoRegress
  BY <1>1, EpochsOnDisk DEF NoRegress
<1>4. OriginIsComputed'
  <2> SUFFICES ASSUME NEW e \in Epoch, origin'[e] # NoState
               PROVE  /\ origin'[e] = Computed(origin'[e].run)
                      /\ tx'[origin'[e].run] = "applied"
    BY <1>1 DEF OriginIsComputed, Computed
  <2>1. CASE e = c.epoch
    BY <1>1, <2>1
  <2>2. CASE e # c.epoch
    BY <1>1, <2>2, OriginRun
  <2> QED  BY <2>1, <2>2
<1>5. CheckoutHolds'
  BY <1>1, <1>2 DEF CheckoutHolds, CheckoutAt, Run
<1>6. UndeliveredIsUnseen'
  BY <1>1 DEF UndeliveredIsUnseen, UnseenAt
<1>7. SaveHolds'
  BY <1>1, <1>2 DEF SaveHolds, SavedAt, DirOf
<1>8. SuccessIsDurable'
  <2> SUFFICES ASSUME NEW e \in Epoch PROVE DurableAt(e)'
    BY DEF SuccessIsDurable, DurableAt, Home
  <2>1. CASE e = c.epoch
    BY <1>1, <2>1 DEF DurableAt, SaveHolds, SavedAt
  <2>2. CASE e # c.epoch
    BY <1>1, <2>2, DurableByEpoch DEF DurableAt, Home, DirOf
  <2> QED  BY <2>1, <2>2
<1> QED  BY <1>3, <1>4, <1>5, <1>6, <1>7, <1>8

-----------------------------------------------------------------------------
(* The theorems. *)

\* Kept holds initially,
LEMMA InitKept == Init => Kept
<1> SUFFICES ASSUME Init PROVE Kept
  OBVIOUS
<1>1. OriginIsComputed /\ SuccessIsDurable
  BY DEF Init, OriginIsComputed, SuccessIsDurable
<1>2. CheckoutHolds /\ SaveHolds
  BY DEF Init, CheckoutHolds, CheckoutAt, SaveHolds, SavedAt, Run, Dir
<1>3. UndeliveredIsUnseen
  BY PublishingAssumption
  DEF Init, UndeliveredIsUnseen, UnseenAt, NoState, Run
<1> QED  BY <1>1, <1>2, <1>3 DEF Kept

\* no step breaks it or takes a state back,
LEMMA NextKept ==
  ASSUME IInv, IInv', Kept, [Next]_vars
  PROVE  Kept' /\ NoRegress
<1>1. ASSUME NEW r \in Run, NEW k \in PublisherKey, NEW m \in ModesOf(r),
             StartByHand(r, m, k) \/ StartJob(r, m, k)
      PROVE  Kept' /\ NoRegress
  BY <1>1, AdvanceKept
<1>2. ASSUME NEW r \in Run, Step(r)
      PROVE  Kept' /\ NoRegress
  BY <1>2, AdvanceKept, LoadKept, RenameKept, WriteAuditKept, DeliverKept DEF Step
<1>3. ASSUME NEW r \in Run,
             Trigger(r) \/ Abort(r) \/ Land(r) \/ Lapse(r) \/ Restore(r)
      PROVE  Kept' /\ NoRegress
  BY <1>3, TriggerKept, AdvanceKept, LandKept, DeliverKept
<1>4. ASSUME \/ \E p \in PublisherKey : CmdInit(p) \/ Rotate(p)
             \/ Tick \/ UNCHANGED vars
      PROVE  Kept' /\ NoRegress
  <2>1. UNCHANGED <<pc, tx, prev, disk, audit, origin>>
    BY <1>4 DEF CmdInit, Rotate, Tick, runVars, dirVars, vars
  <2>2. \A q \in Run : Moves(q)
    BY <2>1 DEF Moves
  <2> QED  BY <2>1, <2>2, QuietKept
<1>5. CASE Pull \/ PushByHand
  BY <1>5, CloneKept
<1> QED  BY <1>1, <1>2, <1>3, <1>4, <1>5 DEF Next

\* and so it holds throughout.
LEMMA KeptForever == Spec => []Kept
<1>1. IInv /\ IInv' /\ Kept /\ [Next]_vars => Kept'
  BY NextKept
<1> QED  BY <1>1, InitKept, Invariance, PTL DEF Spec

\* No directory's state goes back to an earlier epoch: not by a late save, nor
\* by the push, the pull or the restored artifact of a run that was overtaken.
THEOREM StateOnlyAdvances == Spec => StateNeverRegresses
<1>1. IInv /\ IInv' /\ Kept /\ [Next]_vars =>
        [\A d \in Dir : disk'[d].epoch >= disk[d].epoch]_vars
  BY NextKept DEF NoRegress
<1> QED
  BY <1>1, Invariance, KeptForever, PTL DEF Spec, StateNeverRegresses

\* A run that reports success for an epoch leaves its state and its record
\* where the next run looks, whatever runs, pulls and pushes follow.
THEOREM SuccessLasts == Spec => []SuccessIsDurable
<1>1. Kept => SuccessIsDurable
  BY DEF Kept
<1> QED  BY <1>1, KeptForever, PTL

=============================================================================
