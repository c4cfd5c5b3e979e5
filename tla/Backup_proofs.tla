---------------------------- MODULE Backup_proofs -----------------------------
(***************************************************************************)
(* Whatever bears the name of a backup is whole and verified, retention    *)
(* keeps as many as it was told to, and from two on never the last one is  *)
(* removed: for any number of runs, pieces and commits, and any clock.     *)
(***************************************************************************)
EXTENDS Backup, FiniteSetTheorems, WellFoundedInduction, TLAPS

-----------------------------------------------------------------------------
(* The inductive invariant.                                                *)

\* A copy never holds what is not committed yet; one that was verified is one
\* good version, which no later commit makes bad.
Good(copy) == \E v \in 0..version : v \notin bad /\ copy = {v}

CopySound(s) ==
  /\ s.base \in 0..version /\ s.copy \subseteq 0..version
  /\ s.pc = "verified" => Good(s.copy)
  /\ s.pc # "idle" => s.name \in Times

Run ==
  [pc : {"idle", "copying", "verified", "published", "pruning"}, name : Times \cup {0},
   base : Versions, copied : 0..Pieces, copy : SUBSET Versions,
   expired : SUBSET Times, since : SUBSET Times]

Typed ==
  /\ version \in Versions /\ bad \subseteq 0..version
  /\ files = [t \in Times |-> files[t]] /\ run \in [Runs -> Run]

IInv ==
  /\ Typed
  /\ \A r \in Runs : CopySound(run[r])
  /\ \A t \in Times : files[t] = NoFile \/ Good(files[t])

-----------------------------------------------------------------------------
(* Lemmas.                                                                 *)

LEMMA IdleIsSound ==
  ASSUME version \in Versions
  PROVE  Idle \in Run /\ CopySound(Idle)
BY BackupAssumption DEF Idle, Run, CopySound, Versions

\* One piece of a copy that passes verification is one committed version.
LEMMA VerifiedIsGood ==
  ASSUME version \in Versions, NEW copy \in SUBSET (0..version),
         Cardinality(copy) = 1, copy \cap bad = {}
  PROVE  Good(copy)
<1>1. IsFiniteSet(0..version)
  BY FS_Interval DEF Versions
<1>2. IsFiniteSet(copy)
  BY <1>1, FS_Subset
<1>3. PICK v : copy = {v}
  BY <1>2, FS_Singleton
<1>4. v \in 0..version /\ v \notin bad
  BY <1>3
<1>5. QED
  BY <1>3, <1>4 DEF Good

\* A step of one run that leaves the database and the backups alone.
LEMMA OneRun ==
  ASSUME IInv, NEW r \in Runs, NEW s \in Run, CopySound(s),
         Becomes(r, s), UNCHANGED <<version, bad, files>>
  PROVE  IInv'
<1>1. run' \in [Runs -> Run] /\ \A q \in Runs : run'[q] = IF q = r THEN s ELSE run[q]
  BY DEF Becomes, IInv, Typed
<1>2. \A q \in Runs : CopySound(run'[q])
  BY <1>1 DEF IInv
<1>3. QED
  BY <1>1, <1>2 DEF IInv, Typed, CopySound, Good

-----------------------------------------------------------------------------
(* The steps.                                                              *)

LEMMA LiveCommitKeeps ==
  ASSUME IInv, LiveCommit
  PROVE  IInv'
<1>1. /\ version \in Nat /\ version' = version + 1 /\ version' \in Versions
      /\ bad \subseteq 0..version /\ bad' \subseteq bad \cup {version + 1}
      /\ UNCHANGED <<files, run>>
  BY BackupAssumption DEF LiveCommit, IInv, Typed, Versions
<1>2. bad' \subseteq 0..version' /\ 0..version \subseteq 0..version'
  BY <1>1
<1>3. \A copy : Good(copy) => Good(copy)'
  <2> SUFFICES ASSUME NEW copy, Good(copy) PROVE Good(copy)'
    OBVIOUS
  <2>1. PICK v \in 0..version : v \notin bad /\ copy = {v}
    BY DEF Good
  <2>2. v \in 0..version' /\ v \notin bad'
    BY <1>1, <2>1
  <2>3. QED
    BY <2>1, <2>2 DEF Good
<1>4. \A r \in Runs : CopySound(run[r])'
  BY <1>1, <1>2, <1>3 DEF IInv, CopySound
<1>5. \A t \in Times : (files[t] = NoFile \/ Good(files[t]))'
  BY <1>1, <1>3 DEF IInv
<1>6. QED
  BY <1>1, <1>2, <1>4, <1>5 DEF IInv, Typed

LEMMA BeginKeeps ==
  ASSUME IInv, NEW r \in Runs, NEW now \in Times, Begin(r, now)
  PROVE  IInv'
<1> DEFINE s == [Idle EXCEPT !.pc = "copying", !.name = now, !.base = version]
<1>1. version \in Versions /\ version \in 0..version
  BY DEF IInv, Typed, Versions
<1>2. Idle \in Run /\ Idle.copy = {}
  BY <1>1, IdleIsSound DEF Idle
<1>3. /\ s \in Run /\ s.pc = "copying" /\ s.base = version /\ s.copy = {} /\ s.name = now
  BY <1>1, <1>2 DEF Run
<1> HIDE DEF s
<1>4. CopySound(s)
  BY <1>1, <1>3 DEF CopySound
<1>5. Becomes(r, s) /\ UNCHANGED <<version, bad, files>>
  BY DEF Begin, s
<1>6. QED
  BY <1>3, <1>4, <1>5, OneRun

\* Pieces are of what is committed now.
LEMMA CopyPiecesKeeps ==
  ASSUME IInv, NEW r \in Runs, CopyPieces(r)
  PROVE  IInv'
<1>1. /\ run[r] \in Run /\ CopySound(run[r]) /\ run[r].pc = "copying"
      /\ run[r].copied < Pieces /\ version \in Versions /\ version \in 0..version
      /\ UNCHANGED <<version, bad, files>>
  BY DEF CopyPieces, IInv, Typed, Versions
<1>2. CASE run[r].base = version
  <2> DEFINE s == [run[r] EXCEPT !.copied = @ + 1, !.copy = @ \cup {version}]
  <2>1. s \in Run
    <3>1. run[r].copied + 1 \in 0..Pieces
      BY <1>1, BackupAssumption DEF Run
    <3>2. run[r].copy \cup {version} \in SUBSET Versions
      BY <1>1 DEF Run
    <3>3. QED
      BY <1>1, <3>1, <3>2 DEF Run
  <2>2. /\ s.pc = "copying" /\ s.base = version /\ s.copy = run[r].copy \cup {version}
        /\ s.name = run[r].name
    BY <1>1, <1>2 DEF Run
  <2>3. Becomes(r, s)
    BY <1>2 DEF CopyPieces
  <2> HIDE DEF s
  <2>4. CopySound(s)
    BY <1>1, <2>2 DEF CopySound
  <2>5. QED
    BY <1>1, <2>1, <2>3, <2>4, OneRun
<1>3. CASE run[r].base # version
  <2> DEFINE s == [run[r] EXCEPT !.base = version, !.copied = 1, !.copy = {version}]
  <2>1. s \in Run
    <3> DEFINE u == [run[r] EXCEPT !.base = version, !.copied = 1]
    <3>1. u \in Run
      <4>1. 1 \in 0..Pieces
        BY BackupAssumption
      <4>2. QED
        BY <1>1, <4>1 DEF Run
    <3>2. s = [u EXCEPT !.copy = {version}]
      OBVIOUS
    <3> HIDE DEF s, u
    <3>3. QED
      BY <1>1, <3>1, <3>2 DEF Run
  <2>2. /\ s.pc = "copying" /\ s.base = version /\ s.copy = {version}
        /\ s.name = run[r].name
    BY <1>1 DEF Run
  <2>3. Becomes(r, s)
    BY <1>3 DEF CopyPieces
  <2> HIDE DEF s
  <2>4. CopySound(s)
    BY <1>1, <2>2 DEF CopySound
  <2>5. QED
    BY <1>1, <2>1, <2>3, <2>4, OneRun
<1>4. QED
  BY <1>2, <1>3

\* Any step that ends a run without touching a backup.
LEMMA EndKeeps ==
  ASSUME IInv, NEW r \in Runs, Becomes(r, Idle), UNCHANGED <<version, bad, files>>
  PROVE  IInv'
BY IdleIsSound, OneRun DEF IInv, Typed

LEMMA VerifyKeeps ==
  ASSUME IInv, NEW r \in Runs, Verify(r)
  PROVE  IInv'
<1>1. /\ run[r] \in Run /\ CopySound(run[r]) /\ version \in Versions
      /\ UNCHANGED <<version, bad, files>>
  BY DEF Verify, IInv, Typed
<1>2. CASE Cardinality(run[r].copy) = 1 /\ run[r].copy \cap bad = {}
  <2> DEFINE s == [run[r] EXCEPT !.pc = "verified"]
  <2>1. /\ s \in Run /\ s.base = run[r].base /\ s.copy = run[r].copy
        /\ s.name = run[r].name
    BY <1>1 DEF Run
  <2>2. Becomes(r, s)
    BY <1>2 DEF Verify
  <2>3. Good(run[r].copy)
    BY <1>1, <1>2, VerifiedIsGood DEF CopySound
  <2> HIDE DEF s
  <2>4. CopySound(s)
    BY <1>1, <2>1, <2>3 DEF CopySound, Verify
  <2>5. QED
    BY <1>1, <2>1, <2>2, <2>4, OneRun
<1>3. CASE ~(Cardinality(run[r].copy) = 1 /\ run[r].copy \cap bad = {})
  BY <1>1, <1>3, EndKeeps DEF Verify
<1>4. QED
  BY <1>2, <1>3

LEMMA PublishKeeps ==
  ASSUME IInv, NEW r \in Runs, Publish(r)
  PROVE  IInv'
<1>1. /\ run[r] \in Run /\ Good(run[r].copy) /\ version \in Versions
      /\ run[r].name \in Times
      /\ UNCHANGED <<version, bad>>
  BY DEF Publish, IInv, Typed, CopySound, Run
<1>2. \A t \in Times : (files[t] = NoFile \/ Good(files[t]))'
  BY <1>1 DEF Publish, IInv, Typed, Good
<1>3. files' = [t \in Times |-> files'[t]]
  BY DEF Publish, IInv, Typed
<1>4. ASSUME NEW s \in Runs
      PROVE  run'[s] \in Run /\ CopySound(run[s])'
  <2>1. run[s] \in Run /\ CopySound(run[s])
    BY DEF IInv, Typed
  <2>2. CASE s = r
    <3> DEFINE t == [Idle EXCEPT !.pc = "published", !.name = run[r].name]
    <3>1. Idle \in Run /\ CopySound(Idle)
      BY <1>1, IdleIsSound
    <3>2. t \in Run
      BY <1>1, <3>1 DEF Run
    <3>3. /\ t.pc = "published" /\ t.base = Idle.base /\ t.copy = Idle.copy
          /\ t.name = run[r].name
      BY <3>1 DEF Run
    <3>4. run'[s] = t
      BY <2>2 DEF Publish
    <3> HIDE DEF t
    <3>5. QED
      BY <1>1, <3>1, <3>2, <3>3, <3>4 DEF CopySound
  <2>3. CASE s # r /\ run[s].pc = "pruning"
    <3> DEFINE t == [run[s] EXCEPT !.since = @ \cup {run[r].name}]
    <3>1. run'[s] = t
      BY <2>3 DEF Publish
    <3>2. /\ t.pc = "pruning" /\ t.base = run[s].base /\ t.copy = run[s].copy
          /\ t.name = run[s].name
      BY <2>1, <2>3 DEF Run
    <3>3. t \in Run
      BY <1>1, <2>1 DEF Run
    <3> HIDE DEF t
    <3>4. QED
      BY <1>1, <2>1, <2>3, <3>1, <3>2, <3>3 DEF CopySound
  <2>4. CASE s # r /\ run[s].pc # "pruning"
    <3>1. run'[s] = run[s]
      BY <2>4 DEF Publish
    <3>2. QED
      BY <1>1, <2>1, <3>1 DEF CopySound, Good
  <2>5. QED
    BY <2>2, <2>3, <2>4
<1>5. run' \in [Runs -> Run]
  BY <1>4 DEF Publish
<1>6. QED
  BY <1>1, <1>2, <1>3, <1>4, <1>5 DEF IInv, Typed

LEMMA ListKeeps ==
  ASSUME IInv, NEW r \in Runs, List(r)
  PROVE  IInv'
<1>1. /\ run[r] \in Run /\ CopySound(run[r]) /\ run[r].pc = "published"
      /\ UNCHANGED <<version, bad, files>>
  BY DEF List, IInv, Typed
<1>2. CASE Exists(run[r].name)
  <2> DEFINE gone == Expired(run[r].name)
             s == [run[r] EXCEPT !.pc = "pruning", !.expired = gone]
  <2>1. gone \subseteq Times
    BY DEF Expired, Candidates
  <2>2. Becomes(r, s)
    BY <1>2 DEF List
  <2> HIDE DEF gone
  <2>3. /\ s \in Run /\ s.pc = "pruning" /\ s.base = run[r].base /\ s.copy = run[r].copy
        /\ s.name = run[r].name
    BY <1>1, <2>1 DEF Run
  <2> HIDE DEF s
  <2>4. CopySound(s)
    BY <1>1, <2>3 DEF CopySound
  <2>5. QED
    BY <1>1, <2>2, <2>3, <2>4, OneRun
<1>3. CASE ~Exists(run[r].name)
  BY <1>1, <1>3, EndKeeps DEF List
<1>4. QED
  BY <1>2, <1>3

LEMMA UnlinkKeeps ==
  ASSUME IInv, NEW r \in Runs, NEW t \in Times, Unlink(r, t)
  PROVE  IInv'
<1>1. /\ run[r] \in Run /\ CopySound(run[r]) /\ version \in Versions
      /\ UNCHANGED <<version, bad>>
  BY DEF Unlink, IInv, Typed
<1>2. /\ \A u \in Times : (files[u] = NoFile \/ Good(files[u]))'
      /\ files' = [u \in Times |-> files'[u]]
  BY <1>1 DEF Unlink, IInv, Typed, Good
<1> DEFINE s == IF Exists(t) THEN [run[r] EXCEPT !.expired = @ \ {t}] ELSE Idle
<1>3. s \in Run /\ CopySound(s)
  <2>1. CASE Exists(t)
    <3> DEFINE u == [run[r] EXCEPT !.expired = @ \ {t}]
    <3>1. u \in Run /\ u.pc = run[r].pc /\ u.base = run[r].base /\ u.copy = run[r].copy
          /\ u.name = run[r].name
      BY <1>1 DEF Run
    <3>2. s = u
      BY <2>1
    <3> HIDE DEF u, s
    <3>3. QED
      BY <1>1, <3>1, <3>2 DEF CopySound
  <2>2. CASE ~Exists(t)
    BY <1>1, <2>2, IdleIsSound
  <2>3. QED
    BY <2>1, <2>2
<1>4. run' = [run EXCEPT ![r] = s]
  BY DEF Unlink, Becomes
<1> HIDE DEF s
<1>5. \A q \in Runs : run'[q] = IF q = r THEN s ELSE run[q]
  BY <1>4 DEF IInv, Typed
<1>6. run' \in [Runs -> Run] /\ \A q \in Runs : CopySound(run[q])'
  BY <1>1, <1>3, <1>4, <1>5 DEF IInv, Typed, CopySound, Good
<1>7. QED
  BY <1>1, <1>2, <1>6 DEF IInv, Typed

-----------------------------------------------------------------------------
LEMMA InitKeeps == Init => IInv
<1> SUFFICES ASSUME Init PROVE IInv
  OBVIOUS
<1>1. version \in Versions
  BY BackupAssumption DEF Init, Versions
<1>2. \A r \in Runs : run[r] = Idle
  BY DEF Init
<1>3. Typed
  BY <1>1, IdleIsSound DEF Init, Typed
<1>4. \A r \in Runs : CopySound(run[r])
  BY <1>1, <1>2, IdleIsSound
<1>5. \A t \in Times : files[t] = NoFile
  BY DEF Init
<1>6. QED
  BY <1>3, <1>4, <1>5 DEF IInv

LEMMA StepKeeps == IInv /\ [Next]_vars => IInv'
<1> SUFFICES ASSUME IInv, [Next]_vars PROVE IInv'
  OBVIOUS
<1>1. CASE LiveCommit
  BY <1>1, LiveCommitKeeps
<1>2. CASE UNCHANGED vars
  BY <1>2 DEF vars, IInv, Typed, CopySound, Good
<1>3. ASSUME NEW r \in Runs,
             \/ \E now \in Times : Begin(r, now) \/ Refuse(r, now)
             \/ CopyPieces(r) \/ Verify(r) \/ Publish(r) \/ List(r)
             \/ \E t \in Times : Unlink(r, t)
             \/ Finish(r) \/ Stop(r)
      PROVE  IInv'
  <2>1. CASE Finish(r) \/ Stop(r)
    BY <2>1, EndKeeps DEF Finish, Stop
  <2>2. CASE \E now \in Times : Refuse(r, now)
    BY <1>2, <2>2 DEF Refuse
  <2>3. QED
    BY <1>3, <2>1, <2>2, BeginKeeps, CopyPiecesKeeps, VerifyKeeps, PublishKeeps, ListKeeps,
       UnlinkKeeps
<1>4. QED
  BY <1>1, <1>2, <1>3 DEF Next

LEMMA AlwaysSound == Spec => []IInv
BY InitKeeps, StepKeeps, PTL DEF Spec

\* Only whole, verified copies of one committed version are found under the
\* name of a backup (backup_database).
THEOREM BackupsAreVerified == Spec => []PublishedIsVerified
<1>1. IInv => PublishedIsVerified
  <2> SUFFICES ASSUME IInv, NEW t \in Candidates
               PROVE  \E v \in Versions \ bad : files[t] = {v}
    BY DEF PublishedIsVerified
  <2>1. Good(files[t]) /\ version \in Versions
    BY DEF IInv, Typed, Candidates, Exists
  <2>2. QED
    BY <2>1, BackupAssumption DEF Good, Versions
<1>2. QED
  BY <1>1, AlwaysSound, PTL

-----------------------------------------------------------------------------
(* Which backups a step changes.                                           *)

LEMMA StepFiles ==
  ASSUME IInv, [Next]_vars
  PROVE  \/ files' = files
         \/ \E r \in Runs : Publish(r)
         \/ \E r \in Runs, t \in Times : Unlink(r, t)
BY DEF Next, LiveCommit, Begin, Refuse, CopyPieces, Verify, List, Finish, Stop, vars

LEMMA PublishAdds ==
  ASSUME IInv, NEW r \in Runs, Publish(r)
  PROVE  run[r].name \in Times /\ Candidates' \subseteq Candidates \cup {run[r].name}
BY DEF IInv, Typed, CopySound, Publish, Candidates, Exists

\* A verified copy is a file.
LEMMA CandidatesGrow ==
  ASSUME IInv, NEW r \in Runs, Publish(r)
  PROVE  Candidates \subseteq Candidates'
<1>1. run[r].copy \subseteq Versions
  BY DEF IInv, Typed, Run, Publish
<1>2. run[r].copy # NoFile
  BY <1>1, NoFileAssumption
<1>3. QED
  BY <1>2 DEF IInv, Typed, Publish, Candidates, Exists

LEMMA UnlinkRemoves ==
  ASSUME IInv, NEW r \in Runs, NEW t \in Times, Unlink(r, t)
  PROVE  Candidates' = Candidates \ {t} /\ t \in run[r].expired
BY DEF IInv, Typed, Unlink, Candidates, Exists

-----------------------------------------------------------------------------
(* The newest backup is never removed.                                     *)

\* What a run is still to unlink is older than a backup that is there.
Outlived(s) == \A t \in s.expired : \E u \in Candidates : u > t

NewestInv == NeverWithoutBackup /\ \A r \in Runs : Outlived(run[r])

\* With two or more to keep, retention spares the newest of the others.
LEMMA ExpiredIsOutlived ==
  ASSUME Keep >= 2, NEW current, NEW t \in Expired(current)
  PROVE  \E u \in Candidates : u > t
<1> DEFINE newer == {u \in Candidates \ {current} : u > t}
<1>1. Cardinality(newer) >= Keep - 1
  BY DEF Expired
<1> HIDE DEF newer
<1>2. newer # {}
  BY <1>1, FS_EmptySet, BackupAssumption
<1>3. QED
  BY <1>2 DEF newer

\* A run's list only shrinks once it is made.
LEMMA ListsShrink ==
  ASSUME IInv, [Next]_vars, NEW r \in Runs
  PROVE  \/ run'[r].expired \subseteq run[r].expired
         \/ List(r) /\ files' = files /\ \E c : run'[r].expired = Expired(c)
<1>1. run[r] \in Run /\ Idle.expired = {}
  BY DEF IInv, Typed, Idle
<1>2. ASSUME NEW q \in Runs, NEW s, Becomes(q, s), q = r => s.expired \subseteq run[r].expired
      PROVE  run'[r].expired \subseteq run[r].expired
  BY <1>2 DEF Becomes, IInv, Typed
<1>3. CASE LiveCommit \/ (\E q \in Runs, t \in Times : Refuse(q, t)) \/ UNCHANGED vars
  BY <1>3 DEF LiveCommit, Refuse, vars
<1>4. ASSUME NEW q \in Runs, NEW now \in Times, Begin(q, now)
      PROVE  run'[r].expired \subseteq run[r].expired
  BY <1>1, <1>2, <1>4 DEF Begin, Idle
<1>5. ASSUME NEW q \in Runs, CopyPieces(q)
      PROVE  run'[r].expired \subseteq run[r].expired
  BY <1>1, <1>2, <1>5 DEF CopyPieces, Run
<1>6. ASSUME NEW q \in Runs, Verify(q) \/ Finish(q) \/ Stop(q)
      PROVE  run'[r].expired \subseteq run[r].expired
  BY <1>1, <1>2, <1>6 DEF Verify, Finish, Stop, Run
<1>7. ASSUME NEW q \in Runs, Publish(q)
      PROVE  run'[r].expired \subseteq run[r].expired
  BY <1>1, <1>7 DEF Publish, Run, Idle
<1>8. ASSUME NEW q \in Runs, NEW t \in Times, Unlink(q, t)
      PROVE  run'[r].expired \subseteq run[r].expired
  BY <1>1, <1>2, <1>8 DEF Unlink, Run
<1>9. ASSUME NEW q \in Runs, List(q), ~(run'[r].expired \subseteq run[r].expired)
      PROVE  List(r) /\ files' = files /\ \E c : run'[r].expired = Expired(c)
  <2>1. q = r /\ Exists(run[r].name)
    BY <1>1, <1>2, <1>9 DEF List
  <2>2. run'[r] = [run[r] EXCEPT !.pc = "pruning", !.expired = Expired(run[r].name)]
    BY <1>9, <2>1 DEF List, Becomes, IInv, Typed
  <2>3. run'[r].expired = Expired(run[r].name)
    BY <1>1, <2>2 DEF Run
  <2>4. QED
    BY <1>9, <2>1, <2>3 DEF List
<1>10. QED
  BY <1>3, <1>4, <1>5, <1>6, <1>7, <1>8, <1>9 DEF Next

LEMMA NewestStays ==
  ASSUME Keep >= 2, IInv, NewestInv, [Next]_vars
  PROVE  NewestInv'
<1>1. \A t \in Times : t \in Nat
  BY BackupAssumption
<1>2. ASSUME NEW t \in Times, \E u \in Candidates : u > t
      PROVE  \E u \in Candidates' : u > t
  <2>1. PICK u \in Candidates : u > t
    BY <1>2
  <2>2. CASE files' = files
    BY <2>1, <2>2 DEF Candidates, Exists
  <2>3. ASSUME NEW r \in Runs, Publish(r) PROVE \E v \in Candidates' : v > t
    BY <2>1, <2>3, CandidatesGrow
  <2>4. ASSUME NEW r \in Runs, NEW gone \in Times, Unlink(r, gone)
        PROVE  \E v \in Candidates' : v > t
    <3>1. Candidates' = Candidates \ {gone} /\ \E v \in Candidates : v > gone
      BY <2>4, UnlinkRemoves DEF NewestInv, Outlived
    <3>2. QED
      BY <1>1, <2>1, <3>1 DEF Candidates
  <2>5. QED
    BY <2>2, <2>3, <2>4, StepFiles
<1>3. ASSUME Candidates # {} PROVE Candidates' # {}
  <2>1. ASSUME NEW r \in Runs, NEW gone \in Times, Unlink(r, gone)
        PROVE  Candidates' # {}
    <3>1. Candidates' = Candidates \ {gone} /\ \E v \in Candidates : v > gone
      BY <2>1, UnlinkRemoves DEF NewestInv, Outlived
    <3>2. QED
      BY <1>1, <3>1 DEF Candidates
  <2>2. CASE files' = files
    BY <1>3, <2>2 DEF Candidates, Exists
  <2>3. QED
    BY <1>3, <2>1, <2>2, CandidatesGrow, StepFiles
<1>4. NeverWithoutBackup'
  <2>1. made' => made \/ Candidates # {}
    <3>1. ASSUME NEW r \in Runs, Finish(r) PROVE made' => made \/ Candidates # {}
      <4>1. run[r].name \in Times
        BY <3>1 DEF IInv, CopySound, Finish
      <4>2. QED
        BY <3>1, <4>1 DEF Finish, Candidates
    <3>2. made' = made \/ \E r \in Runs : Finish(r)
      BY DEF Next, LiveCommit, Begin, Refuse, CopyPieces, Verify, Publish, List, Unlink, Stop,
         vars
    <3>3. QED
      BY <3>1, <3>2
  <2>2. QED
    BY <1>3, <2>1 DEF NewestInv, NeverWithoutBackup
<1>5. ASSUME NEW r \in Runs PROVE Outlived(run[r])'
  <2>1. run[r].expired \subseteq Times
    BY DEF IInv, Typed, Run
  <2>2. CASE run'[r].expired \subseteq run[r].expired
    BY <1>2, <2>1, <2>2 DEF NewestInv, Outlived
  <2>3. CASE files' = files /\ \E c : run'[r].expired = Expired(c)
    BY <2>3, ExpiredIsOutlived DEF Outlived, Candidates, Exists
  <2>4. QED
    BY <2>2, <2>3, ListsShrink
<1>6. QED
  BY <1>4, <1>5 DEF NewestInv

\* From two backups to keep on, however many runs overlap, there is a backup once
\* one was reported (_prune keeps its own and the newest others).
THEOREM LastBackupStays ==
  ASSUME Keep >= 2
  PROVE  Spec => []NeverWithoutBackup
<1>1. Init => NewestInv
  BY DEF Init, NewestInv, NeverWithoutBackup, Outlived, Idle
<1>2. IInv /\ NewestInv /\ [Next]_vars => NewestInv'
  BY NewestStays
<1>3. NewestInv => NeverWithoutBackup
  BY DEF NewestInv
<1>4. QED
  BY <1>1, <1>2, <1>3, AlwaysSound, PTL DEF Spec

-----------------------------------------------------------------------------
(* No more backups are left than were to be kept.                          *)

LEMMA OneMore ==
  ASSUME NEW S, IsFiniteSet(S), NEW x
  PROVE  /\ IsFiniteSet(S \cup {x}) /\ Cardinality(S \cup {x}) <= Cardinality(S) + 1
         /\ Cardinality(S) \in Nat /\ Cardinality(S \cup {x}) \in Nat
BY FS_AddElement, FS_CardinalityType

\* Of a finite set in which Newer[t] are the members newer than t, at most k have
\* fewer than k newer than them: these are the oldest of them and newer ones.
LEMMA NewestFew ==
  ASSUME NEW S, IsFiniteSet(S), NEW Newer \in [S -> SUBSET S], NEW k \in Nat,
         \A t \in S : t \notin Newer[t] /\ \A u \in Newer[t] : Newer[u] \subseteq Newer[t],
         \A t, u \in S : t = u \/ t \in Newer[u] \/ u \in Newer[t]
  PROVE  Cardinality({t \in S : Cardinality(Newer[t]) < k}) <= k
<1> DEFINE first == {t \in S : Cardinality(Newer[t]) < k}
           Rest == [t \in S |-> S \ Newer[t]]
           rests == {Rest[t] : t \in first}
<1>1. CASE first = {}
  <2> HIDE DEF first
  <2>1. Cardinality(first) = 0
    BY <1>1, FS_EmptySet
  <2>2. QED
    BY <2>1 DEF first
<1>2. CASE first # {}
  <2>1. rests \subseteq FiniteSubsetsOf(S) /\ rests # {}
    <3>1. \A t \in first : Rest[t] \in SUBSET S
      OBVIOUS
    <3> HIDE DEF Rest, first
    <3>2. \A t \in first : Rest[t] \in FiniteSubsetsOf(S)
      BY <3>1, FS_Subset DEF FiniteSubsetsOf
    <3>3. QED
      BY <1>2, <3>2
  <2>2. PICK rest \in rests : \A x \in rests : ~(<<x, rest>> \in StrictSubsetOrdering(S))
    <3> HIDE DEF rests
    <3>1. QED
      BY <2>1, FS_StrictSubsetOrderingWellFounded, WFMin
  <2>3. PICK oldest \in first : rest = Rest[oldest]
    BY <2>2
  <2>4. ASSUME NEW t \in first, oldest \in Newer[t] PROVE FALSE
    <3>1. Newer[oldest] \subseteq Newer[t] /\ oldest \notin Newer[oldest]
      BY <2>4
    <3>2. Rest[t] \subseteq Rest[oldest] /\ Rest[t] # Rest[oldest]
      BY <2>4, <3>1
    <3>3. Rest[t] \in rests /\ Rest[t] \in SUBSET S /\ Rest[oldest] \in SUBSET S
      OBVIOUS
    <3>4. <<Rest[t], Rest[oldest]>> \in StrictSubsetOrdering(S)
      BY <3>2, <3>3 DEF StrictSubsetOrdering
    <3>5. QED
      BY <2>2, <2>3, <3>3, <3>4
  <2> DEFINE front == Newer[oldest]
             few == front \cup {oldest}
  <2>5. first \subseteq few
    BY <2>4
  <2>6. IsFiniteSet(front) /\ Cardinality(front) < k
    BY FS_Subset
  <2> HIDE DEF front, first
  <2>7. Cardinality(front) \in Nat /\ IsFiniteSet(few) /\ Cardinality(few) <= Cardinality(front) + 1
    BY <2>6, OneMore
  <2> HIDE DEF few
  <2>8. IsFiniteSet(first) /\ Cardinality(first) <= Cardinality(few)
    BY <2>5, <2>7, FS_Subset
  <2>9. Cardinality(first) \in Nat /\ Cardinality(few) \in Nat
    BY <2>7, <2>8, FS_CardinalityType
  <2>10. Cardinality(first) <= k
    BY <2>6, <2>7, <2>8, <2>9
  <2>11. QED
    BY <2>10 DEF first
<1>3. QED
  BY <1>1, <1>2

\* What is left once a run's list is worked off, but for what came in meanwhile.
Remaining(s, present) == present \ (s.since \cup s.expired)

PruneSound(s, present) ==
  IF s.pc = "pruning" THEN Cardinality(Remaining(s, present)) <= Keep ELSE s.since = {}

RetentionInv == IsFiniteSet(Candidates) /\ \A r \in Runs : PruneSound(run[r], Candidates)

\* A list is made so that few enough remain.
LEMMA ListIsLongEnough ==
  ASSUME IsFiniteSet(Candidates), NEW current
  PROVE  Cardinality(Candidates \ Expired(current)) <= Keep
<1> DEFINE others == Candidates \ {current}
           Newer == [t \in others |-> {u \in others : u > t}]
           first == {t \in others : Cardinality(Newer[t]) < Keep - 1}
           kept == Candidates \ Expired(current)
<1>1. others \subseteq Nat /\ Keep - 1 \in Nat /\ Keep \in Nat
  <2>1. Candidates \subseteq Nat
    BY BackupAssumption DEF Candidates
  <2>2. others \subseteq Nat
    BY <2>1
  <2>3. Keep - 1 \in Nat /\ Keep \in Nat
    BY BackupAssumption
  <2>4. QED
    BY <2>2, <2>3
<1>2. IsFiniteSet(others)
  BY FS_Subset
<1>3. \A t \in others : IsFiniteSet(Newer[t]) /\ Cardinality(Newer[t]) \in Nat
  BY <1>2, FS_Subset, FS_CardinalityType
<1>4. kept \subseteq first \cup {current}
  BY <1>1, <1>3 DEF Expired
<1>5. Cardinality(first) <= Keep - 1
  <2>1. Newer \in [others -> SUBSET others]
    OBVIOUS
  <2>2. ASSUME NEW t \in others
        PROVE  t \notin Newer[t] /\ \A u \in Newer[t] : Newer[u] \subseteq Newer[t]
    BY <1>1
  <2>3. \A t, u \in others : t = u \/ t \in Newer[u] \/ u \in Newer[t]
    BY <1>1
  <2> HIDE DEF others, Newer
  <2>4. QED
    BY <1>1, <1>2, <2>1, <2>2, <2>3, NewestFew
<1>6. IsFiniteSet(first) /\ Cardinality(first) \in Nat
  BY <1>2, FS_Subset, FS_CardinalityType
<1> DEFINE most == first \cup {current}
<1> HIDE DEF first, kept
<1>7. IsFiniteSet(most) /\ Cardinality(most) <= Cardinality(first) + 1
  BY <1>6, OneMore
<1> HIDE DEF most
<1>8. IsFiniteSet(kept) /\ Cardinality(kept) <= Cardinality(most)
  BY <1>4, <1>7, FS_Subset DEF most
<1>9. Cardinality(kept) \in Nat /\ Cardinality(most) \in Nat
  BY <1>7, <1>8, FS_CardinalityType
<1>10. Cardinality(kept) <= Keep
  BY <1>1, <1>5, <1>6, <1>7, <1>8, <1>9
<1>11. QED
  BY <1>10 DEF kept

\* Fewer candidates, or more of them excused, remain fewer.
LEMMA FewerRemain ==
  ASSUME NEW before, IsFiniteSet(before), NEW after, NEW s, PruneSound(s, before),
         s.pc = "pruning", NEW t, t.pc = "pruning",
         Remaining(t, after) \subseteq Remaining(s, before)
  PROVE  PruneSound(t, after)
<1> DEFINE rest == Remaining(t, after)
           was == Remaining(s, before)
<1>1. IsFiniteSet(was) /\ Cardinality(was) <= Keep
  BY FS_Subset DEF Remaining, PruneSound
<1> HIDE DEF rest, was
<1>2. IsFiniteSet(rest) /\ Cardinality(rest) <= Cardinality(was)
  BY <1>1, FS_Subset DEF rest, was
<1>3. Cardinality(rest) \in Nat /\ Cardinality(was) \in Nat
  BY <1>1, <1>2, FS_CardinalityType
<1>4. Cardinality(rest) <= Keep
  BY <1>1, <1>2, <1>3, BackupAssumption
<1>5. QED
  BY <1>4 DEF PruneSound, rest

LEMMA RetentionStays ==
  ASSUME IInv, RetentionInv, [Next]_vars
  PROVE  RetentionInv'
<1>1. \A q \in Runs : run[q] \in Run /\ PruneSound(run[q], Candidates)
  BY DEF IInv, Typed, RetentionInv
<1>2. Idle.pc = "idle" /\ Idle.since = {}
  BY DEF Idle
<1>3. IsFiniteSet(Candidates')
  <2>1. CASE files' = files
    BY <2>1 DEF RetentionInv, Candidates, Exists
  <2>2. ASSUME NEW r \in Runs, Publish(r) PROVE IsFiniteSet(Candidates')
    <3>1. IsFiniteSet(Candidates \cup {run[r].name})
      BY OneMore DEF RetentionInv
    <3>2. QED
      BY <2>2, <3>1, PublishAdds, FS_Subset
  <2>3. ASSUME NEW r \in Runs, NEW t \in Times, Unlink(r, t) PROVE IsFiniteSet(Candidates')
    BY <2>3, UnlinkRemoves, FS_Subset DEF RetentionInv
  <2>4. QED
    BY <2>1, <2>2, <2>3, StepFiles
<1>4. ASSUME NEW q \in Runs, UNCHANGED files, run'[q].pc = run[q].pc,
             run'[q].since = run[q].since, run'[q].expired = run[q].expired
      PROVE  PruneSound(run'[q], Candidates')
  BY <1>1, <1>4 DEF PruneSound, Remaining, Candidates, Exists
<1>5. ASSUME NEW q \in Runs, run'[q].pc # "pruning", run'[q].since = {}
      PROVE  PruneSound(run'[q], Candidates')
  BY <1>5 DEF PruneSound
<1>6. ASSUME NEW r \in Runs, NEW s, Becomes(r, s), UNCHANGED files, PruneSound(s, Candidates')
      PROVE  \A q \in Runs : PruneSound(run'[q], Candidates')
  <2>1. \A q \in Runs : run'[q] = IF q = r THEN s ELSE run[q]
    BY <1>6 DEF Becomes, IInv, Typed
  <2>2. QED
    BY <1>1, <1>4, <1>6, <2>1 DEF PruneSound, Remaining, Candidates, Exists
<1>7. ASSUME NEW r \in Runs, NEW s, Becomes(r, s), UNCHANGED files, s.pc # "pruning",
             s.since = {}
      PROVE  \A q \in Runs : PruneSound(run'[q], Candidates')
  BY <1>6, <1>7 DEF PruneSound
<1>8. ASSUME LiveCommit \/ (\E r \in Runs, t \in Times : Refuse(r, t)) \/ UNCHANGED vars
      PROVE  \A q \in Runs : PruneSound(run'[q], Candidates')
  BY <1>4, <1>8 DEF LiveCommit, Refuse, vars
<1>9. ASSUME NEW r \in Runs, \E now \in Times : Begin(r, now)
      PROVE  \A q \in Runs : PruneSound(run'[q], Candidates')
  <2>1. PICK now \in Times : Begin(r, now)
    BY <1>9
  <2>2. /\ [Idle EXCEPT !.pc = "copying", !.name = now, !.base = version].pc # "pruning"
        /\ [Idle EXCEPT !.pc = "copying", !.name = now, !.base = version].since = {}
    BY DEF Idle
  <2>3. QED
    BY <1>7, <2>1, <2>2 DEF Begin
<1>10. ASSUME NEW r \in Runs, CopyPieces(r)
       PROVE  \A q \in Runs : PruneSound(run'[q], Candidates')
  BY <1>1, <1>7, <1>10 DEF CopyPieces, Run, PruneSound
<1>11. ASSUME NEW r \in Runs, Verify(r) \/ Finish(r) \/ Stop(r)
       PROVE  \A q \in Runs : PruneSound(run'[q], Candidates')
  BY <1>1, <1>2, <1>7, <1>11 DEF Verify, Finish, Stop, Run, PruneSound
<1>12. ASSUME NEW r \in Runs, List(r)
       PROVE  \A q \in Runs : PruneSound(run'[q], Candidates')
  <2>1. CASE ~Exists(run[r].name)
    BY <1>2, <1>7, <1>12, <2>1 DEF List
  <2>2. CASE Exists(run[r].name)
    <3> DEFINE s == [run[r] EXCEPT !.pc = "pruning", !.expired = Expired(run[r].name)]
    <3>1. Becomes(r, s) /\ UNCHANGED files
      BY <1>12, <2>2 DEF List
    <3>2. s.pc = "pruning" /\ s.since = {} /\ s.expired = Expired(run[r].name)
      BY <1>1, <1>12 DEF List, PruneSound, Run
    <3> HIDE DEF s
    <3>3. Remaining(s, Candidates) = Candidates \ Expired(run[r].name)
      BY <3>2 DEF Remaining
    <3>4. Cardinality(Remaining(s, Candidates)) <= Keep
      BY <3>3, ListIsLongEnough DEF RetentionInv
    <3>5. PruneSound(s, Candidates')
      BY <3>1, <3>2, <3>4 DEF PruneSound, Remaining, Candidates, Exists
    <3>6. QED
      BY <1>6, <3>1, <3>5
  <2>3. QED
    BY <2>1, <2>2
<1>13. ASSUME NEW r \in Runs, Publish(r), NEW q \in Runs
       PROVE  PruneSound(run'[q], Candidates')
  <2>1. CASE q = r
    <3>1. run'[q] = [Idle EXCEPT !.pc = "published", !.name = run[r].name]
      BY <1>13, <2>1 DEF Publish
    <3>2. QED
      BY <1>5, <3>1 DEF Idle
  <2>2. CASE q # r /\ run[q].pc # "pruning"
    BY <1>1, <1>5, <1>13, <2>2 DEF Publish, PruneSound
  <2>3. CASE q # r /\ run[q].pc = "pruning"
    <3> DEFINE t == [run[q] EXCEPT !.since = @ \cup {run[r].name}]
    <3>1. run'[q] = t
      BY <1>13, <2>3 DEF Publish
    <3>2. /\ t.pc = "pruning" /\ t.since = run[q].since \cup {run[r].name}
          /\ t.expired = run[q].expired
      BY <1>1, <2>3 DEF Run
    <3> HIDE DEF t
    <3>3. Remaining(t, Candidates') \subseteq Remaining(run[q], Candidates)
      BY <1>13, <3>2, PublishAdds DEF Remaining
    <3>4. PruneSound(t, Candidates')
      BY <1>1, <2>3, <3>2, <3>3, FewerRemain DEF RetentionInv
    <3>5. QED
      BY <3>1, <3>4
  <2>4. QED
    BY <2>1, <2>2, <2>3
<1>14. ASSUME NEW r \in Runs, NEW gone \in Times, Unlink(r, gone), NEW q \in Runs
       PROVE  PruneSound(run'[q], Candidates')
  <2>1. Candidates' = Candidates \ {gone} /\ run[r].pc = "pruning"
    BY <1>14, UnlinkRemoves DEF Unlink
  <2>2. CASE q # r
    <3>1. run'[q] = run[q]
      BY <1>14, <2>2 DEF Unlink, Becomes, IInv, Typed
    <3>2. CASE run[q].pc = "pruning"
      <4>1. Remaining(run[q], Candidates') \subseteq Remaining(run[q], Candidates)
        BY <2>1 DEF Remaining
      <4>2. PruneSound(run'[q], Candidates')
        BY <1>1, <3>1, <3>2, <4>1, FewerRemain DEF RetentionInv
      <4>3. QED
        BY <3>1, <4>2
    <3>3. QED
      BY <1>1, <1>5, <3>1, <3>2 DEF PruneSound
  <2>3. CASE q = r /\ ~Exists(gone)
    BY <1>2, <1>5, <1>14, <2>3 DEF Unlink, Becomes, IInv, Typed
  <2>4. CASE q = r /\ Exists(gone)
    <3> DEFINE t == [run[r] EXCEPT !.expired = @ \ {gone}]
    <3>1. run'[q] = t
      BY <1>14, <2>4 DEF Unlink, Becomes, IInv, Typed
    <3>2. t.pc = "pruning" /\ t.since = run[q].since /\ t.expired = run[q].expired \ {gone}
      BY <1>1, <2>1, <2>4 DEF Run
    <3> HIDE DEF t
    <3>3. Remaining(t, Candidates') \subseteq Remaining(run[q], Candidates)
      BY <2>1, <3>2 DEF Remaining
    <3>4. PruneSound(t, Candidates')
      BY <1>1, <2>1, <2>4, <3>2, <3>3, FewerRemain DEF RetentionInv
    <3>5. QED
      BY <3>1, <3>4
  <2>5. QED
    BY <2>2, <2>3, <2>4
<1>15. \A q \in Runs : PruneSound(run'[q], Candidates')
  BY <1>8, <1>9, <1>10, <1>11, <1>12, <1>13, <1>14 DEF Next
<1>16. QED
  BY <1>3, <1>15 DEF RetentionInv

\* A run that reports success leaves no more than it was to keep, but for what
\* others published since it listed them (_prune).
THEOREM RetentionIsKept == Spec => RetentionBounded
<1>1. Init => RetentionInv
  <2> SUFFICES ASSUME Init PROVE RetentionInv
    OBVIOUS
  <2>1. Candidates = {}
    BY DEF Init, Candidates, Exists
  <2>2. QED
    BY <2>1, FS_EmptySet DEF Init, RetentionInv, PruneSound, Idle
<1>2. IInv /\ RetentionInv /\ [Next]_vars => RetentionInv'
  BY RetentionStays
<1>3. RetentionInv =>
        \A r \in Runs : Finish(r) => Cardinality(Candidates \ run[r].since) <= Keep
  <2> SUFFICES ASSUME RetentionInv, NEW r \in Runs, Finish(r)
               PROVE  Cardinality(Candidates \ run[r].since) <= Keep
    OBVIOUS
  <2>1. Cardinality(Remaining(run[r], Candidates)) <= Keep /\ run[r].expired = {}
    BY DEF RetentionInv, PruneSound, Finish
  <2>2. Remaining(run[r], Candidates) = Candidates \ run[r].since
    BY <2>1 DEF Remaining
  <2>3. QED
    BY <2>1, <2>2
<1>4. QED
  BY <1>1, <1>2, <1>3, AlwaysSound, PTL DEF Spec, RetentionBounded

-----------------------------------------------------------------------------
(* Types.                                                                  *)

LEMMA MadeIsBoolean == Spec => [](made \in BOOLEAN)
<1>1. Init => made \in BOOLEAN
  BY DEF Init
<1>2. made \in BOOLEAN /\ [Next]_vars => (made \in BOOLEAN)'
  BY DEF Next, LiveCommit, Begin, Refuse, CopyPieces, Verify, Publish, List, Unlink, Finish, Stop,
         vars
<1>3. QED
  BY <1>1, <1>2, PTL DEF Spec

\* A backup's name holds nothing or versions that were committed, and every run
\* is at a place where backup_database can be.
THEOREM TypeCorrect == Spec => []TypeOK
<1>1. IInv /\ made \in BOOLEAN => TypeOK
  <2> SUFFICES ASSUME IInv, made \in BOOLEAN PROVE TypeOK
    OBVIOUS
  <2>1. version \in Nat /\ version <= MaxVersion /\ MaxVersion \in Nat
    BY BackupAssumption DEF IInv, Typed, Versions
  <2>2. 0..version \subseteq Versions
    BY <2>1 DEF Versions
  <2>3. \A t \in Times : files[t] \in (SUBSET Versions) \cup {NoFile}
    BY <2>2 DEF IInv, Good
  <2>4. files \in Backups
    BY <2>3 DEF IInv, Typed, Backups
  <2>5. QED
    BY <2>2, <2>4 DEF IInv, Typed, Run, TypeOK
<1>2. QED
  BY <1>1, AlwaysSound, MadeIsBoolean, PTL
=============================================================================
