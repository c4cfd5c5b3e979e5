-------------------------------- MODULE Backup --------------------------------
(***************************************************************************)
(* Backups of the live database: copy it piece by piece into a partial     *)
(* file while others commit, verify the copy, publish it under the name of *)
(* the time the run began, then remove what retention no longer keeps.     *)
(* The timer's run and an operator's may overlap, and either may fail or   *)
(* die at any step; the wall clock may be set to any time.                 *)
(***************************************************************************)
EXTENDS Naturals, FiniteSets

CONSTANTS
  Runs,        \* backup processes
  Keep,        \* --keep
  Pieces,      \* pieces in which a database is copied
  MaxVersion,  \* bound: commits to the live database
  Times,       \* what the wall clock may show, and so the names of backups
  NoFile       \* no file has that name

ASSUME BackupAssumption ==
  /\ IsFiniteSet(Runs) /\ Times \subseteq Nat
  /\ Keep \in Nat \ {0} /\ Pieces \in Nat \ {0} /\ MaxVersion \in Nat

VARIABLES
  version,   \* the live database, as the number of its last commit
  bad,       \* committed versions whose audit history does not verify
  files,     \* finalized backups by name: the versions their pieces come from
  run,       \* what each process is doing
  made       \* history: some run reported success

vars == <<version, bad, files, run, made>>

Versions == 0..MaxVersion
Backups == [Times -> (SUBSET Versions) \cup {NoFile}]

ASSUME NoFileAssumption == \A copy \in SUBSET Versions : copy # NoFile

Idle == [pc |-> "idle", name |-> 0, base |-> 0, copied |-> 0, copy |-> {}, expired |-> {},
         since |-> {}]

TypeOK ==
  /\ version \in Versions /\ bad \subseteq Versions
  /\ files \in Backups
  /\ run \in [Runs ->
       [pc : {"idle", "copying", "verified", "published", "pruning"},
        name : Times \cup {0},       \* its final_path
        base : Versions,             \* the version being copied
        copied : 0..Pieces,          \* pieces copied so far
        copy : SUBSET Versions,      \* the versions they come from
        expired : SUBSET Times,      \* names still to be unlinked
        since : SUBSET Times]]       \* history: published since it listed them
  /\ made \in BOOLEAN

Init ==
  /\ version = 0 /\ bad = {}
  /\ files = [t \in Times |-> NoFile]
  /\ run = [r \in Runs |-> Idle]
  /\ made = FALSE

Exists(t) == files[t] # NoFile
Candidates == {t \in Times : Exists(t)}

Becomes(r, s) == run' = [run EXCEPT ![r] = s]

-----------------------------------------------------------------------------
(* The live database.                                                      *)

\* Others commit; a commit may leave a history that no longer verifies.
LiveCommit ==
  /\ version < MaxVersion
  /\ version' = version + 1
  /\ bad' \in {bad, bad \cup {version + 1}}
  /\ UNCHANGED <<files, run, made>>

-----------------------------------------------------------------------------
(* One run of backup_database.                                             *)

Begin(r, now) ==
  /\ run[r].pc = "idle"
  /\ ~Exists(now)
  /\ Becomes(r, [Idle EXCEPT !.pc = "copying", !.name = now, !.base = version])
  /\ UNCHANGED <<version, bad, files, made>>

\* "refusing to overwrite existing backup"
Refuse(r, now) ==
  /\ run[r].pc = "idle"
  /\ Exists(now)
  /\ UNCHANGED vars

\* SQLite starts over when another connection has committed.
CopyPieces(r) ==
  /\ run[r].pc = "copying" /\ run[r].copied < Pieces
  /\ Becomes(r, IF run[r].base = version
                THEN [run[r] EXCEPT !.copied = @ + 1, !.copy = @ \cup {version}]
                ELSE [run[r] EXCEPT !.base = version, !.copied = 1, !.copy = {version}])
  /\ UNCHANGED <<version, bad, files, made>>

\* Mutation: the anchor of the copy is not compared.
VerifyNothing(r) ==
  /\ run[r].pc = "copying" /\ run[r].copied = Pieces
  /\ Becomes(r, [run[r] EXCEPT !.pc = "verified"])
  /\ UNCHANGED <<version, bad, files, made>>

\* Integrity check and audit chain; a failing copy is removed.
Verify(r) ==
  /\ run[r].pc = "copying" /\ run[r].copied = Pieces
  /\ Becomes(r, IF Cardinality(run[r].copy) = 1 /\ run[r].copy \cap bad = {}
                THEN [run[r] EXCEPT !.pc = "verified"] ELSE Idle)
  /\ UNCHANGED <<version, bad, files, made>>

Publish(r) ==
  /\ run[r].pc = "verified"
  /\ files' = [files EXCEPT ![run[r].name] = run[r].copy]
  /\ run' = [s \in Runs |->
       IF s = r THEN [Idle EXCEPT !.pc = "published", !.name = run[r].name]
       ELSE IF run[s].pc = "pruning"
       THEN [run[s] EXCEPT !.since = @ \cup {run[r].name}]
       ELSE run[s]]
  /\ UNCHANGED <<version, bad, made>>

\* Mutation: one backup too few is kept.
ExpiredEarly(current) ==
  {t \in Candidates \ {current} :
     Cardinality({u \in Candidates \ {current} : u > t}) + 1 >= Keep - 1}

\* Mutation: one backup too many is kept.
ExpiredLate(current) ==
  {t \in Candidates \ {current} :
     Cardinality({u \in Candidates \ {current} : u > t}) >= Keep}

\* All but the current backup and the newest Keep - 1 others, by name.
Expired(current) ==
  {t \in Candidates \ {current} :
     Cardinality({u \in Candidates \ {current} : u > t}) >= Keep - 1}

List(r) ==
  /\ run[r].pc = "published"
  /\ Becomes(r, IF Exists(run[r].name)
                THEN [run[r] EXCEPT !.pc = "pruning", !.expired = Expired(run[r].name)]
                ELSE Idle)
  /\ UNCHANGED <<version, bad, files, made>>

\* Unlink the newest of what is left; a file that is already gone is an error.
Unlink(r, t) ==
  /\ run[r].pc = "pruning"
  /\ t \in run[r].expired /\ \A u \in run[r].expired : u <= t
  /\ files' = [files EXCEPT ![t] = NoFile]
  /\ Becomes(r, IF Exists(t) THEN [run[r] EXCEPT !.expired = @ \ {t}] ELSE Idle)
  /\ UNCHANGED <<version, bad, made>>

\* Success is reported if the backup is still there.
Finish(r) ==
  /\ run[r].pc = "pruning" /\ run[r].expired = {}
  /\ Becomes(r, Idle)
  /\ made' = (made \/ Exists(run[r].name))
  /\ UNCHANGED <<version, bad, files>>

\* An error, which removes the partial file, or the death of the process.
Stop(r) ==
  /\ run[r].pc # "idle"
  /\ Becomes(r, Idle)
  /\ UNCHANGED <<version, bad, files, made>>

Next ==
  \/ LiveCommit
  \/ \E r \in Runs :
       \/ \E now \in Times : Begin(r, now) \/ Refuse(r, now)
       \/ CopyPieces(r) \/ Verify(r) \/ Publish(r) \/ List(r)
       \/ \E t \in Times : Unlink(r, t)
       \/ Finish(r) \/ Stop(r)

Spec == Init /\ [][Next]_vars

-----------------------------------------------------------------------------
(* What must hold.                                                         *)

\* Whatever is found under the name of a backup is one committed version of the
\* database, whole and verified ("a failed or unverifiable partial is never
\* reported as a backup").
PublishedIsVerified ==
  \A t \in Candidates : \E v \in Versions \ bad : files[t] = {v}

\* Once a run reported success there is always a backup to restore from ("Number
\* of timestamped backups to retain").
NeverWithoutBackup == made => Candidates # {}

\* A run that reports success leaves no more backups than it was told to keep,
\* but for those that were published while it removed the others.
RetentionBounded ==
  [][\A r \in Runs : Finish(r) => Cardinality(Candidates \ run[r].since) <= Keep]_vars
=============================================================================
