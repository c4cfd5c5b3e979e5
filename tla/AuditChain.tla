------------------------------ MODULE AuditChain ------------------------------
(***************************************************************************)
(* The hash-chained decision log as data, and the verdict the verifier     *)
(* returns on a log and the anchor kept beside it.                         *)
(*                                                                         *)
(* The hash is collision free here: the hash of a record is the sequence   *)
(* of everything hashed so far, so two hashes agree exactly when the       *)
(* histories below them do.                                                *)
(***************************************************************************)
EXTENDS Naturals, Sequences

CONSTANT Logged   \* what a record may record: the decisions

Payload == Nat \X Logged
Hash == Seq(Payload)

AuditRecord ==
  [sequence : Nat, decision : Logged, previous_hash : Hash, record_hash : Hash]

Anchor == [records : Nat, head_hash : Hash]

GenesisHash == <<>>
GenesisAnchor == [records |-> 0, head_hash |-> GenesisHash]

RecordHash(previous_hash, sequence, decision) ==
  Append(previous_hash, <<sequence, decision>>)

NewRecord(sequence, decision, previous_hash) ==
  [sequence |-> sequence, decision |-> decision,
   previous_hash |-> previous_hash,
   record_hash |-> RecordHash(previous_hash, sequence, decision)]

\* The stored hash of the record before position i.
HashBefore(log, i) == IF i = 1 THEN GenesisHash ELSE log[i - 1].record_hash

\* The anchor of a log that ends in this record.
AnchorAt(record) ==
  [records |-> record.sequence, head_hash |-> record.record_hash]

\* The position and hash a writer finds at the end of the log.
LastRecord(log) == IF log = <<>> THEN GenesisAnchor ELSE AnchorAt(log[Len(log)])

ContentIntact(record) ==
  record.record_hash =
    RecordHash(record.previous_hash, record.sequence, record.decision)

ChainIntact(log) ==
  \A i \in 1..Len(log) :
    /\ log[i].sequence = i
    /\ log[i].previous_hash = HashBefore(log, i)
    /\ ContentIntact(log[i])

Verdicts == {"intact", "broken", "truncated", "stale anchor", "wrong head"}

Verdict(log, anchor) ==
  IF ~ChainIntact(log) THEN "broken"
  ELSE IF Len(log) < anchor.records THEN "truncated"
  ELSE IF Len(log) > anchor.records THEN "stale anchor"
  ELSE IF HashBefore(log, Len(log) + 1) # anchor.head_hash THEN "wrong head"
  ELSE "intact"

\* The decisions a log records, in order.
Decisions(log) == [i \in 1..Len(log) |-> log[i].decision]
=============================================================================
