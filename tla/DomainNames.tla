----------------------------- MODULE DomainNames -----------------------------
(***************************************************************************)
(* Domain names as sequences of labels: the public suffix of a name, the   *)
(* organizational domain above it, and DMARC identifier alignment.  Case,  *)
(* stray dots and spaces are gone once a name has been split.              *)
(***************************************************************************)
EXTENDS Naturals, Sequences

CONSTANT PublicSuffixes   \* the multi-label public suffixes of the list in use

\* The labels from the i-th on.
LabelsFrom(name, i) == SubSeq(name, i, Len(name))

\* Where the public suffix begins: the longest listed one, else the last label.
SuffixStart(name) ==
  LET listed == {i \in 1..(Len(name) - 1) : LabelsFrom(name, i) \in PublicSuffixes}
  IN  IF listed = {} THEN Len(name)
      ELSE CHOOSE i \in listed : \A j \in listed : i <= j

\* The public suffix and one label more; a name that is a suffix is its own.
OrganizationalDomain(name) ==
  IF name = <<>> THEN <<>>
  ELSE IF SuffixStart(name) = 1 THEN name
  ELSE LabelsFrom(name, SuffixStart(name) - 1)

\* check_alignment: equal names, or in relaxed mode one organization's names.
Aligned(left, right, mode) ==
  /\ left # <<>> /\ right # <<>>
  /\ \/ left = right
     \/ /\ mode = "r"
        /\ OrganizationalDomain(left) = OrganizationalDomain(right)
=============================================================================
