---------------------------- MODULE DomainChecks ----------------------------
(***************************************************************************)
(* The findings of the DNS checks, as functions of what was read: MX, SPF, *)
(* DKIM keys, DMARC, sending IPs, MTA-STS and TLS-RPT, BIMI, and of the    *)
(* sender's volume and spam rate.  An answer is the facts its findings     *)
(* depend on; how a record's text is taken apart is left out.              *)
(***************************************************************************)
EXTENDS Findings, DomainNames

CONSTANT NoValue   \* a tag, a number or an option that is not there

-----------------------------------------------------------------------------
(* checks/network.py: MX.                                                  *)

MxAnswers == {"nxdomain", "failed", "none", "null", "hosts"}

MxFindings(mx) ==
  FindingIf(mx = "nxdomain", "DOMAIN_NXDOMAIN", "blocker")
  \cup FindingIf(mx = "none", "MX_MISSING", "warning")
  \cup FindingIf(mx = "null", "MX_NULL", "warning")

-----------------------------------------------------------------------------
(* checks/spf.py: a record is the sequence of its terms.                   *)

IsModifier(term) == term.name \in {"redirect", "exp", "odd"}

\* all_term and redirect: the first of their kind.
Firsts(terms, name) ==
  {i \in DOMAIN terms : terms[i].name = name /\ \A j \in 1..(i - 1) : terms[j].name # name}
HasAll(terms) == Firsts(terms, "all") # {}
HasRedirect(terms) == \E i \in Firsts(terms, "redirect") : ~terms[i].flaw

\* The errors of one term by itself: ptr is deprecated, an unknown modifier is
\* ignored, a block of addresses is too broad to be authorised; a and mx take
\* any value.
OwnErrors(term) ==
  IF \/ term.name \in {"ptr", "odd", "unknown"}
     \/ term.name = "broad" /\ term.qualifier = "+"
     \/ term.name \in {"all", "include", "exists", "ip4", "redirect", "exp"} /\ term.flaw
  THEN 1 ELSE 0

\* And those it owes to its place: after all, or a modifier a second time.
PlaceErrors(terms, i) ==
  (IF \E j \in 1..(i - 1) : terms[j].name = "all" THEN 1 ELSE 0)
  + (IF IsModifier(terms[i]) /\ \E j \in 1..(i - 1) : terms[j].name = terms[i].name
     THEN 1 ELSE 0)

TermFindings(terms, i) ==
  LET term == terms[i] IN
  IF term.name = "unknown"
  THEN FindingIf(OwnErrors(term) + PlaceErrors(terms, i) > 0, "SPF_TERM_INVALID", "blocker")
  ELSE FindingIf(OwnErrors(term) > 0, "SPF_TERM_WARNING",
                 IF term.name = "broad" THEN "critical" ELSE "warning")
       \cup FindingIf(PlaceErrors(terms, i) > 0, "SPF_TERM_WARNING", "warning")

\* _check_all_mechanism
AllFindings(terms) ==
  LET q == {terms[i].qualifier : i \in Firsts(terms, "all")} IN
  FindingIf(q = {} /\ HasRedirect(terms), "SPF_REDIRECT_ONLY", "info")
  \cup FindingIf(q = {} /\ ~HasRedirect(terms), "SPF_NO_ALL", "critical")
  \cup FindingIf(q = {"+"}, "SPF_ALL_PASS", "blocker")
  \cup FindingIf(q = {"?"}, "SPF_ALL_NEUTRAL", "critical")
  \cup FindingIf(q = {"~"}, "SPF_ALL_SOFTFAIL", "info")

\* check_spf up to the expansion; long: the record is over 450 characters.
SpfRecordFindings(answer, long) ==
  IF answer.kind \in {"failed", "nxdomain"} THEN Finding("SPF_LOOKUP_FAILED", "critical")
  ELSE IF answer.records = <<>> THEN Finding("SPF_MISSING", "blocker")
  ELSE LET terms == answer.records[1] IN
    FindingIf(Len(answer.records) > 1, "SPF_MULTIPLE", "blocker")
    \cup FindingIf(HasAll(terms) /\ HasRedirect(terms), "SPF_RECORD_ERROR", "warning")
    \cup (UNION {TermFindings(terms, i) : i \in DOMAIN terms})
    \cup AllFindings(terms)
    \cup FindingIf(long, "SPF_RECORD_LONG", "info")

\* And what the expansion adds.
SpfCountFindings(lookups, voids, loops, maxLookups, maxVoids) ==
  FindingIf(loops > 0, "SPF_INCLUDE_LOOP", "critical")
  \cup FindingIf(lookups > maxLookups, "SPF_TOO_MANY_LOOKUPS", "blocker")
  \cup FindingIf(lookups \in {maxLookups - 1, maxLookups}, "SPF_LOOKUPS_NEAR_LIMIT", "warning")
  \cup FindingIf(voids > maxVoids, "SPF_VOID_LOOKUPS", "critical")

-----------------------------------------------------------------------------
(* checks/dkim.py: a key record, bits = 0 for a key that cannot be decoded. *)

DkimKey == [malformed : 0..1, version : {"DKIM1", "other", NoValue},
            p : {"key", "empty", NoValue}, testing : BOOLEAN,
            key_type : {"rsa", "ed25519", "other"}, bits : {0, 512, 1024, 2048},
            hashes : SUBSET {"sha1", "sha256"}]

\* parse_dkim_record
KeyErrors(key) ==
  key.malformed + (IF key.version # "DKIM1" THEN 1 ELSE 0) + (IF key.p = NoValue THEN 1 ELSE 0)

\* rsa_key_bits of the p= value, of which an absent one has none.
KeyBits(key) == IF key.p = "key" THEN key.bits ELSE 0

KeyTypeFindings(key) ==
  CASE key.key_type = "rsa" ->
         FindingIf(KeyBits(key) = 0, "DKIM_KEY_UNREADABLE", "critical")
         \cup FindingIf(KeyBits(key) \in 1..1023, "DKIM_KEY_TOO_SHORT", "blocker")
         \cup FindingIf(KeyBits(key) \in 1024..2047, "DKIM_KEY_WEAK", "warning")
    [] key.key_type = "ed25519" -> Finding("DKIM_ED25519", "info")
    [] OTHER -> Finding("DKIM_KEY_TYPE_UNKNOWN", "critical")

\* _audit_key: nothing is said of a revoked key but that it is revoked.
KeyFindings(key) ==
  FindingIf(KeyErrors(key) > 0, "DKIM_RECORD_ERROR", "critical")
  \cup (IF key.p = "empty" THEN Finding("DKIM_KEY_REVOKED", "blocker")
        ELSE FindingIf(key.testing, "DKIM_TESTING_MODE", "warning")
             \cup KeyTypeFindings(key)
             \cup FindingIf(key.hashes = {"sha1"}, "DKIM_SHA1_ONLY", "critical"))

\* check_dkim, when all selectors were asked for and none gave a key.
NoKeyFindings(explicit) == Finding("DKIM_MISSING", IF explicit THEN "blocker" ELSE "warning")

-----------------------------------------------------------------------------
(* checks/dmarc.py: a record; unknown tags and other errors by number.     *)

Policies == {"none", "quarantine", "reject"}

DmarcRecord == [p : Policies \cup {"invalid", NoValue}, sp : Policies \cup {"invalid", NoValue},
                pct : Int \cup {NoValue}, errors : Nat, unknown : Nat,
                rua : Seq({"mailto", "other"} \X Seq(STRING)),
                ruf : Seq({"mailto", "other"} \X Seq(STRING)), strict : BOOLEAN]

SubdomainPolicy(r) == IF r.sp = NoValue THEN r.p ELSE r.sp
\* A pct that is no number reads as 100, and is one of the errors.
Percentage(r) == IF r.pct = NoValue THEN 100 ELSE r.pct

\* _validate_values, and the errors of the tag list itself.
RecordErrors(r) ==
  r.errors + (IF r.p \in Policies THEN 0 ELSE 1) + (IF r.sp = "invalid" THEN 1 ELSE 0)
  + (IF Percentage(r) \notin 0..100 THEN 1 ELSE 0)
  + Cardinality({i \in DOMAIN (r.rua \o r.ruf) : (r.rua \o r.ruf)[i][1] # "mailto"})

EffectivePolicy(r, inherited) == IF inherited THEN SubdomainPolicy(r) ELSE r.p

\* _grade_policy
PolicyFindings(policy) ==
  CASE policy = "reject" -> {}
    [] policy = "quarantine" -> Finding("DMARC_POLICY_QUARANTINE", "warning")
    [] policy = "none" -> Finding("DMARC_POLICY_NONE", "warning")
    [] OTHER -> Finding("DMARC_POLICY_INVALID", "blocker")

\* The report destinations outside the organization the policy belongs to, each
\* of which is asked for its consent.
External(r, domain) ==
  SelectSeq(r.rua \o r.ruf,
            LAMBDA uri : /\ uri[2] # <<>>
                         /\ OrganizationalDomain(uri[2]) # OrganizationalDomain(domain))

\* check_dmarc with a record in hand; unauthorised: external destinations
\* without a record that says they agree.
DmarcFindings(records, inherited, unauthorised) ==
  LET r == records[1] IN
  FindingIf(Len(records) > 1, "DMARC_MULTIPLE", "blocker")
  \cup FindingIf(r.unknown > 0, "DMARC_RECORD_ERROR", "warning")
  \cup FindingIf(RecordErrors(r) > 0, "DMARC_RECORD_ERROR", "critical")
  \cup FindingIf(inherited, "DMARC_INHERITED", "info")
  \cup PolicyFindings(EffectivePolicy(r, inherited))
  \cup FindingIf(Percentage(r) < 100, "DMARC_PARTIAL_PCT", "warning")
  \cup FindingIf(r.rua = <<>>, "DMARC_NO_RUA", "warning")
  \cup FindingIf(unauthorised > 0, "DMARC_EXTERNAL_REPORT_UNAUTHORISED", "warning")
  \cup FindingIf(r.strict, "DMARC_STRICT_ALIGNMENT", "info")

-----------------------------------------------------------------------------
(* checks/network.py: one sending IP, and the names its PTR leads to, each  *)
(* by what its forward lookup gives.                                       *)

AddressKinds == {"invalid", "local", "private", "public"}

AddressFindings(kind, ptr, forward) ==
  FindingIf(kind = "invalid", "IP_INVALID", "warning")
  \cup FindingIf(kind \in {"local", "private"}, "IP_NOT_PUBLIC", "warning")
  \cup (IF kind \in {"invalid", "local"} \/ ptr = "failed" THEN {}
        ELSE FindingIf(ptr = "none", "PTR_MISSING", "blocker")
             \cup FindingIf(ptr = "names" /\ "same" \notin forward, "FCRDNS_FAILED", "critical"))

-----------------------------------------------------------------------------
(* checks/network.py: MTA-STS, TLS-RPT and BIMI.  A failing query leaves no *)
(* records, like an empty answer.                                          *)

TransportFindings(sts, hasId, tlsrpt) ==
  FindingIf(sts = 0, "MTA_STS_MISSING", "info")
  \cup FindingIf(sts > 1, "MTA_STS_MULTIPLE", "warning")
  \cup FindingIf(sts > 0 /\ ~hasId, "MTA_STS_NO_ID", "warning")
  \cup FindingIf(tlsrpt = 0, "TLSRPT_MISSING", "info")

BimiFindings(published, logo, vmc, policy) ==
  IF ~published THEN {}
  ELSE FindingIf(~logo, "BIMI_NO_LOGO", "warning")
       \cup FindingIf(policy \notin {"quarantine", "reject"}, "BIMI_WITHOUT_ENFORCEMENT", "warning")
       \cup FindingIf(~vmc, "BIMI_NO_VMC", "info")

-----------------------------------------------------------------------------
(* checks/reputation.py, the spam rate in hundredths of a percent.         *)

BULK_SENDER_THRESHOLD == 5000
SPAM_RATE_TARGET == 10
SPAM_RATE_LIMIT == 30

IsBulk(volume, bulk) ==
  IF bulk # NoValue THEN bulk ELSE volume # NoValue /\ volume >= BULK_SENDER_THRESHOLD

VolumeFindings(volume, bulk) ==
  FindingIf(IsBulk(volume, bulk), "REP_BULK_SENDER", "info")
  \cup FindingIf(/\ ~IsBulk(volume, bulk) /\ volume # NoValue
                  /\ 5 * (BULK_SENDER_THRESHOLD - volume) <= BULK_SENDER_THRESHOLD,
                  "REP_NEAR_BULK_THRESHOLD", "warning")

SpamRateFindings(rate) ==
  CASE rate = NoValue -> Finding("REP_NO_SPAM_RATE", "info")
    [] rate \notin {NoValue} \cup (0..10000) -> Finding("REP_SPAM_RATE_INVALID", "warning")
    [] rate \in SPAM_RATE_LIMIT..10000 -> Finding("REP_SPAM_RATE_CRITICAL", "blocker")
    [] rate \in (SPAM_RATE_TARGET + 1)..(SPAM_RATE_LIMIT - 1) ->
         Finding("REP_SPAM_RATE_ELEVATED", "critical")
    [] OTHER -> Finding("REP_SPAM_RATE_OK", "pass")

ReputationFindings(volume, rate, bulk) ==
  IF volume = NoValue /\ rate = NoValue /\ bulk = NoValue THEN {}
  ELSE IF volume # NoValue /\ volume < 0 THEN Finding("REP_VOLUME_INVALID", "warning")
  ELSE VolumeFindings(volume, bulk) \cup SpamRateFindings(rate)
=============================================================================
