------------------------------ MODULE MailAudit ------------------------------
(***************************************************************************)
(* An InboxReady audit (audit.py): the DNS checks of a domain one after    *)
(* the other, then those of a sample message and of the sender's figures,  *)
(* and the verdict.  Every DNS answer, and every fact of the message, is   *)
(* chosen when it is read; any query may fail for the moment.  The walk of *)
(* the SPF includes is that of SpfWalk, step by step.                      *)
(***************************************************************************)
EXTENDS SpfWalk, DomainChecks, MessageCheck, FiniteSetsExt

CONSTANTS
  MAX_VOID_LOOKUPS,
  Audited,          \* domains that are audited
  Domains,          \* domain names that occur in addresses and signatures
  DkimKeys,         \* key records a selector may publish
  DmarcRecords,     \* DMARC records a domain may publish
  MaxSelectors,     \* bound: DKIM selectors asked for
  MaxAddresses,     \* bound: sending IPs
  Signatures,       \* bound: the DKIM signatures of a message
  Volumes,          \* daily volumes
  SpamRates         \* spam rates, in hundredths of a percent

ASSUME AuditAssumption ==
  /\ Records \subseteq Seq(SpfTerm) /\ DkimKeys \subseteq DkimKey
  /\ DmarcRecords \subseteq DmarcRecord /\ DmarcRecords # {} /\ NoValue \notin Int
  /\ Signatures \subseteq Seq(Signature(Domains))
  /\ MaxSelectors \in Nat /\ MaxAddresses \in Nat

VARIABLES
  domain,       \* the audited domain, empty if only a message is checked
  report,       \* the report so far: its worst finding
  policy,       \* dmarc.data["effective_policy"]
  left,         \* selectors or addresses still to be checked
  explicit,     \* the selectors were named by the caller
  found,        \* some selector gave a key
  from_domain,  \* ParsedMessage.from_domain
  bulk,         \* the caller's bulk option
  failed,       \* history: a query of the current check failed
  misread,      \* history: a check that could not read reported a blocker
  complied      \* history: everything read so far is what Gmail asks for

localVars == <<left, explicit, found, failed>>
auditVars == <<domain, report, policy, localVars, from_domain, bulk, misread, complied>>
vars == <<spfVars, auditVars>>

Stages == {"start", "mx", "spf", "walk", "counted", "dkim", "keys", "dmarc", "inherit", "ips",
           "addresses", "transport", "bimi", "headers", "from", "unsubscribe", "signatures",
           "received", "reputation", "done"}

TypeOK ==
  /\ pc \in Stages /\ domain \in Audited \cup {<<>>}
  /\ cache \in [Names -> Answers \cup {Unasked}] /\ asked \in [Names -> Nat]
  /\ call \in Names \cup {NoName} /\ visited \subseteq Names
  /\ stack \in Seq([name : visited, at : Nat \ {0}])
  /\ lookups \in Nat /\ voids \in Nat /\ loops \in Nat /\ cut \in BOOLEAN
  /\ report \in {Rank[s] : s \in Severities}
  /\ policy \in Policies \cup {"invalid", NoValue}
  /\ left \in 0..(MaxSelectors + MaxAddresses)
  /\ {explicit, found, failed, misread, complied} \subseteq BOOLEAN
  /\ from_domain \in Domains \cup {<<>>} /\ bulk \in BOOLEAN \cup {NoValue}

Init ==
  /\ pc = "start" /\ Resting
  /\ domain = <<>> /\ report = EmptyReport /\ policy = NoValue
  /\ left = 0 /\ explicit = FALSE /\ found = FALSE /\ failed = FALSE
  /\ from_domain = <<>> /\ bulk = NoValue /\ misread = FALSE /\ complied = TRUE

\* A check adds its findings.  meets: what it read is as Gmail asks; unread: it
\* rests on a query that failed.
Conclude(findings, meets, unread) ==
  /\ report' = Add(report, findings)
  /\ complied' = (complied /\ meets)
  /\ misread' = (misread \/ (unread /\ \E f \in findings : f.severity = "blocker"))

-----------------------------------------------------------------------------
(* audit: a domain, a message, or both; without a resolver, DNS is skipped. *)

Start(d, stage) ==
  /\ pc = "start"
  /\ d = <<>> => stage = "headers"
  /\ domain' = d /\ pc' = stage
  /\ UNCHANGED <<walkVars, report, policy, localVars, from_domain, bulk, misread, complied>>

CheckMx(mx) ==
  /\ pc = "mx" /\ pc' = "spf"
  /\ Conclude(MxFindings(mx), mx # "nxdomain", mx = "failed")
  /\ UNCHANGED <<walkVars, domain, policy, localVars, from_domain, bulk>>

-----------------------------------------------------------------------------
(* check_spf.                                                              *)

\* What RFC 7208 and Gmail ask of a record: one, of known terms, closed by a
\* refusing all or delegated, and not open to whole address ranges.
SpfRecordMeets(answer) ==
  /\ answer.kind = "found" /\ Len(answer.records) = 1
  /\ LET terms == answer.records[1]
         alls == {i \in DOMAIN terms : terms[i].name = "all"} IN
     /\ \A i \in DOMAIN terms :
          terms[i].name # "unknown" /\ ~(terms[i].name = "broad" /\ terms[i].qualifier = "+")
     /\ IF alls = {} THEN \E i \in DOMAIN terms : terms[i].name = "redirect"
        ELSE \A i \in alls : (\A j \in alls : i <= j) => terms[i].qualifier \in {"-", "~"}

CheckSpf(answer, expand, long) ==
  /\ ReadRecord(answer, expand)
  /\ Conclude(SpfRecordFindings(answer, long), SpfRecordMeets(answer), answer = Failed)
  /\ UNCHANGED <<domain, policy, localVars, from_domain, bulk>>

ExpandSpf == WalkStep /\ UNCHANGED auditVars

\* No later check asks for these names again, so what was read is forgotten here.
CountSpf ==
  /\ pc = "counted" /\ pc' = "dkim"
  /\ IF visited = {} THEN UNCHANGED <<report, complied, misread>>
     ELSE Conclude(SpfCountFindings(lookups, voids, loops, MAX_DNS_LOOKUPS, MAX_VOID_LOOKUPS),
                   ~(TooManyLookups \/ voids > MAX_VOID_LOOKUPS), FALSE)
  /\ cache' = [n \in Names |-> Unasked] /\ asked' = [n \in Names |-> 0]
  /\ call' = NoName /\ stack' = <<>> /\ visited' = {}
  /\ lookups' = 0 /\ voids' = 0 /\ loops' = 0 /\ cut' = FALSE
  /\ UNCHANGED <<domain, policy, localVars, from_domain, bulk>>

-----------------------------------------------------------------------------
(* check_dkim, selector by selector; probing asks for well-known ones.     *)

BeginDkim(n, named) ==
  /\ pc = "dkim" /\ (named => n > 0)
  /\ left' = n /\ explicit' = named /\ found' = FALSE
  /\ pc' = IF n = 0 THEN "dmarc" ELSE "keys"
  /\ UNCHANGED <<walkVars, domain, report, policy, failed, from_domain, bulk, misread, complied>>

KeyAnswers == [kind : {"failed", "absent"}, key : {NoValue}] \cup [kind : {"key"}, key : DkimKeys]

KeyMeets(key) ==
  /\ key.p = "key" /\ key.version = "DKIM1" /\ key.malformed = 0
  /\ \/ key.key_type = "rsa" /\ key.bits >= 1024
     \/ key.key_type = "ed25519"
  /\ key.hashes # {} => "sha256" \in key.hashes

CheckSelector(answer) ==
  /\ pc = "keys" /\ left > 0
  /\ left' = left - 1 /\ found' = (found \/ answer.kind = "key")
  /\ CASE answer.kind = "key" -> Conclude(KeyFindings(answer.key), KeyMeets(answer.key), FALSE)
       [] answer.kind = "absent" ->
            Conclude(FindingIf(explicit, "DKIM_SELECTOR_MISSING", "critical"), ~explicit, FALSE)
       [] OTHER -> UNCHANGED <<report, complied, misread>>
  /\ UNCHANGED <<pc, walkVars, domain, policy, explicit, failed, from_domain, bulk>>

EndDkim ==
  /\ pc = "keys" /\ left = 0
  /\ pc' = "dmarc" /\ explicit' = FALSE /\ found' = FALSE
  /\ Conclude(IF found THEN {} ELSE NoKeyFindings(explicit), explicit => found, FALSE)
  /\ UNCHANGED <<walkVars, domain, policy, left, failed, from_domain, bulk>>

-----------------------------------------------------------------------------
(* check_dmarc: the domain's record, else that of its organization.        *)

DmarcAnswers == {Found(<<>>), NxDomain, Failed, Several(DmarcRecords)}
                  \cup {Found(<<r>>) : r \in DmarcRecords}

\* Mutation: the organization is asked whenever the domain gave no record.
FallsBackAlways(answer) ==
  pc = "dmarc" /\ answer.records = <<>> /\ OrganizationalDomain(domain) # domain

\* Only when the domain said that it has no record, not when it could not be asked.
FallsBack(answer) ==
  /\ pc = "dmarc" /\ answer.records = <<>> /\ answer # Failed
  /\ OrganizationalDomain(domain) # domain

PolicyOwner == IF pc = "inherit" THEN OrganizationalDomain(domain) ELSE domain

DmarcMeets(answer) ==
  /\ Len(answer.records) = 1
  /\ RecordErrors(answer.records[1]) = 0
  /\ IF pc = "inherit" /\ answer.records[1].sp # NoValue
     THEN answer.records[1].sp \in Policies ELSE answer.records[1].p \in Policies

CheckDmarc(answer, unauthorised) ==
  /\ pc \in {"dmarc", "inherit"}
  /\ ~FallsBack(answer)
  /\ unauthorised <= (IF answer.records = <<>> THEN 0
                      ELSE Len(External(answer.records[1], PolicyOwner)))
  /\ Conclude(IF answer = Failed THEN Finding("DMARC_LOOKUP_FAILED", "critical")
              ELSE IF answer.records = <<>> THEN Finding("DMARC_MISSING", "blocker")
              ELSE DmarcFindings(answer.records, pc = "inherit", unauthorised),
              DmarcMeets(answer), failed \/ answer = Failed)
  /\ policy' = IF answer.records = <<>> THEN NoValue
               ELSE EffectivePolicy(answer.records[1], pc = "inherit")
  /\ pc' = "ips" /\ failed' = FALSE
  /\ UNCHANGED <<walkVars, domain, left, explicit, found, from_domain, bulk>>

AskOrganization(answer) ==
  /\ FallsBack(answer)
  /\ pc' = "inherit" /\ failed' = (answer = Failed)
  /\ UNCHANGED <<walkVars, domain, report, policy, left, explicit, found, from_domain, bulk,
                 misread, complied>>

-----------------------------------------------------------------------------
(* check_sending_ips, address by address, then the two optional checks.    *)

BeginAddresses(n) ==
  /\ pc = "ips" /\ left' = n /\ pc' = "addresses"
  /\ UNCHANGED <<walkVars, domain, report, policy, explicit, found, failed, from_domain, bulk,
                 misread, complied>>

\* ptr: what the reverse lookup gives; forward: what its names resolve to.
CheckAddress(kind, ptr, forward) ==
  /\ pc = "addresses" /\ left > 0 /\ left' = left - 1
  /\ (ptr = "names") = (forward # {})
  /\ Conclude(AddressFindings(kind, ptr, forward),
              kind \in {"private", "public"} => ptr = "failed" \/ "same" \in forward,
              ptr = "failed")
  /\ UNCHANGED <<pc, walkVars, domain, policy, explicit, found, failed, from_domain, bulk>>

EndAddresses ==
  /\ pc = "addresses" /\ left = 0 /\ pc' = "transport"
  /\ UNCHANGED <<walkVars, auditVars>>

CheckTransport(sts, hasId, tlsrpt) ==
  /\ pc = "transport" /\ pc' = "bimi"
  /\ Conclude(TransportFindings(sts, hasId, tlsrpt), TRUE, FALSE)
  /\ UNCHANGED <<walkVars, domain, policy, localVars, from_domain, bulk>>

\* audit_domain hands the effective policy on; then the message, if there is one.
CheckBimi(published, logo, vmc, next) ==
  /\ pc = "bimi" /\ pc' = next /\ next \in {"headers", "reputation"}
  /\ Conclude(BimiFindings(published, logo, vmc, policy), TRUE, FALSE)
  /\ policy' = NoValue
  /\ UNCHANGED <<walkVars, domain, localVars, from_domain, bulk>>

-----------------------------------------------------------------------------
(* check_message: without the option, a message counts as bulk mail.       *)

TreatedAsBulk == bulk = NoValue \/ bulk

MessageStep(from, to, findings, meets) ==
  /\ pc = from /\ pc' = to
  /\ Conclude(findings, meets, FALSE)
  /\ UNCHANGED <<walkVars, domain, policy, localVars>>

CheckHeaders(h, d, b) ==
  /\ MessageStep("headers", "from", HeaderFindings(h),
                 h.from = 1 /\ h.date = 1 /\ h.dateValue # "invalid" /\ h.messageId # "none"
                   /\ ~h.defects)
  /\ (h.from = 0 => d = <<>>) /\ from_domain' = d /\ bulk' = b

CheckFrom(f) ==
  /\ MessageStep("from", "unsubscribe", FromFindings(f, from_domain, domain),
                 /\ f.addresses <= 1 \/ f.sender
                 /\ from_domain # <<>> => /\ OrganizationalDomain(from_domain) \notin GmailDomains
                                          /\ f.shown = 0)
  /\ (from_domain # <<>> => f.addresses > 0)
  /\ UNCHANGED <<from_domain, bulk>>

CheckUnsubscribe(u) ==
  /\ MessageStep("unsubscribe", "signatures", UnsubscribeFindings(u, TreatedAsBulk),
                 TreatedAsBulk => u.header /\ "https" \in u.schemes /\ u.post = "one-click")
  /\ UNCHANGED <<from_domain, bulk>>

\* Gmail asks for a signature by the sender's organization that protects From:.
CheckSignatures(signatures) ==
  /\ MessageStep("signatures", "received", SignaturesFindings(signatures, from_domain),
                 /\ signatures # <<>>
                 /\ \A i \in DOMAIN signatures :
                      signatures[i].hasH => "from" \in signatures[i].signed
                 /\ from_domain # <<>> =>
                      \E i \in DOMAIN signatures :
                        OrganizationalDomain(signatures[i].d) = OrganizationalDomain(from_domain))
  /\ from_domain' = <<>> /\ bulk' = bulk

CheckReceived(headers, arc, multipart, subtypes, mime) ==
  /\ MessageStep("received", "reputation",
                 AuthFindings(headers) \cup ArcFindings(arc[1], arc[2], arc[3])
                   \cup BodyFindings(multipart, subtypes, mime),
                 \A method \in {"spf", "dkim", "dmarc"} :
                   headers # <<>> /\ method \in DOMAIN headers[1]
                     => headers[1][method] \notin {"fail", "permerror", "softfail", "policy"})
  /\ UNCHANGED <<from_domain, bulk>>

\* A volume below zero is refused before the rate is looked at.
ReputationMeets(volume, rate) ==
  volume \notin {NoValue} \cup Nat \/ rate \notin (SPAM_RATE_TARGET + 1)..10000

CheckReputation(volume, rate) ==
  /\ pc = "reputation" /\ pc' = "done"
  /\ Conclude(ReputationFindings(volume, rate, bulk), ReputationMeets(volume, rate), FALSE)
  /\ bulk' = NoValue
  /\ UNCHANGED <<walkVars, domain, policy, localVars, from_domain>>

Finished == pc = "done" /\ UNCHANGED vars

-----------------------------------------------------------------------------

SpfSteps ==
  \/ pc = "spf" /\ \E answer \in Answers, expand, long \in BOOLEAN : CheckSpf(answer, expand, long)
  \/ ExpandSpf \/ CountSpf

DnsSteps ==
  \/ \E mx \in MxAnswers : CheckMx(mx)
  \/ \E n \in 0..MaxSelectors, named \in BOOLEAN : BeginDkim(n, named)
  \/ pc = "keys" /\ \E answer \in KeyAnswers : CheckSelector(answer)
  \/ EndDkim
  \/ pc \in {"dmarc", "inherit"} /\ \E answer \in DmarcAnswers :
       \/ \E unauthorised \in 0..2 : CheckDmarc(answer, unauthorised)
       \/ AskOrganization(answer)
  \/ \E n \in 0..MaxAddresses : BeginAddresses(n)
  \/ pc = "addresses" /\ \E kind \in AddressKinds, ptr \in {"failed", "none", "names"},
        forward \in SUBSET {"same", "other", "failed"} : CheckAddress(kind, ptr, forward)
  \/ EndAddresses
  \/ \E sts \in 0..2, tlsrpt \in 0..1, hasId \in BOOLEAN : CheckTransport(sts, hasId, tlsrpt)
  \/ \E published, logo, vmc \in BOOLEAN, next \in {"headers", "reputation"} :
       CheckBimi(published, logo, vmc, next)

MessageSteps ==
  \/ pc = "headers" /\ \E h \in HeaderFacts, d \in Domains \cup {<<>>}, b \in BOOLEAN \cup {NoValue} :
       CheckHeaders(h, d, b)
  \/ pc = "from" /\ \E f \in FromFacts(Domains) : CheckFrom(f)
  \/ pc = "unsubscribe" /\ \E u \in UnsubscribeFacts : CheckUnsubscribe(u)
  \/ pc = "signatures" /\ \E signatures \in Signatures : CheckSignatures(signatures)
  \/ pc = "received" /\ \E headers \in {<<>>} \cup {<<m>> : m \in [{"spf", "dmarc"} -> AuthOutcomes]},
        arc \in {<<0, 0, 0>>, <<1, 1, 1>>, <<1, 1, 0>>},
        multipart, mime \in BOOLEAN, subtypes \in SUBSET {"html", "plain"} :
       CheckReceived(headers, arc, multipart, subtypes, mime)

Next ==
  \/ \E d \in Audited \cup {<<>>}, stage \in {"mx", "headers", "reputation"} : Start(d, stage)
  \/ SpfSteps \/ DnsSteps \/ MessageSteps
  \/ pc = "reputation" /\ \E volume \in Volumes, rate \in SpamRates : CheckReputation(volume, rate)
  \/ Finished

Spec == Init /\ [][Next]_vars /\ WF_vars(Next)

-----------------------------------------------------------------------------
(* What must hold.                                                         *)

\* The names that the records read lead to from the domain: the least set that
\* holds it and every target of a record in it.
Leads(names) ==
  /\ Root \in names
  /\ \A n \in names : Usable(cache[n]) =>
       \A i \in DOMAIN Terms(n) : Follows(Terms(n)[i]) => Terms(n)[i].target \in names
Reachable == CHOOSE names \in SUBSET Names :
               Leads(names) /\ \A other \in SUBSET Names : Leads(other) => names \subseteq other

Costs(n) == Cardinality({i \in DOMAIN Terms(n) : CostsLookup(Terms(n)[i])})
References(n) == Cardinality({i \in DOMAIN Terms(n) : Follows(Terms(n)[i])})

\* When nothing was cut off, the counts do not depend on the order of the walk:
\* every term of every record that can be reached is counted once, a name without
\* a usable record is a void lookup once, and every reference beyond the first to
\* a name, whether or not it closes a cycle, is reported as a loop.
LookupsAreExact ==
  pc = "counted" /\ visited # {} /\ ~cut =>
    LET usable == {n \in Reachable : Usable(cache[n])} IN
        /\ visited = Reachable
        /\ lookups = MapThenSumSet(Costs, usable)
        /\ voids = Cardinality(Reachable \ (usable \cup {Root}))
        /\ loops + Cardinality(Reachable) = MapThenSumSet(References, usable) + 1

\* A query that fails for the moment is never taken for a record that is not
\* there: MX, SPF, DMARC and PTR report a blocker only on a definitive answer.
NoBlockerFromFailure == ~misread

\* "True when nothing found would get mail rejected by Gmail today": a domain and
\* a message that pass meet, check by check, what the references ask of them.
ReadyMeansCompliant == pc = "done" /\ GmailReady(report) => complied

\* However the records of others are nested, an audit comes to an end.
AuditEnds == <>(pc = "done")
=============================================================================
