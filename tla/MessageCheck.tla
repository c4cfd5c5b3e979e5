---------------------------- MODULE MessageCheck ----------------------------
(***************************************************************************)
(* The findings of checks/message.py about one sample message, check by    *)
(* check.  A header is what the findings tell apart: how often it occurs,  *)
(* and whether its value is empty, well formed or wrong.                   *)
(***************************************************************************)
EXTENDS Findings, DomainNames

\* One or more occurrences are told from none and from several.
Occurs(n, none, several) ==
  FindingIf(n = 0, none, "blocker") \cup FindingIf(n > 1, several, "blocker")

\* _check_required_headers; a Date: that is there but empty is not parsed.
HeaderFacts == [from : 0..2, date : 0..2, dateValue : {"empty", "valid", "invalid"},
                messageId : {"none", "wellformed", "malformed"},
                recipient : BOOLEAN, subject : BOOLEAN, defects : BOOLEAN]

HeaderFindings(h) ==
  Occurs(h.from, "MSG_NO_FROM", "MSG_DUPLICATE_FROM")
  \cup Occurs(h.date, "MSG_NO_DATE", "MSG_DUPLICATE_DATE")
  \cup FindingIf(h.date > 0 /\ h.dateValue = "invalid", "MSG_DATE_INVALID", "critical")
  \cup FindingIf(h.messageId = "none", "MSG_NO_MESSAGE_ID", "critical")
  \cup FindingIf(h.messageId = "malformed", "MSG_MESSAGE_ID_MALFORMED", "warning")
  \cup FindingIf(~h.recipient, "MSG_NO_RECIPIENT_HEADER", "warning")
  \cup FindingIf(~h.subject, "MSG_NO_SUBJECT", "warning")
  \cup FindingIf(h.defects, "MSG_RFC5322_DEFECTS", "critical")

-----------------------------------------------------------------------------
(* _check_from_header: from_domain is that of the first address that has    *)
(* one, replyTo the domains of Reply-To; shown: addresses whose display     *)
(* name advertises another organization's address.                          *)

GmailDomains == {<<"gmail", "com">>, <<"googlemail", "com">>}

FromFacts(domains) == [addresses : 0..2, sender : BOOLEAN, shown : 0..1,
                       replyTo : {<<>>} \cup {<<d>> : d \in domains}]

FromFindings(f, from_domain, expected) ==
  FindingIf(f.addresses > 1 /\ ~f.sender, "MSG_MULTIPLE_FROM_NO_SENDER", "critical")
  \cup (IF from_domain = <<>> THEN {}
        ELSE FindingIf(OrganizationalDomain(from_domain) \in GmailDomains,
                       "MSG_IMPERSONATES_GMAIL", "blocker")
             \cup FindingIf(expected # <<>> /\ ~Aligned(from_domain, expected, "r"),
                            "MSG_FROM_UNEXPECTED_DOMAIN", "warning")
             \cup FindingIf(f.shown > 0, "MSG_DECEPTIVE_DISPLAY_NAME", "critical")
             \cup FindingIf(\E i \in DOMAIN f.replyTo :
                              f.replyTo[i] # <<>> /\ ~Aligned(from_domain, f.replyTo[i], "r"),
                            "MSG_REPLYTO_OFF_DOMAIN", "info"))

-----------------------------------------------------------------------------
(* _check_unsubscribe: the schemes of the URIs in List-Unsubscribe, and     *)
(* whether List-Unsubscribe-Post says what RFC 8058 asks for.               *)

UnsubscribeFacts == [header : BOOLEAN, schemes : SUBSET {"https", "http", "mailto", "other"},
                     post : {"none", "one-click", "other"}]

UnsubscribeFindings(u, bulk) ==
  LET web == u.schemes \cap {"https", "http"} IN
  CASE ~bulk -> FindingIf(u.header, "MSG_UNSUBSCRIBE_ON_TRANSACTIONAL", "info")
    [] bulk /\ ~u.header -> Finding("MSG_NO_LIST_UNSUBSCRIBE", "blocker")
    [] bulk /\ u.header /\ u.schemes = {} -> Finding("MSG_UNSUBSCRIBE_MALFORMED", "blocker")
    [] OTHER ->
         FindingIf(web = {"http"}, "MSG_UNSUBSCRIBE_NOT_HTTPS", "critical")
         \cup FindingIf(web = {} /\ "mailto" \in u.schemes, "MSG_UNSUBSCRIBE_MAILTO_ONLY", "blocker")
         \cup FindingIf(web = {} /\ "mailto" \notin u.schemes, "MSG_UNSUBSCRIBE_NO_WEB_URI", "blocker")
         \cup FindingIf("https" \in web /\ "mailto" \notin u.schemes,
                        "MSG_UNSUBSCRIBE_NO_MAILTO", "info")
         \cup FindingIf(u.post # "one-click", "MSG_NO_ONE_CLICK_POST",
                        IF u.post = "none" THEN "blocker" ELSE "critical")

-----------------------------------------------------------------------------
(* _check_dkim_signatures: a signature by its d= domain and its other tags; *)
(* signed: the recommended headers that h= lists, None without an h=.       *)

RecommendedHeaders == {"from", "subject"}

Signature(domains) == [d : domains \cup {<<>>}, sha1 : BOOLEAN, length : BOOLEAN,
                       hasH : BOOLEAN, signed : SUBSET RecommendedHeaders]

SignatureFindings(sig) ==
  IF sig.d = <<>> THEN Finding("MSG_DKIM_NO_D_TAG", "critical")
  ELSE FindingIf(sig.sha1, "MSG_DKIM_SHA1", "critical")
       \cup FindingIf(sig.length, "MSG_DKIM_LENGTH_TAG", "critical")
       \cup FindingIf(sig.hasH /\ "from" \notin sig.signed, "MSG_DKIM_FROM_UNSIGNED", "blocker")
       \cup FindingIf(sig.hasH /\ "from" \in sig.signed /\ sig.signed # RecommendedHeaders,
                      "MSG_DKIM_HEADERS_UNSIGNED", "warning")

\* Mutation: any signature will do, whoever it is by.
AnySignatureNamed(signatures, from_domain) ==
  \E i \in DOMAIN signatures : signatures[i].d # <<>>

AnySignatureAligned(signatures, from_domain) ==
  \E i \in DOMAIN signatures : Aligned(from_domain, signatures[i].d, "r")

SignaturesFindings(signatures, from_domain) ==
  IF signatures = <<>> THEN Finding("MSG_NOT_DKIM_SIGNED", "blocker")
  ELSE (UNION {SignatureFindings(signatures[i]) : i \in DOMAIN signatures})
       \cup FindingIf(from_domain # <<>> /\ ~AnySignatureAligned(signatures, from_domain),
                      "MSG_DKIM_NOT_ALIGNED", "blocker")

-----------------------------------------------------------------------------
(* What the receiver recorded, the ARC sets and the body.                   *)

AuthOutcomes == {"pass", "fail", "permerror", "temperror", "softfail", "policy",
                 "neutral", "none", "other"}

AuthSeverity(outcome) ==
  CASE outcome = "fail" -> "blocker"
    [] outcome \in {"permerror", "softfail", "policy"} -> "critical"
    [] OTHER -> "warning"

\* Authentication-Results headers by method; the first one to name a method
\* decides it, and a method nobody names is skipped.
Merged(headers, method) ==
  LET naming == {i \in DOMAIN headers : method \in DOMAIN headers[i]} IN
  IF naming = {} THEN "pass"
  ELSE headers[CHOOSE i \in naming : \A j \in naming : i <= j][method]

AuthFindings(headers) ==
  UNION {LET outcome == Merged(headers, method)
         IN  FindingIf(outcome # "pass", "MSG_AUTH", AuthSeverity(outcome))
         : method \in {"spf", "dkim", "dmarc"}}

\* _check_arc: seals, signatures and results must be equally many.
ArcFindings(seals, signatures, results) ==
  IF seals + signatures + results = 0 THEN {}
  ELSE IF seals = signatures /\ signatures = results THEN Finding("MSG_ARC_PRESENT", "info")
  ELSE Finding("MSG_ARC_INCOMPLETE", "warning")

\* _check_body: the subtypes of the leaves of the message.
BodyFindings(multipart, subtypes, mimeVersion) ==
  FindingIf("html" \in subtypes /\ "plain" \notin subtypes, "MSG_HTML_ONLY", "warning")
  \cup FindingIf(multipart /\ ~mimeVersion, "MSG_NO_MIME_VERSION", "warning")
=============================================================================
