----------------------------- MODULE MCMailAudit -----------------------------
(***************************************************************************)
(* Values for checking MailAudit with TLC.  The audited name and two names *)
(* it may include, in every shape: chains one longer than the recursion    *)
(* limit, cycles, diamonds, names without a record.                        *)
(***************************************************************************)
EXTENDS MailAudit

CONSTANTS root, first, second

Shop == <<"shop", "co", "uk">>
Sub == <<"mail", "shop", "co", "uk">>
Rival == <<"rival", "co", "uk">>
Gmail == <<"gmail", "com">>

MCNames == {root, first, second}
MCAudited == {Shop, Sub}
MCDomains == {Shop, Sub, Rival, Gmail}
MCSuffixes == {<<"co", "uk">>}

Term(name, qualifier, target, flaw) ==
  [name |-> name, qualifier |-> qualifier, target |-> target, flaw |-> flaw]
Plain(name) == Term(name, "+", NoName, FALSE)
Include(n) == Term("include", "+", n, FALSE)
Redirect(n) == Term("redirect", "+", n, FALSE)
All(q) == Term("all", q, NoName, FALSE)

\* What reaches further, and what only the findings about one record depend on.
MCRecords ==
  {<<Include(n), All("-")>> : n \in MCNames}
  \cup {<<Include(n), Include(m)>> : n, m \in {first, second}}
  \cup {<<Include(first), Redirect(m)>> : m \in MCNames}
  \cup {<<Plain("a"), All("+")>>, <<All("?")>>, <<All("-"), Redirect(second), All("+")>>,
        <<Plain("unknown"), All("~")>>,
        <<Plain("broad"), Plain("ptr"), Term("include", "+", NoName, TRUE), Plain("odd")>>}

MCKeys == [malformed : 0..1, version : {"DKIM1", NoValue}, p : {"key", "empty", NoValue},
           testing : {FALSE}, key_type : {"rsa", "ed25519", "other"}, bits : {0, 512, 1024, 2048},
           hashes : {{}, {"sha1"}, {"sha1", "sha256"}}]

MCDmarcRecords ==
  [p : Policies \cup {"invalid", NoValue}, sp : {"none", "reject", "invalid", NoValue},
   pct : {NoValue, 0, 101}, errors : 0..1, unknown : 0..1,
   rua : {<<>>, <<<<"mailto", Shop>>>>, <<<<"mailto", Rival>>, <<"other", <<>>>>>>},
   ruf : {<<>>, <<<<"mailto", Rival>>>>}, strict : {FALSE}]

MCSignature == [d : {<<>>, Shop, Sub, Rival}, sha1 : BOOLEAN, length : {FALSE}, hasH : BOOLEAN,
                signed : {{}, {"from"}, {"from", "subject"}}]
MCSignatures == {<<>>} \cup {<<s>> : s \in MCSignature}
                  \cup {<<s, t>> : s \in [d : {<<>>, Rival}, sha1 : {FALSE}, length : BOOLEAN,
                                          hasH : {TRUE}, signed : {{"from"}}], t \in MCSignature}

MCVolumes == {NoValue, -1, 3999, 4000, 4999, 5000}
MCSpamRates == {NoValue, -1, 0, 10, 11, 29, 30, 10001}
=============================================================================
