------------------------------ MODULE Findings ------------------------------
(***************************************************************************)
(* The findings about a request: parseSANFromExtensions of parser.go, and  *)
(* analyzeFindings with all it calls in findings.go.                       *)
(*                                                                         *)
(* A text is its core (what is left in lower case, without a final dot and *)
(* without white space around it), and whether it has capitals, the dot    *)
(* and the white space.  The conversions of the code take these away.      *)
(***************************************************************************)
EXTENDS Integers, Sequences, FiniteSets

CONSTANTS
  Cores,         \* the cores of texts
  EmptyCore,     \* the core of the empty text
  Canonical,     \* what net.IP.String makes of the cores that net.ParseIP takes
  Wildcards,     \* the cores with a "*"
  GoodWildcards, \* those with one "*", as in "*.example"
  Requests       \* the requests to analyse

Addresses == DOMAIN Canonical

(* The empty core has no capitals.                                         *)
Texts ==
  {text \in [core : Cores, caps : BOOLEAN, dot : BOOLEAN, padded : BOOLEAN] : text.core = EmptyCore => ~text.caps}

(* In the order of findDuplicateSANFindings.                               *)
Types == {"DNS", "IP address", "email", "URI"}

(* GeneralNames: of the types that are kept, of a type that is skipped,    *)
(* and ones that parseSANFromExtensions returns an error for, as it does   *)
(* for an IP address that has neither 4 nor 16 bytes.                      *)
Names ==
  {name \in [type : Types \union {"skipped", "malformed"}, text : Texts] :
     name.type = "IP address" => name.text.core \in Addresses}

AllRequests ==
  [hasSAN     : BOOLEAN,
   names      : Seq(Names),
   commonName : Texts,
   rdns       : Nat,
   rsa        : BOOLEAN,
   bits       : Nat,
   hash       : {"MD5", "SHA-1", "other"},
   version    : Int]

ASSUME FindingsAssumption ==
  /\ EmptyCore \in Cores \ Wildcards
  /\ Canonical \in [Addresses -> Addresses]
  /\ \A core \in Addresses : Canonical[Canonical[core]] = Canonical[core]
  /\ Addresses \subseteq Cores \ {EmptyCore}
  /\ GoodWildcards \subseteq Wildcards
  /\ Wildcards \subseteq Cores
  /\ \A r \in Requests : r \in AllRequests /\ (~r.hasSAN => r.names = <<>>)

VARIABLES
  request,    \* the request
  stage,      \* how far the analysis has come: see Stages
  next,       \* the loop variable of the stages that have a loop
  san,        \* SubjectAlternativeNames: the texts of each type
  seen,       \* seen and reported of findDuplicateSANFindings
  reported,
  findings    \* the findings so far

vars == <<request, stage, next, san, seen, reported, findings>>

Stages == {"names", "publicKey", "signature", "subject", "san", "duplicates", "dns", "version",
           "sort", "done", "failed"}

Severity == [rsa_key_critically_small |-> "error",
             rsa_key_too_small        |-> "error",
             md5_signature_algorithm  |-> "error",
             sha1_signature_algorithm |-> "warning",
             san_missing              |-> "warning",
             common_name_not_in_san   |-> "warning",
             ip_address_in_dns_san    |-> "warning",
             invalid_wildcard_san     |-> "warning",
             unknown_pkcs10_version   |-> "warning",
             subject_empty            |-> "info",
             duplicate_san            |-> "info"]

(* The codes in alphabetical order.                                        *)
CodeOrder == <<"common_name_not_in_san", "duplicate_san", "invalid_wildcard_san",
               "ip_address_in_dns_san", "md5_signature_algorithm", "rsa_key_critically_small",
               "rsa_key_too_small", "san_missing", "sha1_signature_algorithm", "subject_empty",
               "unknown_pkcs10_version">>

-----------------------------------------------------------------------------
(* Texts.                                                                  *)

Plain(core) == [core |-> core, caps |-> FALSE, dot |-> FALSE, padded |-> FALSE]
EmptyText   == Plain(EmptyCore)

TrimSpace(text) == [text EXCEPT !.padded = FALSE]
ToLower(text)   == [text EXCEPT !.caps = FALSE]

(* net.ParseIP                                                             *)
IsIP(text) == text.core \in Addresses /\ ~text.dot /\ ~text.padded

NormalizeDNSName(text) == [ToLower(TrimSpace(text)) EXCEPT !.dot = FALSE]

NormalizeIPAddress(text) ==
  IF IsIP(TrimSpace(text)) THEN Plain(Canonical[text.core]) ELSE TrimSpace(text)

Normalize(type, text) ==
  IF type = "DNS"             THEN NormalizeDNSName(text)
  ELSE IF type = "IP address" THEN NormalizeIPAddress(text)
  ELSE IF type = "email"      THEN ToLower(TrimSpace(text))
  ELSE TrimSpace(text)

ValidWildcard(text) == TrimSpace(text).core \in GoodWildcards

(* What the duplicates are found among: the values of one type after the   *)
(* other.                                                                  *)
Entries(type) == [n \in DOMAIN san[type] |-> [type |-> type, text |-> san[type][n]]]

AllEntries == Entries("DNS") \o Entries("IP address") \o Entries("email") \o Entries("URI")

KeyOf(entry) == <<entry.type, Normalize(entry.type, entry.text)>>

-----------------------------------------------------------------------------
Init ==
  /\ request \in Requests
  /\ stage = "names"
  /\ next = 1
  /\ san = [type \in Types |-> <<>>]
  /\ seen = {}
  /\ reported = {}
  /\ findings = <<>>

Goto(s) == stage' = s /\ next' = 1

Finding(code, about) == [code |-> code, about |-> about]

AboutCSR == <<"CSR", EmptyText>>

(* Append one finding about the request when it applies, and go on.        *)
Report(applies, code, s) ==
  /\ findings' = IF applies THEN Append(findings, Finding(code, AboutCSR)) ELSE findings
  /\ Goto(s)
  /\ UNCHANGED <<request, san, seen, reported>>

-----------------------------------------------------------------------------
(* parseSANFromExtensions                                                  *)

InNames == stage = "names" /\ next <= Len(request.names)

KeepName ==
  /\ InNames
  /\ LET name == request.names[next]
         text == IF name.type = "IP address" THEN Plain(Canonical[name.text.core]) ELSE name.text
     IN /\ name.type \in Types
        /\ san' = [san EXCEPT ![name.type] = Append(@, text)]
  /\ next' = next + 1
  /\ UNCHANGED <<request, stage, seen, reported, findings>>

SkipName ==
  /\ InNames
  /\ request.names[next].type = "skipped"
  /\ next' = next + 1
  /\ UNCHANGED <<request, stage, san, seen, reported, findings>>

RejectName ==
  /\ InNames
  /\ request.names[next].type = "malformed"
  /\ Goto("failed")
  /\ UNCHANGED <<request, san, seen, reported, findings>>

NamesDone ==
  /\ stage = "names"
  /\ next > Len(request.names)
  /\ Goto("publicKey")
  /\ UNCHANGED <<request, san, seen, reported, findings>>

-----------------------------------------------------------------------------
(* analyzePublicKeyFindings, analyzeSignatureFindings and                  *)
(* analyzeSubjectFindings.  A key of unknown size has 0 bits.              *)

PublicKeyFindings ==
  /\ stage = "publicKey"
  /\ LET bits == request.bits
     IN \/ /\ request.rsa /\ 0 < bits /\ bits < 1024
           /\ Report(TRUE, "rsa_key_critically_small", "signature")
        \/ /\ request.rsa /\ 1024 <= bits /\ bits < 2048
           /\ Report(TRUE, "rsa_key_too_small", "signature")
        \/ /\ ~request.rsa \/ bits = 0 \/ bits >= 2048
           /\ Report(FALSE, "rsa_key_too_small", "signature")

SignatureFindings ==
  /\ stage = "signature"
  /\ \/ request.hash = "MD5" /\ Report(TRUE, "md5_signature_algorithm", "subject")
     \/ request.hash # "MD5" /\ Report(request.hash = "SHA-1", "sha1_signature_algorithm", "subject")

SubjectFindings ==
  /\ stage = "subject"
  /\ Report(request.rdns = 0, "subject_empty", "san")

-----------------------------------------------------------------------------
(* analyzeSANFindings                                                      *)

SANEmpty == \A type \in Types : san[type] = <<>>

CommonNameIncluded(commonName) ==
  IF IsIP(commonName)
    THEN \E n \in DOMAIN san["IP address"] :
           NormalizeIPAddress(san["IP address"][n]) = Plain(Canonical[commonName.core])
    ELSE \E n \in DOMAIN san["DNS"] : NormalizeDNSName(san["DNS"][n]) = NormalizeDNSName(commonName)

SANMissing_renamed ==
  /\ stage = "san"
  /\ SANEmpty
  /\ Report(TRUE, "missing_san", "version")

SANMissing ==
  /\ stage = "san"
  /\ SANEmpty
  /\ Report(TRUE, "san_missing", "version")

CommonNameFinding ==
  /\ stage = "san"
  /\ ~SANEmpty
  /\ LET commonName == TrimSpace(request.commonName)
     IN Report(commonName # EmptyText /\ ~CommonNameIncluded(commonName), "common_name_not_in_san",
               "duplicates")

(* addValues, of one value after the other.                                *)
InDuplicates == stage = "duplicates" /\ next <= Len(AllEntries)

AddValue_reportsEach ==
  /\ InDuplicates
  /\ LET key == KeyOf(AllEntries[next])
         isRepeated == key[2] # EmptyText /\ key \in seen
     IN /\ seen' = IF key[2] = EmptyText THEN seen ELSE seen \union {key}
        /\ reported' = IF isRepeated THEN reported \union {key} ELSE reported
        /\ findings' = IF isRepeated THEN Append(findings, Finding("duplicate_san", key)) ELSE findings
  /\ next' = next + 1
  /\ UNCHANGED <<request, stage, san>>

AddValue ==
  /\ InDuplicates
  /\ LET key == KeyOf(AllEntries[next])
         isRepeated == key[2] # EmptyText /\ key \in seen
     IN /\ seen' = IF key[2] = EmptyText THEN seen ELSE seen \union {key}
        /\ reported' = IF isRepeated THEN reported \union {key} ELSE reported
        /\ findings' = IF isRepeated /\ key \notin reported
                         THEN Append(findings, Finding("duplicate_san", key))
                         ELSE findings
  /\ next' = next + 1
  /\ UNCHANGED <<request, stage, san>>

DuplicatesDone ==
  /\ stage = "duplicates"
  /\ next > Len(AllEntries)
  /\ Goto("dns")
  /\ UNCHANGED <<request, san, seen, reported, findings>>

(* analyzeDNSSANFindings, of one name after the other.                     *)
CheckDNSName_untrimmed ==
  /\ stage = "dns"
  /\ next <= Len(san["DNS"])
  /\ LET name == san["DNS"][next]
         ip   == IF IsIP(name) THEN <<Finding("ip_address_in_dns_san", <<"DNS", name>>)>> ELSE <<>>
         wild == IF name.core \in Wildcards /\ ~ValidWildcard(name)
                   THEN <<Finding("invalid_wildcard_san", <<"DNS", name>>)>>
                   ELSE <<>>
     IN findings' = findings \o ip \o wild
  /\ next' = next + 1
  /\ UNCHANGED <<request, stage, san, seen, reported>>

CheckDNSName ==
  /\ stage = "dns"
  /\ next <= Len(san["DNS"])
  /\ LET name == TrimSpace(san["DNS"][next])
         ip   == IF IsIP(name) THEN <<Finding("ip_address_in_dns_san", <<"DNS", name>>)>> ELSE <<>>
         wild == IF name.core \in Wildcards /\ ~ValidWildcard(name)
                   THEN <<Finding("invalid_wildcard_san", <<"DNS", name>>)>>
                   ELSE <<>>
     IN findings' = findings \o ip \o wild
  /\ next' = next + 1
  /\ UNCHANGED <<request, stage, san, seen, reported>>

DNSDone ==
  /\ stage = "dns"
  /\ next > Len(san["DNS"])
  /\ Goto("version")
  /\ UNCHANGED <<request, san, seen, reported, findings>>

-----------------------------------------------------------------------------
VersionFindings ==
  /\ stage = "version"
  /\ Report(request.version # 0, "unknown_pkcs10_version", "sort")

SeverityRank == [error |-> 0, warning |-> 1, info |-> 2]

Rank(f) == SeverityRank[Severity[f.code]]

CodeIndex(code) == CHOOSE n \in DOMAIN CodeOrder : CodeOrder[n] = code

(* The order of analyzeFindings: by severity, then by code.                *)
Less(f, g) == Rank(f) < Rank(g) \/ (Rank(f) = Rank(g) /\ CodeIndex(f.code) < CodeIndex(g.code))

(* sort.SliceStable: what a finding comes after is what is less, and what  *)
(* came before it and is not greater.                                      *)
Position(n) ==
  1 + Cardinality({m \in DOMAIN findings :
        \/ Less(findings[m], findings[n])
        \/ m < n /\ ~Less(findings[n], findings[m])})

SortFindings_unique ==
  /\ stage = "sort"
  /\ LET first == {n \in DOMAIN findings : \A m \in 1..(n-1) : findings[m].code # findings[n].code}
         place(n) == 1 + Cardinality({m \in first : Less(findings[m], findings[n])})
     IN findings' = [n \in 1..Cardinality(first) |-> findings[CHOOSE m \in first : place(m) = n]]
  /\ Goto("done")
  /\ UNCHANGED <<request, san, seen, reported>>

SortFindings ==
  /\ stage = "sort"
  /\ findings' = [n \in DOMAIN findings |-> findings[CHOOSE m \in DOMAIN findings : Position(m) = n]]
  /\ Goto("done")
  /\ UNCHANGED <<request, san, seen, reported>>

Next ==
  \/ KeepName
  \/ SkipName
  \/ RejectName
  \/ NamesDone
  \/ PublicKeyFindings
  \/ SignatureFindings
  \/ SubjectFindings
  \/ SANMissing
  \/ CommonNameFinding
  \/ AddValue
  \/ DuplicatesDone
  \/ CheckDNSName
  \/ DNSDone
  \/ VersionFindings
  \/ SortFindings

Spec == Init /\ [][Next]_vars

-----------------------------------------------------------------------------
(* Properties.                                                             *)

Keys == (Types \union {"CSR"}) \X Texts

(* Every variable has its type.                                            *)
TypeOK ==
  /\ request \in AllRequests
  /\ stage \in Stages
  /\ next \in Nat \ {0}
  /\ san \in [Types -> Seq(Texts)]
  /\ seen \subseteq Keys
  /\ reported \subseteq seen
  /\ findings \in Seq([code : DOMAIN Severity, about : Keys])

Codes == {findings[n].code : n \in DOMAIN findings}

About(code) == {findings[n].about : n \in {m \in DOMAIN findings : findings[m].code = code}}

Count(code) == Cardinality({n \in DOMAIN findings : findings[n].code = code})

(* Two names of the extension stand for the same name: what differs is     *)
(* only what the type does not tell apart.                                 *)
SameName(m, n) ==
  /\ m.type = n.type
  /\ \/ m.type = "DNS" /\ m.text.core = n.text.core
     \/ m.type = "IP address" /\ Canonical[m.text.core] = Canonical[n.text.core]
     \/ m.type = "email" /\ m.text.core = n.text.core /\ m.text.dot = n.text.dot
     \/ m.type = "URI" /\ TrimSpace(m.text) = TrimSpace(n.text)

Blank(name) == name.text.core = EmptyCore /\ (name.type = "DNS" \/ ~name.text.dot)

(* findDuplicateSANFindings: a name that is repeated, in whatever spelling *)
(* and however often, is reported exactly once, and only such a name.      *)
DuplicatesAreReportedOnce ==
  stage = "done" =>
    LET names  == request.names
        twice  == {n \in DOMAIN names : ~Blank(names[n]) /\ \E m \in 1..(n-1) : SameName(names[m], names[n])}
        second == {n \in twice : Cardinality({m \in 1..(n-1) : SameName(names[m], names[n])}) = 1}
    IN /\ Count("duplicate_san") = Cardinality(second)
       /\ Cardinality(About("duplicate_san")) = Cardinality(second)

(* commonNameIncludedInSAN: with a SAN, the common name is reported unless *)
(* a name of the type that a client would match it with is the same.       *)
CommonNameIsCovered ==
  stage = "done" /\ (\E n \in DOMAIN request.names : request.names[n].type \in Types) =>
    LET cn == TrimSpace(request.commonName)
        covers(name) ==
          IF IsIP(cn) THEN name.type = "IP address" /\ Canonical[name.text.core] = Canonical[cn.core]
                      ELSE name.type = "DNS" /\ name.text.core = cn.core
    IN "common_name_not_in_san" \in Codes <=>
         cn # EmptyText /\ ~\E n \in DOMAIN request.names : covers(request.names[n])

(* analyzeSANFindings: that the SAN is missing is said when no name was    *)
(* kept, and then nothing else is said of names.                           *)
MissingSANStandsAlone ==
  stage = "done" =>
    /\ "san_missing" \in Codes <=> \A n \in DOMAIN request.names : request.names[n].type \notin Types
    /\ "san_missing" \in Codes =>
         Codes \intersect {"common_name_not_in_san", "duplicate_san", "ip_address_in_dns_san",
                           "invalid_wildcard_san"} = {}

(* analyzeDNSSANFindings: every DNS name that is an address is reported,   *)
(* also one with white space around it, and no other name.                 *)
AddressesAmongDNSNames ==
  stage = "done" =>
    Count("ip_address_in_dns_san") =
      Cardinality({n \in DOMAIN request.names :
        /\ request.names[n].type = "DNS"
        /\ request.names[n].text.core \in Addresses
        /\ ~request.names[n].text.dot})

(* What the analyzer says of names is exact: of the common name, of names  *)
(* of the wrong type, and of a SAN that has none.                          *)
NamesAreJudgedExactly == CommonNameIsCovered /\ AddressesAmongDNSNames /\ MissingSANStandsAlone

(* analyzeFindings: sorting loses nothing and invents nothing; errors come *)
(* before warnings, these before remarks, and among equals the codes are   *)
(* in alphabetical order.                                                  *)
SortedReport ==
  [][stage = "sort" =>
       LET count(fs, f) == Cardinality({n \in DOMAIN fs : fs[n] = f})
       IN /\ \A f \in {findings[n] : n \in DOMAIN findings} \union {findings'[n] : n \in DOMAIN findings'} :
               count(findings, f) = count(findings', f)
          /\ \A m, n \in DOMAIN findings' : m < n =>
               /\ Rank(findings'[m]) <= Rank(findings'[n])
               /\ Rank(findings'[m]) = Rank(findings'[n]) =>
                    CodeIndex(findings'[m].code) <= CodeIndex(findings'[n].code)]_vars

-----------------------------------------------------------------------------
(* README.md:40 lists the finding as a missing extension, and its message  *)
(* says that the request has none.  An extension with names of the skipped *)
(* types only is reported as missing too.                                  *)
MissingMeansAbsent == "san_missing" \in Codes => ~request.hasSAN

=============================================================================
