---------------------------- MODULE Pkcs10_proofs ----------------------------
(***************************************************************************)
(* What the parser guarantees for every set of requests: what the verdict  *)
(* on a signature says, and what every report has.                         *)
(***************************************************************************)
EXTENDS Pkcs10, Findings_proofs

(* What a report has once the key and the signature are done, before the   *)
(* findings are.                                                           *)
KeyIsDescribed ==
  /\ publicKey.fingerprint
  /\ Badge(signature.verification) # "unknown"
  /\ signature.verification = "valid" <=> signature.reason = "none"
  /\ warnings = (IF publicKey.algorithm = "GOST" /\ ~publicKey.details THEN <<"gostDetails">> ELSE <<>>)
                  \o (IF publicKey.algorithm \in Supported THEN <<>> ELSE <<"notVerified">>)
  /\ publicKey.details /\ csr.key.algorithm \in {"GOST2012-256", "GOST2012-512"} => publicKey.digest # "none"

(* Only a supported key gets to the signature, without any warning.        *)
SignatureInv ==
  step = "signature" =>
    /\ csr.key.algorithm \in Supported
    /\ publicKey = [algorithm |-> csr.key.algorithm, details |-> TRUE, digest |-> "none", fingerprint |-> TRUE]
    /\ warnings = <<>>

BeforeKey == {"structure", "extensions", "subject", "san", "attributes", "publicKey"}

ParserInv ==
  /\ csr \in CSRs
  /\ step \in Steps
  /\ step \in BeforeKey => warnings = <<>>
  /\ SignatureInv
  /\ VerdictIsEarned
  /\ step = "findings" => KeyIsDescribed

LEMMA InitParserInv == ReportInit => ParserInv
<1> SUFFICES ASSUME ReportInit PROVE ParserInv
  OBVIOUS
<1>1. csr \in CSRs /\ step = "structure" /\ warnings = <<>> /\ signature.verification = ""
  BY DEF ReportInit, NoSignature
<1> QED
  BY <1>1 DEF ParserInv, Steps, SignatureInv, VerdictIsEarned

(* A step that comes before the key, fails, or belongs to the findings.    *)
LEMMA QuietStep ==
  ASSUME ParserInv, UNCHANGED <<csr, publicKey, signature, warnings>>,
         \/ step' = step
         \/ step' = "failed"
         \/ step \in BeforeKey /\ step' \in BeforeKey
  PROVE  ParserInv'
<1>1. CheckSignature' = CheckSignature
  BY DEF CheckSignature
<1> QED
  BY <1>1 DEF ParserInv, Steps, BeforeKey, SignatureInv, VerdictIsEarned, KeyIsDescribed, Badge

LEMMA UnsupportedStep ==
  ASSUME ParserInv, NEW described, NEW warned, DescribeUnsupportedKey(described, warned),
         described.fingerprint,
         described.algorithm \notin Supported,
         warned = IF described.algorithm = "GOST" /\ ~described.details THEN <<"gostDetails">> ELSE <<>>,
         described.details /\ csr.key.algorithm \in {"GOST2012-256", "GOST2012-512"} =>
           described.digest # "none"
  PROVE  ParserInv'
<1> USE DEF DescribeUnsupportedKey, Go
<1>1. KeyIsDescribed'
  BY DEF KeyIsDescribed, Badge
<1> QED
  BY <1>1 DEF ParserInv, Steps, BeforeKey, SignatureInv, VerdictIsEarned

(* A genuine signature is never found wrong, nor of another kind of key,   *)
(* and an RSA key that x509 refuses for its size never gets that far.      *)
LEMMA OutcomeIsEarned ==
  ASSUME csr \in CSRs, csr.key.algorithm \in Supported
  PROVE  /\ Outcome.verification \in {"valid", "invalid", "unsupported"}
         /\ Outcome.verification = "valid" <=> Outcome.reason = "none"
         /\ Outcome.verification = "valid" => csr.signature.genuine
         /\ Outcome.verification = "invalid" =>
              ~csr.signature.genuine \/ (csr.key.algorithm = "RSA" /\ csr.key.refused)
         /\ Outcome.verification = "unsupported" => CheckSignature \notin {"nil", "wrong"}
<1>1. csr.signature.genuine =>
        SignatureAlgorithms[csr.signature.algorithm].key \in {csr.key.algorithm, "none"}
  BY Pkcs10Assumption
<1>2. CheckSignature = "nil" => csr.signature.genuine
  BY DEF CheckSignature
<1>3. CheckSignature \in {"otherKey", "wrong"} => ~csr.signature.genuine
  BY <1>1 DEF CheckSignature
<1>4. CheckSignature \in {"unsupported", "insecure", "otherKey", "smallKey", "refusedKey", "nil", "wrong"}
  BY DEF CheckSignature
<1>5. CheckSignature = "smallKey" => csr.key.algorithm = "RSA" /\ csr.key.bits < 1024
  BY DEF CheckSignature
<1>6. CheckSignature = "refusedKey" => csr.key.algorithm = "RSA" /\ csr.key.refused
  <2>1. CheckSignature = "refusedKey" => csr.key.refused
    BY DEF CheckSignature
  <2> QED
    BY <2>1, Pkcs10Assumption
<1>7. csr.key.algorithm = "RSA" /\ csr.key.bits < 1024 => CheckSignature \notin {"nil", "wrong"}
  BY DEF CheckSignature
<1> QED
  BY <1>2, <1>3, <1>4, <1>5, <1>6, <1>7 DEF Outcome

(* The invariant of the verdicts is inductive.                             *)
LEMMA NextParserInv == ParserInv /\ [ReportNext]_reportVars => ParserInv'
<1> SUFFICES ASSUME ParserInv, [ReportNext]_reportVars PROVE ParserInv'
  OBVIOUS
<1>1. CASE UNCHANGED reportVars
  BY <1>1, QuietStep DEF reportVars, parserVars
<1>2. CASE DecodeStructure \/ CollectExtensions \/ ExtensionsDone \/ ParseSubject \/ SANDone
  BY <1>2, QuietStep
     DEF DecodeStructure, CollectExtensions, ExtensionsDone, ParseSubject, SANDone, Go, InAttributes, BeforeKey
<1>3. CASE RejectExtensions \/ RejectSubject \/ RejectSAN \/ RejectX509
  BY <1>3, QuietStep DEF RejectExtensions, RejectSubject, RejectSAN, RejectX509, Fail, Go
<1>4. CASE DescribeAttribute \/ AttributesDone
  BY <1>4, QuietStep DEF DescribeAttribute, AttributesDone, Go, InAttributes, BeforeKey
<1>5. CASE ParseSAN \/ AnalyzeFindings
  BY <1>5, QuietStep DEF ParseSAN, AnalyzeFindings, parserVars
<1>6. CASE DescribeGOSTKey
  BY <1>6, UnsupportedStep DEF DescribeGOSTKey, UnsupportedKey, GOSTDigest, Supported
<1>7. CASE DescribeDamagedGOSTKey
  BY <1>7, UnsupportedStep DEF DescribeDamagedGOSTKey, UnsupportedKey, Supported
<1>8. CASE DescribeOtherKey
  BY <1>8, UnsupportedStep DEF DescribeOtherKey, UnsupportedKey, Supported, GOST
<1>9. CASE ParsePublicKey
  <2>1. CheckSignature' = CheckSignature
    BY <1>9 DEF ParsePublicKey, CheckSignature
  <2> QED
    BY <1>9, <2>1 DEF ParsePublicKey, Go, ParserInv, Steps, BeforeKey, SignatureInv, VerdictIsEarned
<1>10. CASE ParseSignature
  <2>1. csr \in CSRs /\ csr.key.algorithm \in Supported /\ publicKey.algorithm = csr.key.algorithm
    BY <1>10 DEF ParseSignature, ParserInv, SignatureInv
  <2>2. KeyIsDescribed'
    BY <1>10, <2>1, OutcomeIsEarned
       DEF ParseSignature, KeyIsDescribed, Badge, ParserInv, SignatureInv, Supported
  <2>3. VerdictIsEarned'
    <3>1. CheckSignature' = CheckSignature
      BY <1>10 DEF ParseSignature, CheckSignature
    <3> QED
      BY <1>10, <2>1, <3>1, OutcomeIsEarned DEF ParseSignature, VerdictIsEarned
  <2> QED
    BY <1>10, <2>1, <2>2, <2>3 DEF ParseSignature, Go, ParserInv, Steps, BeforeKey, SignatureInv
<1> QED
  BY <1>1, <1>2, <1>3, <1>4, <1>5, <1>6, <1>7, <1>8, <1>9, <1>10 DEF ReportNext

LEMMA AlwaysParserInv == ReportSpec => []ParserInv
BY InitParserInv, NextParserInv, PTL DEF ReportSpec

(* Whatever the request: valid is said of genuine signatures of supported  *)
(* keys only, invalid of a genuine one only when crypto/rsa refuses its    *)
(* key, and unsupported never of a signature that was computed.            *)
THEOREM VerdictsAreEarned == ReportSpec => []VerdictIsEarned
BY AlwaysParserInv, PTL DEF ParserInv

(* Whatever the request: a report has a fingerprint, a verdict that the    *)
(* page knows, with a reason unless it is valid, and the warnings of its   *)
(* kind of key and no others.                                              *)
THEOREM ReportsAreWhole == ReportSpec => []EveryReportIsWhole
<1>1. ParserInv => EveryReportIsWhole
  BY DEF ParserInv, EveryReportIsWhole, Reported, KeyIsDescribed
<1> QED
  BY <1>1, AlwaysParserInv, PTL

-----------------------------------------------------------------------------
(* The analysis within the parser: what is known of the request, and when. *)

(* Module Findings does its stages between the steps of the parser.        *)
Begun ==
  /\ step \in {"structure", "extensions", "subject"} => Init
  /\ step = "san" => stage \in {"names", "publicKey", "failed"}
  /\ step \in {"attributes", "publicKey", "signature"} => stage = "publicKey"
  /\ step \in {"san", "attributes", "publicKey", "signature"} => findings = <<>>
  /\ step = "findings" => stage \notin {"names", "failed"}

(* The key and the signature as the findings see them.                     *)
KeyInv ==
  /\ step \in BeforeKey => ~request.rsa
  /\ step \in BeforeKey \union {"signature"} => request.hash = "other"
  /\ step = "signature" => (request.rsa <=> csr.key.algorithm = "RSA") /\ request.bits = csr.key.bits
  /\ step = "findings" =>
       /\ signature.reason = "smallKey" <=> Tiny
       /\ Tiny \/ request.hash = "MD5" => signature.verification # "valid"

(* What each attribute contributes to the two lists.                       *)
Asked(attribute) == IF IsExtensionRequest(attribute) THEN Requested(attribute) ELSE <<>>
Told(attribute)  == IF IsExtensionRequest(attribute) THEN <<>> ELSE <<Described(attribute)>>

AskedIn(c) == [a \in DOMAIN c.attributes |-> Asked(c.attributes[a])]
ToldIn(c)  == [a \in DOMAIN c.attributes |-> Told(c.attributes[a])]

(* Both loops over the attributes have done those before at.               *)
ExtensionsInv ==
  /\ step = "structure" => extensions = <<>>
  /\ step = "extensions" =>
       /\ at <= Len(csr.attributes) + 1
       /\ extensions = FlattenSeq(Prefix(AskedIn(csr), at - 1))
       /\ \A a \in 1..(at - 1) : ~Malformed(csr.attributes[a])
  /\ step \in {"subject", "san", "attributes", "publicKey", "signature", "findings"} =>
       /\ extensions = FlattenSeq(AskedIn(csr))
       /\ \A a \in 1..Len(csr.attributes) : ~Malformed(csr.attributes[a])

AttributesInv ==
  /\ step \in {"structure", "extensions", "subject", "san"} => attributes = <<>>
  /\ step = "attributes" =>
       /\ at <= Len(csr.attributes) + 1
       /\ attributes = FlattenSeq(Prefix(ToldIn(csr), at - 1))
  /\ step \in {"publicKey", "signature", "findings"} => attributes = FlattenSeq(ToldIn(csr))

(* The names that the analysis goes over are those of the extensions.      *)
NamesInv ==
  step \in {"san", "attributes", "publicKey", "signature", "findings"} => request.names = SANNames(extensions)

(* The lists that parseSANFromExtensions makes: those of the first names,  *)
(* as many as it has read.                                                 *)
ShownIn(names, type) ==
  [n \in DOMAIN names |-> IF names[n].type = type THEN <<Shown(names[n])>> ELSE <<>>]

ListsOf(lists, names, read) ==
  \A type \in Types : lists[type] = FlattenSeq(Prefix(ShownIn(names, type), read))

AfterSubject == {"san", "attributes", "publicKey", "signature", "findings"}

ListsInv == step \in AfterSubject /\ stage # "failed" => ListsOf(san, request.names, NamesRead)

ReportInv ==
  /\ ReportTypeOK
  /\ ParserInv
  /\ Begun
  /\ FindingsInv
  /\ KeyInv
  /\ ExtensionsInv
  /\ AttributesInv
  /\ NamesInv
  /\ ListsInv

-----------------------------------------------------------------------------
(* What the helpers of the parser return.                                  *)

AttributeRecords == [raw : Nat, values : Nat]

(* What one attribute contributes, and its types.                          *)
LEMMA RequestedType ==
  ASSUME NEW attribute \in Attributes
  PROVE  Requested(attribute) \in Seq(Extensions)
<1>1. PICK values \in Seq(Values) : values = attribute.values
  BY DEF Attributes
<1>2. PICK lists : lists = [v \in DOMAIN values |-> values[v].extensions]
  OBVIOUS
<1>3. lists \in Seq(Seq(Extensions))
  <2>1. PICK k \in Nat : k = Len(values) /\ DOMAIN values = 1..k
    OBVIOUS
  <2>2. \A v \in 1..k : values[v].extensions \in Seq(Extensions)
    <3>1. \A v \in 1..k : values[v] \in Values
      BY <2>1
    <3> QED
      BY <3>1 DEF Values
  <2> QED
    BY <1>2, <2>1, <2>2
<1>4. FlattenSeq(lists) \in Seq(Extensions)
  BY <1>3, FlattenType
<1> QED
  BY <1>1, <1>2, <1>4 DEF Requested

LEMMA DescribedType ==
  ASSUME NEW attribute \in Attributes
  PROVE  Described(attribute) \in AttributeRecords
<1>1. PICK values \in Seq(Values) : values = attribute.values
  BY DEF Attributes
<1>2. PICK k \in Nat : k = Len(values) /\ DOMAIN values = 1..k
  OBVIOUS
<1>3. PICK D : D = {v \in DOMAIN values : values[v].decodes}
  OBVIOUS
<1>4. Cardinality(D) \in Nat
  <2>1. IsFiniteSet(1..k) /\ D \subseteq 1..k
    BY <1>2, <1>3, FS_Interval
  <2> QED
    BY <2>1, FS_Subset, FS_CardinalityType
<1> QED
  BY <1>1, <1>2, <1>3, <1>4 DEF Described, AttributeRecords

LEMMA AskedType ==
  ASSUME NEW attribute \in Attributes
  PROVE  /\ Asked(attribute) \in Seq(Extensions)
         /\ Told(attribute) \in Seq(AttributeRecords)
<1>1. Asked(attribute) \in Seq(Extensions)
  BY RequestedType DEF Asked
<1>2. PICK d \in AttributeRecords : d = Described(attribute)
  BY DescribedType
<1>3. <<d>> \in Seq(AttributeRecords) /\ <<>> \in Seq(AttributeRecords)
  OBVIOUS
<1> QED
  BY <1>1, <1>2, <1>3 DEF Told

(* The parts of a request.                                                 *)
LEMMA CSRFields ==
  ASSUME NEW c \in AllCSRs
  PROVE  /\ c.attributes \in Seq(Attributes)
         /\ Len(c.attributes) \in Nat /\ DOMAIN c.attributes = 1..Len(c.attributes)
         /\ \A a \in 1..Len(c.attributes) : c.attributes[a] \in Attributes
         /\ c.subject \in Seq(Seq([isCommonName : BOOLEAN, text : Texts]))
         /\ Len(c.subject) \in Nat
         /\ c.version \in Int
         /\ c.key.algorithm \in KeyAlgorithms /\ c.key.bits \in Nat
         /\ c.signature.algorithm \in DOMAIN SignatureAlgorithms /\ c.signature.genuine \in BOOLEAN
<1>1. c.attributes \in Seq(Attributes) /\ c.subject \in Seq(Seq([isCommonName : BOOLEAN, text : Texts]))
  BY DEF AllCSRs
<1>2. /\ c.version \in Int
      /\ c.key.algorithm \in KeyAlgorithms /\ c.key.bits \in Nat
      /\ c.signature.algorithm \in DOMAIN SignatureAlgorithms /\ c.signature.genuine \in BOOLEAN
  BY DEF AllCSRs
<1>3. PICK all \in Seq(Attributes) : all = c.attributes
  BY <1>1
<1>4. Len(all) \in Nat /\ DOMAIN all = 1..Len(all) /\ \A a \in 1..Len(all) : all[a] \in Attributes
  OBVIOUS
<1>5. Len(c.subject) \in Nat
  BY <1>1
<1> QED
  BY <1>1, <1>2, <1>3, <1>4, <1>5

LEMMA AskedInType ==
  ASSUME NEW c \in AllCSRs
  PROVE  /\ AskedIn(c) \in Seq(Seq(Extensions)) /\ Len(AskedIn(c)) = Len(c.attributes)
         /\ ToldIn(c) \in Seq(Seq(AttributeRecords)) /\ Len(ToldIn(c)) = Len(c.attributes)
         /\ \A a \in 1..Len(c.attributes) :
              AskedIn(c)[a] = Asked(c.attributes[a]) /\ ToldIn(c)[a] = Told(c.attributes[a])
<1>1. PICK k \in Nat : k = Len(c.attributes) /\ DOMAIN c.attributes = 1..k
  BY CSRFields
<1>2. \A a \in 1..k : Asked(c.attributes[a]) \in Seq(Extensions) /\ Told(c.attributes[a]) \in Seq(AttributeRecords)
  BY <1>1, CSRFields, AskedType
<1>3. AskedIn(c) = [a \in 1..k |-> Asked(c.attributes[a])] /\ ToldIn(c) = [a \in 1..k |-> Told(c.attributes[a])]
  BY <1>1 DEF AskedIn, ToldIn
<1>4. AskedIn(c) \in Seq(Seq(Extensions)) /\ Len(AskedIn(c)) = k
  BY <1>2, <1>3
<1>5. ToldIn(c) \in Seq(Seq(AttributeRecords)) /\ Len(ToldIn(c)) = k
  BY <1>2, <1>3
<1> QED
  BY <1>1, <1>3, <1>4, <1>5

LEMMA NamesInType ==
  ASSUME NEW extension \in Extensions
  PROVE  NamesIn(extension) \in Seq(Names)
<1>1. extension.names \in Seq(Names)
  BY DEF Extensions
<1>2. [type |-> "malformed", text |-> EmptyText] \in Names
  BY EmptyTextIsText DEF Names
<1>3. PICK name \in Names : name = [type |-> "malformed", text |-> EmptyText]
  BY <1>2
<1>4. <<name>> \in Seq(Names) /\ <<>> \in Seq(Names)
  OBVIOUS
<1> QED
  BY <1>1, <1>3, <1>4 DEF NamesIn

NamesOf(exts) == [e \in DOMAIN exts |-> NamesIn(exts[e])]

(* The names of each extension.                                            *)
LEMMA NamesOfType ==
  ASSUME NEW exts \in Seq(Extensions)
  PROVE  /\ NamesOf(exts) \in Seq(Seq(Names)) /\ Len(NamesOf(exts)) \in Nat
         /\ DOMAIN exts = 1..Len(NamesOf(exts))
         /\ \A e \in DOMAIN exts : exts[e] \in Extensions /\ NamesOf(exts)[e] = NamesIn(exts[e])
<1>1. PICK k \in Nat : k = Len(exts) /\ DOMAIN exts = 1..k
  OBVIOUS
<1>2. \A e \in 1..k : exts[e] \in Extensions
  BY <1>1
<1>3. \A e \in 1..k : NamesIn(exts[e]) \in Seq(Names)
  BY <1>2, NamesInType
<1>4. NamesOf(exts) = [e \in 1..k |-> NamesIn(exts[e])]
  BY <1>1 DEF NamesOf
<1>5. NamesOf(exts) \in Seq(Seq(Names)) /\ Len(NamesOf(exts)) = k
  BY <1>3, <1>4
<1> QED
  BY <1>1, <1>2, <1>4, <1>5

LEMMA SANNamesType ==
  ASSUME NEW exts \in Seq(Extensions)
  PROVE  SANNames(exts) \in Seq(Names) /\ SANNames(exts) = FlattenSeq(NamesOf(exts))
<1>1. PICK lists : lists = NamesOf(exts)
  OBVIOUS
<1>2. FlattenSeq(lists) \in Seq(Names)
  BY <1>1, NamesOfType, FlattenType
<1> QED
  BY <1>1, <1>2 DEF SANNames, NamesOf

LEMMA CommonNameType ==
  ASSUME csr \in AllCSRs
  PROVE  CommonName \in Texts
<1> DEFINE Part == [isCommonName : BOOLEAN, text : Texts]
<1>1. PICK subject \in Seq(Seq(Part)) : subject = csr.subject
  BY CSRFields
<1>2. PICK all \in Seq(Part) : all = FlattenSeq(csr.subject)
  BY <1>1, FlattenType
<1>3. PICK named : named = {a \in DOMAIN all : all[a].isCommonName /\ all[a].text # EmptyText}
  OBVIOUS
<1>4. CommonName = IF named = {} THEN EmptyText ELSE all[Min(named)].text
  BY <1>2, <1>3 DEF CommonName
<1>5. CASE named = {}
  BY <1>4, <1>5, EmptyTextIsText
<1>6. CASE named # {}
  <2>1. named \in SUBSET Nat
    BY <1>3
  <2>2. \E x \in named : \A y \in named : x <= y
    BY <1>6, <2>1, SmallestNumber
  <2>3. Min(named) \in named
    BY <2>2, Zenon DEF Min
  <2>4. all[Min(named)] \in Part
    <3>1. PICK x : x = Min(named) /\ x \in DOMAIN all
      BY <1>3, <2>3
    <3> HIDE DEF Part
    <3> QED
      BY <3>1
  <2> QED
    BY <1>4, <1>6, <2>4
<1> QED
  BY <1>5, <1>6

-----------------------------------------------------------------------------
(* Type correctness of the parser.                                         *)

KeyRecords == [algorithm : {"", "GOST", "Unknown"} \union Supported, details : BOOLEAN,
               digest : {"none", "given", "implied"}, fingerprint : BOOLEAN]

SignatureRecords == [verification : {"", "valid", "invalid", "unsupported"},
                     reason : {"none", "smallKey", "algorithm", "mismatch"}]

Warnings == Seq({"gostDetails", "notVerified"})

ParserTypes ==
  /\ csr \in AllCSRs
  /\ step \in Steps
  /\ at \in Nat \ {0}
  /\ extensions \in Seq(Extensions)
  /\ attributes \in Seq(AttributeRecords)
  /\ publicKey \in KeyRecords
  /\ signature \in SignatureRecords
  /\ warnings \in Warnings

(* The types of the analysis and those of the parser.                      *)
LEMMA TypesInParts == ReportTypeOK <=> TypeOK /\ ParserTypes
BY DEF ReportTypeOK, ParserTypes, AttributeRecords, KeyRecords, SignatureRecords, Warnings

LEMMA OutcomeType ==
  /\ Outcome \in SignatureRecords
  /\ Outcome.reason = "smallKey" <=> csr.key.algorithm = "RSA" /\ csr.key.bits < 1024
  /\ Outcome.verification = "valid" => ~(csr.key.algorithm = "RSA" /\ csr.key.bits < 1024) /\ CheckSignature = "nil"
BY DEF Outcome, SignatureRecords

LEMMA InitParserTypes == ReportInit => ParserTypes
<1> SUFFICES ASSUME ReportInit PROVE ParserTypes
  OBVIOUS
<1>1. csr \in AllCSRs
  BY Pkcs10Assumption DEF ReportInit
<1>2. NoKey \in KeyRecords /\ NoSignature \in SignatureRecords
  BY DEF NoKey, NoSignature, KeyRecords, SignatureRecords, Supported
<1> QED
  BY <1>1, <1>2 DEF ReportInit, ParserTypes, Steps, Warnings

LEMMA UnsupportedTypes ==
  ASSUME ParserTypes, NEW described \in KeyRecords, NEW warned \in Warnings, DescribeUnsupportedKey(described, warned)
  PROVE  ParserTypes'
<1>1. warnings' \in Warnings
  BY DEF DescribeUnsupportedKey, Warnings
<1>2. signature' \in SignatureRecords
  BY DEF DescribeUnsupportedKey, SignatureRecords
<1> QED
  BY <1>1, <1>2 DEF DescribeUnsupportedKey, Go, ParserTypes, Steps

LEMMA UnsupportedKeyType ==
  ASSUME NEW key
  PROVE  /\ UnsupportedKey(key) \in KeyRecords
         /\ [UnsupportedKey(key) EXCEPT !.details = TRUE, !.digest = GOSTDigest(key)] \in KeyRecords
BY DEF UnsupportedKey, KeyRecords, GOSTDigest, GOST

(* Every step keeps the types of the parser.                               *)
LEMMA NextParserTypes == ParserTypes /\ [ReportNext]_reportVars => ParserTypes'
<1> SUFFICES ASSUME ParserTypes, [ReportNext]_reportVars PROVE ParserTypes'
  OBVIOUS
<1>1. CASE UNCHANGED parserVars
  BY <1>1 DEF parserVars, ParserTypes
<1>2. CASE DecodeStructure \/ ExtensionsDone \/ ParseSubject \/ SANDone \/ AttributesDone
  BY <1>2 DEF DecodeStructure, ExtensionsDone, ParseSubject, SANDone, AttributesDone, Go, ParserTypes, Steps
<1>3. CASE RejectExtensions \/ RejectSubject \/ RejectSAN \/ RejectX509
  BY <1>3 DEF RejectExtensions, RejectSubject, RejectSAN, RejectX509, Fail, Go, ParserTypes, Steps
<1>a. InAttributes("extensions") \/ InAttributes("attributes") => at \in 1..Len(csr.attributes) /\ csr.attributes[at] \in Attributes
  BY CSRFields DEF InAttributes, ParserTypes
<1>4. CASE CollectExtensions
  <2>1. PICK attribute \in Attributes : attribute = csr.attributes[at]
    BY <1>4, <1>a DEF CollectExtensions
  <2>2. PICK asked \in Seq(Extensions) : asked = Requested(attribute)
    BY RequestedType
  <2>3. extensions' = extensions \o asked \/ extensions' = extensions
    BY <1>4, <2>1, <2>2 DEF CollectExtensions
  <2>4. extensions' \in Seq(Extensions)
    <3>1. extensions \in Seq(Extensions)
      BY DEF ParserTypes
    <3>2. extensions \o asked \in Seq(Extensions)
      BY <3>1, ConcatProperties
    <3> QED
      BY <2>3, <3>1, <3>2
  <2> QED
    BY <1>4, <2>4 DEF CollectExtensions, ParserTypes
<1>5. CASE DescribeAttribute
  <2>1. PICK attribute \in Attributes : attribute = csr.attributes[at]
    BY <1>5, <1>a DEF DescribeAttribute
  <2>2. PICK told \in AttributeRecords : told = Described(attribute)
    BY DescribedType
  <2>3. attributes' = Append(attributes, told) \/ attributes' = attributes
    BY <1>5, <2>1, <2>2 DEF DescribeAttribute
  <2>4. attributes' \in Seq(AttributeRecords)
    BY <2>2, <2>3 DEF ParserTypes
  <2> QED
    BY <1>5, <2>4 DEF DescribeAttribute, ParserTypes
<1>6. CASE DescribeGOSTKey \/ DescribeDamagedGOSTKey \/ DescribeOtherKey
  <2>1. PICK described \in KeyRecords, warned \in Warnings : DescribeUnsupportedKey(described, warned)
    <3>1. <<>> \in Warnings /\ <<"gostDetails">> \in Warnings
      BY DEF Warnings
    <3> QED
      BY <1>6, <3>1, UnsupportedKeyType DEF DescribeGOSTKey, DescribeDamagedGOSTKey, DescribeOtherKey
  <2> QED
    BY <2>1, UnsupportedTypes
<1>7. CASE ParsePublicKey
  <2>1. publicKey' \in KeyRecords
    BY <1>7 DEF ParsePublicKey, KeyRecords
  <2> QED
    BY <1>7, <2>1 DEF ParsePublicKey, Go, ParserTypes, Steps
<1>8. CASE ParseSignature
  <2>1. signature' \in SignatureRecords
    BY <1>8, OutcomeType DEF ParseSignature
  <2> QED
    BY <1>8, <2>1 DEF ParseSignature, Go, ParserTypes, Steps
<1> QED
  BY <1>1, <1>2, <1>3, <1>4, <1>5, <1>6, <1>7, <1>8 DEF ReportNext, ParseSAN, AnalyzeFindings, reportVars

(* What a step of the parser does to the analysis: a step of it, or        *)
(* nothing, or more that is known of the request.                          *)
LEMMA AnalysisStep ==
  ASSUME ReportTypeOK, [ReportNext]_reportVars
  PROVE  \/ [Next]_vars
         \/ ParseSubject
         \/ /\ step \in {"attributes", "publicKey", "signature"}
            /\ UNCHANGED <<stage, next, san, seen, reported, findings>>
            /\ request' \in AllRequests
            /\ request'.names = request.names
<1>1. request \in AllRequests /\ csr \in AllCSRs
  BY DEF ReportTypeOK, TypeOK
<1>2. CASE AttributesDone
  <2>1. request' = [request EXCEPT !.version = csr.version]
    BY <1>2 DEF AttributesDone
  <2>2. csr.version \in Int
    BY <1>1, CSRFields
  <2>3. request' \in AllRequests /\ request'.names = request.names
    BY <1>1, <2>1, <2>2 DEF AllRequests
  <2> QED
    BY <1>2, <2>3 DEF AttributesDone
<1>3. CASE ParsePublicKey
  <2>1. request' = [request EXCEPT !.rsa = (csr.key.algorithm = "RSA"), !.bits = csr.key.bits]
    BY <1>3 DEF ParsePublicKey
  <2>2. csr.key.bits \in Nat
    BY <1>1, CSRFields
  <2>3. request' \in AllRequests /\ request'.names = request.names
    BY <1>1, <2>1, <2>2 DEF AllRequests
  <2> QED
    BY <1>3, <2>3 DEF ParsePublicKey
<1>4. CASE ParseSignature
  <2>1. request' = [request EXCEPT !.hash = SignatureAlgorithms[csr.signature.algorithm].hash]
    BY <1>4 DEF ParseSignature
  <2>2. SignatureAlgorithms[csr.signature.algorithm].hash \in {"MD5", "SHA-1", "other"}
    BY <1>1, CSRFields DEF SignatureAlgorithms
  <2>3. request' \in AllRequests /\ request'.names = request.names
    BY <1>1, <2>1, <2>2 DEF AllRequests
  <2> QED
    BY <1>4, <2>3 DEF ParseSignature
<1>5. CASE ParseSAN \/ AnalyzeFindings
  BY <1>5 DEF ParseSAN, AnalyzeFindings
<1>6. CASE UNCHANGED vars
  BY <1>6
<1> QED
  BY <1>2, <1>3, <1>4, <1>5, <1>6
     DEF ReportNext, reportVars, DecodeStructure, CollectExtensions, RejectExtensions, ExtensionsDone, RejectSubject,
         RejectSAN, SANDone, DescribeAttribute, DescribeGOSTKey, DescribeDamagedGOSTKey, DescribeOtherKey,
         DescribeUnsupportedKey, RejectX509, Fail

(* What ParseSubject gives to the analysis.                                *)
LEMMA ParsedSubject ==
  ASSUME ReportTypeOK, ParseSubject
  PROVE  /\ request' \in AllRequests
         /\ request'.names = SANNames(extensions) /\ request'.rsa = request.rsa /\ request'.hash = request.hash
         /\ UNCHANGED <<stage, next, san, seen, reported, findings, extensions, attributes, csr>>
<1>1. request \in AllRequests /\ csr \in AllCSRs /\ extensions \in Seq(Extensions)
  BY DEF ReportTypeOK, TypeOK
<1>2. SANNames(extensions) \in Seq(Names) /\ CommonName \in Texts /\ Len(csr.subject) \in Nat
  BY <1>1, SANNamesType, CommonNameType, CSRFields
<1>3. PICK has \in BOOLEAN : has = \E e \in DOMAIN extensions : IsSAN(extensions[e])
  OBVIOUS
<1>4. request' = [request EXCEPT !.rdns = Len(csr.subject), !.commonName = CommonName,
                                 !.hasSAN = has, !.names = SANNames(extensions)]
  BY <1>3 DEF ParseSubject
<1>5. /\ request' \in AllRequests
      /\ request'.names = SANNames(extensions) /\ request'.rsa = request.rsa /\ request'.hash = request.hash
  BY <1>1, <1>2, <1>4 DEF AllRequests
<1> QED
  BY <1>5 DEF ParseSubject

(* Every step keeps the types.                                             *)
LEMMA NextReportTypes == ReportTypeOK /\ [ReportNext]_reportVars => ReportTypeOK'
<1> SUFFICES ASSUME ReportTypeOK, [ReportNext]_reportVars PROVE ReportTypeOK'
  OBVIOUS
<1>1. ParserTypes'
  BY NextParserTypes, TypesInParts
<1>2. TypeOK'
  <2>0. TypeOK
    BY TypesInParts
  <2>1. CASE [Next]_vars
    BY <2>0, <2>1, NextType
  <2>2. ASSUME request' \in AllRequests, UNCHANGED <<stage, next, san, seen, reported, findings>>
        PROVE  TypeOK'
    BY <2>0, <2>2 DEF TypeOK
  <2> QED
    BY <2>1, <2>2, AnalysisStep, ParsedSubject
<1> QED
  BY <1>1, <1>2 DEF ReportTypeOK, ParserTypes, AttributeRecords, KeyRecords, SignatureRecords, Warnings

-----------------------------------------------------------------------------
(* Each part of the invariant is kept by every step.                       *)

(* The analysis only reads the request.                                    *)
LEMMA NextKeepsRequest == [Next]_vars => request' = request
BY LaterStep DEF vars, KeepName, SkipName, RejectName, NamesDone

(* The stage `names' of the analysis.                                      *)
LEMMA NamesStep ==
  ASSUME Next, stage = "names"
  PROVE  stage' \in {"names", "publicKey", "failed"} /\ findings' = findings
BY LaterStep DEF KeepName, SkipName, RejectName, NamesDone, InNames, Goto

(* The analysis is where the parser has brought it.                        *)
LEMMA BegunKept ==
  ASSUME ReportTypeOK, Begun, [ReportNext]_reportVars
  PROVE  Begun'
<1>1. ASSUME UNCHANGED vars, step' = step PROVE Begun'
  BY <1>1 DEF Begun, Init, vars
<1>2. ASSUME step' = "failed" PROVE Begun'
  BY <1>2 DEF Begun
<1>3. CASE UNCHANGED reportVars
  BY <1>1, <1>3 DEF reportVars, parserVars
<1>4. CASE CollectExtensions \/ DescribeAttribute
  BY <1>1, <1>4 DEF CollectExtensions, DescribeAttribute
<1>5. CASE RejectExtensions \/ RejectSubject \/ RejectSAN \/ RejectX509
  BY <1>2, <1>5 DEF RejectExtensions, RejectSubject, RejectSAN, RejectX509, Fail, Go
<1>6. CASE DecodeStructure \/ ExtensionsDone
  <2>1. /\ step \in {"structure", "extensions"} /\ step' \in {"extensions", "subject", "failed"}
        /\ UNCHANGED vars
    BY <1>6 DEF DecodeStructure, ExtensionsDone, Go
  <2>2. Init
    BY <2>1 DEF Begun
  <2>3. Init'
    BY <2>1, <2>2 DEF Init, vars
  <2> QED
    BY <2>1, <2>3 DEF Begun
<1>7. CASE ParseSubject
  <2>1. step = "subject" /\ step' = "san" /\ stage' = stage /\ findings' = findings
    BY <1>7 DEF ParseSubject, Go
  <2>2. stage = "names" /\ findings = <<>>
    BY <2>1 DEF Begun, Init
  <2> QED
    BY <2>1, <2>2 DEF Begun
<1>8. CASE ParseSAN
  <2>1. step = "san" /\ step' = step /\ stage' \in {"names", "publicKey", "failed"} /\ findings' = findings
    BY <1>8, NamesStep DEF ParseSAN, parserVars
  <2> QED
    BY <2>1 DEF Begun
<1>9. CASE SANDone \/ AttributesDone \/ ParsePublicKey
  <2>1. /\ step \in {"san", "attributes", "publicKey"} /\ step' \in {"attributes", "publicKey", "signature"}
        /\ stage' = stage /\ findings' = findings
        /\ step = "san" => stage \notin {"names", "failed"}
    BY <1>9 DEF SANDone, AttributesDone, ParsePublicKey, Go, vars
  <2> QED
    BY <2>1 DEF Begun
<1>10. CASE DescribeGOSTKey \/ DescribeDamagedGOSTKey \/ DescribeOtherKey \/ ParseSignature
  <2>1. step \in {"publicKey", "signature"} /\ step' = "findings" /\ stage' = stage
    BY <1>10 DEF DescribeGOSTKey, DescribeDamagedGOSTKey, DescribeOtherKey, DescribeUnsupportedKey, ParseSignature, Go, vars
  <2> QED
    BY <2>1 DEF Begun
<1>11. CASE AnalyzeFindings
  <2>1. step = "findings" /\ step' = step /\ Next
    BY <1>11 DEF AnalyzeFindings, parserVars
  <2>2. stage \notin {"names", "failed"}
    BY <2>1 DEF Begun
  <2>3. stage' \notin {"names", "failed"}
    BY <2>1, <2>2, LaterStep DEF KeepName, SkipName, RejectName, NamesDone, InNames
  <2> QED
    BY <2>1, <2>3 DEF Begun
<1> QED
  BY <1>3, <1>4, <1>5, <1>6, <1>7, <1>8, <1>9, <1>10, <1>11 DEF ReportNext

(* More that is known of the request, before the findings, but not of its  *)
(* names.                                                                  *)
LEMMA RequestRead ==
  ASSUME FindingsInv, stage = "publicKey", findings = <<>>,
         UNCHANGED <<stage, next, san, seen, reported, findings>>,
         request' \in AllRequests, request'.names = request.names
  PROVE  FindingsInv'
<1>1. TypeOK'
  BY DEF FindingsInv, TypeOK
<1>2. NextInRange'
  BY DEF NextInRange
<1>3. NamesAreKept'
  <2>1. NamesRead' = NamesRead
    BY DEF NamesRead
  <2>2. \A type, T, k : Named(type, T, k)' = Named(type, T, k)
    BY DEF Named, Kept
  <2> QED
    BY <2>1, <2>2 DEF FindingsInv, NamesAreKept
<1>4. Codes' = {}
  BY DEF Codes
<1>5. KeyFindingsInv'
  BY <1>4 DEF KeyFindingsInv
<1>6. SANFindingsInv'
  BY <1>4 DEF SANFindingsInv, LateStages
<1>7. AddressFindingsInv'
  <2>1. Looked = 0 /\ Looked' = 0
    BY DEF Looked
  <2>2. Count("ip_address_in_dns_san")' = Count("ip_address_in_dns_san")
    BY SameFindings
  <2>3. {k \in 1..Looked : san["DNS"][k] \in AddressTexts} = {} /\ {k \in 1..Looked' : san'["DNS"][k] \in AddressTexts} = {}
    BY <2>1
  <2> QED
    BY <2>2, <2>3 DEF FindingsInv, AddressFindingsInv, AddressTexts, IsIP, TrimSpace
<1>8. DuplicatesInv'
  <2>1. Compared = 0 /\ Compared' = 0
    BY DEF Compared
  <2>2. KeysUpTo(0)' = KeysUpTo(0) /\ RepeatedUpTo(0)' = RepeatedUpTo(0)
    BY SameSAN
  <2>3. Count("duplicate_san")' = Count("duplicate_san") /\ About("duplicate_san")' = About("duplicate_san")
    BY SameFindings
  <2> QED
    BY <2>1, <2>2, <2>3 DEF FindingsInv, DuplicatesInv
<1> QED
  BY <1>1, <1>2, <1>3, <1>5, <1>6, <1>7, <1>8 DEF FindingsInv

(* The parser's own steps come between the stages and leave the invariant  *)
(* of the analysis alone.                                                  *)
LEMMA FindingsInvKept ==
  ASSUME ReportTypeOK, Begun, FindingsInv, [ReportNext]_reportVars
  PROVE  FindingsInv'
<1>1. CASE [Next]_vars
  BY <1>1, NextFindingsInv
<1>2. CASE ParseSubject
  <2>1. Init
    BY <1>2 DEF Begun, ParseSubject
  <2>2. request' \in AllRequests /\ UNCHANGED <<stage, next, san, seen, reported, findings>>
    BY <1>2, ParsedSubject
  <2>3. TypeOK'
    BY <2>2 DEF FindingsInv, TypeOK
  <2>4. Fresh'
    BY <2>1, <2>2, <2>3 DEF Fresh, Init
  <2> QED
    BY <2>4, FreshNext
<1>3. CASE /\ step \in {"attributes", "publicKey", "signature"}
           /\ UNCHANGED <<stage, next, san, seen, reported, findings>>
           /\ request' \in AllRequests
           /\ request'.names = request.names
  <2>1. stage = "publicKey" /\ findings = <<>>
    BY <1>3 DEF Begun
  <2> QED
    BY <1>3, <2>1, RequestRead
<1> QED
  BY <1>1, <1>2, <1>3, AnalysisStep

(* The key and the hash are what the verdict was made from.                *)
LEMMA KeyKept ==
  ASSUME ReportTypeOK, csr \in CSRs, KeyInv, [ReportNext]_reportVars
  PROVE  KeyInv'
<1>1. ASSUME UNCHANGED <<csr, signature>>, step' = step, request' = request PROVE KeyInv'
  BY <1>1 DEF KeyInv, Tiny
<1>2. ASSUME step \in BeforeKey, step' \in BeforeKey, request'.rsa = request.rsa, request'.hash = request.hash
      PROVE  KeyInv'
  BY <1>2 DEF KeyInv, BeforeKey
<1>3. CASE UNCHANGED reportVars
  BY <1>1, <1>3 DEF reportVars, parserVars, vars
<1>4. CASE CollectExtensions \/ DescribeAttribute \/ ParseSAN \/ AnalyzeFindings
  BY <1>1, <1>4, NextKeepsRequest
     DEF CollectExtensions, DescribeAttribute, ParseSAN, AnalyzeFindings, parserVars, vars
<1>5. ASSUME step' = "failed" PROVE KeyInv'
  BY <1>5 DEF KeyInv, BeforeKey
<1>6. CASE RejectExtensions \/ RejectSubject \/ RejectSAN \/ RejectX509
  BY <1>5, <1>6 DEF RejectExtensions, RejectSubject, RejectSAN, RejectX509, Fail, Go
<1>7. CASE DecodeStructure \/ ExtensionsDone \/ SANDone
  BY <1>2, <1>5, <1>7 DEF DecodeStructure, ExtensionsDone, SANDone, Go, BeforeKey, vars
<1>8. CASE ParseSubject
  BY <1>2, <1>8, ParsedSubject DEF ParseSubject, Go, BeforeKey
<1>9. CASE AttributesDone
  <2>1. request \in AllRequests /\ request' = [request EXCEPT !.version = csr.version]
    BY <1>9 DEF AttributesDone, ReportTypeOK, TypeOK
  <2>2. request'.rsa = request.rsa /\ request'.hash = request.hash
    BY <2>1 DEF AllRequests
  <2> QED
    BY <1>2, <1>9, <2>2 DEF AttributesDone, Go, BeforeKey
<1>10. CASE DescribeGOSTKey \/ DescribeDamagedGOSTKey \/ DescribeOtherKey
  <2>1. /\ step = "publicKey" /\ step' = "findings" /\ request' = request
        /\ signature' = [verification |-> "unsupported", reason |-> "algorithm"]
    BY <1>10 DEF DescribeGOSTKey, DescribeDamagedGOSTKey, DescribeOtherKey, DescribeUnsupportedKey, Go, vars
  <2>2. ~request.rsa /\ request.hash = "other"
    BY <2>1 DEF KeyInv, BeforeKey
  <2> QED
    BY <2>1, <2>2 DEF KeyInv, BeforeKey, Tiny
<1>11. CASE ParsePublicKey
  <2>1. /\ request \in AllRequests /\ step = "publicKey" /\ step' = "signature" /\ csr' = csr
        /\ request' = [request EXCEPT !.rsa = (csr.key.algorithm = "RSA"), !.bits = csr.key.bits]
    BY <1>11 DEF ParsePublicKey, Go, ReportTypeOK, TypeOK
  <2>2. (request'.rsa <=> csr.key.algorithm = "RSA") /\ request'.bits = csr.key.bits /\ request'.hash = request.hash
    BY <2>1 DEF AllRequests
  <2>3. request.hash = "other"
    BY <2>1 DEF KeyInv, BeforeKey
  <2> QED
    BY <2>1, <2>2, <2>3 DEF KeyInv, BeforeKey
<1>12. CASE ParseSignature
  <2>1. /\ request \in AllRequests /\ step = "signature" /\ step' = "findings" /\ signature' = Outcome
        /\ request' = [request EXCEPT !.hash = SignatureAlgorithms[csr.signature.algorithm].hash]
    BY <1>12 DEF ParseSignature, Go, ReportTypeOK, TypeOK
  <2>2. /\ request'.rsa = request.rsa /\ request'.bits = request.bits
        /\ request'.hash = SignatureAlgorithms[csr.signature.algorithm].hash
    BY <2>1 DEF AllRequests
  <2>3. (request.rsa <=> csr.key.algorithm = "RSA") /\ request.bits = csr.key.bits
    BY <2>1 DEF KeyInv
  <2>4. csr.key.algorithm = "RSA" => csr.key.bits > 0
    BY Pkcs10Assumption
  <2>5. Tiny' <=> csr.key.algorithm = "RSA" /\ csr.key.bits < 1024
    <3>1. csr.key.bits \in Nat
      BY CSRFields DEF ReportTypeOK
    <3> QED
      BY <2>2, <2>3, <2>4, <3>1 DEF Tiny
  <2>6. SignatureAlgorithms[csr.signature.algorithm].hash = "MD5" => CheckSignature # "nil"
    BY DEF CheckSignature
  <2> QED
    BY <2>1, <2>2, <2>5, <2>6, OutcomeType DEF KeyInv, BeforeKey
<1> QED
  BY <1>3, <1>4, <1>6, <1>7, <1>8, <1>9, <1>10, <1>11, <1>12 DEF ReportNext

(* The first pass over the attributes has lost nothing so far.             *)
LEMMA ExtensionsKept ==
  ASSUME ReportTypeOK, ExtensionsInv, [ReportNext]_reportVars
  PROVE  ExtensionsInv'
<1>0. csr \in AllCSRs /\ at \in Nat \ {0} /\ extensions \in Seq(Extensions) /\ Len(csr.attributes) \in Nat
  BY CSRFields DEF ReportTypeOK
<1> DEFINE After == {"subject", "san", "attributes", "publicKey", "signature", "findings"}
<1>1. ASSUME step \in After, step' \in After \union {"failed"}, UNCHANGED <<csr, extensions>> PROVE ExtensionsInv'
  BY <1>1 DEF ExtensionsInv
<1>2. ASSUME step' = "failed" PROVE ExtensionsInv'
  BY <1>2 DEF ExtensionsInv
<1>3. CASE UNCHANGED reportVars
  BY <1>3 DEF reportVars, parserVars, ExtensionsInv
<1>4. CASE RejectExtensions \/ RejectSubject \/ RejectSAN \/ RejectX509
  BY <1>2, <1>4 DEF RejectExtensions, RejectSubject, RejectSAN, RejectX509, Fail, Go
<1>5. CASE DecodeStructure
  <2>1. /\ step = "structure" /\ step' \in {"extensions", "failed"} /\ at' = 1 /\ UNCHANGED <<csr, extensions>>
    BY <1>5 DEF DecodeStructure, Go
  <2>2. extensions = <<>>
    BY <2>1 DEF ExtensionsInv
  <2>3. PICK lists : lists = AskedIn(csr)
    OBVIOUS
  <2>4. Prefix(lists, 0) = <<>>
    BY <1>0, <2>3, AskedInType, PrefixEnds
  <2>5. FlattenSeq(Prefix(AskedIn(csr), 1 - 1)) = <<>>
    BY <2>3, <2>4, FlattenEmpty
  <2> QED
    BY <1>0, <2>1, <2>2, <2>5 DEF ExtensionsInv
<1>6. CASE CollectExtensions
  <2>1. PICK attribute : attribute = csr.attributes[at]
    OBVIOUS
  <2>2. /\ step = "extensions" /\ step' = step /\ csr' = csr /\ at <= Len(csr.attributes) /\ at' = at + 1
        /\ ~Malformed(attribute)
        /\ extensions' = IF IsExtensionRequest(attribute) THEN extensions \o Requested(attribute) ELSE extensions
    BY <1>6, <2>1 DEF CollectExtensions, InAttributes
  <2>3. PICK k \in Nat : at = k + 1
    <3>1. at - 1 \in Nat /\ at = (at - 1) + 1
      BY <1>0
    <3> QED
      BY <3>1
  <2>4. k < Len(csr.attributes) /\ k + 1 \in 1..Len(csr.attributes)
    BY <1>0, <2>2, <2>3
  <2>5. PICK lists : lists = AskedIn(csr)
    OBVIOUS
  <2>6. /\ lists \in Seq(Seq(Extensions)) /\ k < Len(lists)
        /\ lists[k + 1] = Asked(attribute) /\ attribute \in Attributes
    BY <1>0, <2>1, <2>3, <2>4, <2>5, AskedInType, CSRFields
  <2>7. FlattenSeq(Prefix(lists, k + 1)) = FlattenSeq(Prefix(lists, k)) \o lists[k + 1]
    BY <2>6, FlattenPrefix
  <2>8. extensions = FlattenSeq(Prefix(lists, k)) /\ \A a \in 1..k : ~Malformed(csr.attributes[a])
    <3>1. at - 1 = k
      BY <2>3
    <3> QED
      BY <2>2, <2>5, <3>1 DEF ExtensionsInv
  <2>9. extensions' = extensions \o Asked(attribute)
    <3>1. extensions \o <<>> = extensions
      BY <1>0, ConcatEmptySeq
    <3> QED
      BY <2>2, <3>1 DEF Asked
  <2>10. extensions' = FlattenSeq(Prefix(AskedIn(csr), k + 1))
    BY <2>5, <2>6, <2>7, <2>8, <2>9
  <2>11. \A a \in 1..(k + 1) : ~Malformed(csr.attributes[a])
    <3>1. \A a \in 1..(k + 1) : a \in 1..k \/ a = k + 1
      OBVIOUS
    <3> QED
      BY <2>1, <2>2, <2>3, <2>8, <3>1
  <2>12. at' - 1 = k + 1 /\ at' <= Len(csr.attributes) + 1
    BY <1>0, <2>2, <2>3
  <2> QED
    BY <2>2, <2>10, <2>11, <2>12 DEF ExtensionsInv
<1>7. CASE ExtensionsDone
  <2>1. /\ step = "extensions" /\ step' = "subject" /\ at > Len(csr.attributes) /\ UNCHANGED <<csr, extensions>>
    BY <1>7 DEF ExtensionsDone, Go
  <2>2. at - 1 = Len(csr.attributes)
    BY <1>0, <2>1 DEF ExtensionsInv
  <2>3. extensions = FlattenSeq(Prefix(AskedIn(csr), Len(csr.attributes)))
        /\ \A a \in 1..Len(csr.attributes) : ~Malformed(csr.attributes[a])
    BY <2>1, <2>2 DEF ExtensionsInv
  <2>4. PICK lists : lists = AskedIn(csr)
    OBVIOUS
  <2>5. Prefix(lists, Len(csr.attributes)) = lists
    <3>1. lists \in Seq(Seq(Extensions)) /\ Len(lists) = Len(csr.attributes)
      BY <1>0, <2>4, AskedInType
    <3>2. Prefix(lists, Len(lists)) = lists
      BY <3>1, PrefixEnds
    <3> QED
      BY <3>1, <3>2
  <2> QED
    BY <2>1, <2>3, <2>4, <2>5 DEF ExtensionsInv
<1>8. CASE ParseSubject \/ ParseSAN \/ SANDone \/ DescribeAttribute \/ AttributesDone \/ ParsePublicKey
  BY <1>1, <1>8 DEF ParseSubject, ParseSAN, SANDone, DescribeAttribute, InAttributes, AttributesDone,
                    ParsePublicKey, Go, parserVars
<1>9. CASE DescribeGOSTKey \/ DescribeDamagedGOSTKey \/ DescribeOtherKey \/ ParseSignature \/ AnalyzeFindings
  BY <1>1, <1>9 DEF DescribeGOSTKey, DescribeDamagedGOSTKey, DescribeOtherKey, DescribeUnsupportedKey,
                    ParseSignature, AnalyzeFindings, Go, parserVars
<1> QED
  BY <1>3, <1>4, <1>5, <1>6, <1>7, <1>8, <1>9 DEF ReportNext

(* Nor has the second.                                                     *)
LEMMA AttributesKept ==
  ASSUME ReportTypeOK, AttributesInv, [ReportNext]_reportVars
  PROVE  AttributesInv'
<1>0. csr \in AllCSRs /\ at \in Nat \ {0} /\ attributes \in Seq(AttributeRecords) /\ Len(csr.attributes) \in Nat
  BY CSRFields DEF ReportTypeOK, AttributeRecords
<1> DEFINE Before == {"structure", "extensions", "subject", "san"}
           After  == {"publicKey", "signature", "findings"}
<1>1. ASSUME \/ step \in Before /\ step' \in Before \union {"failed"}
             \/ step \in After /\ step' \in After \union {"failed"},
             UNCHANGED <<csr, attributes>>
      PROVE  AttributesInv'
  BY <1>1 DEF AttributesInv
<1>2. ASSUME step' = "failed" PROVE AttributesInv'
  BY <1>2 DEF AttributesInv
<1>3. CASE UNCHANGED reportVars
  BY <1>3 DEF reportVars, parserVars, AttributesInv
<1>4. CASE RejectExtensions \/ RejectSubject \/ RejectSAN \/ RejectX509
  BY <1>2, <1>4 DEF RejectExtensions, RejectSubject, RejectSAN, RejectX509, Fail, Go
<1>5. CASE DecodeStructure \/ CollectExtensions \/ ExtensionsDone \/ ParseSubject \/ ParseSAN
  BY <1>1, <1>5 DEF DecodeStructure, CollectExtensions, InAttributes, ExtensionsDone, ParseSubject, ParseSAN, Go, parserVars
<1>6. CASE SANDone
  <2>1. step = "san" /\ step' = "attributes" /\ at' = 1 /\ UNCHANGED <<csr, attributes>>
    BY <1>6 DEF SANDone, Go
  <2>2. attributes = <<>>
    BY <2>1 DEF AttributesInv
  <2>3. PICK lists : lists = ToldIn(csr)
    OBVIOUS
  <2>4. Prefix(lists, 0) = <<>>
    BY <1>0, <2>3, AskedInType, PrefixEnds
  <2>5. FlattenSeq(Prefix(ToldIn(csr), 1 - 1)) = <<>>
    BY <2>3, <2>4, FlattenEmpty
  <2> QED
    BY <1>0, <2>1, <2>2, <2>5 DEF AttributesInv
<1>7. CASE DescribeAttribute
  <2>1. PICK attribute : attribute = csr.attributes[at]
    OBVIOUS
  <2>2. /\ step = "attributes" /\ step' = step /\ csr' = csr /\ at <= Len(csr.attributes) /\ at' = at + 1
        /\ attributes' = IF IsExtensionRequest(attribute) THEN attributes ELSE Append(attributes, Described(attribute))
    BY <1>7, <2>1 DEF DescribeAttribute, InAttributes
  <2>3. PICK k \in Nat : at = k + 1
    <3>1. at - 1 \in Nat /\ at = (at - 1) + 1
      BY <1>0
    <3> QED
      BY <3>1
  <2>4. k < Len(csr.attributes) /\ k + 1 \in 1..Len(csr.attributes)
    BY <1>0, <2>2, <2>3
  <2>5. PICK lists : lists = ToldIn(csr)
    OBVIOUS
  <2>6. /\ lists \in Seq(Seq(AttributeRecords)) /\ k < Len(lists)
        /\ lists[k + 1] = Told(attribute) /\ attribute \in Attributes
    BY <1>0, <2>1, <2>3, <2>4, <2>5, AskedInType, CSRFields
  <2>7. FlattenSeq(Prefix(lists, k + 1)) = FlattenSeq(Prefix(lists, k)) \o lists[k + 1]
    BY <2>6, FlattenPrefix
  <2>8. attributes = FlattenSeq(Prefix(lists, k))
    <3>1. at - 1 = k
      BY <2>3
    <3> QED
      BY <2>2, <2>5, <3>1 DEF AttributesInv
  <2>9. attributes' = attributes \o Told(attribute)
    <3>1. attributes \o <<>> = attributes
      BY <1>0, ConcatEmptySeq
    <3>2. PICK d \in AttributeRecords : d = Described(attribute)
      BY <2>6, DescribedType
    <3>3. Append(attributes, d) = attributes \o <<d>>
      BY <1>0
    <3> QED
      BY <2>2, <3>1, <3>2, <3>3 DEF Told
  <2>10. attributes' = FlattenSeq(Prefix(ToldIn(csr), k + 1))
    BY <2>5, <2>6, <2>7, <2>8, <2>9
  <2>11. at' - 1 = k + 1 /\ at' <= Len(csr.attributes) + 1
    BY <1>0, <2>2, <2>3
  <2> QED
    BY <2>2, <2>10, <2>11 DEF AttributesInv
<1>8. CASE AttributesDone
  <2>1. /\ step = "attributes" /\ step' = "publicKey" /\ at > Len(csr.attributes) /\ UNCHANGED <<csr, attributes>>
    BY <1>8 DEF AttributesDone, Go
  <2>2. at - 1 = Len(csr.attributes)
    BY <1>0, <2>1 DEF AttributesInv
  <2>3. attributes = FlattenSeq(Prefix(ToldIn(csr), Len(csr.attributes)))
    BY <2>1, <2>2 DEF AttributesInv
  <2>4. PICK lists : lists = ToldIn(csr)
    OBVIOUS
  <2>5. Prefix(lists, Len(csr.attributes)) = lists
    <3>1. lists \in Seq(Seq(AttributeRecords)) /\ Len(lists) = Len(csr.attributes)
      BY <1>0, <2>4, AskedInType
    <3>2. Prefix(lists, Len(lists)) = lists
      BY <3>1, PrefixEnds
    <3> QED
      BY <3>1, <3>2
  <2> QED
    BY <2>1, <2>3, <2>4, <2>5 DEF AttributesInv
<1>9. CASE ParsePublicKey \/ ParseSignature \/ AnalyzeFindings
  BY <1>1, <1>9 DEF ParsePublicKey, ParseSignature, AnalyzeFindings, Go, parserVars
<1>10. CASE DescribeGOSTKey \/ DescribeDamagedGOSTKey \/ DescribeOtherKey
  BY <1>1, <1>10 DEF DescribeGOSTKey, DescribeDamagedGOSTKey, DescribeOtherKey, DescribeUnsupportedKey, Go
<1> QED
  BY <1>3, <1>4, <1>5, <1>6, <1>7, <1>8, <1>9, <1>10 DEF ReportNext

(* The extensions do not change once the names were taken from them.       *)
LEMMA NamesInvKept ==
  ASSUME ReportTypeOK, NamesInv, [ReportNext]_reportVars
  PROVE  NamesInv'
<1> DEFINE After == {"san", "attributes", "publicKey", "signature", "findings"}
<1>1. ASSUME step \in After \/ step' \notin After, request'.names = request.names, extensions' = extensions
      PROVE  NamesInv'
  BY <1>1 DEF NamesInv
<1>2. CASE ParseSubject
  BY <1>2, ParsedSubject DEF NamesInv
<1>3. CASE CollectExtensions
  BY <1>3 DEF CollectExtensions, InAttributes, NamesInv
<1>4. CASE ~ParseSubject /\ ~CollectExtensions
  <2>1. request'.names = request.names
    BY <1>4, AnalysisStep, NextKeepsRequest
  <2>2. extensions' = extensions /\ (step \in After \/ step' \notin After)
    <3>1. CASE UNCHANGED reportVars
      BY <3>1 DEF reportVars, parserVars
    <3>2. CASE RejectExtensions \/ RejectSubject \/ RejectSAN \/ RejectX509
      BY <3>2 DEF RejectExtensions, RejectSubject, RejectSAN, RejectX509, Fail, Go
    <3>3. CASE DecodeStructure \/ ExtensionsDone \/ ParseSAN \/ SANDone \/ DescribeAttribute \/ AttributesDone
      BY <3>3 DEF DecodeStructure, ExtensionsDone, ParseSAN, SANDone, DescribeAttribute, InAttributes, AttributesDone,
                  Go, parserVars
    <3>4. CASE DescribeGOSTKey \/ DescribeDamagedGOSTKey \/ DescribeOtherKey
      BY <3>4 DEF DescribeGOSTKey, DescribeDamagedGOSTKey, DescribeOtherKey, DescribeUnsupportedKey
    <3>5. CASE ParsePublicKey \/ ParseSignature \/ AnalyzeFindings
      BY <3>5 DEF ParsePublicKey, ParseSignature, AnalyzeFindings, parserVars
    <3> QED
      BY <1>4, <3>1, <3>2, <3>3, <3>4, <3>5 DEF ReportNext
  <2> QED
    BY <1>1, <2>1, <2>2
<1> QED
  BY <1>2, <1>3, <1>4

(* What one type has of each name.                                         *)
LEMMA ShownInType ==
  ASSUME NEW names \in Seq(Names), NEW type \in Types
  PROVE  /\ ShownIn(names, type) \in Seq(Seq(Texts)) /\ Len(ShownIn(names, type)) = Len(names)
         /\ \A n \in 1..Len(names) :
              ShownIn(names, type)[n] = IF names[n].type = type THEN <<Kept(names[n])>> ELSE <<>>
<1>1. PICK k \in Nat : k = Len(names) /\ DOMAIN names = 1..k
  OBVIOUS
<1>2. \A n \in 1..k : Kept(names[n]) \in Texts /\ Shown(names[n]) = Kept(names[n])
  <2>1. \A n \in 1..k : names[n] \in Names
    BY <1>1
  <2> QED
    BY <2>1, KeptType DEF Shown, Kept
<1>3. PICK one : one = [n \in 1..k |-> IF names[n].type = type THEN <<Kept(names[n])>> ELSE <<>>]
  OBVIOUS
<1>4. ShownIn(names, type) = one
  BY <1>1, <1>2, <1>3 DEF ShownIn
<1>5. \A n \in 1..k : one[n] \in Seq(Texts)
  BY <1>2, <1>3
<1>6. one \in Seq(Seq(Texts)) /\ Len(one) = k
  BY <1>3, <1>5
<1> QED
  BY <1>1, <1>3, <1>4, <1>6

(* One name more.                                                          *)
LEMMA ListNext ==
  ASSUME NEW names \in Seq(Names), NEW type \in Types, NEW k \in Nat, k < Len(names)
  PROVE  /\ FlattenSeq(Prefix(ShownIn(names, type), k)) \in Seq(Texts)
         /\ FlattenSeq(Prefix(ShownIn(names, type), k + 1)) =
              IF names[k + 1].type = type
                THEN Append(FlattenSeq(Prefix(ShownIn(names, type), k)), Kept(names[k + 1]))
                ELSE FlattenSeq(Prefix(ShownIn(names, type), k))
<1>1. PICK lists : lists = ShownIn(names, type)
  OBVIOUS
<1>2. /\ lists \in Seq(Seq(Texts)) /\ k < Len(lists) /\ k + 1 \in 1..Len(names)
      /\ lists[k + 1] = IF names[k + 1].type = type THEN <<Kept(names[k + 1])>> ELSE <<>>
  <2>1. k + 1 \in 1..Len(names)
    OBVIOUS
  <2>2. /\ lists \in Seq(Seq(Texts)) /\ Len(lists) = Len(names)
        /\ \A n \in 1..Len(names) : lists[n] = IF names[n].type = type THEN <<Kept(names[n])>> ELSE <<>>
    BY <1>1, ShownInType
  <2>3. lists[k + 1] = IF names[k + 1].type = type THEN <<Kept(names[k + 1])>> ELSE <<>>
    BY <2>1, <2>2, Zenon
  <2> QED
    BY <2>1, <2>2, <2>3
<1>3. PICK before, after : before = FlattenSeq(Prefix(lists, k)) /\ after = FlattenSeq(Prefix(lists, k + 1))
  OBVIOUS
<1>4. before \in Seq(Texts) /\ after = before \o lists[k + 1]
  BY <1>2, <1>3, FlattenPrefix
<1>5. PICK text \in Texts : text = Kept(names[k + 1])
  BY <1>2, KeptType
<1>6. before \o <<text>> = Append(before, text) /\ before \o <<>> = before
  BY <1>4, ConcatEmptySeq
<1> QED
  BY <1>1, <1>2, <1>3, <1>4, <1>5, <1>6

(* Every step of the analysis keeps the lists those of the names read.     *)
LEMMA ListsNext ==
  ASSUME TypeOK, NextInRange, [Next]_vars, stage # "failed" => ListsOf(san, request.names, NamesRead)
  PROVE  stage' # "failed" => ListsOf(san', request.names', NamesRead')
<1>0. /\ request.names \in Seq(Names) /\ Len(request.names) \in Nat /\ next \in Nat \ {0}
      /\ san \in [Types -> Seq(Texts)]
  BY TypeFacts DEF TypeOK
<1>1. CASE UNCHANGED vars
  BY <1>1 DEF vars, NamesRead
<1>2. CASE KeepName \/ SkipName
  <2>1. stage = "names" /\ stage' = "names" /\ request' = request /\ next' = next + 1
        /\ next <= Len(request.names)
    BY <1>2 DEF KeepName, SkipName, InNames
  <2>2. PICK k \in Nat : next = k + 1 /\ NamesRead = k /\ NamesRead' = k + 1
    <3>1. next - 1 \in Nat /\ next = (next - 1) + 1 /\ (next + 1) - 1 = (next - 1) + 1
      BY <1>0
    <3> QED
      BY <2>1, <3>1 DEF NamesRead
  <2>3. PICK names \in Seq(Names) : names = request.names
    BY <1>0
  <2>4. k < Len(names)
    BY <1>0, <2>1, <2>2, <2>3
  <2>5. ASSUME NEW type \in Types
        PROVE  san'[type] = FlattenSeq(Prefix(ShownIn(names, type), k + 1))
    <3>1. san[type] = FlattenSeq(Prefix(ShownIn(names, type), k))
      BY <2>1, <2>2, <2>3 DEF ListsOf
    <3>2. FlattenSeq(Prefix(ShownIn(names, type), k + 1)) =
            IF names[k + 1].type = type THEN Append(san[type], Kept(names[k + 1])) ELSE san[type]
      BY <2>4, <3>1, ListNext
    <3>3. CASE KeepName
      <4>1. san' = [san EXCEPT ![names[k + 1].type] = Append(@, Kept(names[k + 1]))]
        BY <2>2, <2>3, <3>3, KeptNameType
      <4>2. san'[type] = IF names[k + 1].type = type THEN Append(san[type], Kept(names[k + 1])) ELSE san[type]
        BY <1>0, <4>1
      <4> QED
        BY <3>2, <4>2
    <3>4. CASE SkipName
      <4>1. san' = san /\ names[k + 1].type # type
        BY <2>2, <2>3, <3>4 DEF SkipName, Types
      <4> QED
        BY <3>2, <4>1
    <3> QED
      BY <1>2, <3>3, <3>4
  <2> QED
    BY <2>1, <2>2, <2>3, <2>5 DEF ListsOf
<1>3. CASE RejectName
  BY <1>3 DEF RejectName, Goto
<1>4. CASE NamesDone
  <2>1. /\ stage = "names" /\ stage' = "publicKey" /\ request' = request /\ san' = san
        /\ next > Len(request.names)
    BY <1>4 DEF NamesDone, Goto
  <2>2. next - 1 = Len(request.names)
    BY <1>0, <2>1 DEF NextInRange
  <2>3. NamesRead' = NamesRead
    BY <2>1, <2>2 DEF NamesRead
  <2> QED
    BY <2>1, <2>3
<1>5. CASE Next /\ ~KeepName /\ ~SkipName /\ ~RejectName /\ ~NamesDone
  <2>1. /\ stage \notin {"names", "failed"} /\ stage' \notin {"names", "failed"}
        /\ UNCHANGED <<request, san>>
    BY <1>5, LaterStep
  <2>2. NamesRead' = NamesRead
    BY <2>1 DEF NamesRead
  <2> QED
    BY <2>1, <2>2
<1> QED
  BY <1>1, <1>2, <1>3, <1>4, <1>5

(* The names are known from parseSubject on.                               *)
LEMMA SubjectComesFirst ==
  ASSUME [ReportNext]_reportVars, ~ParseSubject
  PROVE  step \in AfterSubject \/ step' \notin AfterSubject
<1>1. CASE UNCHANGED reportVars
  BY <1>1 DEF reportVars, parserVars
<1>2. CASE RejectExtensions \/ RejectSubject \/ RejectSAN \/ RejectX509
  BY <1>2 DEF RejectExtensions, RejectSubject, RejectSAN, RejectX509, Fail, Go, AfterSubject
<1>3. CASE DecodeStructure \/ CollectExtensions \/ ExtensionsDone
  BY <1>3 DEF DecodeStructure, CollectExtensions, InAttributes, ExtensionsDone, Go, AfterSubject
<1>4. CASE ParseSAN \/ SANDone \/ DescribeAttribute \/ AttributesDone
  BY <1>4 DEF ParseSAN, SANDone, DescribeAttribute, InAttributes, AttributesDone, AfterSubject
<1>5. CASE DescribeGOSTKey \/ DescribeDamagedGOSTKey \/ DescribeOtherKey
  BY <1>5 DEF DescribeGOSTKey, DescribeDamagedGOSTKey, DescribeOtherKey, DescribeUnsupportedKey, AfterSubject
<1>6. CASE ParsePublicKey \/ ParseSignature \/ AnalyzeFindings
  BY <1>6 DEF ParsePublicKey, ParseSignature, AnalyzeFindings, AfterSubject
<1> QED
  BY <1>1, <1>2, <1>3, <1>4, <1>5, <1>6 DEF ReportNext

(* The lists are those of the names read, behind the parser as well.       *)
LEMMA ListsKept ==
  ASSUME ReportTypeOK, Begun, FindingsInv, ListsInv, [ReportNext]_reportVars
  PROVE  ListsInv'
<1>1. CASE ParseSubject
  <2>1. stage = "names" /\ next = 1 /\ san = [type \in Types |-> <<>>]
    BY <1>1 DEF Begun, Init, ParseSubject
  <2>2. request' \in AllRequests /\ UNCHANGED <<stage, next, san>>
    BY <1>1, ParsedSubject
  <2>3. PICK names \in Seq(Names) : names = request'.names
    BY <2>2 DEF AllRequests
  <2>4. NamesRead' = 0
    BY <2>1, <2>2 DEF NamesRead
  <2>5. ASSUME NEW type \in Types PROVE san'[type] = FlattenSeq(Prefix(ShownIn(names, type), 0))
    <3>1. PICK lists : lists = ShownIn(names, type)
      OBVIOUS
    <3>2. Prefix(lists, 0) = <<>>
      BY <3>1, ShownInType, PrefixEnds
    <3> QED
      BY <2>1, <2>2, <3>1, <3>2, FlattenEmpty
  <2> QED
    BY <2>3, <2>4, <2>5 DEF ListsInv, ListsOf
<1>2. CASE ~ParseSubject /\ [Next]_vars
  <2>1. step \in AfterSubject \/ step' \notin AfterSubject
    BY <1>2, SubjectComesFirst
  <2>2. step \in AfterSubject => (stage # "failed" => ListsOf(san, request.names, NamesRead))
    BY DEF ListsInv
  <2>3. step \in AfterSubject => (stage' # "failed" => ListsOf(san', request.names', NamesRead'))
    BY <1>2, <2>2, ListsNext DEF FindingsInv
  <2> QED
    BY <2>1, <2>3 DEF ListsInv
<1>3. CASE /\ step \in {"attributes", "publicKey", "signature"}
           /\ UNCHANGED <<stage, next, san, seen, reported, findings>>
           /\ request' \in AllRequests
           /\ request'.names = request.names
  <2>1. NamesRead' = NamesRead
    BY <1>3 DEF NamesRead
  <2>2. step \in AfterSubject
    BY <1>3 DEF AfterSubject
  <2> QED
    BY <1>3, <2>1, <2>2 DEF ListsInv
<1> QED
  BY <1>1, <1>2, <1>3, AnalysisStep

-----------------------------------------------------------------------------
(* The invariant as a whole.                                               *)

(* The invariant holds at the start.                                       *)
LEMMA InitReportInv == ReportInit => ReportInv
<1> SUFFICES ASSUME ReportInit PROVE ReportInv
  OBVIOUS
<1>1. /\ Init /\ step = "structure" /\ extensions = <<>> /\ attributes = <<>>
      /\ request = Unread
  BY Pkcs10Assumption DEF ReportInit, Init
<1>2. ReportTypeOK
  BY <1>1, InitParserTypes, InitType, TypesInParts
<1>3. ParserInv
  BY InitParserInv
<1>4. Begun
  BY <1>1 DEF Begun
<1>5. FindingsInv
  BY <1>1, InitFindingsInv
<1>6. KeyInv
  BY <1>1 DEF KeyInv, BeforeKey, Unread
<1>7. ExtensionsInv /\ AttributesInv /\ NamesInv /\ ListsInv
  BY <1>1 DEF ExtensionsInv, AttributesInv, NamesInv, ListsInv, AfterSubject
<1> QED
  BY <1>2, <1>3, <1>4, <1>5, <1>6, <1>7 DEF ReportInv

(* It is inductive.                                                        *)
LEMMA NextReportInv == ReportInv /\ [ReportNext]_reportVars => ReportInv'
<1> SUFFICES ASSUME ReportInv, [ReportNext]_reportVars PROVE ReportInv'
  OBVIOUS
<1>1. /\ ReportTypeOK /\ ParserInv /\ Begun /\ FindingsInv /\ KeyInv
      /\ ExtensionsInv /\ AttributesInv /\ NamesInv /\ ListsInv /\ csr \in CSRs
  BY DEF ReportInv, ParserInv
<1>2. ReportTypeOK' /\ ParserInv' /\ Begun' /\ FindingsInv'
  BY <1>1, NextReportTypes, NextParserInv, BegunKept, FindingsInvKept
<1>3. KeyInv' /\ ExtensionsInv' /\ AttributesInv' /\ NamesInv' /\ ListsInv'
  BY <1>1, KeyKept, ExtensionsKept, AttributesKept, NamesInvKept, ListsKept
<1> QED
  BY <1>2, <1>3 DEF ReportInv

(* The parser with its analysis has only states of the invariant, whatever *)
(* the requests are.                                                       *)
THEOREM ReportInvHolds == ReportSpec => []ReportInv
BY InitReportInv, NextReportInv, PTL DEF ReportSpec

(* ParsePEM and all it calls: every variable has its type, also where the  *)
(* analysis goes over names that come from decoded extensions.             *)
THEOREM ReportTypesHold == ReportSpec => []ReportTypeOK
BY ReportInvHolds, PTL DEF ReportInv

(* findDuplicateSANFindings, behind the parser that reads the names from   *)
(* several extensions of several attributes: what is repeated is reported, *)
(* once.                                                                   *)
THEOREM ReportedDuplicatesAreExact == ReportSpec => []DuplicatesAreReportedOnce
<1>1. ReportInv => DuplicatesAreReportedOnce
  BY DuplicatesHold DEF ReportInv
<1> QED
  BY <1>1, ReportInvHolds, PTL

(* The same of what is said of the common name, of addresses among the DNS *)
(* names and of a missing SAN.                                             *)
THEOREM ReportedNamesAreJudged == ReportSpec => []NamesAreJudgedExactly
<1>1. ReportInv => NamesAreJudgedExactly
  BY FindingsInvJudgesNames DEF ReportInv
<1> QED
  BY <1>1, ReportInvHolds, PTL

(* parseSignature and analyzePublicKeyFindings draw the line at the same   *)
(* size: the finding that says verification was skipped is there exactly   *)
(* when it was, and neither such a key nor MD5 goes with a valid verdict.  *)
THEOREM SkippingIsReported == ReportSpec => []SkippedMeansSkipped
<1>1. ReportInv => SkippedMeansSkipped
  <2> SUFFICES ASSUME ReportInv, step = "findings", stage = "done"
               PROVE  /\ "rsa_key_critically_small" \in Codes <=> signature.reason = "smallKey"
                      /\ {"rsa_key_critically_small", "md5_signature_algorithm"} \intersect Codes # {} =>
                           signature.verification # "valid"
    BY DEF SkippedMeansSkipped, Reported
  <2>1. /\ signature.reason = "smallKey" <=> Tiny
        /\ Tiny \/ request.hash = "MD5" => signature.verification # "valid"
    BY DEF ReportInv, KeyInv
  <2>2. /\ "rsa_key_critically_small" \in Codes <=> Tiny
        /\ "md5_signature_algorithm" \in Codes => request.hash = "MD5"
    BY DEF ReportInv, FindingsInv, KeyFindingsInv
  <2> QED
    BY <2>1, <2>2
<1> QED
  BY <1>1, ReportInvHolds, PTL

(* analyzeFindings within ParsePEM: no step of the parser disturbs the     *)
(* sorting, which loses nothing, invents nothing and puts the findings in  *)
(* order.                                                                  *)
THEOREM ReportsAreSorted == ReportSpec => SortedReport
<1>1. ASSUME ReportInv, [ReportNext]_reportVars, stage = "sort", ~UNCHANGED vars PROVE SortFindings
  <2>1. [Next]_vars \/ ParseSubject \/ step \in {"attributes", "publicKey", "signature"}
    BY <1>1, AnalysisStep DEF ReportInv
  <2>2. Next
    BY <1>1, <2>1 DEF ReportInv, Begun, Init, ParseSubject
  <2> QED
    BY <1>1, <2>2 DEF Next, KeepName, SkipName, RejectName, InNames, NamesDone, PublicKeyFindings, SignatureFindings,
              SubjectFindings, SANMissing, CommonNameFinding, AddValue, InDuplicates, DuplicatesDone,
              CheckDNSName, DNSDone, VersionFindings
<1> DEFINE Body ==
      LET count(fs, f) == Cardinality({n \in DOMAIN fs : fs[n] = f})
      IN /\ \A f \in {findings[n] : n \in DOMAIN findings} \union {findings'[n] : n \in DOMAIN findings'} :
              count(findings, f) = count(findings', f)
         /\ \A m, n \in DOMAIN findings' : m < n =>
              /\ Rank(findings'[m]) <= Rank(findings'[n])
              /\ Rank(findings'[m]) = Rank(findings'[n]) =>
                   CodeIndex(findings'[m].code) <= CodeIndex(findings'[n].code)
<1>2. ReportInv /\ [ReportNext]_reportVars => [stage = "sort" => Body]_vars
  <2>1. ReportInv => findings \in Seq(FindingRecords)
    BY TypeFacts DEF ReportInv, FindingsInv
  <2> QED
    BY <1>1, <2>1, SortingOnlySorts
<1> QED
  BY <1>2, ReportInvHolds, PTL DEF ReportSpec, SortedReport

-----------------------------------------------------------------------------
(* What the lists of a report have.                                        *)

OfTypes(S) == {name \in Names : name.type \in S}

(* A list that has no malformed name comes from extensions that decode.    *)
LEMMA SANExtensionsDecode ==
  ASSUME NEW exts \in Seq(Extensions), NEW e \in DOMAIN exts, IsSAN(exts[e]),
         Where(SANNames(exts), OfTypes({"malformed"})) = {}
  PROVE  exts[e].decodes
<1> SUFFICES ASSUME ~exts[e].decodes PROVE FALSE
  OBVIOUS
<1>1. PICK lists : lists = NamesOf(exts)
  OBVIOUS
<1>2. /\ lists \in Seq(Seq(Names)) /\ e \in 1..Len(lists)
      /\ lists[e] = <<[type |-> "malformed", text |-> EmptyText]>>
  BY <1>1, NamesOfType DEF NamesIn
<1>3. PICK T : T = OfTypes({"malformed"})
  OBVIOUS
<1>4. [type |-> "malformed", text |-> EmptyText] \in T
  <2>1. [type |-> "malformed", text |-> EmptyText] \in Names
    BY EmptyTextIsText DEF Names
  <2> QED
    BY <1>3, <2>1 DEF OfTypes
<1>5. 1 \in Where(lists[e], T)
  BY <1>2, <1>4 DEF Where
<1>6. <<e, 1>> \in Pairs(lists, Len(lists), T)
  <2>1. <<e, 1>> \in {<<e, n>> : n \in Where(lists[e], T)}
    BY <1>5
  <2> QED
    BY <1>2, <2>1 DEF Pairs
<1>7. /\ IsFiniteSet(Pairs(lists, Len(lists), T))
      /\ Cardinality(Pairs(lists, Len(lists), T)) = Cardinality(Where(SANNames(exts), T))
  BY <1>1, <1>2, FlattenCounts, SANNamesType
<1>8. Cardinality(Pairs(lists, Len(lists), T)) = 0
  BY <1>3, <1>7, FS_EmptySet
<1> QED
  BY <1>6, <1>7, <1>8, FS_EmptySet

(* The two passes over the attributes, parseRequestedExtensions and        *)
(* parseAttributes, have shown each attribute once, the second met none    *)
(* that does not decode, and each list of the SAN has the names of its     *)
(* type from all SAN extensions, in their order; names of other types are  *)
(* on none of them.                                                        *)
THEOREM ListsHold == ReportSpec => []ListsAreExact
<1>1. ASSUME ReportInv, InAttributes("attributes") PROVE csr.attributes[at].decodes
  <2>1. at \in 1..Len(csr.attributes)
    <3>1. csr \in AllCSRs /\ at \in Nat \ {0} /\ at <= Len(csr.attributes)
      BY <1>1 DEF ReportInv, ReportTypeOK, InAttributes
    <3> QED
      BY <3>1, CSRFields
  <2> QED
    BY <1>1, <2>1 DEF ReportInv, ExtensionsInv, InAttributes, Malformed
<1>2. ASSUME ReportInv, Reported
      PROVE  /\ extensions = FlattenSeq([a \in DOMAIN csr.attributes |->
                               IF IsExtensionRequest(csr.attributes[a]) THEN Requested(csr.attributes[a]) ELSE <<>>])
             /\ attributes = FlattenSeq([a \in DOMAIN csr.attributes |->
                               IF IsExtensionRequest(csr.attributes[a]) THEN <<>> ELSE <<Described(csr.attributes[a])>>])
  BY <1>2 DEF ReportInv, Reported, ExtensionsInv, AttributesInv, AskedIn, ToldIn, Asked, Told
<1>3. ASSUME ReportInv, Reported
      PROVE  /\ \A e \in DOMAIN extensions : IsSAN(extensions[e]) => extensions[e].decodes
             /\ request.names = FlattenSeq([e \in DOMAIN extensions |->
                                  IF e \in {f \in DOMAIN extensions : IsSAN(extensions[f])}
                                    THEN extensions[e].names ELSE <<>>])
  <2>1. FindingsInv /\ stage = "done" /\ request.names = SANNames(extensions) /\ extensions \in Seq(Extensions)
    BY <1>3 DEF ReportInv, Reported, NamesInv, ReportTypeOK
  <2>2. Where(SANNames(extensions), OfTypes({"malformed"})) = {}
    <3>1. \A n \in 1..Len(request.names) : request.names[n].type # "malformed"
      BY <2>1 DEF FindingsInv, NamesAreKept, NamesRead
    <3>2. DOMAIN request.names = 1..Len(request.names)
      BY <2>1, Extents
    <3> QED
      BY <2>1, <3>1, <3>2 DEF Where, OfTypes
  <2>3. \A e \in DOMAIN extensions : IsSAN(extensions[e]) => extensions[e].decodes
    BY <2>1, <2>2, SANExtensionsDecode
  <2>4. [e \in DOMAIN extensions |-> NamesIn(extensions[e])] =
        [e \in DOMAIN extensions |-> IF e \in {f \in DOMAIN extensions : IsSAN(extensions[f])}
                                       THEN extensions[e].names ELSE <<>>]
    BY <2>3 DEF NamesIn
  <2> QED
    BY <2>1, <2>3, <2>4 DEF SANNames
<1>4. ASSUME ReportInv, Reported, NEW type \in Types
      PROVE  san[type] = FlattenSeq(ShownIn(request.names, type))
  <2>1. step = "findings" /\ stage = "done" /\ FindingsInv
    BY <1>4 DEF ReportInv, Reported
  <2>2. ListsOf(san, request.names, Len(request.names))
    BY <1>4, <2>1 DEF ReportInv, ListsInv, AfterSubject, NamesRead
  <2>3. PICK names \in Seq(Names) : names = request.names
    BY <2>1, TypeFacts DEF FindingsInv
  <2>4. PICK lists : lists = ShownIn(names, type)
    OBVIOUS
  <2>5. Prefix(lists, Len(names)) = lists
    BY <2>4, ShownInType, PrefixEnds
  <2> QED
    BY <2>2, <2>3, <2>4, <2>5 DEF ListsOf
<1>5. ReportInv => ListsAreExact
  BY <1>1, <1>2, <1>3, <1>4 DEF ListsAreExact, ShownIn
<1> QED
  BY <1>5, ReportInvHolds, PTL

=============================================================================
