------------------------------- MODULE Pkcs10 -------------------------------
(***************************************************************************)
(* The second half of ParsePEM in parse_pem.go: from the bytes of the PEM  *)
(* block to the Info that the API returns, with what it calls in parser.go *)
(* and, at its end, the analysis of module Findings.                       *)
(*                                                                         *)
(* The variable request of Findings is what the parser has found out so    *)
(* far.  encoding/asn1 and crypto/x509 are external: a part of a request   *)
(* decodes or not.                                                         *)
(***************************************************************************)
EXTENDS Findings, SequencesExt

CONSTANT CSRs     \* the PKCS#10 requests to parse

(* What a request is before anything is known of it.                       *)
Unread == [hasSAN |-> FALSE, names |-> <<>>, commonName |-> EmptyText, rdns |-> 0,
           rsa |-> FALSE, bits |-> 0, hash |-> "other", version |-> 0]

(* supportedByStandardLibrary, isGOSTPublicKeyAlgorithm, and any other.    *)
Supported       == {"RSA", "DSA", "ECDSA", "Ed25519"}
GOST            == {"GOST2001", "GOST2012-256", "GOST2012-512"}
KeyAlgorithms   == Supported \union GOST \union {"other"}

(* describeSignatureAlgorithm and what crypto/x509 knows of an algorithm:  *)
(* the key it is made with, and the hash as the findings look for it.      *)
SignatureAlgorithms ==
  [MD2WithRSA    |-> [key |-> "none",    hash |-> "other"],
   MD5WithRSA    |-> [key |-> "RSA",     hash |-> "MD5"],
   SHA1WithRSA   |-> [key |-> "RSA",     hash |-> "SHA-1"],
   SHA2WithRSA   |-> [key |-> "RSA",     hash |-> "other"],
   RSAPSS        |-> [key |-> "RSA",     hash |-> "other"],
   DSAWithSHA1   |-> [key |-> "DSA",     hash |-> "SHA-1"],
   DSAWithSHA2   |-> [key |-> "DSA",     hash |-> "other"],
   ECDSAWithSHA1 |-> [key |-> "ECDSA",   hash |-> "SHA-1"],
   ECDSAWithSHA2 |-> [key |-> "ECDSA",   hash |-> "other"],
   PureEd25519   |-> [key |-> "Ed25519", hash |-> "other"],
   unknown       |-> [key |-> "none",    hash |-> "other"]]

(* pkix.Extension, and the attributes with their values.  A value of an    *)
(* extensionRequest holds extensions; a value of another attribute decodes *)
(* when decodeString takes it for a string.                                *)
Extensions == [oid : {"subjectAltName", "other"}, decodes : BOOLEAN, names : Seq(Names)]
Values     == [decodes : BOOLEAN, extensions : Seq(Extensions)]
Attributes == [type : {"extensionRequest", "other"}, decodes : BOOLEAN, values : Seq(Values)]

(* A BIT STRING and the parameters next to it, as GOST keys have them.     *)
GOSTKeys ==
  [unusedBits : BOOLEAN, decodes : BOOLEAN, size : Nat,
   parameters : {"absent", "null", "malformed", "noParameterSet", "noDigest", "digest"}]

(* refused: crypto/rsa computes nothing with the key, though x509 has      *)
(* parsed it: its public exponent is 1, even or above 2^31-1, or its       *)
(* modulus is even.  genuine: what the signature algorithm computes of     *)
(* the request and its key comes out right.                                *)
AllCSRs ==
  [faults     : SUBSET {"request", "publicKeyInfo", "subject", "x509"},
   attributes : Seq(Attributes),
   subject    : Seq(Seq([isCommonName : BOOLEAN, text : Texts])),
   version    : Int,
   key        : [algorithm : KeyAlgorithms, bits : Nat, refused : BOOLEAN, gost : GOSTKeys],
   signature  : [algorithm : DOMAIN SignatureAlgorithms, genuine : BOOLEAN]]

(* A genuine signature is made with a key of the kind that its algorithm   *)
(* needs; x509 refuses an RSA key whose modulus is zero; only crypto/rsa   *)
(* refuses keys.                                                           *)
ASSUME Pkcs10Assumption ==
  /\ Requests = {Unread}
  /\ CSRs \subseteq AllCSRs
  /\ \A c \in CSRs :
       c.signature.genuine /\ c.key.algorithm \in Supported =>
         SignatureAlgorithms[c.signature.algorithm].key \in {c.key.algorithm, "none"}
  /\ \A c \in CSRs : IF c.key.algorithm = "RSA" THEN c.key.bits > 0 ELSE ~c.key.refused

VARIABLES
  csr,          \* the bytes of the PEM block
  step,         \* how far ParsePEM has come: see Steps
  at,           \* the attribute that the loops over attributes have come to
  extensions,   \* rawInfo.Extensions
  attributes,   \* info.Attributes
  publicKey,    \* info.PublicKey
  signature,    \* info.Signature
  warnings      \* info.Warnings

parserVars == <<csr, step, at, extensions, attributes, publicKey, signature, warnings>>
reportVars == <<vars, parserVars>>

Steps == {"structure", "extensions", "subject", "san", "attributes", "publicKey", "signature",
          "findings", "failed"}

(* details: the fields of the algorithm (RSA, ECDSA, ..., GOST) are filled *)
(* in; digest: where that of a GOST key comes from.                        *)
NoKey       == [algorithm |-> "", details |-> FALSE, digest |-> "none", fingerprint |-> FALSE]
NoSignature == [verification |-> "", reason |-> "none"]

ReportInit ==
  /\ Init
  /\ csr \in CSRs
  /\ step = "structure"
  /\ at = 1
  /\ extensions = <<>>
  /\ attributes = <<>>
  /\ publicKey = NoKey
  /\ signature = NoSignature
  /\ warnings = <<>>

-----------------------------------------------------------------------------
(* parseRawCSR: the request, its SubjectPublicKeyInfo, its attributes.     *)

Go(s) == step' = s /\ at' = 1

(* An error ends ParsePEM: no Info is returned.                            *)
Fail ==
  /\ Go("failed")
  /\ UNCHANGED <<vars, csr, extensions, attributes, publicKey, signature, warnings>>

DecodeStructure ==
  /\ step = "structure"
  /\ Go(IF csr.faults \intersect {"request", "publicKeyInfo"} = {} THEN "extensions" ELSE "failed")
  /\ UNCHANGED <<vars, csr, extensions, attributes, publicKey, signature, warnings>>

InAttributes(s) == step = s /\ at <= Len(csr.attributes)

IsExtensionRequest(attribute) == attribute.type = "extensionRequest"

Requested(attribute) ==
  FlattenSeq([v \in DOMAIN attribute.values |-> attribute.values[v].extensions])

Malformed(attribute) ==
  \/ ~attribute.decodes
  \/ IsExtensionRequest(attribute) /\ \E v \in DOMAIN attribute.values : ~attribute.values[v].decodes

(* parseRequestedExtensions, of one attribute after the other.             *)
CollectExtensions_lastOnly ==
  /\ InAttributes("extensions")
  /\ LET attribute == csr.attributes[at]
     IN /\ ~Malformed(attribute)
        /\ extensions' = IF IsExtensionRequest(attribute) THEN Requested(attribute) ELSE extensions
  /\ at' = at + 1
  /\ UNCHANGED <<vars, csr, step, attributes, publicKey, signature, warnings>>

CollectExtensions ==
  /\ InAttributes("extensions")
  /\ LET attribute == csr.attributes[at]
     IN /\ ~Malformed(attribute)
        /\ extensions' = IF IsExtensionRequest(attribute) THEN extensions \o Requested(attribute)
                                                          ELSE extensions
  /\ at' = at + 1
  /\ UNCHANGED <<vars, csr, step, attributes, publicKey, signature, warnings>>

RejectExtensions ==
  /\ InAttributes("extensions")
  /\ Malformed(csr.attributes[at])
  /\ Fail

ExtensionsDone ==
  /\ step = "extensions"
  /\ at > Len(csr.attributes)
  /\ Go("subject")
  /\ UNCHANGED <<vars, csr, extensions, attributes, publicKey, signature, warnings>>

-----------------------------------------------------------------------------
(* parseSubject: the common name is the first that is not empty.           *)

CommonName ==
  LET all   == FlattenSeq(csr.subject)
      named == {a \in DOMAIN all : all[a].isCommonName /\ all[a].text # EmptyText}
  IN IF named = {} THEN EmptyText ELSE all[Min(named)].text

(* The names of all SAN extensions one after the other, as the nested      *)
(* loops of parseSANFromExtensions see them.                               *)
IsSAN(extension) == extension.oid = "subjectAltName"

NamesIn(extension) ==
  IF ~IsSAN(extension)       THEN <<>>
  ELSE IF extension.decodes  THEN extension.names
  ELSE <<[type |-> "malformed", text |-> EmptyText]>>

SANNames(exts) == FlattenSeq([e \in DOMAIN exts |-> NamesIn(exts[e])])

ParseSubject ==
  /\ step = "subject"
  /\ "subject" \notin csr.faults
  /\ request' = [request EXCEPT !.rdns       = Len(csr.subject),
                                !.commonName = CommonName,
                                !.hasSAN     = \E e \in DOMAIN extensions : IsSAN(extensions[e]),
                                !.names      = SANNames(extensions)]
  /\ Go("san")
  /\ UNCHANGED <<stage, next, san, seen, reported, findings>>
  /\ UNCHANGED <<csr, extensions, attributes, publicKey, signature, warnings>>

RejectSubject == step = "subject" /\ "subject" \in csr.faults /\ Fail

(* parseSANFromExtensions: the stage `names' of Findings.                  *)
ParseSAN == step = "san" /\ stage = "names" /\ Next /\ UNCHANGED parserVars

RejectSAN == step = "san" /\ stage = "failed" /\ Fail

SANDone ==
  /\ step = "san"
  /\ stage \notin {"names", "failed"}
  /\ Go("attributes")
  /\ UNCHANGED <<vars, csr, extensions, attributes, publicKey, signature, warnings>>

-----------------------------------------------------------------------------
(* parseAttributes goes over the attributes once more.                     *)

(* AttributeInfo: Values are the strings among the RawValues.              *)
Described(attribute) ==
  [raw    |-> Len(attribute.values),
   values |-> Cardinality({v \in DOMAIN attribute.values : attribute.values[v].decodes})]

DescribeAttribute ==
  /\ InAttributes("attributes")
  /\ LET attribute == csr.attributes[at]
     IN /\ attribute.decodes
        /\ attributes' = IF IsExtensionRequest(attribute) THEN attributes
                                                          ELSE Append(attributes, Described(attribute))
  /\ at' = at + 1
  /\ UNCHANGED <<vars, csr, step, extensions, publicKey, signature, warnings>>

(* info is put together.                                                   *)
AttributesDone ==
  /\ step = "attributes"
  /\ at > Len(csr.attributes)
  /\ request' = [request EXCEPT !.version = csr.version]
  /\ Go("publicKey")
  /\ UNCHANGED <<stage, next, san, seen, reported, findings>>
  /\ UNCHANGED <<csr, extensions, attributes, publicKey, signature, warnings>>

-----------------------------------------------------------------------------
(* A key that the standard library does not know: its signature is not     *)
(* verified.                                                               *)

(* decodeGOSTPublicKey, then parseGOSTPublicKeyParameters.                 *)
GOSTKeySize(algorithm) == IF algorithm = "GOST2012-512" THEN 128 ELSE 64

GOSTKeyParses(key) ==
  /\ ~key.gost.unusedBits
  /\ key.gost.decodes
  /\ key.gost.size = GOSTKeySize(key.algorithm)
  /\ key.gost.parameters \notin {"malformed", "noParameterSet"}

(* parseGOSTPublicKey: the digest is implied by the size of a 2012 key.    *)
GOSTDigest_givenOnly(key) == IF key.gost.parameters = "digest" THEN "given" ELSE "none"

GOSTDigest(key) ==
  IF key.gost.parameters = "digest" THEN "given"
  ELSE IF key.algorithm = "GOST2001" THEN "none"
  ELSE "implied"

(* parseUnsupportedPublicKey, and parseUnsupportedSignature, whose names   *)
(* the findings about hashes never match.                                  *)
UnsupportedKey(key) ==
  [algorithm   |-> IF key.algorithm \in GOST THEN "GOST" ELSE "Unknown",
   details     |-> FALSE,
   digest      |-> "none",
   fingerprint |-> TRUE]

DescribeUnsupportedKey(described, warned) ==
  /\ step = "publicKey"
  /\ csr.key.algorithm \notin Supported
  /\ publicKey' = described
  /\ signature' = [verification |-> "unsupported", reason |-> "algorithm"]
  /\ warnings' = warned \o <<"notVerified">>
  /\ Go("findings")
  /\ UNCHANGED <<vars, csr, extensions, attributes>>

DescribeGOSTKey ==
  /\ csr.key.algorithm \in GOST
  /\ GOSTKeyParses(csr.key)
  /\ DescribeUnsupportedKey([UnsupportedKey(csr.key) EXCEPT !.details = TRUE, !.digest = GOSTDigest(csr.key)],
                            <<>>)

DescribeDamagedGOSTKey ==
  /\ csr.key.algorithm \in GOST
  /\ ~GOSTKeyParses(csr.key)
  /\ DescribeUnsupportedKey(UnsupportedKey(csr.key), <<"gostDetails">>)

DescribeOtherKey ==
  /\ csr.key.algorithm = "other"
  /\ DescribeUnsupportedKey(UnsupportedKey(csr.key), <<>>)

-----------------------------------------------------------------------------
(* A key that it knows: x509 parses the request again, and may be stricter.*)

RejectX509 ==
  /\ step = "publicKey"
  /\ csr.key.algorithm \in Supported
  /\ "x509" \in csr.faults
  /\ Fail

ParsePublicKey ==
  /\ step = "publicKey"
  /\ csr.key.algorithm \in Supported
  /\ "x509" \notin csr.faults
  /\ publicKey' = [algorithm |-> csr.key.algorithm, details |-> TRUE, digest |-> "none", fingerprint |-> TRUE]
  /\ request' = [request EXCEPT !.rsa = (csr.key.algorithm = "RSA"), !.bits = csr.key.bits]
  /\ Go("signature")
  /\ UNCHANGED <<stage, next, san, seen, reported, findings>>
  /\ UNCHANGED <<csr, extensions, attributes, signature, warnings>>

(* x509's CertificateRequest.CheckSignature: what it refuses, or lets      *)
(* crypto/rsa refuse, before anything is computed, and the outcome of the  *)
(* computation.                                                            *)
CheckSignature ==
  LET algorithm == SignatureAlgorithms[csr.signature.algorithm]
      key       == csr.key.algorithm
  IN IF algorithm.key = "none"                      THEN "unsupported"
     ELSE IF algorithm.hash = "MD5"                 THEN "insecure"
     ELSE IF key = "DSA"                            THEN "unsupported"
     ELSE IF algorithm.key # key                    THEN "otherKey"
     ELSE IF key = "RSA" /\ csr.key.bits < 1024     THEN "smallKey"
     ELSE IF csr.key.refused                        THEN "refusedKey"
     ELSE IF csr.signature.genuine                  THEN "nil"
     ELSE "wrong"

(* parseSignature.                                                         *)
Outcome_noMinimum ==
  LET err == CheckSignature
  IN IF err = "nil"                             THEN [verification |-> "valid", reason |-> "none"]
     ELSE IF err \in {"unsupported", "insecure"} THEN [verification |-> "unsupported", reason |-> "algorithm"]
     ELSE [verification |-> "invalid", reason |-> "mismatch"]

Outcome_invalidByDefault ==
  LET err == CheckSignature
  IN IF csr.key.algorithm = "RSA" /\ csr.key.bits < 1024 THEN [verification |-> "unsupported", reason |-> "smallKey"]
     ELSE IF err = "nil"         THEN [verification |-> "valid", reason |-> "none"]
     ELSE IF err = "unsupported" THEN [verification |-> "unsupported", reason |-> "algorithm"]
     ELSE [verification |-> "invalid", reason |-> "mismatch"]

Outcome ==
  LET err == CheckSignature
  IN IF csr.key.algorithm = "RSA" /\ csr.key.bits < 1024 THEN [verification |-> "unsupported", reason |-> "smallKey"]
     ELSE IF err = "nil"                         THEN [verification |-> "valid", reason |-> "none"]
     ELSE IF err \in {"unsupported", "insecure"} THEN [verification |-> "unsupported", reason |-> "algorithm"]
     ELSE [verification |-> "invalid", reason |-> "mismatch"]

ParseSignature ==
  /\ step = "signature"
  /\ signature' = Outcome
  /\ request' = [request EXCEPT !.hash = SignatureAlgorithms[csr.signature.algorithm].hash]
  /\ Go("findings")
  /\ UNCHANGED <<stage, next, san, seen, reported, findings>>
  /\ UNCHANGED <<csr, extensions, attributes, publicKey, warnings>>

(* finalizeInfo: the other stages of Findings.                             *)
AnalyzeFindings == step = "findings" /\ Next /\ UNCHANGED parserVars

ReportNext ==
  \/ DecodeStructure
  \/ CollectExtensions
  \/ RejectExtensions
  \/ ExtensionsDone
  \/ ParseSubject
  \/ RejectSubject
  \/ ParseSAN
  \/ RejectSAN
  \/ SANDone
  \/ DescribeAttribute
  \/ AttributesDone
  \/ DescribeGOSTKey
  \/ DescribeDamagedGOSTKey
  \/ DescribeOtherKey
  \/ RejectX509
  \/ ParsePublicKey
  \/ ParseSignature
  \/ AnalyzeFindings

ReportSpec == ReportInit /\ [][ReportNext]_reportVars

-----------------------------------------------------------------------------
(* Properties.                                                             *)

(* Every variable has its type.                                            *)
ReportTypeOK ==
  /\ TypeOK
  /\ csr \in AllCSRs
  /\ step \in Steps
  /\ at \in Nat \ {0}
  /\ extensions \in Seq(Extensions)
  /\ attributes \in Seq([raw : Nat, values : Nat])
  /\ publicKey \in [algorithm : {"", "GOST", "Unknown"} \union Supported, details : BOOLEAN,
                     digest : {"none", "given", "implied"}, fingerprint : BOOLEAN]
  /\ signature \in [verification : {"", "valid", "invalid", "unsupported"},
                     reason : {"none", "smallKey", "algorithm", "mismatch"}]
  /\ warnings \in Seq({"gostDetails", "notVerified"})

Reported == step = "findings" /\ stage = "done"

(* What is on the lists for a name of their type.                          *)
Shown(name) == IF name.type = "IP address" THEN Plain(Canonical[name.text.core]) ELSE name.text

(* parseRequestedExtensions and parseAttributes go over the same           *)
(* attributes, one for the extensions and one for the rest: between them   *)
(* each attribute is shown once, and the second pass meets none that does  *)
(* not decode.  Each of the four lists of the SAN has the names of its     *)
(* type, from all SAN extensions, in their order and with their text, and  *)
(* no extension that does not decode is passed over.  Names of the other   *)
(* types (directoryName, otherName and so on) are on none of the lists:    *)
(* parser.go:428 leaves them out, and nothing else of the report has them, *)
(* as parser.go:604 gives a SAN no hex.                                    *)
ListsAreExact ==
  /\ InAttributes("attributes") => csr.attributes[at].decodes
  /\ Reported =>
       LET all  == csr.attributes
           sans == {e \in DOMAIN extensions : IsSAN(extensions[e])}
           asked == FlattenSeq([e \in DOMAIN extensions |->
                                  IF e \in sans THEN extensions[e].names ELSE <<>>])
       IN /\ extensions =
               FlattenSeq([a \in DOMAIN all |-> IF IsExtensionRequest(all[a]) THEN Requested(all[a]) ELSE <<>>])
          /\ attributes =
               FlattenSeq([a \in DOMAIN all |-> IF IsExtensionRequest(all[a]) THEN <<>> ELSE <<Described(all[a])>>])
          /\ \A e \in sans : extensions[e].decodes
          /\ \A type \in Types :
               san[type] = FlattenSeq([n \in DOMAIN asked |->
                                         IF asked[n].type = type THEN <<Shown(asked[n])>> ELSE <<>>])

(* parseSignature: `valid' is said only of a genuine signature, of a key   *)
(* of a supported algorithm.  `invalid' is said of a genuine one only when *)
(* crypto/rsa refuses its key, an error that parseSignature cannot tell    *)
(* from a wrong signature.  `unsupported' is never said of a signature     *)
(* that was computed, whatever came out.                                   *)
VerdictIsEarned ==
  /\ signature.verification = "valid" => csr.signature.genuine /\ publicKey.algorithm \in Supported
  /\ signature.verification = "invalid" =>
       ~csr.signature.genuine \/ (csr.key.algorithm = "RSA" /\ csr.key.refused)
  /\ signature.verification = "unsupported" /\ csr.key.algorithm \in Supported =>
       CheckSignature \notin {"nil", "wrong"}

(* The threshold of 1024 bits in parseSignature and in                     *)
(* analyzePublicKeyFindings: the finding that says verification was        *)
(* skipped is there exactly when it was, for that reason.  And what is     *)
(* reported as MD5 is never shown as valid.                                *)
SkippedMeansSkipped ==
  Reported =>
    /\ "rsa_key_critically_small" \in Codes <=> signature.reason = "smallKey"
    /\ {"rsa_key_critically_small", "md5_signature_algorithm"} \intersect Codes # {} =>
         signature.verification # "valid"

(* verificationPresentation of app.js.                                     *)
Badge(verification) ==
  IF verification \in {"valid", "invalid"} THEN verification
  ELSE IF verification \in {"unsupported", "not_verified"} THEN "unsupported"
  ELSE "unknown"

(* ParsePEM: whichever path is taken, and also when the details of a GOST  *)
(* key cannot be parsed, the report has a key with its fingerprint, and a  *)
(* verdict that the page knows, with a reason unless it is `valid'.  The   *)
(* warnings are about keys alone: a damaged GOST key, and a key whose      *)
(* algorithm the inspector does not verify.  When it is the signature of a *)
(* supported key that is not verified (DSA, MD5, a small RSA key, an       *)
(* unknown algorithm), the verdict and its reason are all that says so:    *)
(* there is no warning, though README.md:50 has one in its list.           *)
EveryReportIsWhole ==
  Reported =>
    /\ publicKey.fingerprint
    /\ Badge(signature.verification) # "unknown"
    /\ signature.verification = "valid" <=> signature.reason = "none"
    /\ warnings = (IF publicKey.algorithm = "GOST" /\ ~publicKey.details THEN <<"gostDetails">> ELSE <<>>)
                    \o (IF publicKey.algorithm \in Supported THEN <<>> ELSE <<"notVerified">>)
    /\ publicKey.details /\ csr.key.algorithm \in {"GOST2012-256", "GOST2012-512"} => publicKey.digest # "none"

-----------------------------------------------------------------------------
(* parser.go:689 says of the verdict `invalid' that the check was really   *)
(* made.  A signature algorithm that belongs to another kind of key, and a *)
(* key that crypto/rsa refuses, end in the same branch without any check.  *)
InvalidMeansChecked == signature.verification = "invalid" => CheckSignature = "wrong"

=============================================================================
