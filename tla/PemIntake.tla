----------------------------- MODULE PemIntake -----------------------------
(***************************************************************************)
(* From a text to a PKCS#10 block: validatePEMHeader of the page, the PEM  *)
(* half of csr.ParsePEM and the classification of its errors.              *)
(*                                                                         *)
(* A text is a sequence of segments: a PEM block that pem.Decode decodes   *)
(* ("block"), a BEGIN line that it skips because no matching END line      *)
(* follows or the data between them does not decode ("broken"), other      *)
(* lines ("text"), and white space ("blank").  pem.Decode is external: it  *)
(* returns the first block that it can decode, and what comes after it.    *)
(***************************************************************************)
EXTENDS Naturals, Sequences

CONSTANTS
  Labels,         \* the labels that BEGIN lines carry
  OddLabels,      \* those not made of upper case letters, digits, ' ', '-'
  MaxSegments     \* bound on the length of a text

ASSUME PemAssumption ==
  /\ OddLabels \subseteq Labels
  /\ MaxSegments \in Nat

CSRLabels  == {"CERTIFICATE REQUEST", "NEW CERTIFICATE REQUEST"}
CertLabels == {"CERTIFICATE", "X509 CERTIFICATE"}

(* The page's list and the server's list of private key labels.            *)
PageKeyLabels   == {"PRIVATE KEY", "RSA PRIVATE KEY", "EC PRIVATE KEY", "ENCRYPTED PRIVATE KEY"}
ServerKeyLabels == PageKeyLabels \union {"OPENSSH PRIVATE KEY"}

ASSUME LabelsAssumption ==
  OddLabels \intersect (CSRLabels \union CertLabels \union ServerKeyLabels) = {}

Segments ==
  [kind : {"block"}, label : Labels, headers : BOOLEAN]
    \union [kind : {"broken"}, label : Labels, headers : {FALSE}]
    \union [kind : {"text", "blank"}, label : {"-"}, headers : {FALSE}]

Texts == UNION {[1..n -> Segments] : n \in 0..MaxSegments}

VARIABLES
  text,     \* the text
  direct,   \* it is posted by another client, whatever the page says of it
  stage,    \* how far it has come: see Stages
  verdict,  \* what validatePEMHeader says of it
  block,    \* the segment that pem.Decode returned, 0 before
  error,    \* the error of ParsePEM, "none" before
  reply     \* the code of the API's answer, "ok" for a result

vars == <<text, direct, stage, verdict, block, error, reply>>

Stages   == {"page", "empty", "prefix", "decode", "type", "headers", "rest", "der", "parsed",
             "failed", "refused", "answered"}
Verdicts == {"none", "empty", "noHeader", "valid", "certificate", "privateKey", "unsupported"}
Failures == {"none", "ErrEmptyInput", "ErrInvalidPEM", "UnsupportedPEMTypeError", "ErrPEMHeaders",
             "ErrTrailingData", "ASN.1"}
Codes    == {"none", "ok", "empty_request", "invalid_pem", "certificate_instead_of_csr",
             "private_key_instead_of_csr", "unsupported_pem_type", "unsupported_pem_headers",
             "unexpected_trailing_data", "csr_parse_failed"}

-----------------------------------------------------------------------------
(* The text, trimmed.                                                      *)

IsContent(i) == text[i].kind # "blank"
IsBegin(i)   == text[i].kind \in {"block", "broken"}
IsBlock(i)   == text[i].kind = "block"

Empty == \A i \in DOMAIN text : ~IsContent(i)

StartsWith(i) == i \in DOMAIN text /\ IsContent(i) /\ \A j \in 1..(i-1) : ~IsContent(j)

(* pem.Decode                                                              *)
Decodes(i) == i \in DOMAIN text /\ IsBlock(i) /\ \A j \in 1..(i-1) : ~IsBlock(j)

NothingAfter(i) == \A j \in DOMAIN text : j > i => ~IsContent(j)

Init ==
  /\ text \in Texts
  /\ direct \in BOOLEAN
  /\ stage = "page"
  /\ verdict = "none"
  /\ block = 0
  /\ error = "none"
  /\ reply = "none"

-----------------------------------------------------------------------------
(* The page: parseCSR up to the request.                                   *)

ValidatePEMHeader ==
  \/ Empty /\ verdict' = "empty"
  \/ \E i \in DOMAIN text :
       /\ StartsWith(i)
       /\ verdict' = IF ~IsBegin(i) \/ text[i].label \in OddLabels      THEN "noHeader"
                     ELSE IF text[i].label \in CSRLabels                THEN "valid"
                     ELSE IF text[i].label \in CertLabels               THEN "certificate"
                     ELSE IF text[i].label \in PageKeyLabels            THEN "privateKey"
                     ELSE "unsupported"

CheckOnPage ==
  /\ stage = "page"
  /\ ValidatePEMHeader
  /\ stage' = IF verdict' = "valid" \/ direct THEN "empty" ELSE "refused"
  /\ UNCHANGED <<text, direct, block, error, reply>>

-----------------------------------------------------------------------------
(* ParsePEM                                                                *)

(* A check of ParsePEM: on to the next one, or return err.                 *)
Check(here, passes, next, err) ==
  /\ stage = here
  /\ \/ passes /\ stage' = next /\ UNCHANGED error
     \/ ~passes /\ stage' = "failed" /\ error' = err
  /\ UNCHANGED <<text, direct, verdict, reply>>

CheckEmpty_missing ==
  /\ Check("empty", TRUE, "prefix", "ErrEmptyInput")
  /\ UNCHANGED block

CheckEmpty ==
  /\ Check("empty", ~Empty, "prefix", "ErrEmptyInput")
  /\ UNCHANGED block

CheckPrefix ==
  /\ Check("prefix", \E i \in DOMAIN text : StartsWith(i) /\ IsBegin(i), "decode", "ErrInvalidPEM")
  /\ UNCHANGED block

DecodeBlock ==
  /\ Check("decode", \E i \in DOMAIN text : Decodes(i), "type", "ErrInvalidPEM")
  /\ IF \E i \in DOMAIN text : Decodes(i)
       THEN \E i \in DOMAIN text : Decodes(i) /\ block' = i
       ELSE UNCHANGED block

CheckType ==
  /\ Check("type", text[block].label \in CSRLabels, "headers", "UnsupportedPEMTypeError")
  /\ UNCHANGED block

CheckHeaders ==
  /\ Check("headers", ~text[block].headers, "rest", "ErrPEMHeaders")
  /\ UNCHANGED block

CheckRest_missing ==
  /\ Check("rest", TRUE, "der", "ErrTrailingData")
  /\ UNCHANGED block

CheckRest ==
  /\ Check("rest", NothingAfter(block), "der", "ErrTrailingData")
  /\ UNCHANGED block

(* What the bytes of the block are is left open: they are a PKCS#10        *)
(* request or they are not.                                                *)
ParseDER ==
  /\ \E wellFormed \in BOOLEAN : Check("der", wellFormed, "parsed", "ASN.1")
  /\ UNCHANGED block

-----------------------------------------------------------------------------
(* writeParseError                                                         *)

(* UnsupportedPEMTypeError wraps a sentinel; the others are compared as    *)
(* they are.                                                               *)
Unwrap(err) == IF err = "UnsupportedPEMTypeError" THEN "ErrUnsupportedPEMType" ELSE err

Is(err, target) == target \in {err, Unwrap(err)}

ClassifyUnsupportedPEMType_pkcs1Only(label) ==
  IF label \in CertLabels           THEN "certificate_instead_of_csr"
  ELSE IF label = "RSA PRIVATE KEY" THEN "private_key_instead_of_csr"
  ELSE "unsupported_pem_type"

ClassifyUnsupportedPEMType(label) ==
  IF label \in CertLabels           THEN "certificate_instead_of_csr"
  ELSE IF label \in ServerKeyLabels THEN "private_key_instead_of_csr"
  ELSE "unsupported_pem_type"

ClassifyParseError_noDefault(err) ==
  IF Is(err, "ErrEmptyInput")              THEN "empty_request"
  ELSE IF Is(err, "ErrInvalidPEM")         THEN "invalid_pem"
  ELSE IF Is(err, "ErrUnsupportedPEMType") THEN ClassifyUnsupportedPEMType(text[block].label)
  ELSE IF Is(err, "ErrPEMHeaders")         THEN "unsupported_pem_headers"
  ELSE IF Is(err, "ErrTrailingData")       THEN "unexpected_trailing_data"
  ELSE ""

ClassifyParseError(err) ==
  IF Is(err, "ErrEmptyInput")              THEN "empty_request"
  ELSE IF Is(err, "ErrInvalidPEM")         THEN "invalid_pem"
  ELSE IF Is(err, "ErrUnsupportedPEMType") THEN ClassifyUnsupportedPEMType(text[block].label)
  ELSE IF Is(err, "ErrPEMHeaders")         THEN "unsupported_pem_headers"
  ELSE IF Is(err, "ErrTrailingData")       THEN "unexpected_trailing_data"
  ELSE "csr_parse_failed"

Answer(code) ==
  /\ stage' = "answered"
  /\ reply' = code
  /\ UNCHANGED <<text, direct, verdict, block, error>>

WriteParseError == stage = "failed" /\ Answer(ClassifyParseError(error))

WriteInfo == stage = "parsed" /\ Answer("ok")

Next ==
  \/ CheckOnPage
  \/ CheckEmpty
  \/ CheckPrefix
  \/ DecodeBlock
  \/ CheckType
  \/ CheckHeaders
  \/ CheckRest
  \/ ParseDER
  \/ WriteParseError
  \/ WriteInfo

Spec == Init /\ [][Next]_vars

-----------------------------------------------------------------------------
(* Properties.                                                             *)

(* Every variable has its type.                                            *)
TypeOK ==
  /\ text \in Texts
  /\ direct \in BOOLEAN
  /\ stage \in Stages
  /\ verdict \in Verdicts
  /\ block \in 0..Len(text)
  /\ error \in Failures
  /\ reply \in Codes

(* The text is one decodable block, labelled as a request and without      *)
(* headers, with nothing after it and only skipped BEGIN lines before it.  *)
IsOneRequest ==
  \E i \in DOMAIN text :
    /\ IsBlock(i)
    /\ text[i].label \in CSRLabels
    /\ ~text[i].headers
    /\ \A j \in DOMAIN text : IsContent(j) => j <= i
    /\ \A j \in DOMAIN text : IsBlock(j) => j = i
    /\ \E j \in 1..i : IsBegin(j) /\ \A k \in 1..(j-1) : ~IsContent(k)

(* ParsePEM: DER is parsed only out of a text that is one request, so a    *)
(* result, or an answer that blames the PKCS#10 structure, is about it.    *)
OnlyOneRequestIsParsed ==
  stage \in {"der", "parsed"} \/ reply \in {"ok", "csr_parse_failed"} => IsOneRequest

Contains(labels) == \E i \in DOMAIN text : IsBlock(i) /\ text[i].label \in labels

(* classifyParseError: the code of an answer blames what is in the text.   *)
CodeNamesTheFault ==
  /\ reply = "empty_request" <=> reply # "none" /\ Empty
  /\ reply = "invalid_pem" =>
       (\A i \in DOMAIN text : StartsWith(i) => ~IsBegin(i)) \/ ~Contains(Labels)
  /\ reply = "certificate_instead_of_csr" => Contains(CertLabels)
  /\ reply = "private_key_instead_of_csr" => Contains(ServerKeyLabels)
  /\ reply = "unsupported_pem_type" => Contains(Labels \ (CSRLabels \union CertLabels \union ServerKeyLabels))
  /\ reply = "unsupported_pem_headers" => \E i \in DOMAIN text : IsBlock(i) /\ text[i].headers
  /\ reply = "unexpected_trailing_data" => \E i \in DOMAIN text : IsBlock(i) /\ ~NothingAfter(i)

Accepted == {"ok", "unsupported_pem_headers", "unexpected_trailing_data", "csr_parse_failed"}

(* validatePEMHeader against ParsePEM and classifyUnsupportedPEMType: when *)
(* the text starts with a block that decodes, the page's check of its      *)
(* label alone foretells the server's answer.  The page lets the text pass *)
(* exactly when the server's check of the type does, and refuses it for    *)
(* the reason that the server would give, with one exception: the server   *)
(* knows an OPENSSH PRIVATE KEY for a private key, the page calls it an    *)
(* unsupported type, without the warning that README.md:99 promises.       *)
PageSpeaksForServer ==
  \A i \in DOMAIN text : StartsWith(i) /\ IsBlock(i) /\ reply # "none" =>
    LET unknownToPage == text[i].label = "OPENSSH PRIVATE KEY"
    IN /\ verdict = "valid" <=> reply \in Accepted
       /\ verdict = "certificate" <=> reply = "certificate_instead_of_csr"
       /\ verdict = "privateKey" <=> reply = "private_key_instead_of_csr" /\ ~unknownToPage
       /\ verdict \in {"noHeader", "unsupported"} <=> reply = "unsupported_pem_type" \/ unknownToPage
       /\ unknownToPage => reply = "private_key_instead_of_csr"

-----------------------------------------------------------------------------
(* What the documents say of the program, where the code does otherwise.   *)

(* README.md:31 has malformed PEM rejected.  ParsePEM takes any text that  *)
(* begins with a BEGIN line and has one good block: pem.Decode passes over *)
(* a block that is cut short or damaged before it.                         *)
MalformedPEMIsRejected ==
  reply = "ok" => \A i \in DOMAIN text : text[i].kind # "broken"

(* index.html:254 says that private keys are not uploaded.  The page looks *)
(* at the first label only, so a key below a request is sent with it.      *)
NoKeyLeavesThePage ==
  ~direct /\ stage \notin {"page", "refused"} => ~Contains(ServerKeyLabels)

=============================================================================
