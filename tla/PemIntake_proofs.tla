------------------------- MODULE PemIntake_proofs --------------------------
(***************************************************************************)
(* Proofs about the intake, for texts of any length and any set of labels. *)
(***************************************************************************)
EXTENDS PemIntake, WellFoundedInduction, TLAPS

(* What each check of ParsePEM leaves established for the later ones.      *)
Begins   == \E i \in DOMAIN text : StartsWith(i) /\ IsBegin(i)
Decoded  == \E i \in DOMAIN text : Decodes(i)
Labelled == Decodes(block) /\ text[block].label \in CSRLabels
Bare     == Labelled /\ ~text[block].headers
Alone    == Bare /\ NothingAfter(block)

StageInv ==
  /\ stage = "prefix" => ~Empty
  /\ stage \in {"decode", "type", "headers", "rest", "der", "parsed"} => ~Empty /\ Begins
  /\ stage = "type" => Decodes(block)
  /\ stage = "headers" => Labelled
  /\ stage = "rest" => Bare
  /\ stage \in {"der", "parsed"} => Alone

(* What an error of ParsePEM says of the text.                             *)
ErrorInv ==
  /\ error = "ErrEmptyInput" => Empty
  /\ error \notin {"none", "ErrEmptyInput"} => ~Empty
  /\ error = "ErrInvalidPEM" => ~Begins \/ ~Decoded
  /\ error \notin {"none", "ErrEmptyInput", "ErrInvalidPEM"} => Begins /\ Decodes(block)
  /\ error = "UnsupportedPEMTypeError" => text[block].label \notin CSRLabels
  /\ error = "ErrPEMHeaders" => Labelled /\ text[block].headers
  /\ error = "ErrTrailingData" => Bare /\ ~NothingAfter(block)
  /\ error = "ASN.1" => Alone

ReplyInv ==
  /\ stage = "failed" => error # "none"
  /\ stage \notin {"failed", "answered"} => error = "none"
  /\ stage = "answered" =>
       \/ error = "none" /\ reply = "ok" /\ ~Empty /\ Begins /\ Alone
       \/ error # "none" /\ reply = ClassifyParseError(error)
  /\ stage # "answered" => reply = "none"

(* What the page has said of a text that starts with a block.              *)
VerdictOf(label) ==
  IF label \in OddLabels          THEN "noHeader"
  ELSE IF label \in CSRLabels     THEN "valid"
  ELSE IF label \in CertLabels    THEN "certificate"
  ELSE IF label \in PageKeyLabels THEN "privateKey"
  ELSE "unsupported"

VerdictInv ==
  stage # "page" => \A i \in DOMAIN text : StartsWith(i) /\ IsBlock(i) => verdict = VerdictOf(text[i].label)

IntakeInv == TypeOK /\ StageInv /\ ErrorInv /\ ReplyInv /\ VerdictInv

-----------------------------------------------------------------------------
(* Facts about texts.                                                      *)

LEMMA TextFacts ==
  ASSUME text \in Texts
  PROVE  /\ Len(text) \in Nat
         /\ DOMAIN text = 1..Len(text)
         /\ \A i \in DOMAIN text : text[i] \in Segments
<1>1. PICK n \in 0..MaxSegments : text \in [1..n -> Segments]
  BY DEF Texts
<1>2. n \in Nat
  BY <1>1, PemAssumption
<1>3. text \in Seq(Segments) /\ Len(text) = n
  BY <1>1, <1>2
<1> QED
  BY <1>1, <1>2, <1>3

(* A set of positions has a first one.                                     *)
Less == {ss \in Nat \X Nat : ss[1] < ss[2]}

LEMMA FirstPosition ==
  ASSUME NEW T \in SUBSET Nat, T # {}
  PROVE  \E x \in T : \A y \in T : ~(y < x)
<1>1. IsWellFoundedOn(Less, Nat)
  BY NatLessThanWellFounded, Zenon DEF OpToRel, Less
<1>2. \E x \in T : \A y \in T : ~(<<y, x>> \in Less)
  BY <1>1, WFMin, Zenon
<1> QED
  BY <1>2 DEF Less

(* A text with a block has a first one, which pem.Decode returns.          *)
LEMMA SomeBlockDecodes ==
  ASSUME text \in Texts, NEW b \in DOMAIN text, IsBlock(b)
  PROVE  Decoded
<1> DEFINE blocks == {i \in DOMAIN text : IsBlock(i)}
<1>1. blocks \in SUBSET Nat /\ blocks # {}
  BY TextFacts
<1>2. PICK x \in blocks : \A y \in blocks : ~(y < x)
  <2> HIDE DEF blocks
  <2> QED
    BY <1>1, FirstPosition
<1>3. \A j \in 1..(x-1) : ~IsBlock(j)
  BY <1>1, <1>2, TextFacts
<1> QED
  BY <1>2, <1>3 DEF Decoded, Decodes

(* Only one block can be the one that pem.Decode returns.                  *)
LEMMA DecodesIsUnique ==
  ASSUME text \in Texts, NEW i, NEW j, Decodes(i), Decodes(j)
  PROVE  i = j
BY TextFacts DEF Decodes

(* A text that starts with a block has that one returned.                  *)
LEMMA FirstBlockDecodes ==
  ASSUME text \in Texts, NEW i, StartsWith(i), IsBlock(i)
  PROVE  Decodes(i) /\ Begins /\ ~Empty
<1>1. \A j \in 1..(i-1) : ~IsBlock(j)
  BY DEF StartsWith, IsContent, IsBlock
<1> QED
  BY <1>1 DEF Decodes, StartsWith, IsBegin, IsBlock, Begins, Empty

(* What ParseDER is reached with is one request.                           *)
LEMMA AloneIsOneRequest ==
  ASSUME text \in Texts, Begins, Alone
  PROVE  IsOneRequest
<1> USE DEF Alone, Bare, Labelled, Decodes
<1>1. PICK s \in DOMAIN text : StartsWith(s) /\ IsBegin(s)
  BY DEF Begins
<1>2. \A j \in DOMAIN text : IsContent(j) => j <= block
  BY TextFacts DEF NothingAfter
<1>3. IsContent(s)
  BY <1>1 DEF StartsWith
<1>4. s \in 1..block
  BY <1>2, <1>3, TextFacts
<1>5. \A j \in DOMAIN text : IsBlock(j) => j = block
  <2> SUFFICES ASSUME NEW j \in DOMAIN text, IsBlock(j) PROVE j = block
    OBVIOUS
  <2>1. j <= block
    BY <1>2 DEF IsContent, IsBlock
  <2> QED
    BY <2>1, TextFacts
<1>6. \A k \in 1..(s-1) : ~IsContent(k)
  BY <1>1 DEF StartsWith
<1> QED
  BY <1>1, <1>2, <1>4, <1>5, <1>6 DEF IsOneRequest

-----------------------------------------------------------------------------
(* The invariant.                                                          *)

LEMMA InitIntakeInv == Init => IntakeInv
<1> SUFFICES ASSUME Init PROVE IntakeInv
  OBVIOUS
<1>1. TypeOK
  BY TextFacts DEF Init, TypeOK, Stages, Verdicts, Failures, Codes
<1> QED
  BY <1>1 DEF Init, IntakeInv, StageInv, ErrorInv, ReplyInv, VerdictInv

(* The text stays as it is, and with it what is said of it.                *)
LEMMA SameText ==
  ASSUME UNCHANGED text
  PROVE  /\ Empty' = Empty
         /\ Begins' = Begins
         /\ Decoded' = Decoded
         /\ \A i : IsBlock(i)' = IsBlock(i)
         /\ \A i : StartsWith(i)' = StartsWith(i)
         /\ UNCHANGED block => /\ Decodes(block)' = Decodes(block)
                               /\ NothingAfter(block)' = NothingAfter(block)
BY DEF Empty, Begins, Decoded, StartsWith, IsBegin, IsBlock, IsContent, Decodes, NothingAfter

(* A check of ParsePEM at stage "here" that leaves block alone keeps what  *)
(* is known, if passing establishes what the next stage needs and failing  *)
(* what the error says.                                                    *)
LEMMA CheckKeepsInv ==
  ASSUME IntakeInv, NEW passes \in BOOLEAN, UNCHANGED block,
         NEW here, NEW next \in Stages, NEW err \in Failures \ {"none"},
         here \in Stages \ {"page", "parsed", "failed", "refused", "answered"},
         next \notin {"page", "failed", "refused", "answered"},
         Check(here, passes, next, err),
         passes => StageInv',
         ~passes => ErrorInv'
  PROVE  IntakeInv'
<1>1. TypeOK'
  BY DEF IntakeInv, TypeOK, Check, Stages
<1>2. error = "none"
  BY DEF IntakeInv, ReplyInv, Check
<1>3. StageInv'
  BY DEF StageInv, Check
<1>4. ErrorInv'
  BY <1>2 DEF ErrorInv, Check
<1>5. ReplyInv'
  BY <1>2 DEF IntakeInv, ReplyInv, Check
<1>6. VerdictInv'
  BY SameText DEF IntakeInv, VerdictInv, Check
<1> QED
  BY <1>1, <1>3, <1>4, <1>5, <1>6 DEF IntakeInv

LEMMA NextIntakeInv == IntakeInv /\ [Next]_vars => IntakeInv'
<1> SUFFICES ASSUME IntakeInv, [Next]_vars PROVE IntakeInv'
  OBVIOUS
<1>0. text \in Texts
  BY DEF IntakeInv, TypeOK
<1>1. CASE UNCHANGED vars
  BY <1>1, SameText DEF vars, IntakeInv, TypeOK, StageInv, ErrorInv, ReplyInv, VerdictInv, Labelled,
                        Bare, Alone, ClassifyParseError
<1>2. CASE CheckOnPage
  <2>1. TypeOK'
    BY <1>2, TextFacts DEF CheckOnPage, ValidatePEMHeader, IntakeInv, TypeOK, Stages, Verdicts
  <2>2. StageInv' /\ ErrorInv' /\ ReplyInv'
    BY <1>2 DEF CheckOnPage, IntakeInv, StageInv, ErrorInv, ReplyInv
  <2>3. VerdictInv'
    <3> SUFFICES ASSUME NEW i \in DOMAIN text, StartsWith(i), IsBlock(i)
                 PROVE  verdict' = VerdictOf(text[i].label)
      BY <1>2, SameText DEF CheckOnPage, VerdictInv
    <3>1. ~Empty
      BY FirstBlockDecodes, <1>0
    <3>2. \A j \in DOMAIN text : StartsWith(j) => j = i
      BY <1>0, TextFacts DEF StartsWith
    <3> QED
      BY <1>2, <3>1, <3>2 DEF CheckOnPage, ValidatePEMHeader, VerdictOf, IsBegin, IsBlock
  <2> QED
    BY <2>1, <2>2, <2>3 DEF IntakeInv
<1>3. CASE CheckEmpty
  <2>1. ~Empty => StageInv'
    BY <1>3, SameText DEF CheckEmpty, Check, StageInv
  <2>2. Empty => ErrorInv'
    BY <1>3, SameText DEF CheckEmpty, Check, ErrorInv
  <2> QED
    BY <1>3, <2>1, <2>2, CheckKeepsInv DEF CheckEmpty, Stages, Failures
<1>4. CASE CheckPrefix
  <2>1. ~Empty
    BY <1>4 DEF CheckPrefix, Check, IntakeInv, StageInv
  <2>2. Begins => StageInv'
    BY <1>4, <2>1, SameText DEF CheckPrefix, Check, StageInv, Begins
  <2>3. ~Begins => ErrorInv'
    BY <1>4, <2>1, SameText DEF CheckPrefix, Check, ErrorInv, Begins
  <2> QED
    BY <1>4, <2>2, <2>3, CheckKeepsInv DEF CheckPrefix, Begins, Stages, Failures
<1>5. CASE DecodeBlock
  <2>1. ~Empty /\ Begins /\ error = "none" /\ reply = "none"
    BY <1>5 DEF DecodeBlock, Check, IntakeInv, StageInv, ReplyInv
  <2>2. CASE Decoded
    <3>1. PICK i \in DOMAIN text : Decodes(i) /\ block' = i
      BY <1>5, <2>2 DEF DecodeBlock, Decoded
    <3>2. stage' = "type" /\ UNCHANGED <<text, direct, verdict, error, reply>>
      BY <1>5, <2>2 DEF DecodeBlock, Check, Decoded
    <3>3. Decodes(block)'
      BY <3>1, <3>2 DEF Decodes, IsBlock
    <3>4. TypeOK'
      BY <1>0, <3>1, <3>2, TextFacts DEF IntakeInv, TypeOK, Stages
    <3>5. StageInv' /\ ErrorInv' /\ ReplyInv'
      BY <2>1, <3>2, <3>3, SameText DEF StageInv, ErrorInv, ReplyInv
    <3>6. VerdictInv'
      BY <1>5, <3>2, SameText DEF IntakeInv, VerdictInv, DecodeBlock, Check
    <3> QED
      BY <3>4, <3>5, <3>6 DEF IntakeInv
  <2>3. CASE ~Decoded
    <3>1. UNCHANGED block
      BY <1>5, <2>3 DEF DecodeBlock, Decoded
    <3>2. ErrorInv'
      BY <1>5, <2>1, <2>3, <3>1, SameText DEF DecodeBlock, Check, Decoded, ErrorInv
    <3> QED
      BY <1>5, <2>3, <3>1, <3>2, CheckKeepsInv DEF DecodeBlock, Decoded, Stages, Failures
  <2> QED
    BY <2>2, <2>3
<1>6. CASE CheckType
  <2>1. ~Empty /\ Begins /\ Decodes(block)
    BY <1>6 DEF CheckType, Check, IntakeInv, StageInv
  <2>2. text[block].label \in CSRLabels => StageInv'
    BY <1>6, <2>1, SameText DEF CheckType, Check, StageInv, Labelled
  <2>3. text[block].label \notin CSRLabels => ErrorInv'
    BY <1>6, <2>1, SameText DEF CheckType, Check, ErrorInv
  <2> DEFINE labelled == text[block].label \in CSRLabels
  <2>4. labelled \in BOOLEAN
    OBVIOUS
  <2>5. Check("type", labelled, "headers", "UnsupportedPEMTypeError") /\ UNCHANGED block
    BY <1>6 DEF CheckType
  <2> HIDE DEF labelled
  <2>6. (labelled => StageInv') /\ (~labelled => ErrorInv')
    BY <2>2, <2>3 DEF labelled
  <2> QED
    BY <2>4, <2>5, <2>6, CheckKeepsInv DEF Stages, Failures
<1>7. CASE CheckHeaders
  <2>1. ~Empty /\ Begins /\ Labelled
    BY <1>7 DEF CheckHeaders, Check, IntakeInv, StageInv
  <2>2. text[block].headers \in BOOLEAN
    BY <1>0, <2>1, TextFacts DEF Labelled, Decodes, Segments
  <2>3. ~text[block].headers => StageInv'
    BY <1>7, <2>1, SameText DEF CheckHeaders, Check, StageInv, Labelled, Bare
  <2>4. text[block].headers => ErrorInv'
    BY <1>7, <2>1, SameText DEF CheckHeaders, Check, ErrorInv, Labelled
  <2> QED
    BY <1>7, <2>2, <2>3, <2>4, CheckKeepsInv DEF CheckHeaders, Stages, Failures
<1>8. CASE CheckRest
  <2>1. ~Empty /\ Begins /\ Bare
    BY <1>8 DEF CheckRest, Check, IntakeInv, StageInv
  <2>2. NothingAfter(block) => StageInv'
    BY <1>8, <2>1, SameText DEF CheckRest, Check, StageInv, Labelled, Bare, Alone
  <2>3. ~NothingAfter(block) => ErrorInv'
    BY <1>8, <2>1, SameText DEF CheckRest, Check, ErrorInv, Labelled, Bare
  <2>4. NothingAfter(block) \in BOOLEAN
    BY DEF NothingAfter
  <2> QED
    BY <1>8, <2>2, <2>3, <2>4, CheckKeepsInv DEF CheckRest, Stages, Failures
<1>9. CASE ParseDER
  <2>1. PICK wellFormed \in BOOLEAN : Check("der", wellFormed, "parsed", "ASN.1") /\ UNCHANGED block
    BY <1>9 DEF ParseDER
  <2>2. ~Empty /\ Begins /\ Alone
    BY <2>1 DEF Check, IntakeInv, StageInv
  <2>3. wellFormed => StageInv'
    BY <2>1, <2>2, SameText DEF Check, StageInv, Labelled, Bare, Alone
  <2>4. ~wellFormed => ErrorInv'
    BY <2>1, <2>2, SameText DEF Check, ErrorInv, Labelled, Bare, Alone
  <2> QED
    BY <2>1, <2>3, <2>4, CheckKeepsInv DEF Stages, Failures
<1>10. CASE WriteParseError
  <2>1. error \in Failures \ {"none"}
    BY <1>10 DEF WriteParseError, IntakeInv, TypeOK, ReplyInv
  <2>2. TypeOK'
    BY <1>10, <2>1 DEF WriteParseError, Answer, IntakeInv, TypeOK, Stages, Codes, ClassifyParseError,
                       ClassifyUnsupportedPEMType, Is, Unwrap, Failures
  <2>3. ReplyInv'
    BY <1>10, <2>1 DEF WriteParseError, Answer, ReplyInv, ClassifyParseError
  <2> QED
    BY <1>10, <2>2, <2>3, SameText DEF WriteParseError, Answer, IntakeInv, StageInv, ErrorInv,
                                       VerdictInv, Labelled, Bare, Alone
<1>11. CASE WriteInfo
  <2>1. error = "none" /\ ~Empty /\ Begins /\ Alone
    BY <1>11 DEF WriteInfo, IntakeInv, StageInv, ReplyInv
  <2>2. TypeOK'
    BY <1>11 DEF WriteInfo, Answer, IntakeInv, TypeOK, Stages, Codes
  <2> QED
    BY <1>11, <2>1, <2>2, SameText DEF WriteInfo, Answer, IntakeInv, StageInv, ErrorInv, ReplyInv,
                                       VerdictInv, Labelled, Bare, Alone
<1> QED
  BY <1>1, <1>2, <1>3, <1>4, <1>5, <1>6, <1>7, <1>8, <1>9, <1>10, <1>11 DEF Next

LEMMA SpecKeepsIntakeInv == Spec => []IntakeInv
BY InitIntakeInv, NextIntakeInv, PTL DEF Spec

-----------------------------------------------------------------------------
(* What the invariant says of the answers.                                 *)

(* Every variable keeps its type.                                          *)
THEOREM TypeCorrect == Spec => []TypeOK
<1>1. IntakeInv => TypeOK
  BY DEF IntakeInv
<1> QED
  BY <1>1, SpecKeepsIntakeInv, PTL

(* The answers that an error gets, by the error.                           *)
LEMMA AnswerOf ==
  ASSUME IntakeInv, reply # "none", reply # "ok"
  PROVE  /\ error \in Failures \ {"none"}
         /\ reply = "empty_request" <=> error = "ErrEmptyInput"
         /\ reply = "invalid_pem" <=> error = "ErrInvalidPEM"
         /\ reply = "unsupported_pem_headers" <=> error = "ErrPEMHeaders"
         /\ reply = "unexpected_trailing_data" <=> error = "ErrTrailingData"
         /\ reply = "csr_parse_failed" <=> error = "ASN.1"
         /\ error = "UnsupportedPEMTypeError" => reply = ClassifyUnsupportedPEMType(text[block].label)
<1>1. stage = "answered" /\ error \in Failures \ {"none"} /\ reply = ClassifyParseError(error)
  BY DEF IntakeInv, TypeOK, ReplyInv
<1> QED
  BY <1>1 DEF ClassifyParseError, ClassifyUnsupportedPEMType, Is, Unwrap, Failures

(* ParsePEM parses DER, and an answer is about DER, only when the text is  *)
(* exactly one certificate request.                                        *)
THEOREM OneRequest == Spec => []OnlyOneRequestIsParsed
<1>1. IntakeInv => OnlyOneRequestIsParsed
  <2> SUFFICES ASSUME IntakeInv, stage \in {"der", "parsed"} \/ reply \in {"ok", "csr_parse_failed"}
               PROVE  IsOneRequest
    BY DEF OnlyOneRequestIsParsed
  <2>1. text \in Texts
    BY DEF IntakeInv, TypeOK
  <2>2. CASE stage \in {"der", "parsed"}
    BY <2>1, <2>2, AloneIsOneRequest DEF IntakeInv, StageInv
  <2>3. CASE reply = "ok"
    <3>1. error = "none"
      BY <2>3 DEF IntakeInv, ReplyInv, ClassifyParseError, ClassifyUnsupportedPEMType
    <3> QED
      BY <2>1, <2>3, <3>1, AloneIsOneRequest DEF IntakeInv, ReplyInv
  <2>4. CASE reply = "csr_parse_failed"
    <3>1. error = "ASN.1"
      BY <2>4, AnswerOf
    <3> QED
      BY <2>1, <3>1, AloneIsOneRequest DEF IntakeInv, ErrorInv
  <2> QED
    BY <2>2, <2>3, <2>4
<1> QED
  BY <1>1, SpecKeepsIntakeInv, PTL

(* The code of an answer names a fault that the text has.                  *)
THEOREM CodesAreRight == Spec => []CodeNamesTheFault
<1>1. IntakeInv => CodeNamesTheFault
  <2> SUFFICES ASSUME IntakeInv PROVE CodeNamesTheFault
    OBVIOUS
  <2>0. text \in Texts
    BY DEF IntakeInv, TypeOK
  <2>1. CASE reply = "none"
    BY <2>1 DEF CodeNamesTheFault
  <2>2. CASE reply = "ok"
    <3>1. error = "none"
      BY <2>2 DEF IntakeInv, ReplyInv, ClassifyParseError, ClassifyUnsupportedPEMType
    <3> QED
      BY <2>2, <3>1 DEF CodeNamesTheFault, IntakeInv, ReplyInv
  <2>3. CASE reply \notin {"none", "ok"}
    <3>1. error \notin {"none", "ErrEmptyInput", "ErrInvalidPEM"} =>
            /\ block \in DOMAIN text
            /\ IsBlock(block)
            /\ text[block].label \in Labels
      BY <2>0, TextFacts DEF IntakeInv, ErrorInv, Decodes, IsBlock, Segments
    <3>2. reply = "empty_request" <=> Empty
      BY <2>3, AnswerOf DEF IntakeInv, ErrorInv
    <3>3. reply = "invalid_pem" => ~Begins \/ ~Contains(Labels)
      BY <2>0, <2>3, AnswerOf, SomeBlockDecodes DEF IntakeInv, ErrorInv, Contains
    <3>4. reply \in {"certificate_instead_of_csr", "private_key_instead_of_csr", "unsupported_pem_type"} =>
            /\ error = "UnsupportedPEMTypeError"
            /\ reply = ClassifyUnsupportedPEMType(text[block].label)
            /\ text[block].label \notin CSRLabels
      BY <2>3, AnswerOf DEF Failures, IntakeInv, ErrorInv
    <3>5. /\ reply = "certificate_instead_of_csr" => Contains(CertLabels)
          /\ reply = "private_key_instead_of_csr" => Contains(ServerKeyLabels)
          /\ reply = "unsupported_pem_type" =>
               Contains(Labels \ (CSRLabels \union CertLabels \union ServerKeyLabels))
      BY <3>1, <3>4 DEF ClassifyUnsupportedPEMType, Contains
    <3>6. reply = "unsupported_pem_headers" => \E i \in DOMAIN text : IsBlock(i) /\ text[i].headers
      BY <2>3, <3>1, AnswerOf DEF IntakeInv, ErrorInv
    <3>7. reply = "unexpected_trailing_data" => \E i \in DOMAIN text : IsBlock(i) /\ ~NothingAfter(i)
      BY <2>3, <3>1, AnswerOf DEF IntakeInv, ErrorInv
    <3> QED
      BY <2>3, <3>2, <3>3, <3>5, <3>6, <3>7 DEF CodeNamesTheFault, Begins
  <2> QED
    BY <2>1, <2>2, <2>3
<1> QED
  BY <1>1, SpecKeepsIntakeInv, PTL

(* The page's word on a text that starts with a block is the server's, for *)
(* every label but OPENSSH PRIVATE KEY, where the two are known to differ. *)
THEOREM PageAgreesWithServer == Spec => []PageSpeaksForServer
<1>1. IntakeInv => PageSpeaksForServer
  <2> DEFINE unknownToPage(i) == text[i].label = "OPENSSH PRIVATE KEY"
  <2> SUFFICES ASSUME IntakeInv, NEW i \in DOMAIN text, StartsWith(i), IsBlock(i), reply # "none"
               PROVE  /\ verdict = "valid" <=> reply \in Accepted
                      /\ verdict = "certificate" <=> reply = "certificate_instead_of_csr"
                      /\ verdict = "privateKey" <=>
                           reply = "private_key_instead_of_csr" /\ ~unknownToPage(i)
                      /\ verdict \in {"noHeader", "unsupported"} <=>
                           reply = "unsupported_pem_type" \/ unknownToPage(i)
                      /\ unknownToPage(i) => reply = "private_key_instead_of_csr"
    BY DEF PageSpeaksForServer
  <2>1. text \in Texts /\ stage = "answered"
    BY DEF IntakeInv, TypeOK, ReplyInv
  <2>2. Decodes(i) /\ Begins /\ ~Empty
    BY <2>1, FirstBlockDecodes
  <2>3. verdict = VerdictOf(text[i].label)
    BY <2>1 DEF IntakeInv, VerdictInv
  <2>4. CASE reply = "ok"
    <3>1. Labelled
      BY <2>1, <2>4 DEF IntakeInv, ReplyInv, Alone, Bare, ClassifyParseError, ClassifyUnsupportedPEMType
    <3>2. text[i].label \in CSRLabels
      BY <2>1, <2>2, <3>1, DecodesIsUnique DEF Labelled
    <3> QED
      BY <2>3, <2>4, <3>2, LabelsAssumption DEF VerdictOf, Accepted, CSRLabels
  <2>5. CASE reply # "ok"
    <3>1. error \notin {"none", "ErrEmptyInput", "ErrInvalidPEM"}
      BY <2>2, <2>5, AnswerOf DEF IntakeInv, ErrorInv, Decoded, Decodes
    <3>2. block = i
      BY <2>1, <2>2, <3>1, DecodesIsUnique DEF IntakeInv, ErrorInv
    <3>3. CASE error = "UnsupportedPEMTypeError"
      <4>1. reply = ClassifyUnsupportedPEMType(text[i].label) /\ text[i].label \notin CSRLabels
        BY <2>5, <3>2, <3>3, AnswerOf DEF IntakeInv, ErrorInv
      <4> QED
        BY <2>3, <4>1, LabelsAssumption DEF VerdictOf, ClassifyUnsupportedPEMType, CertLabels,
                                           PageKeyLabels, ServerKeyLabels, Accepted
    <3>4. CASE error # "UnsupportedPEMTypeError"
      <4>1. error \in {"ErrPEMHeaders", "ErrTrailingData", "ASN.1"}
        BY <2>5, <3>1, <3>4, AnswerOf DEF Failures
      <4>2. reply \in {"unsupported_pem_headers", "unexpected_trailing_data", "csr_parse_failed"}
        BY <2>5, <4>1, AnswerOf
      <4>3. text[i].label \in CSRLabels
        BY <3>2, <4>1 DEF IntakeInv, ErrorInv, Alone, Bare, Labelled
      <4> QED
        BY <2>3, <4>2, <4>3, LabelsAssumption DEF VerdictOf, Accepted, CSRLabels
    <3> QED
      BY <3>3, <3>4
  <2> QED
    BY <2>4, <2>5
<1> QED
  BY <1>1, SpecKeepsIntakeInv, PTL

============================================================================
