--------------------------- MODULE Findings_proofs ---------------------------
(***************************************************************************)
(* What the analysis guarantees for every set of requests: that sorting    *)
(* only sorts, and that what is said of names is exact.                    *)
(***************************************************************************)
EXTENDS Findings, ListLemmas

FindingRecords == [code : DOMAIN Severity, about : Keys]

-----------------------------------------------------------------------------
(* Texts.                                                                  *)

(* The parts of a text.                                                    *)
LEMMA TextFields ==
  ASSUME NEW t \in Texts
  PROVE  /\ t.core \in Cores /\ t.caps \in BOOLEAN /\ t.dot \in BOOLEAN /\ t.padded \in BOOLEAN
         /\ t.core = EmptyCore => ~t.caps
         /\ t = [core |-> t.core, caps |-> t.caps, dot |-> t.dot, padded |-> t.padded]
BY DEF Texts

LEMMA PlainIsText ==
  ASSUME NEW core \in Cores
  PROVE  Plain(core) \in Texts
BY DEF Plain, Texts

LEMMA EmptyTextIsText == EmptyText \in Texts
BY FindingsAssumption, PlainIsText DEF EmptyText

LEMMA TrimSpaceType ==
  ASSUME NEW t \in Texts
  PROVE  TrimSpace(t) \in Texts
BY DEF Texts, TrimSpace

LEMMA ToLowerType ==
  ASSUME NEW t \in Texts
  PROVE  ToLower(t) \in Texts
BY DEF Texts, ToLower

(* Whatever the type of a name, its normal form is a text.                 *)
LEMMA NormalizeType ==
  ASSUME NEW type \in Types, NEW t \in Texts
  PROVE  Normalize(type, t) \in Texts
<1>1. NormalizeDNSName(t) \in Texts
  BY DEF NormalizeDNSName, ToLower, TrimSpace, Texts
<1>2. NormalizeIPAddress(t) \in Texts
  <2>1. TrimSpace(t).core = t.core
    BY DEF TrimSpace, Texts
  <2>2. t.core \in Addresses => Canonical[t.core] \in Cores
    BY FindingsAssumption
  <2> QED
    BY <2>1, <2>2, TrimSpaceType, PlainIsText DEF NormalizeIPAddress, IsIP
<1> QED
  BY <1>1, <1>2, TrimSpaceType, ToLowerType DEF Normalize

(* What parseSANFromExtensions keeps of a name.                            *)
Kept(name) == IF name.type = "IP address" THEN Plain(Canonical[name.text.core]) ELSE name.text

(* What is kept of a name is a text.                                       *)
LEMMA KeptType ==
  ASSUME NEW name \in Names
  PROVE  Kept(name) \in Texts
<1>1. name.text \in Texts /\ (name.type = "IP address" => name.text.core \in Addresses)
  BY DEF Names
<1>2. name.type = "IP address" => Canonical[name.text.core] \in Cores
  BY <1>1, FindingsAssumption
<1> QED
  BY <1>1, <1>2, PlainIsText DEF Kept

-----------------------------------------------------------------------------
(* The list that duplicates are looked for in.                             *)

EntryRecords == [type : Types, text : Texts]

(* The entries of one type are its texts, in their order.                  *)
LEMMA EntriesType ==
  ASSUME san \in [Types -> Seq(Texts)], NEW type \in Types
  PROVE  /\ Entries(type) \in Seq(EntryRecords)
         /\ Len(Entries(type)) = Len(san[type]) /\ Len(san[type]) \in Nat
         /\ \A n \in 1..Len(san[type]) : Entries(type)[n] = [type |-> type, text |-> san[type][n]]
<1>1. san[type] \in Seq(Texts)
  OBVIOUS
<1>2. DOMAIN san[type] = 1..Len(san[type]) /\ Len(san[type]) \in Nat /\ \A n \in 1..Len(san[type]) : san[type][n] \in Texts
  BY <1>1
<1>3. Entries(type) = [n \in 1..Len(san[type]) |-> [type |-> type, text |-> san[type][n]]]
  BY <1>2 DEF Entries
<1>4. \A n \in 1..Len(san[type]) : [type |-> type, text |-> san[type][n]] \in EntryRecords
  BY <1>2 DEF EntryRecords
<1>5. Entries(type) \in Seq(EntryRecords) /\ Len(Entries(type)) = Len(san[type])
  BY <1>2, <1>3, <1>4
<1> QED
  BY <1>2, <1>3, <1>5

LEMMA TypesAreTypes == "DNS" \in Types /\ "IP address" \in Types /\ "email" \in Types /\ "URI" \in Types
BY DEF Types

(* The list is as long as the lists of the four types together.            *)
LEMMA AllEntriesType ==
  ASSUME san \in [Types -> Seq(Texts)]
  PROVE  /\ AllEntries \in Seq(EntryRecords)
         /\ Len(AllEntries) = Len(san["DNS"]) + Len(san["IP address"]) + Len(san["email"]) + Len(san["URI"])
<1>1. PICK a, b, c, d : a = Entries("DNS") /\ b = Entries("IP address") /\ c = Entries("email") /\ d = Entries("URI")
  OBVIOUS
<1>2. a \in Seq(EntryRecords) /\ b \in Seq(EntryRecords) /\ c \in Seq(EntryRecords) /\ d \in Seq(EntryRecords)
  BY <1>1, EntriesType, TypesAreTypes
<1>3. (((a \o b) \o c) \o d) \in Seq(EntryRecords) /\ Len(((a \o b) \o c) \o d) = Len(a) + Len(b) + Len(c) + Len(d)
  BY <1>2
<1> QED
  BY <1>1, <1>3, EntriesType, TypesAreTypes DEF AllEntries

-----------------------------------------------------------------------------
(* Sorting.                                                                *)

LEMMA RankType ==
  ASSUME NEW f \in FindingRecords
  PROVE  Rank(f) \in Nat /\ CodeIndex(f.code) \in Nat
<1>1. f.code \in DOMAIN Severity
  BY DEF FindingRecords
<1>2. Severity[f.code] \in {"error", "warning", "info"}
  BY <1>1 DEF Severity
<1>3. Rank(f) \in Nat
  BY <1>2 DEF Rank, SeverityRank
<1>4. DOMAIN CodeOrder = 1..11
  BY DEF CodeOrder
<1>5. \E n \in 1..11 : CodeOrder[n] = f.code
  BY <1>1 DEF Severity, CodeOrder
<1> QED
  BY <1>3, <1>4, <1>5 DEF CodeIndex

(* Less is a strict weak order, and what is not less is sorted as the      *)
(* properties say.                                                         *)
LEMMA LessIsAnOrder ==
  ASSUME NEW f \in FindingRecords, NEW g \in FindingRecords, NEW h \in FindingRecords
  PROVE  /\ ~Less(f, f)
         /\ Less(f, g) => ~Less(g, f)
         /\ Less(f, g) /\ Less(g, h) => Less(f, h)
         /\ ~Less(f, g) /\ ~Less(g, h) => ~Less(f, h)
         /\ ~Less(g, f) => /\ Rank(f) <= Rank(g)
                           /\ Rank(f) = Rank(g) => CodeIndex(f.code) <= CodeIndex(g.code)
<1>1. PICK rf, rg, rh, cf, cg, ch \in Nat :
        /\ rf = Rank(f) /\ rg = Rank(g) /\ rh = Rank(h)
        /\ cf = CodeIndex(f.code) /\ cg = CodeIndex(g.code) /\ ch = CodeIndex(h.code)
  BY RankType
<1> QED
  BY <1>1 DEF Less

(* The order of sort.SliceStable: by Less, and by place where that tells   *)
(* nothing apart.                                                          *)
Comes(m, n) ==
  \/ Less(findings[m], findings[n])
  \/ m < n /\ ~Less(findings[n], findings[m])

(* With the place as a tie-break it is a total order.                      *)
LEMMA ComesIsTotal ==
  ASSUME findings \in Seq(FindingRecords),
         NEW i \in DOMAIN findings, NEW j \in DOMAIN findings, NEW k \in DOMAIN findings
  PROVE  /\ ~Comes(i, i)
         /\ Comes(i, j) /\ Comes(j, k) => Comes(i, k)
         /\ i # j => Comes(i, j) \/ Comes(j, i)
<1>1. findings[i] \in FindingRecords /\ findings[j] \in FindingRecords /\ findings[k] \in FindingRecords
  OBVIOUS
<1>2. i \in Nat /\ j \in Nat /\ k \in Nat
  OBVIOUS
<1> DEFINE L(m, n) == Less(findings[m], findings[n])
<1>3. /\ ~L(i, i)
      /\ L(i, j) => ~L(j, i)
      /\ L(i, j) /\ L(j, k) => L(i, k)
      /\ ~L(k, j) /\ ~L(j, i) => ~L(k, i)
      /\ ~L(j, i) /\ ~L(i, k) => ~L(j, k)
      /\ ~L(i, k) /\ ~L(k, j) => ~L(i, j)
  BY <1>1, LessIsAnOrder, Zenon
<1>4. \A m, n : Comes(m, n) <=> L(m, n) \/ (m < n /\ ~L(n, m))
  BY DEF Comes
<1> HIDE DEF L
<1>5. ~Comes(i, i)
  BY <1>2, <1>3, <1>4
<1>6. ASSUME Comes(i, j), Comes(j, k) PROVE Comes(i, k)
  <2>1. CASE L(i, k)
    BY <1>4, <2>1
  <2>2. CASE ~L(i, k)
    <3>1. i < j /\ ~L(j, i) /\ j < k /\ ~L(k, j)
      BY <1>3, <1>4, <1>6, <2>2, Zenon
    <3> QED
      BY <1>2, <1>3, <1>4, <3>1
  <2> QED
    BY <2>1, <2>2
<1>7. ASSUME i # j PROVE Comes(i, j) \/ Comes(j, i)
  BY <1>2, <1>3, <1>4, <1>7
<1> QED
  BY <1>5, <1>6, <1>7

(* SortFindings puts the findings in the order of their positions.         *)
Sorting == [n \in DOMAIN findings |-> CHOOSE m \in DOMAIN findings : Position(m) = n]

(* Each position is taken by one finding, so that the CHOOSE of            *)
(* SortFindings has a value.                                               *)
LEMMA SortingIsAPermutation ==
  ASSUME findings \in Seq(FindingRecords)
  PROVE  /\ Permutes(Sorting, DOMAIN findings)
         /\ \A m, n \in DOMAIN findings : m < n => ~Less(findings[Sorting[n]], findings[Sorting[m]])
<1>1. PICK N \in Nat : N = Len(findings) /\ DOMAIN findings = 1..N
  OBVIOUS
<1>2. PICK R : R = {p \in (1..N) \X (1..N) : Comes(p[1], p[2])}
  OBVIOUS
<1>3. \A m, n \in 1..N : <<m, n>> \in R <=> Comes(m, n)
  BY <1>2
<1>4. PICK place : place = Places(R, N)
  OBVIOUS
<1>5. \A n \in 1..N : place[n] = Position(n)
  <2> SUFFICES ASSUME NEW n \in 1..N PROVE place[n] = Position(n)
    OBVIOUS
  <2>1. {j \in 1..N : <<j, n>> \in R} = {m \in DOMAIN findings :
          \/ Less(findings[m], findings[n])
          \/ m < n /\ ~Less(findings[n], findings[m])}
    BY <1>1, <1>3 DEF Comes
  <2> QED
    BY <1>4, <2>1 DEF Position, Places
<1>6. /\ place \in [1..N -> 1..N]
      /\ \A i, j \in 1..N : <<i, j>> \in R <=> place[i] < place[j]
      /\ \A i, j \in 1..N : place[i] = place[j] => i = j
      /\ \A k \in 1..N : \E i \in 1..N : place[i] = k
  <2>1. ASSUME NEW i \in 1..N, NEW j \in 1..N, NEW k \in 1..N
        PROVE  /\ ~Comes(i, i)
               /\ Comes(i, j) /\ Comes(j, k) => Comes(i, k)
               /\ i # j => Comes(i, j) \/ Comes(j, i)
    BY <1>1, ComesIsTotal, Zenon
  <2>2. Orders(R, N)
    BY <1>3, <2>1, Zenon DEF Orders
  <2>3. EachPlaceIsTaken(R, N)
    BY <2>2, PlacesInOrder
  <2> QED
    BY <1>4, <2>3 DEF EachPlaceIsTaken
<1>7. \A n \in 1..N : Sorting[n] \in 1..N /\ place[Sorting[n]] = n
  <2> SUFFICES ASSUME NEW n \in 1..N PROVE Sorting[n] \in 1..N /\ place[Sorting[n]] = n
    OBVIOUS
  <2>1. \E m \in 1..N : Position(m) = n
    BY <1>5, <1>6
  <2>2. Sorting[n] = CHOOSE m \in 1..N : Position(m) = n
    BY <1>1 DEF Sorting
  <2>3. Sorting[n] \in 1..N /\ Position(Sorting[n]) = n
    BY <2>1, <2>2, Zenon
  <2> QED
    BY <1>5, <2>3
<1>8. Sorting \in [1..N -> 1..N]
  BY <1>1, <1>7 DEF Sorting
<1>9. \A m, n \in 1..N : Sorting[m] = Sorting[n] => m = n
  BY <1>7
<1>10. \A k \in 1..N : \E n \in 1..N : Sorting[n] = k
  <2> SUFFICES ASSUME NEW k \in 1..N PROVE \E n \in 1..N : Sorting[n] = k
    OBVIOUS
  <2>1. PICK n \in 1..N : place[k] = n
    BY <1>6
  <2>2. Sorting[n] \in 1..N /\ place[Sorting[n]] = place[k]
    BY <1>7, <2>1
  <2> QED
    BY <1>6, <2>2
<1>11. ASSUME NEW m \in 1..N, NEW n \in 1..N, m < n
       PROVE  ~Less(findings[Sorting[n]], findings[Sorting[m]])
  <2>1. PICK i, j \in 1..N : i = Sorting[m] /\ j = Sorting[n] /\ place[i] = m /\ place[j] = n
    BY <1>7
  <2>2. ~(place[j] < place[i])
    BY <1>11, <2>1
  <2>3. ~Comes(j, i)
    BY <1>3, <1>6, <2>2
  <2> QED
    BY <2>1, <2>3 DEF Comes
<1> QED
  BY <1>1, <1>8, <1>9, <1>10, <1>11 DEF Permutes

(* What sorting keeps, and what it brings about.                           *)
LEMMA SortEffect ==
  ASSUME findings \in Seq(FindingRecords), SortFindings
  PROVE  /\ findings' \in Seq(FindingRecords)
         /\ Range(findings') = Range(findings)
         /\ \A T : Cardinality(Where(findings', T)) = Cardinality(Where(findings, T))
         /\ \A m, n \in DOMAIN findings' : m < n => ~Less(findings'[n], findings'[m])
<1>1. findings' = [n \in DOMAIN findings |-> findings[Sorting[n]]]
  BY DEF SortFindings, Sorting
<1>2. /\ findings' \in Seq(FindingRecords) /\ DOMAIN findings' = DOMAIN findings
      /\ Range(findings') = Range(findings)
      /\ \A T : Cardinality(Where(findings', T)) = Cardinality(Where(findings, T))
  BY <1>1, SortingIsAPermutation, WhereOfPermuted
<1>3. \A m, n \in DOMAIN findings' : m < n => ~Less(findings'[n], findings'[m])
  BY <1>1, <1>2, SortingIsAPermutation
<1> QED
  BY <1>2, <1>3

(* What SortedReport says of one step.                                     *)
LEMMA SortingOnlySorts ==
  ASSUME findings \in Seq(FindingRecords), SortFindings
  PROVE  LET count(fs, f) == Cardinality({n \in DOMAIN fs : fs[n] = f})
         IN /\ \A f \in {findings[n] : n \in DOMAIN findings} \union {findings'[n] : n \in DOMAIN findings'} :
                 count(findings, f) = count(findings', f)
            /\ \A m, n \in DOMAIN findings' : m < n =>
                 /\ Rank(findings'[m]) <= Rank(findings'[n])
                 /\ Rank(findings'[m]) = Rank(findings'[n]) =>
                      CodeIndex(findings'[m].code) <= CodeIndex(findings'[n].code)
<1> DEFINE count(fs, f) == Cardinality({n \in DOMAIN fs : fs[n] = f})
<1>1. \A fs, f : count(fs, f) = Cardinality(Where(fs, {f}))
  BY DEF Where
<1>2. ASSUME NEW f PROVE count(findings, f) = count(findings', f)
  <2>1. Cardinality(Where(findings', {f})) = Cardinality(Where(findings, {f}))
    BY SortEffect, Zenon
  <2>2. count(findings, f) = Cardinality(Where(findings, {f})) /\ count(findings', f) = Cardinality(Where(findings', {f}))
    BY <1>1, Zenon
  <2> QED
    BY <2>1, <2>2
<1>3. ASSUME NEW m \in DOMAIN findings', NEW n \in DOMAIN findings', m < n
      PROVE  /\ Rank(findings'[m]) <= Rank(findings'[n])
             /\ Rank(findings'[m]) = Rank(findings'[n]) =>
                  CodeIndex(findings'[m].code) <= CodeIndex(findings'[n].code)
  <2>1. findings'[m] \in FindingRecords /\ findings'[n] \in FindingRecords
    BY SortEffect
  <2>2. ~Less(findings'[n], findings'[m])
    BY <1>3, SortEffect
  <2> QED
    BY <2>1, <2>2, LessIsAnOrder
<1> QED
  BY <1>2, <1>3

-----------------------------------------------------------------------------
(* What a step adds to the findings.                                       *)

With(code) == {f \in FindingRecords : f.code = code}

(* The three ways in which the properties look at findings, by places and  *)
(* by elements.                                                            *)
LEMMA CountIsWhere ==
  ASSUME NEW code
  PROVE  /\ findings \in Seq(FindingRecords) => Count(code) = Cardinality(Where(findings, With(code)))
         /\ findings' \in Seq(FindingRecords) => Count(code)' = Cardinality(Where(findings', With(code)))
         /\ findings \in Seq(FindingRecords) => Count(code) \in Nat
<1>1. ASSUME NEW fs \in Seq(FindingRecords)
      PROVE  {n \in DOMAIN fs : fs[n].code = code} = Where(fs, With(code))
  BY DEF Where, With
<1> QED
  BY <1>1, WhereIsFinite DEF Count

LEMMA CodesAreRange ==
  /\ Codes = {f.code : f \in Range(findings)}
  /\ Codes' = {f.code : f \in Range(findings')}
BY DEF Codes, Range

LEMMA AboutIsRange ==
  ASSUME NEW code
  PROVE  /\ About(code) = {f.about : f \in {g \in Range(findings) : g.code = code}}
         /\ About(code)' = {f.about : f \in {g \in Range(findings') : g.code = code}}
BY DEF About, Range

LEMMA RangeOfAppend ==
  ASSUME NEW S, NEW seq \in Seq(S), NEW x \in S
  PROVE  Range(Append(seq, x)) = Range(seq) \union {x}
<1>1. PICK n \in Nat : n = Len(seq) /\ DOMAIN seq = 1..n
  OBVIOUS
<1>2. PICK longer : longer = Append(seq, x)
  OBVIOUS
<1>3. DOMAIN longer = 1..(n + 1) /\ longer[n + 1] = x /\ \A i \in 1..n : longer[i] = seq[i]
  BY <1>1, <1>2, AppendProperties
<1>4. \A i : i \in 1..(n + 1) <=> i \in 1..n \/ i = n + 1
  BY <1>1
<1>5. {longer[i] : i \in 1..(n + 1)} = {seq[i] : i \in 1..n} \union {x}
  BY <1>3, <1>4
<1> QED
  BY <1>1, <1>2, <1>3, <1>5 DEF Range

(* What one finding more changes.                                          *)
LEMMA AppendEffect ==
  ASSUME findings \in Seq(FindingRecords), NEW f \in FindingRecords, findings' = Append(findings, f)
  PROVE  /\ findings' \in Seq(FindingRecords)
         /\ Codes' = Codes \union {f.code}
         /\ \A code : Count(code)' = Count(code) + (IF f.code = code THEN 1 ELSE 0)
         /\ \A code : About(code)' = About(code) \union (IF f.code = code THEN {f.about} ELSE {})
<1>1. findings' \in Seq(FindingRecords)
  OBVIOUS
<1>2. Range(findings') = Range(findings) \union {f}
  BY RangeOfAppend
<1>3. Codes' = Codes \union {f.code}
  BY <1>2, CodesAreRange
<1>4. ASSUME NEW code
      PROVE  Count(code)' = Count(code) + (IF f.code = code THEN 1 ELSE 0)
  <2>1. f \in With(code) <=> f.code = code
    BY DEF With
  <2> QED
    BY <1>1, <2>1, CountIsWhere, WhereOfAppend
<1>5. ASSUME NEW code
      PROVE  About(code)' = About(code) \union (IF f.code = code THEN {f.about} ELSE {})
  BY <1>2, AboutIsRange
<1> QED
  BY <1>1, <1>3, <1>4, <1>5

-----------------------------------------------------------------------------
(* Type correctness.                                                       *)

LEMMA FindingType ==
  ASSUME NEW code \in DOMAIN Severity, NEW about \in Keys
  PROVE  Finding(code, about) \in FindingRecords
BY DEF Finding, FindingRecords

LEMMA AboutCSRType == AboutCSR \in Keys
BY EmptyTextIsText DEF AboutCSR, Keys

LEMMA KeyOfType ==
  ASSUME NEW entry \in EntryRecords
  PROVE  KeyOf(entry) \in Keys
<1>1. entry.type \in Types /\ entry.text \in Texts
  BY DEF EntryRecords
<1> QED
  BY <1>1, NormalizeType DEF KeyOf, Keys

(* What TypeOK says of the parts that the proofs use.                      *)
LEMMA TypeFacts ==
  ASSUME TypeOK
  PROVE  /\ request.names \in Seq(Names) /\ Len(request.names) \in Nat
         /\ request.commonName \in Texts /\ request.bits \in Nat
         /\ san \in [Types -> Seq(Texts)] /\ san["DNS"] \in Seq(Texts)
         /\ AllEntries \in Seq(EntryRecords) /\ Len(AllEntries) \in Nat
         /\ findings \in Seq(FindingRecords)
<1>1. request \in AllRequests /\ san \in [Types -> Seq(Texts)] /\ findings \in Seq(FindingRecords)
  BY DEF TypeOK, FindingRecords
<1>2. request.names \in Seq(Names) /\ request.commonName \in Texts /\ request.bits \in Nat
  BY <1>1 DEF AllRequests
<1>3. Len(request.names) \in Nat
  BY <1>2
<1>4. san["DNS"] \in Seq(Texts)
  BY <1>1, TypesAreTypes
<1>5. AllEntries \in Seq(EntryRecords)
  BY <1>1, AllEntriesType
<1>6. Len(AllEntries) \in Nat
  <2>1. PICK all \in Seq(EntryRecords) : all = AllEntries
    BY <1>5
  <2> QED
    BY <2>1
<1> QED
  BY <1>1, <1>2, <1>3, <1>4, <1>5, <1>6

LEMMA ReportType ==
  ASSUME TypeOK, NEW applies \in BOOLEAN, NEW code \in DOMAIN Severity, NEW s \in Stages,
         Report(applies, code, s)
  PROVE  TypeOK'
<1>1. Finding(code, AboutCSR) \in FindingRecords
  BY FindingType, AboutCSRType
<1>2. findings' \in Seq(FindingRecords)
  BY <1>1, TypeFacts DEF Report
<1> QED
  BY <1>2 DEF Report, Goto, TypeOK, FindingRecords

(* The findings that CheckDNSName appends.                                 *)
AddressFinding(name) ==
  IF IsIP(name) THEN <<Finding("ip_address_in_dns_san", <<"DNS", name>>)>> ELSE <<>>

WildcardFinding(name) ==
  IF name.core \in Wildcards /\ ~ValidWildcard(name)
    THEN <<Finding("invalid_wildcard_san", <<"DNS", name>>)>>
    ELSE <<>>

LEMMA CheckedNameType ==
  ASSUME TypeOK, CheckDNSName
  PROVE  LET name == TrimSpace(san["DNS"][next])
         IN /\ name \in Texts
            /\ AddressFinding(name) \in Seq(FindingRecords)
            /\ WildcardFinding(name) \in Seq(FindingRecords)
            /\ findings' = findings \o AddressFinding(name) \o WildcardFinding(name)
<1>1. PICK name : name = TrimSpace(san["DNS"][next])
  OBVIOUS
<1>2. next \in 1..Len(san["DNS"])
  BY TypeFacts DEF CheckDNSName, TypeOK
<1>3. name \in Texts
  BY <1>1, <1>2, TypeFacts, TrimSpaceType
<1>4. <<"DNS", name>> \in Keys
  BY <1>3, TypesAreTypes DEF Keys
<1>5. /\ Finding("ip_address_in_dns_san", <<"DNS", name>>) \in FindingRecords
      /\ Finding("invalid_wildcard_san", <<"DNS", name>>) \in FindingRecords
  BY <1>4, FindingType DEF Severity
<1>6. AddressFinding(name) \in Seq(FindingRecords) /\ WildcardFinding(name) \in Seq(FindingRecords)
  BY <1>5 DEF AddressFinding, WildcardFinding
<1>7. findings' = findings \o AddressFinding(name) \o WildcardFinding(name)
  BY <1>1 DEF CheckDNSName, AddressFinding, WildcardFinding
<1> QED
  BY <1>1, <1>3, <1>6, <1>7

(* The key that AddValue looks at.                                         *)
LEMMA AddedKeyType ==
  ASSUME TypeOK, InDuplicates
  PROVE  next \in 1..Len(AllEntries) /\ KeyOf(AllEntries[next]) \in Keys
<1>1. next \in 1..Len(AllEntries)
  BY TypeFacts DEF InDuplicates, TypeOK
<1>2. AllEntries[next] \in EntryRecords
  BY <1>1, TypeFacts
<1> QED
  BY <1>1, <1>2, KeyOfType

(* KeepName adds a text.                                                   *)
LEMMA KeptNameType ==
  ASSUME TypeOK, KeepName
  PROVE  LET name == request.names[next]
         IN /\ name \in Names /\ name.type \in Types /\ next \in 1..Len(request.names)
            /\ Kept(name) \in Texts
            /\ san' = [san EXCEPT ![name.type] = Append(@, Kept(name))]
<1>1. PICK name : name = request.names[next]
  OBVIOUS
<1>2. next \in 1..Len(request.names)
  <2>1. next <= Len(request.names) /\ next \in Nat \ {0} /\ Len(request.names) \in Nat
    BY TypeFacts DEF KeepName, InNames, TypeOK
  <2> QED
    BY <2>1
<1>3. name \in Names
  BY <1>1, <1>2, TypeFacts
<1>4. name.type \in Types /\ san' = [san EXCEPT ![name.type] = Append(@, Kept(name))]
  BY <1>1 DEF KeepName, Kept
<1> QED
  BY <1>1, <1>2, <1>3, <1>4, KeptType

LEMMA InitType == Init => TypeOK
<1> SUFFICES ASSUME Init PROVE TypeOK
  OBVIOUS
<1>1. request \in AllRequests
  BY FindingsAssumption DEF Init
<1>2. san \in [Types -> Seq(Texts)] /\ findings \in Seq(FindingRecords)
  BY DEF Init
<1> QED
  BY <1>1, <1>2 DEF Init, TypeOK, Stages, FindingRecords

(* Every step keeps the types.                                             *)
LEMMA NextType == TypeOK /\ [Next]_vars => TypeOK'
<1> SUFFICES ASSUME TypeOK, [Next]_vars PROVE TypeOK'
  OBVIOUS
<1>1. CASE UNCHANGED vars
  BY <1>1 DEF vars, TypeOK
<1>2. CASE KeepName
  <2>1. PICK name : name = request.names[next]
    OBVIOUS
  <2>2. name.type \in Types /\ Kept(name) \in Texts /\ san' = [san EXCEPT ![name.type] = Append(@, Kept(name))]
    BY <1>2, <2>1, KeptNameType
  <2>3. san' \in [Types -> Seq(Texts)]
    BY <2>2 DEF TypeOK
  <2>4. next' = next + 1 /\ UNCHANGED <<request, stage, seen, reported, findings>>
    BY <1>2 DEF KeepName
  <2> QED
    BY <2>3, <2>4 DEF TypeOK
<1>3. CASE SkipName \/ RejectName \/ NamesDone \/ DuplicatesDone \/ DNSDone
  BY <1>3 DEF SkipName, RejectName, NamesDone, DuplicatesDone, DNSDone, Goto, TypeOK, Stages
<1>4. CASE PublicKeyFindings
  <2>1. \/ Report(TRUE, "rsa_key_critically_small", "signature")
        \/ Report(TRUE, "rsa_key_too_small", "signature")
        \/ Report(FALSE, "rsa_key_too_small", "signature")
    BY <1>4, SMT DEF PublicKeyFindings, Report, Goto, Finding
  <2> QED
    BY <2>1, ReportType DEF Severity, Stages
<1>10. CASE SignatureFindings
  <2>1. \/ Report(TRUE, "md5_signature_algorithm", "subject")
        \/ Report(request.hash = "SHA-1", "sha1_signature_algorithm", "subject")
    BY <1>10 DEF SignatureFindings
  <2> QED
    BY <2>1, ReportType DEF Severity, Stages
<1>5. CASE SubjectFindings \/ SANMissing \/ VersionFindings
  BY <1>5, ReportType DEF SubjectFindings, SANMissing, VersionFindings, Severity, Stages
<1>6. CASE CommonNameFinding
  BY <1>6, ReportType DEF CommonNameFinding, Severity, Stages
<1>7. CASE AddValue
  <2>1. PICK key \in Keys : key = KeyOf(AllEntries[next])
    BY <1>7, AddedKeyType DEF AddValue
  <2>2. Finding("duplicate_san", key) \in FindingRecords
    BY FindingType DEF Severity
  <2>3. /\ seen' = IF key[2] = EmptyText THEN seen ELSE seen \union {key}
        /\ reported' = IF key[2] # EmptyText /\ key \in seen THEN reported \union {key} ELSE reported
        /\ findings' = findings \/ findings' = Append(findings, Finding("duplicate_san", key))
    BY <1>7, <2>1 DEF AddValue
  <2>4. findings' \in Seq(FindingRecords)
    <3>1. PICK f \in FindingRecords : f = Finding("duplicate_san", key)
      BY <2>2
    <3>2. findings \in Seq(FindingRecords) /\ (findings' = findings \/ findings' = Append(findings, f))
      BY <2>3, <3>1, TypeFacts
    <3> QED
      BY <3>2
  <2>5. seen' \subseteq Keys /\ reported' \subseteq seen'
    BY <2>1, <2>3 DEF TypeOK
  <2> QED
    BY <1>7, <2>4, <2>5 DEF AddValue, TypeOK, FindingRecords
<1>8. CASE CheckDNSName
  <2>1. findings' \in Seq(FindingRecords)
    <3>1. PICK a, b \in Seq(FindingRecords) : findings' = findings \o a \o b
      BY <1>8, CheckedNameType
    <3> QED
      BY <3>1, TypeFacts
  <2> QED
    BY <1>8, <2>1 DEF CheckDNSName, TypeOK, FindingRecords
<1>9. CASE SortFindings
  <2>1. findings' \in Seq(FindingRecords)
    BY <1>9, SortEffect, TypeFacts
  <2> QED
    BY <1>9, <2>1 DEF SortFindings, Goto, TypeOK, Stages, FindingRecords
<1> QED
  BY <1>1, <1>2, <1>3, <1>4, <1>5, <1>6, <1>7, <1>8, <1>9, <1>10 DEF Next

(* Every variable keeps its type.                                          *)
THEOREM TypesHold == Spec => []TypeOK
BY InitType, NextType, PTL DEF Spec

(* SortFindings loses nothing, invents nothing and puts in order.          *)
THEOREM SortingIsExact == Spec => SortedReport
<1>1. ASSUME TypeOK, [Next]_vars, stage = "sort", ~UNCHANGED vars PROVE SortFindings
  BY <1>1 DEF Next, KeepName, SkipName, RejectName, InNames, NamesDone, PublicKeyFindings, SignatureFindings,
              SubjectFindings, SANMissing, CommonNameFinding, AddValue, InDuplicates, DuplicatesDone,
              CheckDNSName, DNSDone, VersionFindings
<1> DEFINE Body ==
      LET count(fs, f) == Cardinality({n \in DOMAIN fs : fs[n] = f})
      IN /\ \A f \in {findings[n] : n \in DOMAIN findings} \union {findings'[n] : n \in DOMAIN findings'} :
              count(findings, f) = count(findings', f)
         /\ \A m, n \in DOMAIN findings' : m < n =>
              /\ Rank(findings'[m]) <= Rank(findings'[n])
              /\ Rank(findings'[m]) = Rank(findings'[n]) =>
                   CodeIndex(findings'[m].code) <= CodeIndex(findings'[n].code)
<1>2. TypeOK /\ [Next]_vars => [stage = "sort" => Body]_vars
  BY <1>1, SortingOnlySorts, TypeFacts
<1> QED
  BY <1>2, TypesHold, PTL DEF Spec, SortedReport

-----------------------------------------------------------------------------
(* The inductive invariant, part by part.                                  *)

(* The loop variable stays within what it goes over.                       *)
NextInRange ==
  /\ stage = "names" => next <= Len(request.names) + 1
  /\ stage = "duplicates" => next <= Len(AllEntries) + 1
  /\ stage = "dns" => next <= Len(san["DNS"]) + 1

(* The names that parseSANFromExtensions has read, and those of one type   *)
(* among the first k whose text is in T.                                   *)
NamesRead == IF stage = "names" THEN next - 1 ELSE Len(request.names)

Named(type, T, k) == {n \in 1..k : request.names[n].type = type /\ Kept(request.names[n]) \in T}

(* Every name read is in the list of its type as often as it was read,     *)
(* whatever set of texts one counts.                                       *)
NamesAreKept ==
  stage # "failed" =>
    /\ \A type \in Types, T \in SUBSET Texts :
         Cardinality(Where(san[type], T)) = Cardinality(Named(type, T, NamesRead))
    /\ \A n \in 1..NamesRead : request.names[n].type # "malformed"

(* What the findings about the key and the hash rest on: a key that is too *)
(* small to be valid, and a hash that is.                                  *)
Tiny == request.rsa /\ 0 < request.bits /\ request.bits < 1024

KeyFindingsInv ==
  /\ "rsa_key_critically_small" \in Codes <=>
       stage \notin {"names", "publicKey", "failed"} /\ Tiny
  /\ "md5_signature_algorithm" \in Codes =>
       stage \notin {"names", "publicKey", "signature", "failed"} /\ request.hash = "MD5"

NameCodes == {"common_name_not_in_san", "duplicate_san", "ip_address_in_dns_san", "invalid_wildcard_san"}

LateStages == {"duplicates", "dns", "version", "sort", "done"}

(* What the findings about the SAN as a whole rest on.                     *)
SANFindingsInv ==
  /\ stage \notin LateStages => Codes \intersect (NameCodes \union {"san_missing"}) = {}
  /\ stage \in {"duplicates", "dns"} => ~SANEmpty
  /\ stage \in LateStages =>
       /\ "san_missing" \in Codes <=> SANEmpty
       /\ SANEmpty => Codes \intersect NameCodes = {}
       /\ ~SANEmpty =>
            ("common_name_not_in_san" \in Codes <=>
               TrimSpace(request.commonName) # EmptyText /\ ~CommonNameIncluded(TrimSpace(request.commonName)))

(* How many DNS names analyzeDNSSANFindings has looked at.                 *)
Looked ==
  IF stage = "dns" THEN next - 1
  ELSE IF stage \in {"version", "sort", "done"} THEN Len(san["DNS"])
  ELSE 0

AddressTexts == {t \in Texts : IsIP(TrimSpace(t))}

AddressFindingsInv ==
  Count("ip_address_in_dns_san") = Cardinality({k \in 1..Looked : san["DNS"][k] \in AddressTexts})

(* How many names findDuplicateSANFindings has compared, and the keys that *)
(* occurred among the first k, once and more often.                        *)
Compared ==
  IF stage = "duplicates" THEN next - 1
  ELSE IF stage \in {"dns", "version", "sort", "done"} THEN Len(AllEntries)
  ELSE 0

KeysUpTo(k) == {key \in Keys : key[2] # EmptyText /\ \E i \in 1..k : KeyOf(AllEntries[i]) = key}

RepeatedUpTo(k) ==
  {key \in Keys : key[2] # EmptyText /\ \E i, j \in 1..k : i < j /\ KeyOf(AllEntries[i]) = key /\ KeyOf(AllEntries[j]) = key}

DuplicatesInv ==
  /\ seen = KeysUpTo(Compared)
  /\ reported = RepeatedUpTo(Compared)
  /\ IsFiniteSet(reported)
  /\ Count("duplicate_san") = Cardinality(reported)
  /\ About("duplicate_san") = reported

FindingsInv ==
  /\ TypeOK
  /\ NextInRange
  /\ NamesAreKept
  /\ KeyFindingsInv
  /\ SANFindingsInv
  /\ AddressFindingsInv
  /\ DuplicatesInv


-----------------------------------------------------------------------------
(* What the steps do to the parts of the invariant.                        *)

(* What depends on the SAN alone stays when the SAN does.                  *)
LEMMA SameSAN ==
  ASSUME san' = san
  PROVE  /\ AllEntries' = AllEntries
         /\ SANEmpty' = SANEmpty
         /\ \A k : KeysUpTo(k)' = KeysUpTo(k) /\ RepeatedUpTo(k)' = RepeatedUpTo(k)
<1>1. AllEntries' = AllEntries
  BY DEF AllEntries, Entries
<1> QED
  BY <1>1 DEF SANEmpty, KeysUpTo, RepeatedUpTo

LEMMA SameCommonName ==
  ASSUME san' = san, NEW cn
  PROVE  CommonNameIncluded(cn)' = CommonNameIncluded(cn)
BY DEF CommonNameIncluded

LEMMA SameFindings ==
  ASSUME findings' = findings
  PROVE  /\ Codes' = Codes
         /\ \A code : Count(code)' = Count(code) /\ About(code)' = About(code)
BY DEF Codes, Count, About

(* What Report changes in the codes and in the counts.                     *)
LEMMA ReportEffect ==
  ASSUME TypeOK, NEW applies \in BOOLEAN, NEW code \in DOMAIN Severity, NEW s, Report(applies, code, s)
  PROVE  /\ stage' = s /\ next' = 1 /\ UNCHANGED <<request, san, seen, reported>>
         /\ Codes' = Codes \union (IF applies THEN {code} ELSE {})
         /\ \A c : c # code => Count(c)' = Count(c) /\ About(c)' = About(c)
<1>1. stage' = s /\ next' = 1 /\ UNCHANGED <<request, san, seen, reported>>
  BY DEF Report, Goto
<1>2. PICK f \in FindingRecords : f = Finding(code, AboutCSR)
  BY FindingType, AboutCSRType
<1>3. f.code = code
  BY <1>2 DEF Finding
<1>4. CASE applies
  <2>1. findings' = Append(findings, f)
    BY <1>2, <1>4 DEF Report
  <2>2. /\ Codes' = Codes \union {f.code}
        /\ \A c : Count(c)' = Count(c) + (IF f.code = c THEN 1 ELSE 0)
        /\ \A c : About(c)' = About(c) \union (IF f.code = c THEN {f.about} ELSE {})
    BY <2>1, AppendEffect, TypeFacts
  <2>3. \A c : Count(c) \in Nat
    BY CountIsWhere, TypeFacts
  <2>4. ASSUME NEW c, c # code PROVE Count(c)' = Count(c) /\ About(c)' = About(c)
    <3>1. Count(c)' = Count(c) + 0 /\ About(c)' = About(c) \union {}
      BY <1>3, <2>2, <2>4
    <3> QED
      BY <2>3, <3>1
  <2>5. Codes' = Codes \union {code}
    BY <1>3, <2>2
  <2> QED
    BY <1>1, <1>4, <2>4, <2>5
<1>5. CASE ~applies
  <2>1. findings' = findings
    BY <1>5 DEF Report
  <2> QED
    BY <1>1, <1>5, <2>1, SameFindings
<1> QED
  BY <1>4, <1>5

(* A name that is an address adds one finding that says so.                *)
LEMMA CheckEffect ==
  ASSUME TypeOK, CheckDNSName
  PROVE  /\ Codes \subseteq Codes'
         /\ Codes' \subseteq Codes \union {"ip_address_in_dns_san", "invalid_wildcard_san"}
         /\ Count("ip_address_in_dns_san")' =
              Count("ip_address_in_dns_san") + (IF IsIP(TrimSpace(san["DNS"][next])) THEN 1 ELSE 0)
         /\ Count("duplicate_san")' = Count("duplicate_san")
         /\ About("duplicate_san")' = About("duplicate_san")
<1>1. PICK name \in Texts : name = TrimSpace(san["DNS"][next])
  BY CheckedNameType
<1>2. PICK a, b, mid : a = AddressFinding(name) /\ b = WildcardFinding(name) /\ mid = findings \o a
  OBVIOUS
<1>3. /\ findings \in Seq(FindingRecords) /\ a \in Seq(FindingRecords) /\ b \in Seq(FindingRecords)
      /\ findings' = findings \o a \o b
  BY <1>1, <1>2, CheckedNameType, TypeFacts
<1>4. mid \in Seq(FindingRecords) /\ findings' = mid \o b /\ findings' \in Seq(FindingRecords)
  BY <1>2, <1>3
<1>5. \A T : Cardinality(Where(findings', T)) =
               Cardinality(Where(findings, T)) + Cardinality(Where(a, T)) + Cardinality(Where(b, T))
  <2> SUFFICES ASSUME NEW T
               PROVE  Cardinality(Where(findings', T)) =
                        Cardinality(Where(findings, T)) + Cardinality(Where(a, T)) + Cardinality(Where(b, T))
    OBVIOUS
  <2>1. Cardinality(Where(mid, T)) = Cardinality(Where(findings, T)) + Cardinality(Where(a, T))
    BY <1>2, <1>3, WhereOfConcat
  <2>2. Cardinality(Where(findings', T)) = Cardinality(Where(mid, T)) + Cardinality(Where(b, T))
    BY <1>3, <1>4, WhereOfConcat
  <2> QED
    BY <2>1, <2>2
<1>6. Range(findings') = Range(findings) \union Range(a) \union Range(b)
  <2>1. Range(mid) = Range(findings) \union Range(a)
    BY <1>2, <1>3, RangeOfConcat
  <2>2. Range(findings') = Range(mid) \union Range(b)
    BY <1>3, <1>4, RangeOfConcat
  <2> QED
    BY <2>1, <2>2
<1>7. /\ a = <<>> \/ a = <<Finding("ip_address_in_dns_san", <<"DNS", name>>)>>
      /\ b = <<>> \/ b = <<Finding("invalid_wildcard_san", <<"DNS", name>>)>>
      /\ IsIP(name) <=> a # <<>>
  BY <1>2 DEF AddressFinding, WildcardFinding
<1>8. /\ \A f \in Range(a) : f.code = "ip_address_in_dns_san"
      /\ \A f \in Range(b) : f.code = "invalid_wildcard_san"
  BY <1>7 DEF Range, Finding
<1>9. Codes \subseteq Codes' /\ Codes' \subseteq Codes \union {"ip_address_in_dns_san", "invalid_wildcard_san"}
  BY <1>6, <1>8, CodesAreRange
<1>10. ASSUME NEW code
       PROVE  Where(a, With(code)) = (IF IsIP(name) /\ code = "ip_address_in_dns_san" THEN {1} ELSE {})
  <2>1. CASE IsIP(name)
    <3>1. PICK f : f = Finding("ip_address_in_dns_san", <<"DNS", name>>) /\ a = <<f>>
      BY <1>7, <2>1
    <3>2. f.code = "ip_address_in_dns_san"
      BY <3>1 DEF Finding
    <3>3. f \in FindingRecords
      BY <1>3, <3>1
    <3> QED
      BY <2>1, <3>1, <3>2, <3>3 DEF Where, With
  <2>2. CASE ~IsIP(name)
    BY <1>7, <2>2 DEF Where
  <2> QED
    BY <2>1, <2>2
<1>11. ASSUME NEW code, code # "invalid_wildcard_san"
       PROVE  Where(b, With(code)) = {}
  BY <1>8, <1>11 DEF Where, With, Range
<1>12. ASSUME NEW code, code # "invalid_wildcard_san"
       PROVE  Count(code)' = Count(code) + (IF IsIP(name) /\ code = "ip_address_in_dns_san" THEN 1 ELSE 0)
  <2>1. Count(code) = Cardinality(Where(findings, With(code))) /\ Count(code)' = Cardinality(Where(findings', With(code)))
        /\ Count(code) \in Nat
    BY <1>3, <1>4, CountIsWhere
  <2>2. Cardinality({1}) = 1 /\ Cardinality({}) = 0
    BY FS_Singleton, FS_EmptySet
  <2>3. Cardinality(Where(findings', With(code))) =
          Cardinality(Where(findings, With(code))) + Cardinality(Where(a, With(code))) + Cardinality(Where(b, With(code)))
    BY <1>5
  <2>4. Cardinality(Where(b, With(code))) = 0
    BY <1>11, <1>12, <2>2
  <2>5. Cardinality(Where(a, With(code))) = (IF IsIP(name) /\ code = "ip_address_in_dns_san" THEN 1 ELSE 0)
    BY <1>10, <2>2
  <2> QED
    BY <2>1, <2>3, <2>4, <2>5
<1>13. About("duplicate_san")' = About("duplicate_san")
  <2>1. \A f : f \in Range(findings') /\ f.code = "duplicate_san" <=> f \in Range(findings) /\ f.code = "duplicate_san"
    BY <1>6, <1>8
  <2> QED
    BY <2>1, AboutIsRange
<1>14. Count("duplicate_san") \in Nat
  BY <1>3, CountIsWhere
<1> QED
  BY <1>1, <1>9, <1>12, <1>13, <1>14

(* What findDuplicateSANFindings does with one name more.                  *)
LEMMA AddEffect ==
  ASSUME TypeOK, AddValue
  PROVE  LET key   == KeyOf(AllEntries[next])
             fresh == key[2] # EmptyText /\ key \in seen /\ key \notin reported
         IN /\ Codes \subseteq Codes' /\ Codes' \subseteq Codes \union {"duplicate_san"}
            /\ Count("ip_address_in_dns_san")' = Count("ip_address_in_dns_san")
            /\ Count("duplicate_san")' = Count("duplicate_san") + (IF fresh THEN 1 ELSE 0)
            /\ About("duplicate_san")' = About("duplicate_san") \union (IF fresh THEN {key} ELSE {})
<1>1. PICK key \in Keys : key = KeyOf(AllEntries[next])
  BY AddedKeyType DEF AddValue
<1>2. PICK f \in FindingRecords : f = Finding("duplicate_san", key)
  BY FindingType DEF Severity
<1>3. f.code = "duplicate_san" /\ f.about = key
  BY <1>2 DEF Finding
<1>4. PICK fresh : fresh = (key[2] # EmptyText /\ key \in seen /\ key \notin reported)
  OBVIOUS
<1>5. findings' = IF fresh THEN Append(findings, f) ELSE findings
  BY <1>1, <1>2, <1>4 DEF AddValue
<1>6. \A c : Count(c) \in Nat
  BY CountIsWhere, TypeFacts
<1>7. CASE fresh
  <2>1. /\ Codes' = Codes \union {f.code}
        /\ \A c : Count(c)' = Count(c) + (IF f.code = c THEN 1 ELSE 0)
        /\ \A c : About(c)' = About(c) \union (IF f.code = c THEN {f.about} ELSE {})
    BY <1>5, <1>7, AppendEffect, TypeFacts
  <2>2. /\ Codes \subseteq Codes' /\ Codes' \subseteq Codes \union {"duplicate_san"}
        /\ Count("ip_address_in_dns_san")' = Count("ip_address_in_dns_san")
        /\ Count("duplicate_san")' = Count("duplicate_san") + 1
        /\ About("duplicate_san")' = About("duplicate_san") \union {key}
    BY <1>3, <1>6, <2>1
  <2> QED
    BY <1>1, <1>4, <1>7, <2>2
<1>8. CASE ~fresh
  <2>1. /\ Codes' = Codes
        /\ \A c : Count(c)' = Count(c) /\ About(c)' = About(c)
    BY <1>5, <1>8, SameFindings
  <2>2. /\ Count("duplicate_san")' = Count("duplicate_san") + 0
        /\ Count("ip_address_in_dns_san")' = Count("ip_address_in_dns_san")
        /\ About("duplicate_san")' = About("duplicate_san") \union {}
    BY <1>6, <2>1
  <2> QED
    BY <1>1, <1>4, <1>8, <2>1, <2>2
<1> QED
  BY <1>4, <1>7, <1>8

(* Sorting changes no code and no count.                                   *)
LEMMA SortedEffect ==
  ASSUME TypeOK, SortFindings
  PROVE  /\ Codes' = Codes
         /\ \A code : Count(code)' = Count(code) /\ About(code)' = About(code)
<1>1. /\ findings \in Seq(FindingRecords) /\ findings' \in Seq(FindingRecords)
      /\ Range(findings') = Range(findings)
      /\ \A T : Cardinality(Where(findings', T)) = Cardinality(Where(findings, T))
  BY SortEffect, TypeFacts
<1>2. Codes' = Codes
  BY <1>1, CodesAreRange
<1>3. ASSUME NEW code PROVE Count(code)' = Count(code)
  BY <1>1, CountIsWhere
<1>4. ASSUME NEW code PROVE About(code)' = About(code)
  BY <1>1, AboutIsRange
<1> QED
  BY <1>2, <1>3, <1>4

(* The actions after parseSANFromExtensions leave the request and the SAN  *)
(* as they are.                                                            *)
LEMMA LaterStep ==
  ASSUME Next, ~KeepName, ~SkipName, ~RejectName, ~NamesDone
  PROVE  /\ stage \notin {"names", "failed"} /\ stage' \notin {"names", "failed"}
         /\ UNCHANGED <<request, san>>
<1>1. CASE PublicKeyFindings \/ SignatureFindings \/ SubjectFindings
  BY <1>1 DEF PublicKeyFindings, SignatureFindings, SubjectFindings, Report, Goto
<1>2. CASE SANMissing \/ CommonNameFinding \/ VersionFindings
  BY <1>2 DEF SANMissing, CommonNameFinding, VersionFindings, Report, Goto
<1>3. CASE AddValue \/ CheckDNSName
  BY <1>3 DEF AddValue, InDuplicates, CheckDNSName
<1>4. CASE DuplicatesDone \/ DNSDone \/ SortFindings
  BY <1>4 DEF DuplicatesDone, DNSDone, SortFindings, Goto
<1> QED
  BY <1>1, <1>2, <1>3, <1>4 DEF Next

(* The steps that are a Report, with the codes that each may add.          *)
LEMMA ReportActions ==
  ASSUME TypeOK
  PROVE  /\ PublicKeyFindings =>
              /\ stage = "publicKey"
              /\ \E code \in {"rsa_key_critically_small", "rsa_key_too_small"}, applies \in BOOLEAN :
                   /\ Report(applies, code, "signature")
                   /\ Tiny <=> applies /\ code = "rsa_key_critically_small"
         /\ SignatureFindings =>
              /\ stage = "signature"
              /\ \E code \in {"md5_signature_algorithm", "sha1_signature_algorithm"}, applies \in BOOLEAN :
                   /\ Report(applies, code, "subject")
                   /\ code = "md5_signature_algorithm" => request.hash = "MD5"
         /\ SubjectFindings => stage = "subject" /\ \E applies \in BOOLEAN : Report(applies, "subject_empty", "san")
         /\ VersionFindings =>
              stage = "version" /\ \E applies \in BOOLEAN : Report(applies, "unknown_pkcs10_version", "sort")
<1>1. request.bits \in Nat /\ request.rsa \in BOOLEAN
  BY DEF TypeOK, AllRequests
<1>2. ASSUME PublicKeyFindings
      PROVE  /\ stage = "publicKey"
             /\ \E code \in {"rsa_key_critically_small", "rsa_key_too_small"}, applies \in BOOLEAN :
                  /\ Report(applies, code, "signature")
                  /\ Tiny <=> applies /\ code = "rsa_key_critically_small"
  <2>1. stage = "publicKey"
    BY <1>2 DEF PublicKeyFindings
  <2>2. \/ Report(TRUE, "rsa_key_critically_small", "signature") /\ Tiny
        \/ Report(TRUE, "rsa_key_too_small", "signature") /\ ~Tiny
        \/ Report(FALSE, "rsa_key_too_small", "signature") /\ ~Tiny
    BY <1>1, <1>2 DEF PublicKeyFindings, Report, Goto, Tiny
  <2> QED
    BY <2>1, <2>2
<1>3. ASSUME SignatureFindings
      PROVE  /\ stage = "signature"
             /\ \E code \in {"md5_signature_algorithm", "sha1_signature_algorithm"}, applies \in BOOLEAN :
                  /\ Report(applies, code, "subject")
                  /\ code = "md5_signature_algorithm" => request.hash = "MD5"
  <2>1. stage = "signature"
    BY <1>3 DEF SignatureFindings
  <2>2. \/ request.hash = "MD5" /\ Report(TRUE, "md5_signature_algorithm", "subject")
        \/ \E applies \in BOOLEAN : Report(applies, "sha1_signature_algorithm", "subject")
    BY <1>3 DEF SignatureFindings, Report, Goto
  <2> QED
    BY <2>2, <2>1
<1> QED
  BY <1>2, <1>3 DEF SubjectFindings, VersionFindings, Report, Goto

-----------------------------------------------------------------------------
(* Each part of the invariant is kept by every step.                       *)

(* Every step keeps the loop variable in its range.                        *)
LEMMA RangeKept ==
  ASSUME TypeOK, NextInRange, [Next]_vars
  PROVE  NextInRange'
<1>1. next \in Nat \ {0} /\ Len(request.names) \in Nat /\ Len(AllEntries) \in Nat /\ Len(san["DNS"]) \in Nat
  <2>1. PICK names \in Seq(Texts) : names = san["DNS"]
    BY TypeFacts
  <2>2. Len(san["DNS"]) \in Nat
    BY <2>1
  <2> QED
    BY <2>2, TypeFacts DEF TypeOK
<1>2. CASE UNCHANGED vars
  BY <1>2, SameSAN DEF vars, NextInRange
<1>3. CASE KeepName \/ SkipName
  <2>1. stage = "names" /\ stage' = "names" /\ next <= Len(request.names) /\ next' = next + 1 /\ request' = request
    BY <1>3 DEF KeepName, SkipName, InNames
  <2> QED
    BY <1>1, <2>1 DEF NextInRange
<1>4. CASE RejectName \/ NamesDone
  BY <1>4 DEF NextInRange, RejectName, NamesDone, Goto
<1>5. CASE PublicKeyFindings \/ SignatureFindings \/ SubjectFindings \/ VersionFindings
  <2>1. stage' \in {"signature", "subject", "san", "sort"}
    BY <1>5 DEF PublicKeyFindings, SignatureFindings, SubjectFindings, VersionFindings, Report, Goto
  <2> QED
    BY <2>1 DEF NextInRange
<1>6. CASE SANMissing
  BY <1>6 DEF NextInRange, SANMissing, Report, Goto
<1>7. CASE CommonNameFinding \/ DuplicatesDone \/ DNSDone \/ SortFindings
  <2>1. next' = 1 /\ stage' # "names" /\ san' = san
    BY <1>7 DEF CommonNameFinding, DuplicatesDone, DNSDone, SortFindings, Report, Goto
  <2>2. AllEntries' = AllEntries
    BY <2>1, SameSAN
  <2> QED
    BY <1>1, <2>1, <2>2 DEF NextInRange
<1>8. CASE AddValue
  <2>1. AllEntries' = AllEntries
    BY <1>8, SameSAN DEF AddValue
  <2> QED
    BY <1>1, <1>8, <2>1 DEF NextInRange, AddValue, InDuplicates
<1>9. CASE CheckDNSName
  BY <1>1, <1>9 DEF NextInRange, CheckDNSName
<1> QED
  BY <1>2, <1>3, <1>4, <1>5, <1>6, <1>7, <1>8, <1>9 DEF Next

(* One name more.                                                          *)
LEMMA NamedNext ==
  ASSUME NEW k \in Nat, NEW type, NEW T
  PROVE  /\ Cardinality(Named(type, T, k)) \in Nat
         /\ Cardinality(Named(type, T, k + 1)) =
              Cardinality(Named(type, T, k)) +
                (IF request.names[k + 1].type = type /\ Kept(request.names[k + 1]) \in T THEN 1 ELSE 0)
<1>1. PICK P : P = {n \in 1..(k + 1) : request.names[n].type = type /\ Kept(request.names[n]) \in T}
  OBVIOUS
<1>2. Named(type, T, k) = {n \in 1..k : n \in P} /\ Named(type, T, k + 1) = {n \in 1..(k + 1) : n \in P}
  BY <1>1 DEF Named
<1>3. k + 1 \in P <=> request.names[k + 1].type = type /\ Kept(request.names[k + 1]) \in T
  BY <1>1
<1> QED
  BY <1>2, <1>3, CountNext

LEMMA SameNames ==
  ASSUME request' = request
  PROVE  \A type, T, k : Named(type, T, k)' = Named(type, T, k)
BY DEF Named, Kept

(* Every step keeps the lists true to the names that were read.            *)
LEMMA NamesKept ==
  ASSUME TypeOK, NextInRange, NamesAreKept, [Next]_vars
  PROVE  NamesAreKept'
<1>1. next \in Nat \ {0} /\ Len(request.names) \in Nat
  BY TypeFacts DEF TypeOK
<1>2. CASE UNCHANGED vars
  <2>1. NamesRead' = NamesRead
    BY <1>2 DEF vars, NamesRead
  <2> QED
    BY <1>2, <2>1, SameNames DEF vars, NamesAreKept
<1>3. CASE KeepName
  <2>1. PICK name : name = request.names[next]
    OBVIOUS
  <2>2. /\ name \in Names /\ name.type \in Types /\ next \in 1..Len(request.names)
        /\ Kept(name) \in Texts
        /\ san' = [san EXCEPT ![name.type] = Append(@, Kept(name))]
    BY <1>3, <2>1, KeptNameType
  <2>3. stage = "names" /\ stage' = "names" /\ request' = request /\ next' = next + 1
    BY <1>3 DEF KeepName, InNames
  <2>4. PICK k \in Nat : k = next - 1 /\ NamesRead = k /\ NamesRead' = k + 1 /\ next = k + 1
    BY <1>1, <2>3 DEF NamesRead
  <2>5. ASSUME NEW type \in Types, NEW T \in SUBSET Texts
        PROVE  Cardinality(Where(san'[type], T)) = Cardinality(Named(type, T, k + 1))
    <3>1. Cardinality(Where(san[type], T)) = Cardinality(Named(type, T, k))
      BY <2>3, <2>4 DEF NamesAreKept
    <3>2. Cardinality(Named(type, T, k + 1)) =
            Cardinality(Named(type, T, k)) + (IF name.type = type /\ Kept(name) \in T THEN 1 ELSE 0)
      BY <2>1, <2>4, NamedNext
    <3>3. CASE name.type = type
      <4>1. san[type] \in Seq(Texts) /\ san'[type] = Append(san[type], Kept(name))
        BY <2>2, <3>3 DEF TypeOK
      <4> QED
        BY <2>2, <3>1, <3>2, <3>3, <4>1, WhereOfAppend
    <3>4. CASE name.type # type
      <4>1. san'[type] = san[type]
        BY <2>2, <3>4 DEF TypeOK
      <4>2. Cardinality(Named(type, T, k)) \in Nat
        BY NamedNext
      <4> QED
        BY <3>1, <3>2, <3>4, <4>1, <4>2
    <3> QED
      BY <3>3, <3>4
  <2>6. \A n \in 1..(k + 1) : request.names[n].type # "malformed"
    <3>1. \A n \in 1..k : request.names[n].type # "malformed"
      BY <2>3, <2>4 DEF NamesAreKept
    <3>2. request.names[k + 1].type # "malformed"
      BY <2>1, <2>2, <2>4 DEF Types
    <3> QED
      BY <3>1, <3>2
  <2>7. \A type, T : Named(type, T, k + 1)' = Named(type, T, k + 1)
    BY <2>3, SameNames
  <2> QED
    BY <2>3, <2>4, <2>5, <2>6, <2>7 DEF NamesAreKept
<1>4. CASE SkipName
  <2>1. stage = "names" /\ stage' = "names" /\ request' = request /\ next' = next + 1 /\ san' = san
        /\ request.names[next].type = "skipped"
    BY <1>4 DEF SkipName, InNames
  <2>2. PICK k \in Nat : NamesRead = k /\ NamesRead' = k + 1 /\ next = k + 1
    <3>1. next - 1 \in Nat /\ NamesRead = next - 1 /\ NamesRead' = (next - 1) + 1 /\ next = (next - 1) + 1
      BY <1>1, <2>1 DEF NamesRead
    <3> QED
      BY <3>1
  <2>3. ASSUME NEW type \in Types, NEW T \in SUBSET Texts
        PROVE  Cardinality(Where(san'[type], T)) = Cardinality(Named(type, T, k + 1))
    <3>1. Cardinality(Where(san[type], T)) = Cardinality(Named(type, T, k))
      BY <2>1, <2>2 DEF NamesAreKept
    <3>2. request.names[k + 1].type # type
      BY <2>1, <2>2 DEF Types
    <3>3. /\ Cardinality(Named(type, T, k)) \in Nat
          /\ Cardinality(Named(type, T, k + 1)) = Cardinality(Named(type, T, k)) + 0
      BY <3>2, NamedNext
    <3> QED
      BY <2>1, <3>1, <3>3
  <2>4. \A n \in 1..(k + 1) : request.names[n].type # "malformed"
    <3>1. \A n \in 1..k : request.names[n].type # "malformed"
      BY <2>1, <2>2 DEF NamesAreKept
    <3>2. request.names[k + 1].type # "malformed"
      BY <2>1, <2>2
    <3> QED
      BY <3>1, <3>2
  <2>5. \A type, T : Named(type, T, k + 1)' = Named(type, T, k + 1)
    BY <2>1, SameNames
  <2> QED
    BY <2>1, <2>2, <2>3, <2>4, <2>5 DEF NamesAreKept
<1>5. CASE RejectName
  BY <1>5 DEF RejectName, Goto, NamesAreKept
<1>6. ASSUME stage # "failed", request' = request, san' = san, NamesRead' = NamesRead
      PROVE  NamesAreKept'
  <2>1. \A type, T, k : Named(type, T, k)' = Named(type, T, k)
    BY <1>6, SameNames
  <2> QED
    BY <1>6, <2>1 DEF NamesAreKept
<1>7. CASE NamesDone
  <2>1. next - 1 = Len(request.names)
    BY <1>1, <1>7 DEF NamesDone, NextInRange
  <2>2. stage # "failed" /\ request' = request /\ san' = san /\ NamesRead' = NamesRead
    BY <1>7, <2>1 DEF NamesDone, Goto, NamesRead
  <2> QED
    BY <1>6, <2>2
<1>8. CASE Next /\ ~KeepName /\ ~SkipName /\ ~RejectName /\ ~NamesDone
  <2>1. /\ stage \notin {"names", "failed"} /\ stage' \notin {"names", "failed"}
        /\ request' = request /\ san' = san
    BY <1>8, LaterStep
  <2>2. NamesRead' = NamesRead
    BY <2>1 DEF NamesRead
  <2> QED
    BY <1>6, <2>1, <2>2
<1> QED
  BY <1>2, <1>3, <1>4, <1>5, <1>7, <1>8

(* The actions that leave the findings as they are, or in another order.   *)
LEMMA QuietFindings ==
  ASSUME TypeOK,
         \/ UNCHANGED vars \/ KeepName \/ SkipName \/ RejectName \/ NamesDone
         \/ DuplicatesDone \/ DNSDone \/ SortFindings
  PROVE  /\ Codes' = Codes
         /\ \A code : Count(code)' = Count(code) /\ About(code)' = About(code)
         /\ request' = request
<1>1. CASE SortFindings
  BY <1>1, SortedEffect DEF SortFindings
<1>2. CASE ~SortFindings
  <2>1. findings' = findings /\ request' = request
    BY <1>2 DEF vars, KeepName, SkipName, RejectName, NamesDone, DuplicatesDone, DNSDone
  <2> QED
    BY <2>1, SameFindings
<1> QED
  BY <1>1, <1>2

(* The findings that are about one key or one hash.                        *)
KeyCodes == {"rsa_key_critically_small", "md5_signature_algorithm"}

(* Every step keeps what is said of the key and of the hash true.          *)
LEMMA KeyFindingsKept ==
  ASSUME TypeOK, KeyFindingsInv, [Next]_vars
  PROVE  KeyFindingsInv'
<1>1. ASSUME request' = request, Codes' \intersect KeyCodes = Codes \intersect KeyCodes,
             stage \notin {"names", "publicKey", "failed"}, stage' \notin {"names", "publicKey", "signature", "failed"}
      PROVE  KeyFindingsInv'
  BY <1>1 DEF KeyFindingsInv, Tiny, KeyCodes
<1>2. CASE UNCHANGED vars
  BY <1>2, QuietFindings DEF vars, KeyFindingsInv, Tiny
<1>3. CASE KeepName \/ SkipName \/ RejectName \/ NamesDone
  <2>1. stage = "names" /\ stage' \in {"names", "publicKey", "failed"}
    BY <1>3 DEF KeepName, SkipName, RejectName, NamesDone, InNames, Goto
  <2>2. Codes' = Codes /\ request' = request
    BY <1>3, QuietFindings
  <2> QED
    BY <2>1, <2>2 DEF KeyFindingsInv
<1>4. CASE DuplicatesDone \/ DNSDone \/ SortFindings
  <2>1. stage \in {"duplicates", "dns", "sort"} /\ stage' \in {"dns", "version", "done"}
    BY <1>4 DEF DuplicatesDone, DNSDone, SortFindings, Goto
  <2>2. Codes' = Codes /\ request' = request
    BY <1>4, QuietFindings
  <2> QED
    BY <1>1, <2>1, <2>2
<1>5. CASE PublicKeyFindings
  <2>1. PICK code \in {"rsa_key_critically_small", "rsa_key_too_small"}, applies \in BOOLEAN :
          /\ Report(applies, code, "signature")
          /\ Tiny <=> applies /\ code = "rsa_key_critically_small"
    BY <1>5, ReportActions
  <2>2. stage = "publicKey"
    BY <1>5, ReportActions
  <2>3. code \in DOMAIN Severity
    BY DEF Severity
  <2>4. /\ stage' = "signature" /\ request' = request
        /\ Codes' = Codes \union (IF applies THEN {code} ELSE {})
    BY <2>1, <2>3, ReportEffect
  <2>5. Tiny' = Tiny
    BY <2>4 DEF Tiny
  <2>6. "rsa_key_critically_small" \notin Codes /\ "md5_signature_algorithm" \notin Codes
    BY <2>2 DEF KeyFindingsInv
  <2>7. "rsa_key_critically_small" \in Codes' <=> Tiny
    BY <2>1, <2>4, <2>6
  <2>8. "md5_signature_algorithm" \notin Codes'
    BY <2>4, <2>6
  <2> QED
    BY <2>4, <2>5, <2>7, <2>8 DEF KeyFindingsInv
<1>6. CASE SignatureFindings
  <2>1. PICK code \in {"md5_signature_algorithm", "sha1_signature_algorithm"}, applies \in BOOLEAN :
          /\ Report(applies, code, "subject")
          /\ code = "md5_signature_algorithm" => request.hash = "MD5"
    BY <1>6, ReportActions
  <2>2. stage = "signature"
    BY <1>6, ReportActions
  <2>3. code \in DOMAIN Severity
    BY DEF Severity
  <2>4. /\ stage' = "subject" /\ request' = request
        /\ Codes' = Codes \union (IF applies THEN {code} ELSE {})
    BY <2>1, <2>3, ReportEffect
  <2>5. Tiny' = Tiny
    BY <2>4 DEF Tiny
  <2>6. ("rsa_key_critically_small" \in Codes <=> Tiny) /\ "md5_signature_algorithm" \notin Codes
    BY <2>2 DEF KeyFindingsInv
  <2>7. "rsa_key_critically_small" \in Codes' <=> Tiny
    BY <2>1, <2>4, <2>6
  <2>8. "md5_signature_algorithm" \in Codes' => request'.hash = "MD5"
    BY <2>1, <2>4, <2>6
  <2> QED
    BY <2>4, <2>5, <2>7, <2>8 DEF KeyFindingsInv
<1>7. ASSUME NEW applies \in BOOLEAN, NEW code \in DOMAIN Severity \ KeyCodes, NEW s, Report(applies, code, s),
             stage \notin {"names", "publicKey", "failed"}, s \notin {"names", "publicKey", "signature", "failed"}
      PROVE  KeyFindingsInv'
  <2>1. /\ stage' = s /\ request' = request
        /\ Codes' = Codes \union (IF applies THEN {code} ELSE {})
    BY <1>7, ReportEffect
  <2>2. Codes' \intersect KeyCodes = Codes \intersect KeyCodes
    BY <2>1
  <2> QED
    BY <1>1, <1>7, <2>1, <2>2
<1>8. CASE SubjectFindings \/ VersionFindings
  <2>1. "subject_empty" \in DOMAIN Severity \ KeyCodes /\ "unknown_pkcs10_version" \in DOMAIN Severity \ KeyCodes
    BY DEF Severity, KeyCodes
  <2>2. CASE SubjectFindings
    <3>1. PICK applies \in BOOLEAN : Report(applies, "subject_empty", "san")
      BY <2>2, ReportActions
    <3>2. stage = "subject"
      BY <2>2 DEF SubjectFindings
    <3> QED
      BY <1>7, <2>1, <3>1, <3>2
  <2>3. CASE VersionFindings
    <3>1. PICK applies \in BOOLEAN : Report(applies, "unknown_pkcs10_version", "sort")
      BY <2>3, ReportActions
    <3>2. stage = "version"
      BY <2>3 DEF VersionFindings
    <3> QED
      BY <1>7, <2>1, <3>1, <3>2
  <2> QED
    BY <1>8, <2>2, <2>3
<1>9. CASE SANMissing
  <2>1. Report(TRUE, "san_missing", "version") /\ stage = "san"
    BY <1>9 DEF SANMissing
  <2>2. "san_missing" \in DOMAIN Severity \ KeyCodes
    BY DEF Severity, KeyCodes
  <2> QED
    BY <1>7, <2>1, <2>2
<1>10. CASE CommonNameFinding
  <2>1. PICK applies \in BOOLEAN : Report(applies, "common_name_not_in_san", "duplicates")
    BY <1>10 DEF CommonNameFinding
  <2>2. stage = "san"
    BY <1>10 DEF CommonNameFinding
  <2>3. "common_name_not_in_san" \in DOMAIN Severity \ KeyCodes
    BY DEF Severity, KeyCodes
  <2> QED
    BY <1>7, <2>1, <2>2, <2>3
<1>11. CASE AddValue
  <2>1. stage = "duplicates" /\ stage' = stage /\ request' = request
    BY <1>11 DEF AddValue, InDuplicates
  <2>2. Codes \subseteq Codes' /\ Codes' \subseteq Codes \union {"duplicate_san"}
    BY <1>11, AddEffect
  <2>3. Codes' \intersect KeyCodes = Codes \intersect KeyCodes
    BY <2>2 DEF KeyCodes
  <2> QED
    BY <1>1, <2>1, <2>3
<1>12. CASE CheckDNSName
  <2>1. stage = "dns" /\ stage' = stage /\ request' = request
    BY <1>12 DEF CheckDNSName
  <2>2. Codes \subseteq Codes' /\ Codes' \subseteq Codes \union {"ip_address_in_dns_san", "invalid_wildcard_san"}
    BY <1>12, CheckEffect
  <2>3. Codes' \intersect KeyCodes = Codes \intersect KeyCodes
    BY <2>2 DEF KeyCodes
  <2> QED
    BY <1>1, <2>1, <2>3
<1> QED
  BY <1>2, <1>3, <1>4, <1>5, <1>6, <1>8, <1>9, <1>10, <1>11, <1>12 DEF Next

(* Every step keeps what is said of the SAN as a whole true.               *)
LEMMA SANFindingsKept ==
  ASSUME TypeOK, SANFindingsInv, [Next]_vars
  PROVE  SANFindingsInv'
<1> DEFINE SANCodes == NameCodes \union {"san_missing"}
           cn       == TrimSpace(request.commonName)
           Wanted   == cn # EmptyText /\ ~CommonNameIncluded(cn)
<1>1. ASSUME request' = request, san' = san
      PROVE  SANEmpty' = SANEmpty /\ (Wanted <=> Wanted')
  <2>1. SANEmpty' = SANEmpty
    BY <1>1, SameSAN
  <2>2. cn' = cn
    BY <1>1
  <2>3. CommonNameIncluded(cn)' = CommonNameIncluded(cn)
    BY <1>1, <2>2 DEF CommonNameIncluded
  <2> QED
    BY <2>1, <2>2, <2>3
<1>w. SANFindingsInv <=>
        /\ stage \notin LateStages => Codes \intersect SANCodes = {}
        /\ stage \in {"duplicates", "dns"} => ~SANEmpty
        /\ stage \in LateStages =>
             /\ "san_missing" \in Codes <=> SANEmpty
             /\ SANEmpty => Codes \intersect NameCodes = {}
             /\ ~SANEmpty => ("common_name_not_in_san" \in Codes <=> Wanted)
  BY DEF SANFindingsInv
<1>p. SANFindingsInv' <=>
        /\ stage' \notin LateStages => Codes' \intersect SANCodes = {}
        /\ stage' \in {"duplicates", "dns"} => ~SANEmpty'
        /\ stage' \in LateStages =>
             /\ "san_missing" \in Codes' <=> SANEmpty'
             /\ SANEmpty' => Codes' \intersect NameCodes = {}
             /\ ~SANEmpty' => ("common_name_not_in_san" \in Codes' <=> Wanted')
  BY DEF SANFindingsInv
<1> HIDE DEF Wanted
(* As long as the SAN is not judged. *)
<1>2. ASSUME stage \notin LateStages, stage' \notin LateStages, Codes' \intersect SANCodes = Codes \intersect SANCodes
      PROVE  SANFindingsInv'
  BY <1>2, <1>w, <1>p DEF LateStages
(* And once it is. *)
<1>3. ASSUME request' = request, san' = san, stage \in LateStages, stage' \in LateStages,
             stage' \in {"duplicates", "dns"} => stage \in {"duplicates", "dns"},
             Codes \subseteq Codes',
             Codes' \intersect {"san_missing", "common_name_not_in_san"}
               \subseteq Codes,
             SANEmpty => Codes' \intersect NameCodes \subseteq Codes
      PROVE  SANFindingsInv'
  BY <1>1, <1>3, <1>w, <1>p DEF NameCodes
<1>4. CASE UNCHANGED vars
  <2>1. Codes' = Codes
    BY <1>4, QuietFindings
  <2>2. stage' = stage /\ request' = request /\ san' = san
    BY <1>4 DEF vars
  <2> QED
    BY <1>1, <1>w, <1>p, <2>1, <2>2
<1>5. CASE KeepName \/ SkipName \/ RejectName \/ NamesDone
  <2>1. stage = "names" /\ stage' \in {"names", "publicKey", "failed"}
    BY <1>5 DEF KeepName, SkipName, RejectName, NamesDone, InNames, Goto
  <2>2. Codes' = Codes
    BY <1>5, QuietFindings
  <2> QED
    BY <1>2, <2>1, <2>2 DEF LateStages
<1>6. CASE DuplicatesDone \/ DNSDone \/ SortFindings
  <2>1. /\ stage \in {"duplicates", "dns", "sort"} /\ stage' \in {"dns", "version", "done"}
        /\ stage' = "dns" => stage = "duplicates"
        /\ request' = request /\ san' = san
    BY <1>6 DEF DuplicatesDone, DNSDone, SortFindings, Goto
  <2>2. Codes' = Codes
    BY <1>6, QuietFindings
  <2> QED
    BY <1>3, <2>1, <2>2 DEF LateStages
<1>7. CASE PublicKeyFindings \/ SignatureFindings \/ SubjectFindings
  <2>1. PICK code \in {"rsa_key_critically_small", "rsa_key_too_small", "md5_signature_algorithm",
                       "sha1_signature_algorithm", "subject_empty"},
             applies \in BOOLEAN, s \in {"signature", "subject", "san"} : Report(applies, code, s)
    BY <1>7, ReportActions
  <2>2. stage \in {"publicKey", "signature", "subject"}
    BY <1>7, ReportActions
  <2>3. code \in DOMAIN Severity /\ code \notin SANCodes
    BY DEF Severity, NameCodes
  <2>4. stage' = s /\ Codes' = Codes \union (IF applies THEN {code} ELSE {})
    BY <2>1, <2>3, ReportEffect
  <2> QED
    BY <1>2, <2>2, <2>3, <2>4 DEF LateStages
<1>8. CASE VersionFindings
  <2>1. PICK applies \in BOOLEAN : Report(applies, "unknown_pkcs10_version", "sort")
    BY <1>8, ReportActions
  <2>2. "unknown_pkcs10_version" \in DOMAIN Severity /\ "unknown_pkcs10_version" \notin SANCodes
    BY DEF Severity, NameCodes
  <2>3. /\ stage' = "sort" /\ stage = "version" /\ request' = request /\ san' = san
        /\ Codes' = Codes \union (IF applies THEN {"unknown_pkcs10_version"} ELSE {})
    BY <1>8, <2>1, <2>2, ReportEffect, ReportActions
  <2> QED
    BY <1>3, <2>2, <2>3 DEF LateStages
<1>9. CASE SANMissing
  <2>1. Report(TRUE, "san_missing", "version") /\ stage = "san" /\ SANEmpty
    BY <1>9 DEF SANMissing
  <2>2. "san_missing" \in DOMAIN Severity
    BY DEF Severity
  <2>3. /\ stage' = "version" /\ request' = request /\ san' = san
        /\ Codes' = Codes \union {"san_missing"}
    BY <2>1, <2>2, ReportEffect
  <2>4. Codes \intersect SANCodes = {}
    BY <1>w, <2>1 DEF LateStages
  <2>5. Codes' \intersect NameCodes = {}
    BY <2>3, <2>4 DEF NameCodes
  <2> QED
    BY <1>1, <1>p, <2>1, <2>3, <2>5 DEF LateStages
<1>10. CASE CommonNameFinding
  <2>1. Report(Wanted, "common_name_not_in_san", "duplicates") /\ stage = "san" /\ ~SANEmpty
    BY <1>10 DEF CommonNameFinding, Wanted
  <2>2. "common_name_not_in_san" \in DOMAIN Severity
    BY DEF Severity
  <2>3. PICK applies \in BOOLEAN : (applies <=> Wanted) /\ Report(applies, "common_name_not_in_san", "duplicates")
    BY <2>1 DEF Report, Wanted
  <2>4. /\ stage' = "duplicates" /\ request' = request /\ san' = san
        /\ Codes' = Codes \union (IF applies THEN {"common_name_not_in_san"} ELSE {})
    BY <2>2, <2>3, ReportEffect
  <2>5. Codes \intersect SANCodes = {}
    BY <1>w, <2>1 DEF LateStages
  <2>6. "san_missing" \notin Codes' /\ ("common_name_not_in_san" \in Codes' <=> Wanted)
    BY <2>3, <2>4, <2>5 DEF NameCodes
  <2> QED
    BY <1>1, <1>p, <2>1, <2>4, <2>6 DEF LateStages
<1>11. CASE AddValue
  <2>1. stage = "duplicates" /\ stage' = stage /\ request' = request /\ san' = san
    BY <1>11 DEF AddValue, InDuplicates
  <2>2. Codes \subseteq Codes' /\ Codes' \subseteq Codes \union {"duplicate_san"}
    BY <1>11, AddEffect
  <2>3. ~SANEmpty
    BY <1>w, <2>1
  <2> QED
    BY <1>3, <2>1, <2>2, <2>3 DEF LateStages
<1>12. CASE CheckDNSName
  <2>1. stage = "dns" /\ stage' = stage /\ request' = request /\ san' = san
    BY <1>12 DEF CheckDNSName
  <2>2. Codes \subseteq Codes' /\ Codes' \subseteq Codes \union {"ip_address_in_dns_san", "invalid_wildcard_san"}
    BY <1>12, CheckEffect
  <2>3. ~SANEmpty
    BY <1>w, <2>1
  <2> QED
    BY <1>3, <2>1, <2>2, <2>3 DEF LateStages
<1> QED
  BY <1>4, <1>5, <1>6, <1>7, <1>8, <1>9, <1>10, <1>11, <1>12 DEF Next

(* Every step keeps the count of addresses among the DNS names.            *)
LEMMA AddressFindingsKept ==
  ASSUME TypeOK, NextInRange, AddressFindingsInv, [Next]_vars
  PROVE  AddressFindingsInv'
<1> DEFINE code == "ip_address_in_dns_san"
           Addressed(k) == {n \in 1..k : san["DNS"][n] \in AddressTexts}
<1>t. next \in Nat \ {0} /\ Len(san["DNS"]) \in Nat
  <2>1. PICK texts \in Seq(Texts) : texts = san["DNS"]
    BY TypeFacts
  <2> QED
    BY <2>1 DEF TypeOK
<1>w. Count(code) = Cardinality(Addressed(Looked))
  BY DEF AddressFindingsInv
<1>p. AddressFindingsInv' <=> Count(code)' = Cardinality({n \in 1..Looked' : san'["DNS"][n] \in AddressTexts})
  BY DEF AddressFindingsInv, AddressTexts, IsIP, TrimSpace
<1>1. ASSUME Looked' = Looked, san' = san \/ Looked = 0, Count(code)' = Count(code)
      PROVE  AddressFindingsInv'
  <2>1. CASE san' = san
    BY <1>1, <1>w, <1>p, <2>1
  <2>2. CASE Looked = 0
    <3>1. Addressed(Looked) = {} /\ {n \in 1..Looked' : san'["DNS"][n] \in AddressTexts} = {}
      BY <1>1, <2>2
    <3> QED
      BY <1>1, <1>w, <1>p, <3>1
  <2> QED
    BY <1>1, <2>1, <2>2
<1>2. CASE UNCHANGED vars
  BY <1>1, <1>2, QuietFindings DEF vars, Looked
<1>3. CASE KeepName \/ SkipName \/ RejectName \/ NamesDone
  <2>1. stage = "names" /\ stage' \in {"names", "publicKey", "failed"}
    BY <1>3 DEF KeepName, SkipName, RejectName, NamesDone, InNames, Goto
  <2>2. Count(code)' = Count(code)
    BY <1>3, QuietFindings
  <2>3. Looked = 0 /\ Looked' = 0
    BY <2>1 DEF Looked
  <2> QED
    BY <1>1, <2>2, <2>3
<1>4. CASE DuplicatesDone \/ SortFindings
  <2>1. /\ \/ stage' = "dns" /\ stage = "duplicates" /\ next' = 1
           \/ stage' = "done" /\ stage = "sort"
        /\ san' = san
    BY <1>4 DEF DuplicatesDone, SortFindings, Goto
  <2>2. Looked' = Looked
    BY <2>1 DEF Looked
  <2>3. Count(code)' = Count(code)
    BY <1>4, QuietFindings
  <2> QED
    BY <1>1, <2>1, <2>2, <2>3
<1>5. CASE DNSDone
  <2>1. next - 1 = Len(san["DNS"])
    BY <1>5, <1>t DEF DNSDone, NextInRange
  <2>2. stage = "dns" /\ stage' = "version" /\ san' = san
    BY <1>5 DEF DNSDone, Goto
  <2>3. Looked' = Looked
    BY <2>1, <2>2 DEF Looked
  <2>4. Count(code)' = Count(code)
    BY <1>5, QuietFindings
  <2> QED
    BY <1>1, <2>2, <2>3, <2>4
<1>6. ASSUME NEW applies \in BOOLEAN, NEW other \in DOMAIN Severity, other # code, NEW s, Report(applies, other, s),
             \/ stage = "version" /\ s = "sort"
             \/ stage \in {"publicKey", "signature", "subject", "san"} /\ s \in {"signature", "subject", "san", "duplicates"}
             \/ stage = "san" /\ s = "version" /\ Len(san["DNS"]) = 0
      PROVE  AddressFindingsInv'
  <2>1. stage' = s /\ san' = san /\ Count(code)' = Count(code)
    BY <1>6, ReportEffect
  <2>2. Looked' = Looked
    BY <1>6, <2>1 DEF Looked
  <2> QED
    BY <1>1, <2>1, <2>2
<1>7. CASE PublicKeyFindings \/ SignatureFindings \/ SubjectFindings
  <2>1. PICK other \in {"rsa_key_critically_small", "rsa_key_too_small", "md5_signature_algorithm",
                        "sha1_signature_algorithm", "subject_empty"},
             applies \in BOOLEAN, s \in {"signature", "subject", "san"} : Report(applies, other, s)
    BY <1>7, ReportActions
  <2>2. stage \in {"publicKey", "signature", "subject"}
    BY <1>7, ReportActions
  <2>3. other \in DOMAIN Severity /\ other # code
    BY DEF Severity
  <2> QED
    BY <1>6, <2>1, <2>2, <2>3
<1>8. CASE VersionFindings
  <2>1. PICK applies \in BOOLEAN : Report(applies, "unknown_pkcs10_version", "sort")
    BY <1>8, ReportActions
  <2>2. "unknown_pkcs10_version" \in DOMAIN Severity /\ stage = "version"
    BY <1>8, ReportActions DEF Severity
  <2> QED
    BY <1>6, <2>1, <2>2
<1>9. CASE SANMissing
  <2>1. Report(TRUE, "san_missing", "version") /\ stage = "san" /\ san["DNS"] = <<>>
    BY <1>9, TypesAreTypes DEF SANMissing, SANEmpty
  <2>2. "san_missing" \in DOMAIN Severity
    BY DEF Severity
  <2>3. Len(san["DNS"]) = 0
    BY <2>1
  <2> QED
    BY <1>6, <2>1, <2>2, <2>3
<1>10. CASE CommonNameFinding
  <2>1. PICK applies \in BOOLEAN : Report(applies, "common_name_not_in_san", "duplicates")
    BY <1>10 DEF CommonNameFinding
  <2>2. "common_name_not_in_san" \in DOMAIN Severity /\ stage = "san"
    BY <1>10 DEF Severity, CommonNameFinding
  <2> QED
    BY <1>6, <2>1, <2>2
<1>11. CASE AddValue
  <2>1. stage = "duplicates" /\ stage' = stage /\ san' = san
    BY <1>11 DEF AddValue, InDuplicates
  <2>2. Count(code)' = Count(code)
    BY <1>11, AddEffect
  <2>3. Looked' = Looked
    BY <2>1 DEF Looked
  <2> QED
    BY <1>1, <2>1, <2>2, <2>3
<1>12. CASE CheckDNSName
  <2>1. stage = "dns" /\ stage' = stage /\ san' = san /\ next' = next + 1 /\ next <= Len(san["DNS"])
    BY <1>12 DEF CheckDNSName
  <2>2. PICK k \in Nat : next = k + 1 /\ Looked = k /\ Looked' = k + 1
    <3>1. next - 1 \in Nat /\ next = (next - 1) + 1 /\ Looked = next - 1 /\ Looked' = (next - 1) + 1
      BY <1>t, <2>1 DEF Looked
    <3> QED
      BY <3>1
  <2>3. Count(code)' = Count(code) + (IF IsIP(TrimSpace(san["DNS"][next])) THEN 1 ELSE 0)
    BY <1>12, CheckEffect
  <2>4. san["DNS"][k + 1] \in Texts
    BY <1>t, <2>1, <2>2, TypeFacts
  <2>5. IsIP(TrimSpace(san["DNS"][next])) <=> san["DNS"][k + 1] \in AddressTexts
    BY <2>2, <2>4 DEF AddressTexts
  <2>6. PICK P : P = {n \in 1..(k + 1) : san["DNS"][n] \in AddressTexts}
    OBVIOUS
  <2>7. Addressed(k) = {n \in 1..k : n \in P} /\ Addressed(k + 1) = {n \in 1..(k + 1) : n \in P}
    BY <2>6
  <2>8. k + 1 \in P <=> san["DNS"][k + 1] \in AddressTexts
    BY <2>6
  <2>9. Cardinality({n \in 1..(k + 1) : n \in P}) = Cardinality({n \in 1..k : n \in P}) + (IF k + 1 \in P THEN 1 ELSE 0)
    BY CountNext
  <2>10. {n \in 1..Looked' : san'["DNS"][n] \in AddressTexts} = Addressed(k + 1)
    BY <2>1, <2>2
  <2> QED
    BY <1>w, <1>p, <2>2, <2>3, <2>5, <2>7, <2>8, <2>9, <2>10
<1> QED
  BY <1>2, <1>3, <1>4, <1>5, <1>7, <1>8, <1>9, <1>10, <1>11, <1>12 DEF Next

(* One name more: which keys have occurred, and which more than once.      *)
LEMMA KeysNext ==
  ASSUME NEW k \in Nat, NEW key \in Keys, key = KeyOf(AllEntries[k + 1])
  PROVE  /\ KeysUpTo(k + 1) = KeysUpTo(k) \union (IF key[2] = EmptyText THEN {} ELSE {key})
         /\ RepeatedUpTo(k + 1) =
              RepeatedUpTo(k) \union (IF key[2] # EmptyText /\ key \in KeysUpTo(k) THEN {key} ELSE {})
<1>0. \A i : i \in 1..(k + 1) <=> i \in 1..k \/ i = k + 1
  OBVIOUS
<1>1. ASSUME NEW x
      PROVE  x \in KeysUpTo(k + 1) <=> x \in KeysUpTo(k) \/ (x = key /\ key[2] # EmptyText)
  BY <1>0, Zenon DEF KeysUpTo
<1>2. ASSUME NEW x
      PROVE  x \in RepeatedUpTo(k + 1) <=> x \in RepeatedUpTo(k) \/ (x = key /\ key[2] # EmptyText /\ key \in KeysUpTo(k))
  <2>1. \A i \in 1..k : i < k + 1
    OBVIOUS
  <2>2. \A i, j \in 1..(k + 1) : i < j => i \in 1..k
    OBVIOUS
  <2>3. ASSUME x \in RepeatedUpTo(k + 1), x \notin RepeatedUpTo(k)
        PROVE  x = key /\ key[2] # EmptyText /\ key \in KeysUpTo(k)
    <3>1. PICK i, j \in 1..(k + 1) : i < j /\ KeyOf(AllEntries[i]) = x /\ KeyOf(AllEntries[j]) = x
      BY <2>3 DEF RepeatedUpTo
    <3>2. x \in Keys /\ x[2] # EmptyText
      BY <2>3 DEF RepeatedUpTo
    <3>3. i \in 1..k
      BY <2>2, <3>1
    <3>4. j = k + 1
      BY <1>0, <2>3, <3>1, <3>2, <3>3, Zenon DEF RepeatedUpTo
    <3> QED
      BY <3>1, <3>2, <3>3, <3>4, Zenon DEF KeysUpTo
  <2>4. ASSUME x \in RepeatedUpTo(k) PROVE x \in RepeatedUpTo(k + 1)
    BY <1>0, <2>4, Zenon DEF RepeatedUpTo
  <2>5. ASSUME x = key, key[2] # EmptyText, key \in KeysUpTo(k) PROVE x \in RepeatedUpTo(k + 1)
    <3>1. PICK i \in 1..k : KeyOf(AllEntries[i]) = key
      BY <2>5 DEF KeysUpTo
    <3>2. i \in 1..(k + 1) /\ k + 1 \in 1..(k + 1) /\ i < k + 1
      BY <3>1
    <3> QED
      BY <2>5, <3>1, <3>2, Zenon DEF RepeatedUpTo
  <2> QED
    BY <2>3, <2>4, <2>5, Zenon
<1> QED
  BY <1>1, <1>2

(* Every step keeps seen and reported what they were meant to be.          *)
LEMMA DuplicatesKept ==
  ASSUME TypeOK, NextInRange, DuplicatesInv, [Next]_vars
  PROVE  DuplicatesInv'
<1>t. next \in Nat \ {0} /\ Len(AllEntries) \in Nat
  BY TypeFacts DEF TypeOK
<1>0. KeysUpTo(0) = {} /\ RepeatedUpTo(0) = {} /\ KeysUpTo(0)' = {} /\ RepeatedUpTo(0)' = {}
  BY DEF KeysUpTo, RepeatedUpTo
<1>1. ASSUME Compared' = Compared, san' = san \/ Compared = 0, seen' = seen, reported' = reported,
             Count("duplicate_san")' = Count("duplicate_san"), About("duplicate_san")' = About("duplicate_san")
      PROVE  DuplicatesInv'
  <2>1. KeysUpTo(Compared)' = KeysUpTo(Compared) /\ RepeatedUpTo(Compared)' = RepeatedUpTo(Compared)
    <3>1. CASE san' = san
      <4>1. AllEntries' = AllEntries
        BY <3>1, SameSAN
      <4> QED
        BY <1>1, <4>1 DEF KeysUpTo, RepeatedUpTo
    <3>2. CASE Compared = 0
      BY <1>1, <3>2 DEF KeysUpTo, RepeatedUpTo
    <3> QED
      BY <1>1, <3>1, <3>2
  <2> QED
    BY <1>1, <2>1 DEF DuplicatesInv
<1>2. CASE UNCHANGED vars
  <2>1. AllEntries' = AllEntries
    BY <1>2, SameSAN DEF vars
  <2> QED
    BY <1>1, <1>2, <2>1, QuietFindings DEF vars, Compared
<1>3. CASE KeepName \/ SkipName \/ RejectName \/ NamesDone
  <2>1. stage = "names" /\ stage' \in {"names", "publicKey", "failed"} /\ seen' = seen /\ reported' = reported
    BY <1>3 DEF KeepName, SkipName, RejectName, NamesDone, InNames, Goto
  <2>2. Compared = 0 /\ Compared' = 0
    BY <2>1 DEF Compared
  <2> QED
    BY <1>1, <1>3, <2>1, <2>2, QuietFindings
<1>4. CASE DuplicatesDone
  <2>1. next - 1 = Len(AllEntries)
    BY <1>4, <1>t DEF DuplicatesDone, NextInRange
  <2>2. stage = "duplicates" /\ stage' = "dns" /\ UNCHANGED <<san, seen, reported>>
    BY <1>4 DEF DuplicatesDone, Goto
  <2>3. Compared' = Compared
    BY <2>1, <2>2, SameSAN DEF Compared
  <2> QED
    BY <1>1, <1>4, <2>2, <2>3, QuietFindings
<1>5. CASE DNSDone \/ SortFindings
  <2>1. /\ \/ stage' = "version" /\ stage = "dns"
           \/ stage' = "done" /\ stage = "sort"
        /\ UNCHANGED <<san, seen, reported>>
    BY <1>5 DEF DNSDone, SortFindings, Goto
  <2>2. Compared' = Compared
    BY <2>1, SameSAN DEF Compared
  <2> QED
    BY <1>1, <1>5, <2>1, <2>2, QuietFindings
<1>6. ASSUME NEW applies \in BOOLEAN, NEW other \in DOMAIN Severity, other # "duplicate_san", NEW s,
             Report(applies, other, s),
             \/ stage = "version" /\ s = "sort"
             \/ stage \in {"publicKey", "signature", "subject", "san"} /\ s \in {"signature", "subject", "san"}
             \/ stage = "san" /\ s = "duplicates"
             \/ stage = "san" /\ s = "version" /\ Len(AllEntries) = 0
      PROVE  DuplicatesInv'
  <2>1. /\ stage' = s /\ next' = 1 /\ UNCHANGED <<san, seen, reported>>
        /\ Count("duplicate_san")' = Count("duplicate_san") /\ About("duplicate_san")' = About("duplicate_san")
    BY <1>6, ReportEffect
  <2>2. AllEntries' = AllEntries
    BY <2>1, SameSAN
  <2>3. Compared' = Compared
    BY <1>6, <2>1, <2>2 DEF Compared
  <2> QED
    BY <1>1, <2>1, <2>3
<1>7. CASE PublicKeyFindings \/ SignatureFindings \/ SubjectFindings
  <2>1. PICK other \in {"rsa_key_critically_small", "rsa_key_too_small", "md5_signature_algorithm",
                        "sha1_signature_algorithm", "subject_empty"},
             applies \in BOOLEAN, s \in {"signature", "subject", "san"} : Report(applies, other, s)
    BY <1>7, ReportActions
  <2>2. stage \in {"publicKey", "signature", "subject"}
    BY <1>7, ReportActions
  <2>3. other \in DOMAIN Severity /\ other # "duplicate_san"
    BY DEF Severity
  <2> QED
    BY <1>6, <2>1, <2>2, <2>3
<1>8. CASE VersionFindings
  <2>1. PICK applies \in BOOLEAN : Report(applies, "unknown_pkcs10_version", "sort")
    BY <1>8, ReportActions
  <2>2. "unknown_pkcs10_version" \in DOMAIN Severity /\ stage = "version"
    BY <1>8, ReportActions DEF Severity
  <2> QED
    BY <1>6, <2>1, <2>2
<1>9. CASE SANMissing
  <2>1. Report(TRUE, "san_missing", "version") /\ stage = "san" /\ \A type \in Types : san[type] = <<>>
    BY <1>9 DEF SANMissing, SANEmpty
  <2>2. "san_missing" \in DOMAIN Severity
    BY DEF Severity
  <2>3. san["DNS"] = <<>> /\ san["IP address"] = <<>> /\ san["email"] = <<>> /\ san["URI"] = <<>>
    BY <2>1, TypesAreTypes, Zenon
  <2>4. Len(AllEntries) = 0
    <3>1. Len(AllEntries) = Len(san["DNS"]) + Len(san["IP address"]) + Len(san["email"]) + Len(san["URI"])
      BY AllEntriesType DEF TypeOK
    <3>2. Len(san["DNS"]) = 0 /\ Len(san["IP address"]) = 0 /\ Len(san["email"]) = 0 /\ Len(san["URI"]) = 0
      BY <2>3
    <3>3. PICK a, b, c, d : a = Len(san["DNS"]) /\ b = Len(san["IP address"]) /\ c = Len(san["email"]) /\ d = Len(san["URI"])
      OBVIOUS
    <3>4. Len(AllEntries) = a + b + c + d
      BY <3>1, <3>3, Zenon
    <3>5. a = 0 /\ b = 0 /\ c = 0 /\ d = 0
      BY <3>2, <3>3
    <3>6. a + b + c + d = 0
      BY <3>5
    <3> QED
      BY <3>4, <3>6
  <2> QED
    BY <1>6, <2>1, <2>2, <2>4
<1>10. CASE CommonNameFinding
  <2>1. PICK applies \in BOOLEAN : Report(applies, "common_name_not_in_san", "duplicates")
    BY <1>10 DEF CommonNameFinding
  <2>2. "common_name_not_in_san" \in DOMAIN Severity /\ stage = "san"
    BY <1>10 DEF Severity, CommonNameFinding
  <2> QED
    BY <1>6, <2>1, <2>2
<1>11. CASE AddValue
  <2>1. stage = "duplicates" /\ stage' = stage /\ san' = san /\ next' = next + 1
    BY <1>11 DEF AddValue, InDuplicates
  <2>2. PICK k \in Nat : next = k + 1 /\ Compared = k /\ Compared' = k + 1
    <3>1. next - 1 \in Nat /\ next = (next - 1) + 1 /\ Compared = next - 1 /\ Compared' = (next - 1) + 1
      BY <1>t, <2>1 DEF Compared
    <3> QED
      BY <3>1
  <2>3. PICK key \in Keys : key = KeyOf(AllEntries[k + 1])
    BY <1>11, <2>2, AddedKeyType DEF AddValue
  <2>4. PICK fresh \in BOOLEAN : fresh <=> key[2] # EmptyText /\ key \in seen /\ key \notin reported
    OBVIOUS
  <2>5. /\ Count("duplicate_san")' = Count("duplicate_san") + (IF fresh THEN 1 ELSE 0)
        /\ About("duplicate_san")' = About("duplicate_san") \union (IF fresh THEN {key} ELSE {})
    BY <1>11, <2>2, <2>3, <2>4, AddEffect
  <2>6. /\ seen' = IF key[2] = EmptyText THEN seen ELSE seen \union {key}
        /\ reported' = IF key[2] # EmptyText /\ key \in seen THEN reported \union {key} ELSE reported
    BY <1>11, <2>2, <2>3 DEF AddValue
  <2>7. /\ KeysUpTo(k + 1) = KeysUpTo(k) \union (IF key[2] = EmptyText THEN {} ELSE {key})
        /\ RepeatedUpTo(k + 1) =
             RepeatedUpTo(k) \union (IF key[2] # EmptyText /\ key \in KeysUpTo(k) THEN {key} ELSE {})
    BY <2>3, KeysNext
  <2>8. /\ seen = KeysUpTo(k) /\ reported = RepeatedUpTo(k) /\ IsFiniteSet(reported)
        /\ Count("duplicate_san") = Cardinality(reported) /\ About("duplicate_san") = reported
    BY <2>2 DEF DuplicatesInv
  <2>9. seen' = KeysUpTo(k + 1) /\ reported' = RepeatedUpTo(k + 1)
    BY <2>6, <2>7, <2>8
  <2>10. KeysUpTo(k + 1)' = KeysUpTo(k + 1) /\ RepeatedUpTo(k + 1)' = RepeatedUpTo(k + 1)
    BY <2>1, SameSAN
  <2>11. /\ IsFiniteSet(reported') /\ Cardinality(reported') = Cardinality(reported) + (IF fresh THEN 1 ELSE 0)
         /\ reported' = reported \union (IF fresh THEN {key} ELSE {})
    <3>0. Cardinality(reported) \in Nat
      BY <2>8, FS_CardinalityType
    <3>1. CASE fresh
      <4>1. reported' = reported \union {key} /\ key \notin reported
        BY <2>4, <2>6, <3>1
      <4> QED
        BY <2>8, <3>0, <3>1, <4>1, FS_AddElement
    <3>2. CASE ~fresh
      <4>1. reported' = reported
        BY <2>4, <2>6, <3>2
      <4> QED
        BY <2>8, <3>0, <3>2, <4>1
    <3> QED
      BY <3>1, <3>2
  <2> QED
    BY <2>2, <2>5, <2>8, <2>9, <2>10, <2>11 DEF DuplicatesInv
<1>12. CASE CheckDNSName
  <2>1. stage = "dns" /\ stage' = stage /\ UNCHANGED <<san, seen, reported>>
    BY <1>12 DEF CheckDNSName
  <2>2. Compared' = Compared
    BY <2>1, SameSAN DEF Compared
  <2> QED
    BY <1>1, <1>12, <2>1, <2>2, CheckEffect
<1> QED
  BY <1>2, <1>3, <1>4, <1>5, <1>7, <1>8, <1>9, <1>10, <1>11, <1>12 DEF Next

-----------------------------------------------------------------------------
(* The invariant.                                                          *)

(* Before anything is known of the names.                                  *)
Fresh ==
  /\ TypeOK
  /\ stage = "names"
  /\ next = 1
  /\ san = [type \in Types |-> <<>>]
  /\ seen = {}
  /\ reported = {}
  /\ findings = <<>>

LEMMA FreshFindingsInv == Fresh => FindingsInv
<1> SUFFICES ASSUME Fresh PROVE FindingsInv
  OBVIOUS
<1>1. TypeOK
  BY DEF Fresh
<1>2. stage = "names" /\ next = 1 /\ findings = <<>> /\ seen = {} /\ reported = {}
      /\ \A type \in Types : san[type] = <<>>
  BY DEF Fresh
<1>3. Codes = {} /\ \A code : Count(code) = 0 /\ About(code) = {}
  <2>1. ASSUME NEW code PROVE {n \in DOMAIN findings : findings[n].code = code} = {}
    BY <1>2
  <2> QED
    BY <1>2, <2>1, FS_EmptySet DEF Codes, Count, About
<1>4. NextInRange
  <2>1. Len(request.names) \in Nat
    BY <1>1, TypeFacts
  <2> QED
    BY <1>2, <2>1 DEF NextInRange
<1>5. NamesAreKept
  <2>1. NamesRead = 0
    BY <1>2 DEF NamesRead
  <2>2. \A T : \A type \in Types : Where(san[type], T) = {} /\ Named(type, T, 0) = {}
    BY <1>2 DEF Where, Named
  <2>3. \A n \in 1..0 : FALSE
    OBVIOUS
  <2> QED
    BY <2>1, <2>2, <2>3 DEF NamesAreKept
<1>6. KeyFindingsInv
  BY <1>2, <1>3 DEF KeyFindingsInv
<1>7. SANFindingsInv
  BY <1>2, <1>3 DEF SANFindingsInv, LateStages
<1>8. AddressFindingsInv
  <2>1. Looked = 0 /\ 1..0 = {}
    BY <1>2 DEF Looked
  <2>2. {k \in 1..Looked : san["DNS"][k] \in AddressTexts} = {}
    BY <2>1
  <2> QED
    BY <1>3, <2>2, FS_EmptySet DEF AddressFindingsInv
<1>9. DuplicatesInv
  <2>1. Compared = 0
    BY <1>2 DEF Compared
  <2>2. KeysUpTo(0) = {} /\ RepeatedUpTo(0) = {}
    BY DEF KeysUpTo, RepeatedUpTo
  <2> QED
    BY <1>2, <1>3, <2>1, <2>2, FS_EmptySet DEF DuplicatesInv
<1> QED
  BY <1>1, <1>4, <1>5, <1>6, <1>7, <1>8, <1>9 DEF FindingsInv

LEMMA FreshNext == Fresh' => FindingsInv'
BY FreshFindingsInv, PTL

LEMMA InitFindingsInv == Init => FindingsInv
BY InitType, FreshFindingsInv DEF Init, Fresh

(* The invariant is inductive.                                             *)
LEMMA NextFindingsInv == FindingsInv /\ [Next]_vars => FindingsInv'
<1> SUFFICES ASSUME FindingsInv, [Next]_vars PROVE FindingsInv'
  OBVIOUS
<1> QED
  BY NextType, RangeKept, NamesKept, KeyFindingsKept, SANFindingsKept, AddressFindingsKept, DuplicatesKept
     DEF FindingsInv

(* The analysis has only reachable states of the invariant, whatever the   *)
(* requests are.                                                           *)
THEOREM FindingsInvHolds == Spec => []FindingsInv
BY InitFindingsInv, NextFindingsInv, PTL DEF Spec

-----------------------------------------------------------------------------
(* What the findings say of names.                                         *)

LEMMA PlainFields ==
  ASSUME NEW c, NEW d
  PROVE  /\ Plain(c).core = c /\ ~Plain(c).caps /\ ~Plain(c).dot /\ ~Plain(c).padded
         /\ Plain(c) = Plain(d) <=> c = d
BY DEF Plain

(* The conversions, field by field.                                        *)
LEMMA NormalForms ==
  ASSUME NEW t \in Texts
  PROVE  /\ NormalizeDNSName(t) = Plain(t.core)
         /\ TrimSpace(t).core = t.core /\ TrimSpace(t).dot = t.dot /\ ~TrimSpace(t).padded
         /\ TrimSpace(t) = [core |-> t.core, caps |-> t.caps, dot |-> t.dot, padded |-> FALSE]
         /\ ToLower(TrimSpace(t)) = [core |-> t.core, caps |-> FALSE, dot |-> t.dot, padded |-> FALSE]
<1>1. PICK trimmed, lower, bare : trimmed = TrimSpace(t) /\ lower = ToLower(trimmed) /\ bare = [lower EXCEPT !.dot = FALSE]
  OBVIOUS
<1>2. trimmed \in Texts /\ lower \in Texts /\ bare \in Texts
  <2>1. trimmed \in Texts /\ lower \in Texts
    BY <1>1, TrimSpaceType, ToLowerType
  <2> QED
    BY <1>1, <2>1 DEF Texts
<1>3. trimmed.core = t.core /\ trimmed.caps = t.caps /\ trimmed.dot = t.dot /\ trimmed.padded = FALSE
  BY <1>1 DEF TrimSpace, Texts
<1>4. lower.core = trimmed.core /\ lower.caps = FALSE /\ lower.dot = trimmed.dot /\ lower.padded = trimmed.padded
  BY <1>1, <1>2 DEF ToLower, Texts
<1>5. bare.core = lower.core /\ bare.caps = lower.caps /\ bare.dot = FALSE /\ bare.padded = lower.padded
  BY <1>1, <1>2 DEF Texts
<1>6. /\ trimmed = [core |-> trimmed.core, caps |-> trimmed.caps, dot |-> trimmed.dot, padded |-> trimmed.padded]
      /\ lower = [core |-> lower.core, caps |-> lower.caps, dot |-> lower.dot, padded |-> lower.padded]
      /\ bare = [core |-> bare.core, caps |-> bare.caps, dot |-> bare.dot, padded |-> bare.padded]
  BY <1>2, TextFields
<1>7. /\ trimmed = [core |-> t.core, caps |-> t.caps, dot |-> t.dot, padded |-> FALSE]
      /\ lower = [core |-> t.core, caps |-> FALSE, dot |-> t.dot, padded |-> FALSE]
      /\ bare = [core |-> t.core, caps |-> FALSE, dot |-> FALSE, padded |-> FALSE]
  BY <1>3, <1>4, <1>5, <1>6, Zenon
<1>8. bare = NormalizeDNSName(t)
  BY <1>1 DEF NormalizeDNSName
<1> QED
  BY <1>1, <1>3, <1>7, <1>8 DEF Plain

(* An address that net.IP.String has written is in its normal form.        *)
LEMMA NormalAddress ==
  ASSUME NEW c \in Addresses
  PROVE  /\ Canonical[c] \in Addresses
         /\ NormalizeIPAddress(Plain(Canonical[c])) = Plain(Canonical[c])
<1>1. Canonical[c] \in Addresses /\ Canonical[Canonical[c]] = Canonical[c]
  BY FindingsAssumption
<1>2. TrimSpace(Plain(Canonical[c])) = Plain(Canonical[c])
  <2>1. Plain(Canonical[c]) \in Texts
    BY <1>1, FindingsAssumption, PlainIsText
  <2> QED
    BY <2>1, NormalForms, PlainFields DEF Plain
<1>3. IsIP(Plain(Canonical[c]))
  BY <1>1, PlainFields DEF IsIP
<1> QED
  BY <1>1, <1>2, <1>3, PlainFields DEF NormalizeIPAddress

(* The sequences that the properties go over.                              *)
LEMMA Extents ==
  ASSUME FindingsInv
  PROVE  /\ Len(request.names) \in Nat /\ DOMAIN request.names = 1..Len(request.names)
         /\ \A type \in Types : san[type] \in Seq(Texts) /\ \A n \in DOMAIN san[type] : san[type][n] \in Texts
<1>1. PICK names \in Seq(Names) : names = request.names
  BY TypeFacts DEF FindingsInv
<1>2. Len(names) \in Nat /\ DOMAIN names = 1..Len(names)
  OBVIOUS
<1>3. ASSUME NEW type \in Types
      PROVE  san[type] \in Seq(Texts) /\ \A n \in DOMAIN san[type] : san[type][n] \in Texts
  <2>1. san[type] \in Seq(Texts)
    BY TypeFacts DEF FindingsInv
  <2>2. PICK texts \in Seq(Texts) : texts = san[type]
    BY <2>1
  <2>3. \A n \in DOMAIN texts : texts[n] \in Texts
    OBVIOUS
  <2> QED
    BY <2>2, <2>3
<1> QED
  BY <1>1, <1>2, <1>3

(* The parser is through with the names.                                   *)
LEMMA AllRead ==
  ASSUME FindingsInv, stage \notin {"names", "failed"}, NEW type \in Types, NEW T \in SUBSET Texts
  PROVE  LET N == Len(request.names)
         IN /\ Cardinality(Where(san[type], T)) = Cardinality(Named(type, T, N))
            /\ IsFiniteSet(Where(san[type], T)) /\ IsFiniteSet(Named(type, T, N))
            /\ (\E n \in DOMAIN san[type] : san[type][n] \in T) <=>
                 \E n \in DOMAIN request.names : request.names[n].type = type /\ Kept(request.names[n]) \in T
<1>1. PICK N \in Nat : N = Len(request.names) /\ DOMAIN request.names = 1..N
  BY TypeFacts DEF FindingsInv
<1>2. Cardinality(Where(san[type], T)) = Cardinality(Named(type, T, N))
  BY <1>1 DEF FindingsInv, NamesAreKept, NamesRead
<1>3. IsFiniteSet(Where(san[type], T))
  <2>1. san[type] \in Seq(Texts)
    BY TypeFacts DEF FindingsInv
  <2> QED
    BY <2>1, WhereIsFinite
<1>4. IsFiniteSet(Named(type, T, N))
  <2>1. IsFiniteSet(1..N) /\ Named(type, T, N) \subseteq 1..N
    BY FS_Interval DEF Named
  <2> QED
    BY <2>1, FS_Subset
<1>5. Where(san[type], T) = {} <=> Named(type, T, N) = {}
  BY <1>2, <1>3, <1>4, FS_EmptySet
<1>6. (\E n \in DOMAIN san[type] : san[type][n] \in T) <=> Where(san[type], T) # {}
  BY DEF Where
<1>7. (\E n \in 1..N : request.names[n].type = type /\ Kept(request.names[n]) \in T) <=> Named(type, T, N) # {}
  BY DEF Named
<1> QED
  BY <1>1, <1>2, <1>3, <1>4, <1>5, <1>6, <1>7

LEMMA NamesType ==
  ASSUME FindingsInv, NEW n \in DOMAIN request.names
  PROVE  /\ request.names[n] \in Names
         /\ request.names[n].text \in Texts
         /\ request.names[n].type = "IP address" => request.names[n].text.core \in Addresses
         /\ Kept(request.names[n]) \in Texts
<1>1. request.names[n] \in Names
  BY TypeFacts DEF FindingsInv
<1> QED
  BY <1>1, KeptType DEF Names

(* The lists are empty when no name has one of the four types.             *)
LEMMA EmptySAN ==
  ASSUME FindingsInv, stage \notin {"names", "failed"}
  PROVE  SANEmpty <=> \A n \in DOMAIN request.names : request.names[n].type \notin Types
<1>1. ASSUME NEW type \in Types
      PROVE  san[type] = <<>> <=> \A n \in DOMAIN request.names : request.names[n].type # type
  <2>1. san[type] \in Seq(Texts)
    BY TypeFacts DEF FindingsInv
  <2>2. san[type] = <<>> <=> ~\E n \in DOMAIN san[type] : san[type][n] \in Texts
    BY <2>1
  <2>3. (\E n \in DOMAIN san[type] : san[type][n] \in Texts) <=>
          \E n \in DOMAIN request.names : request.names[n].type = type /\ Kept(request.names[n]) \in Texts
    BY AllRead
  <2> QED
    BY <2>2, <2>3, NamesType
<1> QED
  BY <1>1 DEF SANEmpty

(* The invariant implies the three parts of NamesAreJudgedExactly.         *)
LEMMA MissingSANHolds == FindingsInv => MissingSANStandsAlone
<1> SUFFICES ASSUME FindingsInv, stage = "done"
             PROVE  /\ "san_missing" \in Codes <=> \A n \in DOMAIN request.names : request.names[n].type \notin Types
                    /\ "san_missing" \in Codes =>
                         Codes \intersect {"common_name_not_in_san", "duplicate_san", "ip_address_in_dns_san",
                                           "invalid_wildcard_san"} = {}
  BY DEF MissingSANStandsAlone
<1>1. /\ "san_missing" \in Codes <=> SANEmpty
      /\ SANEmpty => Codes \intersect NameCodes = {}
  BY DEF FindingsInv, SANFindingsInv, LateStages
<1>2. SANEmpty <=> \A n \in DOMAIN request.names : request.names[n].type \notin Types
  BY EmptySAN
<1> QED
  BY <1>1, <1>2 DEF NameCodes

LEMMA CommonNameHolds == FindingsInv => CommonNameIsCovered
<1> DEFINE cn == TrimSpace(request.commonName)
           covers(name) ==
             IF IsIP(cn) THEN name.type = "IP address" /\ Canonical[name.text.core] = Canonical[cn.core]
                         ELSE name.type = "DNS" /\ name.text.core = cn.core
<1> SUFFICES ASSUME FindingsInv, stage = "done", \E n \in DOMAIN request.names : request.names[n].type \in Types
             PROVE  "common_name_not_in_san" \in Codes <=>
                      cn # EmptyText /\ ~\E n \in DOMAIN request.names : covers(request.names[n])
  BY DEF CommonNameIsCovered
<1>1. ~SANEmpty
  BY EmptySAN
<1>2. "common_name_not_in_san" \in Codes <=> cn # EmptyText /\ ~CommonNameIncluded(cn)
  BY <1>1 DEF FindingsInv, SANFindingsInv, LateStages
<1>0. cn \in Texts
  BY TypeFacts, TrimSpaceType DEF FindingsInv
<1> HIDE DEF cn
<1>3. CASE IsIP(cn)
  <2>1. cn.core \in Addresses
    BY <1>3 DEF IsIP
  <2>2. PICK T \in SUBSET Texts : T = {t \in Texts : NormalizeIPAddress(t) = Plain(Canonical[cn.core])}
    OBVIOUS
  <2>3. CommonNameIncluded(cn) <=> \E n \in DOMAIN san["IP address"] : san["IP address"][n] \in T
    <3>1. \A n \in DOMAIN san["IP address"] : san["IP address"][n] \in Texts
      BY Extents, TypesAreTypes
    <3>2. CommonNameIncluded(cn) <=> \E n \in DOMAIN san["IP address"] :
                                        NormalizeIPAddress(san["IP address"][n]) = Plain(Canonical[cn.core])
      BY <1>3 DEF CommonNameIncluded
    <3> QED
      BY <2>2, <3>1, <3>2
  <2>4. @ <=> \E n \in DOMAIN request.names : request.names[n].type = "IP address" /\ Kept(request.names[n]) \in T
    BY AllRead, TypesAreTypes
  <2>5. ASSUME NEW n \in DOMAIN request.names, request.names[n].type = "IP address"
        PROVE  Kept(request.names[n]) \in T <=> covers(request.names[n])
    <3>1. PICK c \in Addresses : c = request.names[n].text.core
      BY <2>5, NamesType
    <3>2. Kept(request.names[n]) = Plain(Canonical[c])
      BY <2>5, <3>1 DEF Kept
    <3>3. NormalizeIPAddress(Plain(Canonical[c])) = Plain(Canonical[c])
      BY NormalAddress
    <3>4. Kept(request.names[n]) \in T <=> Plain(Canonical[c]) = Plain(Canonical[cn.core])
      BY <2>2, <3>2, <3>3, NamesType
    <3> QED
      BY <1>3, <2>5, <3>1, <3>4, PlainFields
  <2> QED
    BY <1>2, <1>3, <2>3, <2>4, <2>5
<1>4. CASE ~IsIP(cn)
  <2>2. PICK T \in SUBSET Texts : T = {t \in Texts : NormalizeDNSName(t) = NormalizeDNSName(cn)}
    OBVIOUS
  <2>3. CommonNameIncluded(cn) <=> \E n \in DOMAIN san["DNS"] : san["DNS"][n] \in T
    <3>1. \A n \in DOMAIN san["DNS"] : san["DNS"][n] \in Texts
      BY Extents, TypesAreTypes
    <3>2. CommonNameIncluded(cn) <=> \E n \in DOMAIN san["DNS"] : NormalizeDNSName(san["DNS"][n]) = NormalizeDNSName(cn)
      BY <1>4 DEF CommonNameIncluded
    <3> QED
      BY <2>2, <3>1, <3>2
  <2>4. @ <=> \E n \in DOMAIN request.names : request.names[n].type = "DNS" /\ Kept(request.names[n]) \in T
    BY AllRead, TypesAreTypes
  <2>5. ASSUME NEW n \in DOMAIN request.names, request.names[n].type = "DNS"
        PROVE  Kept(request.names[n]) \in T <=> covers(request.names[n])
    <3>1. PICK t \in Texts : t = request.names[n].text
      BY NamesType
    <3>2. Kept(request.names[n]) = t
      BY <2>5, <3>1 DEF Kept
    <3>3. NormalizeDNSName(t) = Plain(t.core) /\ NormalizeDNSName(cn) = Plain(cn.core)
      BY <1>0, NormalForms
    <3>4. Kept(request.names[n]) \in T <=> Plain(t.core) = Plain(cn.core)
      BY <2>2, <3>2, <3>3
    <3> QED
      BY <1>4, <2>5, <3>1, <3>4, PlainFields
  <2> QED
    BY <1>2, <1>4, <2>3, <2>4, <2>5
<1> QED
  BY <1>3, <1>4

LEMMA AddressesHold == FindingsInv => AddressesAmongDNSNames
<1> SUFFICES ASSUME FindingsInv, stage = "done"
             PROVE  Count("ip_address_in_dns_san") =
                      Cardinality({n \in DOMAIN request.names :
                        /\ request.names[n].type = "DNS"
                        /\ request.names[n].text.core \in Addresses
                        /\ ~request.names[n].text.dot})
  BY DEF AddressesAmongDNSNames
<1>1. PICK N \in Nat : N = Len(request.names) /\ DOMAIN request.names = 1..N
  BY Extents
<1>2. Count("ip_address_in_dns_san") = Cardinality({k \in 1..Len(san["DNS"]) : san["DNS"][k] \in AddressTexts})
  BY DEF FindingsInv, AddressFindingsInv, Looked
<1>3. {k \in 1..Len(san["DNS"]) : san["DNS"][k] \in AddressTexts} = Where(san["DNS"], AddressTexts)
  <2>1. san["DNS"] \in Seq(Texts)
    BY TypeFacts DEF FindingsInv
  <2>2. DOMAIN san["DNS"] = 1..Len(san["DNS"])
    BY <2>1
  <2> QED
    BY <2>2 DEF Where
<1>4. Cardinality(Where(san["DNS"], AddressTexts)) = Cardinality(Named("DNS", AddressTexts, N))
  <2>1. AddressTexts \in SUBSET Texts
    BY DEF AddressTexts
  <2> QED
    BY <1>1, <2>1, AllRead, TypesAreTypes
<1>5. ASSUME NEW n \in DOMAIN request.names, request.names[n].type = "DNS"
      PROVE  Kept(request.names[n]) \in AddressTexts <=>
               request.names[n].text.core \in Addresses /\ ~request.names[n].text.dot
  <2>1. PICK t \in Texts : t = request.names[n].text /\ Kept(request.names[n]) = t
    BY <1>5, NamesType DEF Kept
  <2>2. t \in AddressTexts <=> t.core \in Addresses /\ ~t.dot
    BY NormalForms DEF AddressTexts, IsIP
  <2> QED
    BY <2>1, <2>2
<1>6. Named("DNS", AddressTexts, N) = {n \in DOMAIN request.names :
                                         /\ request.names[n].type = "DNS"
                                         /\ request.names[n].text.core \in Addresses
                                         /\ ~request.names[n].text.dot}
  BY <1>1, <1>5 DEF Named
<1> QED
  BY <1>2, <1>3, <1>4, <1>6

LEMMA FindingsInvJudgesNames == FindingsInv => NamesAreJudgedExactly
BY MissingSANHolds, CommonNameHolds, AddressesHold DEF NamesAreJudgedExactly

-----------------------------------------------------------------------------
(* What the findings say of duplicates.                                    *)

NameKey(n) == <<request.names[n].type, Normalize(request.names[n].type, Kept(request.names[n]))>>

(* Normalizing what was kept of a name.                                    *)
LEMMA NormalKept ==
  ASSUME NEW name \in Names, name.type \in Types
  PROVE  Normalize(name.type, Kept(name)) =
           IF name.type = "DNS" THEN Plain(name.text.core)
           ELSE IF name.type = "IP address" THEN Plain(Canonical[name.text.core])
           ELSE IF name.type = "email" THEN [core |-> name.text.core, caps |-> FALSE, dot |-> name.text.dot, padded |-> FALSE]
           ELSE TrimSpace(name.text)
<1>1. name.text \in Texts /\ (name.type = "IP address" => name.text.core \in Addresses)
  BY DEF Names
<1>2. CASE name.type = "IP address"
  BY <1>1, <1>2, NormalAddress DEF Normalize, Kept
<1>3. CASE name.type # "IP address"
  <2>1. Kept(name) = name.text
    BY <1>3 DEF Kept
  <2> QED
    BY <1>1, <1>3, <2>1, NormalForms DEF Normalize
<1> QED
  BY <1>2, <1>3

(* Two names are the same when they have the same key.                     *)
LEMMA SameIsSameKey ==
  ASSUME NEW m \in Names, NEW n \in Names
  PROVE  SameName(m, n) <=>
           /\ n.type \in Types
           /\ m.type = n.type
           /\ Normalize(m.type, Kept(m)) = Normalize(n.type, Kept(n))
<1>0. m.text \in Texts /\ n.text \in Texts
  BY DEF Names
<1>1. CASE m.type = n.type /\ n.type \in Types
  <2>1. CASE n.type = "DNS"
    <3>1. Normalize(m.type, Kept(m)) = Plain(m.text.core) /\ Normalize(n.type, Kept(n)) = Plain(n.text.core)
      BY <1>1, <2>1, NormalKept
    <3> QED
      BY <1>1, <2>1, <3>1, PlainFields DEF SameName
  <2>2. CASE n.type = "IP address"
    <3>1. /\ Normalize(m.type, Kept(m)) = Plain(Canonical[m.text.core])
          /\ Normalize(n.type, Kept(n)) = Plain(Canonical[n.text.core])
      BY <1>1, <2>2, NormalKept
    <3>2. Plain(Canonical[m.text.core]) = Plain(Canonical[n.text.core]) <=>
            Canonical[m.text.core] = Canonical[n.text.core]
      BY PlainFields
    <3>3. SameName(m, n) <=> Canonical[m.text.core] = Canonical[n.text.core]
      BY <1>1, <2>2 DEF SameName
    <3> QED
      BY <1>1, <3>1, <3>2, <3>3
  <2>3. CASE n.type = "email"
    <3>1. /\ Normalize(m.type, Kept(m)) = [core |-> m.text.core, caps |-> FALSE, dot |-> m.text.dot, padded |-> FALSE]
          /\ Normalize(n.type, Kept(n)) = [core |-> n.text.core, caps |-> FALSE, dot |-> n.text.dot, padded |-> FALSE]
      BY <1>1, <2>3, NormalKept
    <3>2. Normalize(m.type, Kept(m)) = Normalize(n.type, Kept(n)) <=>
            m.text.core = n.text.core /\ m.text.dot = n.text.dot
      <4>1. \A c, d, e, f : [core |-> c, caps |-> FALSE, dot |-> e, padded |-> FALSE] =
                            [core |-> d, caps |-> FALSE, dot |-> f, padded |-> FALSE] <=> c = d /\ e = f
        OBVIOUS
      <4>2. PICK x, y : x = Normalize(m.type, Kept(m)) /\ y = Normalize(n.type, Kept(n))
        OBVIOUS
      <4>3. PICK c, d, e, f : c = m.text.core /\ d = n.text.core /\ e = m.text.dot /\ f = n.text.dot
        OBVIOUS
      <4>4. /\ x = [core |-> c, caps |-> FALSE, dot |-> e, padded |-> FALSE]
            /\ y = [core |-> d, caps |-> FALSE, dot |-> f, padded |-> FALSE]
        BY <3>1, <4>2, <4>3, Zenon
      <4>5. x = y <=> c = d /\ e = f
        BY <4>1, <4>4, Zenon
      <4> QED
        BY <4>2, <4>3, <4>5, Zenon
    <3>3. SameName(m, n) <=> m.text.core = n.text.core /\ m.text.dot = n.text.dot
      BY <1>1, <2>3 DEF SameName
    <3> QED
      BY <1>1, <3>2, <3>3
  <2>4. CASE n.type = "URI"
    <3>1. Normalize(m.type, Kept(m)) = TrimSpace(m.text) /\ Normalize(n.type, Kept(n)) = TrimSpace(n.text)
      BY <1>1, <2>4, NormalKept
    <3> QED
      BY <1>1, <2>4, <3>1 DEF SameName
  <2> QED
    BY <1>1, <2>1, <2>2, <2>3, <2>4 DEF Types
<1>2. CASE ~(m.type = n.type /\ n.type \in Types)
  BY <1>2 DEF SameName, Types
<1> QED
  BY <1>1, <1>2

(* Blank names are those that findDuplicateSANFindings ignores.            *)
LEMMA BlankIsEmpty ==
  ASSUME NEW n \in Names, n.type \in Types
  PROVE  Blank(n) <=> Normalize(n.type, Kept(n)) = EmptyText
<1>0. n.text \in Texts /\ (n.type = "IP address" => n.text.core \in Addresses)
  BY DEF Names
<1>1. CASE n.type = "DNS"
  BY <1>1, NormalKept, PlainFields DEF Blank, EmptyText
<1>2. CASE n.type = "IP address"
  <2>1. Normalize(n.type, Kept(n)) = Plain(Canonical[n.text.core])
    BY <1>2, NormalKept
  <2>2. n.text.core # EmptyCore /\ Canonical[n.text.core] # EmptyCore
    BY <1>0, <1>2, NormalAddress, FindingsAssumption
  <2> QED
    BY <2>1, <2>2, PlainFields DEF Blank, EmptyText
<1>3. CASE n.type = "email"
  <2>1. Normalize(n.type, Kept(n)) = [core |-> n.text.core, caps |-> FALSE, dot |-> n.text.dot, padded |-> FALSE]
    BY <1>3, NormalKept
  <2>2. n.text.dot \in BOOLEAN
    BY <1>0, TextFields
  <2> QED
    BY <1>3, <2>1, <2>2 DEF Blank, EmptyText, Plain
<1>4. CASE n.type = "URI"
  <2>1. Normalize(n.type, Kept(n)) = TrimSpace(n.text)
    BY <1>4, NormalKept
  <2>2. TrimSpace(n.text) = [core |-> n.text.core, caps |-> n.text.caps, dot |-> n.text.dot, padded |-> FALSE]
    BY <1>0, NormalForms
  <2>3. n.text.dot \in BOOLEAN /\ n.text.caps \in BOOLEAN /\ (n.text.core = EmptyCore => ~n.text.caps)
    BY <1>0, TextFields
  <2> QED
    BY <1>4, <2>1, <2>2, <2>3 DEF Blank, EmptyText, Plain
<1> QED
  BY <1>1, <1>2, <1>3, <1>4 DEF Types

(* How often a key occurs in a list, among the texts of its type and among *)
(* the names of the request is the same.                                   *)
EntriesOf(key) == {entry \in EntryRecords : KeyOf(entry) = key}
TextsOf(key)   == {t \in Texts : Normalize(key[1], t) = key[2]}

LEMMA KeyParts ==
  ASSUME NEW key \in Keys
  PROVE  \A x, y : <<x, y>> = key <=> x = key[1] /\ y = key[2]
BY DEF Keys

(* Entries of one type with a given key are texts with its normal form.    *)
LEMMA EntriesWithKey ==
  ASSUME FindingsInv, NEW type \in Types, NEW key \in Keys
  PROVE  Cardinality(Where(Entries(type), EntriesOf(key))) =
           IF type = key[1] THEN Cardinality(Where(san[type], TextsOf(key))) ELSE 0
<1>1. PICK texts, entries : texts = san[type] /\ entries = Entries(type)
  OBVIOUS
<1>2. PICK k \in Nat : k = Len(texts) /\ DOMAIN texts = 1..k
  <2>1. texts \in Seq(Texts)
    BY <1>1, Extents
  <2> QED
    BY <2>1
<1>3. \A n \in 1..k : texts[n] \in Texts
  BY <1>1, <1>2, Extents
<1>4. /\ entries \in Seq(EntryRecords) /\ Len(entries) = k
      /\ \A n \in 1..k : entries[n] = [type |-> type, text |-> texts[n]]
  <2>1. san \in [Types -> Seq(Texts)]
    BY DEF FindingsInv, TypeOK
  <2> QED
    BY <1>1, <1>2, <2>1, EntriesType
<1>5. DOMAIN entries = 1..k
  BY <1>4
<1>6. ASSUME NEW n \in 1..k
      PROVE  entries[n] \in EntriesOf(key) <=> type = key[1] /\ texts[n] \in TextsOf(key)
  <2>1. entries[n] \in EntryRecords /\ entries[n].type = type /\ entries[n].text = texts[n]
    BY <1>3, <1>4 DEF EntryRecords
  <2>2. KeyOf(entries[n]) = <<type, Normalize(type, texts[n])>>
    BY <2>1 DEF KeyOf
  <2>3. KeyOf(entries[n]) = key <=> type = key[1] /\ Normalize(type, texts[n]) = key[2]
    BY <2>2, KeyParts
  <2> QED
    BY <1>3, <2>1, <2>3 DEF EntriesOf, TextsOf
<1>7. CASE type = key[1]
  <2>1. Where(entries, EntriesOf(key)) = Where(texts, TextsOf(key))
    BY <1>2, <1>5, <1>6, <1>7 DEF Where
  <2> QED
    BY <1>1, <1>7, <2>1
<1>8. CASE type # key[1]
  <2>1. Where(entries, EntriesOf(key)) = {}
    BY <1>5, <1>6, <1>8 DEF Where
  <2> QED
    BY <1>1, <1>8, <2>1, FS_EmptySet
<1> QED
  BY <1>7, <1>8

(* In the list as a whole only the entries of the type of the key count.   *)
LEMMA AllEntriesWithKey ==
  ASSUME FindingsInv, NEW key \in Keys
  PROVE  Cardinality(Where(AllEntries, EntriesOf(key))) =
           IF key[1] \in Types THEN Cardinality(Where(san[key[1]], TextsOf(key))) ELSE 0
<1>1. PICK a, b, c, d : a = Entries("DNS") /\ b = Entries("IP address") /\ c = Entries("email") /\ d = Entries("URI")
  OBVIOUS
<1>2. a \in Seq(EntryRecords) /\ b \in Seq(EntryRecords) /\ c \in Seq(EntryRecords) /\ d \in Seq(EntryRecords)
  <2>1. san \in [Types -> Seq(Texts)]
    BY DEF FindingsInv, TypeOK
  <2> QED
    BY <1>1, <2>1, EntriesType, TypesAreTypes
<1>3. PICK ab, abc : ab = a \o b /\ abc = ab \o c
  OBVIOUS
<1>4. ab \in Seq(EntryRecords) /\ abc \in Seq(EntryRecords) /\ AllEntries = abc \o d
  <2>1. ab \in Seq(EntryRecords)
    BY <1>2, <1>3
  <2>2. abc \in Seq(EntryRecords)
    BY <1>2, <1>3, <2>1
  <2>3. AllEntries = abc \o d
    BY <1>1, <1>3, Zenon DEF AllEntries
  <2> QED
    BY <2>1, <2>2, <2>3
<1>5. PICK E : E = EntriesOf(key)
  OBVIOUS
<1>6. Cardinality(Where(ab, E)) = Cardinality(Where(a, E)) + Cardinality(Where(b, E))
  BY <1>2, <1>3, WhereOfConcat
<1>7. Cardinality(Where(abc, E)) = Cardinality(Where(ab, E)) + Cardinality(Where(c, E))
  BY <1>2, <1>3, <1>4, WhereOfConcat
<1>8. Cardinality(Where(AllEntries, E)) = Cardinality(Where(abc, E)) + Cardinality(Where(d, E))
  BY <1>2, <1>4, WhereOfConcat
<1>9. PICK i, j, k, l : /\ i = Cardinality(Where(a, E)) /\ j = Cardinality(Where(b, E))
                        /\ k = Cardinality(Where(c, E)) /\ l = Cardinality(Where(d, E))
  OBVIOUS
<1>10. i \in Nat /\ j \in Nat /\ k \in Nat /\ l \in Nat
  BY <1>2, <1>9, WhereIsFinite
<1>11. Cardinality(Where(AllEntries, E)) = i + j + k + l
  BY <1>6, <1>7, <1>8, <1>9
<1>12. PICK w : w = [type \in Types |-> Cardinality(Where(san[type], TextsOf(key)))]
  OBVIOUS
<1>13. /\ i = IF key[1] = "DNS" THEN w["DNS"] ELSE 0
       /\ j = IF key[1] = "IP address" THEN w["IP address"] ELSE 0
       /\ k = IF key[1] = "email" THEN w["email"] ELSE 0
       /\ l = IF key[1] = "URI" THEN w["URI"] ELSE 0
  BY <1>1, <1>5, <1>9, <1>12, EntriesWithKey, TypesAreTypes
<1>14. i + j + k + l = IF key[1] \in Types THEN w[key[1]] ELSE 0
  <2>1. CASE key[1] \notin Types
    <3>1. i = 0 /\ j = 0 /\ k = 0 /\ l = 0
      BY <1>13, <2>1, TypesAreTypes
    <3> QED
      BY <2>1, <3>1
  <2>2. CASE key[1] = "DNS"
    <3>1. i = w[key[1]] /\ j = 0 /\ k = 0 /\ l = 0
      BY <1>13, <2>2
    <3> QED
      <4>1. key[1] \in Types
        BY <2>2, TypesAreTypes
      <4>2. i + j + k + l = i
        BY <1>10, <3>1
      <4> QED
        BY <3>1, <4>1, <4>2
  <2>3. CASE key[1] = "IP address"
    <3>1. i = 0 /\ j = w[key[1]] /\ k = 0 /\ l = 0
      BY <1>13, <2>3
    <3> QED
      <4>1. key[1] \in Types
        BY <2>3, TypesAreTypes
      <4>2. i + j + k + l = j
        BY <1>10, <3>1
      <4> QED
        BY <3>1, <4>1, <4>2
  <2>4. CASE key[1] = "email"
    <3>1. i = 0 /\ j = 0 /\ k = w[key[1]] /\ l = 0
      BY <1>13, <2>4
    <3> QED
      <4>1. key[1] \in Types
        BY <2>4, TypesAreTypes
      <4>2. i + j + k + l = k
        BY <1>10, <3>1
      <4> QED
        BY <3>1, <4>1, <4>2
  <2>5. CASE key[1] = "URI"
    <3>1. i = 0 /\ j = 0 /\ k = 0 /\ l = w[key[1]]
      BY <1>13, <2>5
    <3> QED
      <4>1. key[1] \in Types
        BY <2>5, TypesAreTypes
      <4>2. i + j + k + l = l
        BY <1>10, <3>1
      <4> QED
        BY <3>1, <4>1, <4>2
  <2> QED
    BY <2>1, <2>2, <2>3, <2>4, <2>5 DEF Types
<1> QED
  BY <1>5, <1>11, <1>12, <1>14

(* A key is repeated among the entries when two names of the request have  *)
(* it.                                                                     *)
LEMMA RepeatedKeys ==
  ASSUME FindingsInv, stage \notin {"names", "failed"}, NEW key \in Keys
  PROVE  key \in RepeatedUpTo(Len(AllEntries)) <=>
           /\ key[2] # EmptyText
           /\ key[1] \in Types
           /\ \E m, n \in DOMAIN request.names : m # n /\ NameKey(m) = key /\ NameKey(n) = key
<1>1. PICK all, L : all = AllEntries /\ L = Len(all)
  OBVIOUS
<1>2. all \in Seq(EntryRecords) /\ L \in Nat /\ DOMAIN all = 1..L
  <2>1. all \in Seq(EntryRecords)
    BY <1>1, TypeFacts DEF FindingsInv
  <2> QED
    BY <1>1, <2>1
<1>3. PICK places : places = Where(all, EntriesOf(key))
  OBVIOUS
<1>4. IsFiniteSet(places) /\ Cardinality(places) \in Nat
  BY <1>2, <1>3, WhereIsFinite
<1>5. \A i \in 1..L : i \in places <=> KeyOf(all[i]) = key
  BY <1>2, <1>3 DEF Where, EntriesOf
<1>6. places \subseteq 1..L
  BY <1>2, <1>3 DEF Where
<1>7. (\E i, j \in 1..L : i < j /\ KeyOf(all[i]) = key /\ KeyOf(all[j]) = key) <=> \E x, y \in places : x # y
  <2>1. ASSUME NEW x \in places, NEW y \in places, x # y
        PROVE  \E i, j \in 1..L : i < j /\ KeyOf(all[i]) = key /\ KeyOf(all[j]) = key
    <3>1. x \in 1..L /\ y \in 1..L /\ KeyOf(all[x]) = key /\ KeyOf(all[y]) = key
      BY <1>5, <1>6
    <3>2. x < y \/ y < x
      BY <1>2, <2>1, <3>1
    <3> QED
      BY <3>1, <3>2
  <2>2. ASSUME NEW i \in 1..L, NEW j \in 1..L, i < j, KeyOf(all[i]) = key, KeyOf(all[j]) = key
        PROVE  \E x, y \in places : x # y
    <3>1. i \in places /\ j \in places
      BY <1>5, <2>2
    <3>2. i # j
      BY <1>2, <2>2
    <3> QED
      BY <3>1, <3>2
  <2> QED
    BY <2>1, <2>2
<1>8. key \in RepeatedUpTo(Len(AllEntries)) <=> key[2] # EmptyText /\ Cardinality(places) >= 2
  <2>1. Cardinality(places) >= 2 <=> \E x, y \in places : x # y
    BY <1>4, TwoMembers
  <2> QED
    BY <1>1, <1>7, <2>1 DEF RepeatedUpTo
<1>9. Cardinality(places) = IF key[1] \in Types THEN Cardinality(Where(san[key[1]], TextsOf(key))) ELSE 0
  BY <1>1, <1>3, AllEntriesWithKey
<1>10. CASE key[1] \notin Types
  BY <1>8, <1>9, <1>10
<1>11. CASE key[1] \in Types
  <2>1. TextsOf(key) \in SUBSET Texts
    BY DEF TextsOf
  <2>2. PICK N \in Nat : N = Len(request.names) /\ DOMAIN request.names = 1..N
    BY Extents
  <2>3. PICK named : named = Named(key[1], TextsOf(key), N)
    OBVIOUS
  <2>4. Cardinality(places) = Cardinality(named) /\ IsFiniteSet(named)
    BY <1>9, <1>11, <2>1, <2>2, <2>3, AllRead
  <2>5. \A n \in 1..N : n \in named <=> NameKey(n) = key
    <3> SUFFICES ASSUME NEW n \in 1..N PROVE n \in named <=> NameKey(n) = key
      OBVIOUS
    <3>1. Kept(request.names[n]) \in Texts
      BY <2>2, NamesType
    <3>2. NameKey(n) = key <=> request.names[n].type = key[1] /\ Normalize(request.names[n].type, Kept(request.names[n])) = key[2]
      BY KeyParts DEF NameKey
    <3> QED
      BY <2>3, <3>1, <3>2 DEF Named, TextsOf
  <2>6. named \subseteq 1..N
    BY <2>3 DEF Named
  <2>7. Cardinality(named) >= 2 <=> \E x, y \in named : x # y
    BY <2>4, TwoMembers
  <2>8. (\E x, y \in named : x # y) <=> \E m, n \in 1..N : m # n /\ NameKey(m) = key /\ NameKey(n) = key
    BY <2>5, <2>6
  <2> QED
    BY <1>8, <1>11, <2>2, <2>4, <2>7, <2>8
<1> QED
  BY <1>10, <1>11

(* The names that are the second of their kind, and the keys that occur    *)
(* twice, are as many.                                                     *)
LEMMA DuplicatesHold == FindingsInv => DuplicatesAreReportedOnce
<1> DEFINE names     == request.names
           before(n) == {m \in 1..(n-1) : SameName(names[m], names[n])}
           twice     == {n \in DOMAIN names : ~Blank(names[n]) /\ \E m \in 1..(n-1) : SameName(names[m], names[n])}
           second    == {n \in twice : Cardinality(before(n)) = 1}
<1> SUFFICES ASSUME FindingsInv, stage = "done"
             PROVE  /\ Count("duplicate_san") = Cardinality(second)
                    /\ Cardinality(About("duplicate_san")) = Cardinality(second)
  BY DEF DuplicatesAreReportedOnce
<1>1. PICK N \in Nat : N = Len(request.names) /\ DOMAIN request.names = 1..N
  BY Extents
<1>2. PICK repeated : repeated = RepeatedUpTo(Len(AllEntries))
  OBVIOUS
<1>3. Count("duplicate_san") = Cardinality(repeated) /\ About("duplicate_san") = repeated
  BY <1>2 DEF FindingsInv, DuplicatesInv, Compared
<1>4. ASSUME NEW m \in 1..N, NEW n \in 1..N
      PROVE  SameName(names[m], names[n]) <=> NameKey(m) = NameKey(n) /\ names[n].type \in Types
  <2>1. names[m] \in Names /\ names[n] \in Names
    BY <1>1, NamesType
  <2>2. SameName(names[m], names[n]) <=>
          /\ names[n].type \in Types
          /\ names[m].type = names[n].type
          /\ Normalize(names[m].type, Kept(names[m])) = Normalize(names[n].type, Kept(names[n]))
    BY <2>1, SameIsSameKey
  <2> QED
    BY <2>2 DEF NameKey
<1>5. ASSUME NEW n \in 1..N, names[n].type \in Types
      PROVE  NameKey(n) \in Keys /\ NameKey(n)[1] \in Types /\ (Blank(names[n]) <=> NameKey(n)[2] = EmptyText)
  <2>1. names[n] \in Names /\ Kept(names[n]) \in Texts
    BY <1>1, NamesType
  <2>2. Normalize(names[n].type, Kept(names[n])) \in Texts
    BY <1>5, <2>1, NormalizeType
  <2>3. Blank(names[n]) <=> Normalize(names[n].type, Kept(names[n])) = EmptyText
    BY <1>5, <2>1, BlankIsEmpty
  <2> QED
    BY <1>5, <2>2, <2>3 DEF NameKey, Keys
<1>6. \A n \in 1..N : IsFiniteSet(before(n)) /\ \A m \in before(n) : m \in 1..N /\ m < n /\ SameName(names[m], names[n])
  <2> SUFFICES ASSUME NEW n \in 1..N
               PROVE  IsFiniteSet(before(n)) /\ \A m \in before(n) : m \in 1..N /\ m < n /\ SameName(names[m], names[n])
    OBVIOUS
  <2>1. IsFiniteSet(1..(n-1)) /\ before(n) \subseteq 1..(n-1)
    <3>1. PICK k \in Int : k = n - 1
      BY <1>1
    <3>2. IsFiniteSet(1..k)
      BY FS_Interval
    <3> QED
      BY <3>1, <3>2
  <2>2. \A m \in 1..(n-1) : m \in 1..N /\ m < n
    BY <1>1
  <2> QED
    BY <2>1, <2>2, FS_Subset
<1>7. \A n : n \in second <=> /\ n \in 1..N /\ ~Blank(names[n])
                              /\ \E m \in before(n) : TRUE
                              /\ Cardinality(before(n)) = 1
  BY <1>1
<1>8. \A n \in 1..N, m \in 1..N : m < n /\ SameName(names[m], names[n]) => m \in before(n)
  BY <1>1
<1>9. \A n \in 1..N : Cardinality(before(n)) = 1 => \A x, y \in before(n) : x = y
  <2> SUFFICES ASSUME NEW n \in 1..N, Cardinality(before(n)) = 1 PROVE \A x, y \in before(n) : x = y
    OBVIOUS
  <2>1. PICK B : B = before(n)
    OBVIOUS
  <2>2. IsFiniteSet(B) /\ Cardinality(B) = 1
    BY <1>6, <2>1
  <2>3. Cardinality(B) >= 2 <=> \E x, y \in B : x # y
    BY <2>2, TwoMembers
  <2>4. \A x, y \in B : x = y
    BY <2>2, <2>3
  <2> QED
    BY <2>1, <2>4
<1>10. IsFiniteSet(second)
  <2>1. second \subseteq 1..N /\ IsFiniteSet(1..N)
    BY <1>1, FS_Interval
  <2> QED
    BY <2>1, FS_Subset
<1> HIDE DEF before, second
<1>11. PICK f : f = [n \in second |-> NameKey(n)]
  OBVIOUS
<1>12. ASSUME NEW n \in second PROVE NameKey(n) \in repeated
  <2>1. n \in 1..N /\ ~Blank(names[n])
    BY <1>7
  <2>2. PICK m \in before(n) : TRUE
    BY <1>7
  <2>3. m \in 1..N /\ m < n /\ SameName(names[m], names[n])
    BY <1>6, <2>1, <2>2
  <2>4. NameKey(m) = NameKey(n) /\ names[n].type \in Types
    BY <1>4, <2>1, <2>3
  <2>5. NameKey(n) \in Keys /\ NameKey(n)[1] \in Types /\ NameKey(n)[2] # EmptyText
    BY <1>5, <2>1, <2>4
  <2>6. m # n
    BY <1>1, <2>3
  <2> QED
    BY <1>1, <1>2, <2>1, <2>3, <2>4, <2>5, <2>6, RepeatedKeys
<1>13. f \in [second -> repeated]
  BY <1>11, <1>12
<1>14. ASSUME NEW x \in second, NEW y \in second, f[x] = f[y] PROVE x = y
  <2>1. /\ x \in 1..N /\ y \in 1..N /\ NameKey(x) = NameKey(y)
        /\ Cardinality(before(x)) = 1 /\ Cardinality(before(y)) = 1
    BY <1>7, <1>11, <1>14
  <2>2. ASSUME NEW a \in 1..N, NEW b \in 1..N, a < b, NameKey(a) = NameKey(b), Cardinality(before(b)) = 1,
               \E m \in before(a) : TRUE
        PROVE  FALSE
    <3>1. PICK m \in before(a) : TRUE
      BY <2>2
    <3>2. m \in 1..N /\ m < a /\ SameName(names[m], names[a])
      BY <1>6, <3>1
    <3>3. NameKey(m) = NameKey(a) /\ names[a].type \in Types
      BY <1>4, <3>2
    <3>4. names[b].type \in Types
      <4>1. names[a].type = names[b].type
        BY <2>2 DEF NameKey
      <4> QED
        BY <3>3, <4>1
    <3>5. SameName(names[m], names[b]) /\ SameName(names[a], names[b])
      BY <1>4, <2>2, <3>2, <3>3, <3>4
    <3>6. m < b /\ m # a
      BY <1>1, <2>2, <3>2
    <3>7. m \in before(b) /\ a \in before(b)
      BY <1>8, <2>2, <3>2, <3>5, <3>6
    <3> QED
      BY <1>9, <2>2, <3>6, <3>7
  <2>3. (\E m \in before(x) : TRUE) /\ (\E m \in before(y) : TRUE)
    BY <1>7
  <2>4. ~(x < y) /\ ~(y < x)
    BY <2>1, <2>2, <2>3
  <2> QED
    BY <1>1, <2>1, <2>4
<1>15. ASSUME NEW key \in repeated PROVE \E n \in second : f[n] = key
  <2>1. key \in Keys
    BY <1>2 DEF RepeatedUpTo
  <2>2. /\ key[2] # EmptyText /\ key[1] \in Types
        /\ \E m, n \in 1..N : m # n /\ NameKey(m) = key /\ NameKey(n) = key
    BY <1>1, <1>2, <1>15, <2>1, RepeatedKeys
  <2>3. PICK P \in SUBSET Nat : P = {n \in 1..N : NameKey(n) = key}
    <3>1. {n \in 1..N : NameKey(n) = key} \subseteq Nat
      OBVIOUS
    <3> QED
      BY <3>1
  <2>4. P # {}
    BY <2>2, <2>3
  <2>5. PICK a \in P : \A x \in P : a <= x
    BY <2>4, SmallestNumber
  <2>6. PICK Q \in SUBSET Nat : Q = P \ {a}
    BY <2>3
  <2>7. Q # {}
    BY <2>2, <2>3, <2>6
  <2>8. PICK b \in Q : \A x \in Q : b <= x
    BY <2>7, SmallestNumber
  <2>9. a \in 1..N /\ b \in 1..N /\ a < b /\ NameKey(a) = key /\ NameKey(b) = key
    <3>1. a \in P /\ b \in P /\ a # b
      BY <2>5, <2>6, <2>8
    <3>2. a \in Nat /\ b \in Nat /\ a <= b
      BY <2>3, <2>5, <3>1
    <3> QED
      BY <2>3, <3>1, <3>2
  <2>10. names[b].type \in Types
    <3>1. names[b].type = key[1]
      BY <2>9 DEF NameKey
    <3> QED
      BY <2>2, <3>1
  <2>11. ~Blank(names[b])
    BY <1>5, <2>2, <2>9, <2>10
  <2>12. a \in before(b)
    BY <1>4, <1>8, <2>9, <2>10
  <2>13. ASSUME NEW m \in before(b) PROVE m = a
    <3>1. m \in 1..N /\ m < b /\ NameKey(m) = key
      BY <1>4, <1>6, <2>9
    <3>2. m \in P
      BY <2>3, <3>1
    <3>3. m \in Q => b <= m
      BY <2>8
    <3>4. m \notin Q
      BY <1>1, <2>9, <3>1, <3>3
    <3> QED
      BY <2>6, <3>2, <3>4
  <2>14. before(b) = {a}
    BY <2>12, <2>13
  <2>15. Cardinality(before(b)) = 1
    BY <2>14, FS_Singleton
  <2>16. b \in second
    BY <1>7, <2>9, <2>11, <2>12, <2>15
  <2> QED
    BY <1>11, <2>9, <2>16
<1>16. Cardinality(repeated) = Cardinality(second)
  BY <1>10, <1>13, <1>14, <1>15, CountBijection
<1> QED
  BY <1>3, <1>16

(* findDuplicateSANFindings reports what is repeated, once, for every set  *)
(* of requests.                                                            *)
THEOREM DuplicatesAreExact == Spec => []DuplicatesAreReportedOnce
BY FindingsInvHolds, DuplicatesHold, PTL

(* What is said of the common name, of addresses and of a missing SAN is   *)
(* exact, for every set of requests.                                       *)
THEOREM NamesAreJudged == Spec => []NamesAreJudgedExactly
BY FindingsInvHolds, FindingsInvJudgesNames, PTL

=============================================================================
