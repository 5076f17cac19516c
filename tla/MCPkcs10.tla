------------------------------ MODULE MCPkcs10 ------------------------------
(* Small instances of Pkcs10: requests that differ in their names (those   *)
(* of MCFindings), in their attributes, and in their keys and signatures.  *)
EXTENDS Pkcs10, MCFindings

MCUnread == {Unread}

SAN(names) == [oid |-> "subjectAltName", decodes |-> TRUE, names |-> names]

ExtensionRequest(extensionLists) ==
  [type |-> "extensionRequest", decodes |-> TRUE,
   values |-> [v \in DOMAIN extensionLists |-> [decodes |-> TRUE, extensions |-> extensionLists[v]]]]

CN(text) == <<[isCommonName |-> TRUE, text |-> text]>>

NoGOST == [unusedBits |-> FALSE, decodes |-> TRUE, size |-> 0, parameters |-> "null"]

GoodCSR ==
  [faults     |-> {},
   attributes |-> <<>>,
   subject    |-> <<CN(Plain("a"))>>,
   version    |-> 0,
   key        |-> [algorithm |-> "ECDSA", bits |-> 256, refused |-> FALSE, gost |-> NoGOST],
   signature  |-> [algorithm |-> "ECDSAWithSHA2", genuine |-> TRUE]]

(* Every list of names, in one extension or split over two.                *)
NamedCSRs ==
  {[GoodCSR EXCEPT !.attributes = <<ExtensionRequest(<<<<SAN(r.names)>>>>)>>,
                   !.subject = <<CN(r.commonName)>>] : r \in NamedRequests}
    \union
  {[GoodCSR EXCEPT !.attributes = <<ExtensionRequest(<<<<SAN(names)>>>>), ExtensionRequest(<<<<SAN(names)>>>>)>>] :
     names \in Lists(MCNames, 1)}

(* Every list of up to two attributes, with subjects of several kinds.     *)
FewExtensions ==
  {SAN(<<>>), SAN(<<[type |-> "DNS", text |-> Plain("a")], [type |-> "skipped", text |-> Plain("a")]>>),
   [oid |-> "subjectAltName", decodes |-> FALSE, names |-> <<>>],
   [oid |-> "other", decodes |-> TRUE, names |-> <<>>]}

FewAttributes ==
  [type : {"extensionRequest", "other"}, decodes : BOOLEAN,
   values : {<<>>} \union {<<[decodes |-> d, extensions |-> es]>> : d \in BOOLEAN, es \in Lists(FewExtensions, 2)}]
    \union {ExtensionRequest(<<<<e>>, <<f>>>>) : e, f \in FewExtensions}

Subjects == {<<>>, <<CN(Plain(""))>>, <<CN(Plain("")) \o CN(Plain("a")), CN(Plain("*.a"))>>}

AttributeCSRs ==
  [faults     : {{}},
   attributes : Lists(FewAttributes, 2),
   subject    : {<<CN(Plain("")) \o CN(Plain("a")), CN(Plain("*.a"))>>},
   version    : {0},
   key        : {GoodCSR.key},
   signature  : {GoodCSR.signature}]
    \union
  [faults     : {{}, {"request"}, {"publicKeyInfo"}, {"subject"}, {"x509"}},
   attributes : {<<>>},
   subject    : Subjects,
   version    : {-1, 0, 1},
   key        : {GoodCSR.key, [algorithm |-> "other", bits |-> 0, refused |-> FALSE, gost |-> NoGOST]},
   signature  : {GoodCSR.signature}]

(* Every kind of key, RSA around both thresholds, with every signature.    *)
KeyCSRs ==
  {c \in [faults     : {{}},
          attributes : {<<ExtensionRequest(<<<<SAN(<<[type |-> "DNS", text |-> Plain("a")]>>)>>>>)>>},
          subject    : {<<>>, <<CN(Plain("a"))>>},
          version    : {0},
          key        : [algorithm : {"RSA"}, bits : {1, 1023, 1024, 2047, 2048}, refused : BOOLEAN,
                        gost : {NoGOST}]
                         \union [algorithm : KeyAlgorithms \ {"RSA"}, bits : {256}, refused : {FALSE},
                                gost : {NoGOST}]
                         \union [algorithm : GOST, bits : {256}, refused : {FALSE},
                                 gost : [unusedBits : BOOLEAN, decodes : BOOLEAN, size : {64, 128},
                                         parameters : {"absent", "null", "malformed", "noParameterSet",
                                                       "noDigest", "digest"}]],
          signature  : [algorithm : DOMAIN SignatureAlgorithms, genuine : BOOLEAN]] :
     c.signature.genuine => SignatureAlgorithms[c.signature.algorithm].key \in {c.key.algorithm, "none"}}

MCCSRs == NamedCSRs \union AttributeCSRs \union KeyCSRs

=============================================================================
