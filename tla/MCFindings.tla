----------------------------- MODULE MCFindings -----------------------------
(* Small instances of Findings.                                            *)
EXTENDS Findings

MCCores         == {"", "a", "192.0.2.1", "::ffff:192.0.2.1", "*.a", "a*"}
MCWildcards     == {"*.a", "a*"}
MCGoodWildcards == {"*.a"}
MCCanonical     == [core \in {"192.0.2.1", "::ffff:192.0.2.1"} |-> "192.0.2.1"]

Spelt(core, caps, dot, padded) == [core |-> core, caps |-> caps, dot |-> dot, padded |-> padded]

DNSTexts == {Plain("a"), Spelt("a", TRUE, TRUE, FALSE), Spelt("a", FALSE, FALSE, TRUE), Plain("192.0.2.1"),
             Spelt("192.0.2.1", FALSE, FALSE, TRUE), Plain("*.a"), Plain("a*"), Plain("")}

MCNames ==
  [type : {"DNS"}, text : DNSTexts]
    \union [type : {"IP address"}, text : {Plain("192.0.2.1"), Plain("::ffff:192.0.2.1")}]
    \union [type : {"email"}, text : {Plain("a"), Spelt("a", TRUE, FALSE, FALSE), Spelt("a", FALSE, TRUE, FALSE)}]
    \union [type : {"URI"}, text : {Plain("a"), Spelt("a", TRUE, FALSE, FALSE)}]
    \union [type : {"skipped", "malformed"}, text : {Plain("a")}]

Lists(names, length) == UNION {[1..n -> names] : n \in 0..length}

(* Requests that differ in their names: all lists of up to three of them,  *)
(* with common names in several spellings.                                 *)
NamedRequests ==
  [hasSAN     : {TRUE},
   names      : Lists(MCNames, 3),
   commonName : {Plain(""), Spelt("a", TRUE, FALSE, FALSE), Spelt("a", FALSE, TRUE, TRUE),
                 Plain("::ffff:192.0.2.1"), Spelt("192.0.2.1", FALSE, TRUE, FALSE)},
   rdns       : {1},
   rsa        : {FALSE},
   bits       : {0},
   hash       : {"other"},
   version    : {0}]

(* Requests that differ in everything else, with few names.                *)
OtherRequests ==
  {r \in [hasSAN     : BOOLEAN,
          names      : Lists({[type |-> "DNS", text |-> Plain("a")], [type |-> "DNS", text |-> Plain("192.0.2.1")],
                              [type |-> "skipped", text |-> Plain("a")]}, 2),
          commonName : {Plain(""), Plain("a")},
          rdns       : {0, 1},
          rsa        : BOOLEAN,
          bits       : {0, 1023, 1024, 2047, 2048},
          hash       : {"MD5", "SHA-1", "other"},
          version    : {-1, 0, 1}] :
     /\ ~r.hasSAN => r.names = <<>>
     /\ r.rdns = 0 => r.commonName = EmptyText}

(* Those with a name that parseSANFromExtensions skips.                    *)
SkippingRequests == {r \in OtherRequests : \E n \in DOMAIN r.names : r.names[n].type = "skipped"}

=============================================================================
