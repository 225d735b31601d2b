------------------------------ MODULE QueryRules ------------------------------
(***************************************************************************)
(* The sentences the rules know and the trees they translate them to.  A   *)
(* sentence names the pattern it matches, the text captured in it (one     *)
(* word for all its texts) and the numbers captured, in order.  Patterns   *)
(* do not overlap, so the order of the four translators is left out.       *)
(***************************************************************************)
EXTENDS QueryTree, FiniteSets

CONSTANTS
  Numbers,      \* numbers that sentences capture
  Ranges,       \* <<first, last>> addresses of a closed range, as numbers
  Proposals,    \* trees a semantic provider proposes
  MaxDepth      \* bound: how deep they are

ASSUME NumbersAssumption ==
  /\ Numbers \subseteq Nat
  /\ Ranges \subseteq Nat \X Nat

ASSUME ProposalsAssumption ==
  /\ MaxDepth \in Nat
  /\ \A t \in Proposals : IsTree(t, MaxDepth) /\ WellFormed(t)

Sentence(form, word, numbers) == [form |-> form, word |-> word, numbers |-> numbers]

(* A translation has the constraints of the intent, in order, and the      *)
(* tree, whose predicates carry the constraint they stand for.             *)
Leaves(parts) == [i \in DOMAIN parts |-> Leaf([parts[i] EXCEPT !.ref = i])]

(* _result: one predicate, or the conjunction of all. *)
Result(parts) ==
  LET p == Leaves(parts)
  IN [constraints |-> DOMAIN parts, node |-> IF Len(parts) = 1 THEN p[1] ELSE And(p)]

CoreParts(form, w, n) ==
  CASE form = "core.ip.exact"         -> <<Typed("ip", "ipv4", w)>>
    [] form = "core.ip.cidr"          -> <<Typed("ip", "cidr", w)>>
    [] form = "core.domain.exact"     -> <<Exact("domain", w)>>
    [] form = "core.host.exact"       -> <<Exact("host", w)>>
    [] form = "core.domain.contains"  -> <<Contains("domain", w)>>
    [] form = "core.country.exact"    -> <<Contains("country", w)>>
    [] form = "core.asn.exact"        -> <<Equals("asn", n[1])>>
    [] form = "core.port.exact"       -> <<Equals("port", n[1])>>
    [] form = "core.protocol.port"    -> <<Contains("protocol", "ssh"), Equals("port", n[1])>>
    [] form = "core.protocol.exact"   -> <<Contains("protocol", "tcp")>>
    [] form = "core.protocol.service" -> <<Contains("protocol", "snmp")>>
    [] form = "core.country.protocol" -> <<Contains("country", "CN"), Contains("protocol", "dns")>>
    [] form = "core.product.app"      -> <<Contains("app", "gitlab")>>

WebParts(form, w, n) ==
  CASE form \in {"web.body.literal", "web.body.literal_escaped", "web.body.contains",
                 "web.body.resource_reference"} -> <<Contains("body", w)>>
    [] form = "web.banner.contains"    -> <<Contains("banner", w)>>
    [] form = "web.header.contains"    -> <<Contains("header", w)>>
    [] form = "web.status_code.exact"  -> <<Equals("status_code", n[1])>>

CertificateParts(form, w, n) ==
  CASE form = "certificate.issuer_org.unexpired" ->
         <<Contains("cert.issuer.org", w), IsFalse("cert.is_expired")>>
    [] form = "certificate.subject_cn.domain_exclusion" ->
         <<Exact("cert.subject.cn", w), Excludes("domain", w)>>
    [] form = "certificate.content"     -> <<Contains("cert", w)>>
    [] form = "certificate.subject_org" -> <<Contains("cert.subject.org", w)>>
    [] form = "certificate.domain"      -> <<Contains("cert.domain", w)>>
    [] form = "certificate.content.domain_exclusion" ->
         <<Contains("cert", w), Excludes("domain", w)>>
    [] form = "certificate.tls_version.unexpired" ->
         <<Exact("tls.version", w), IsFalse("cert.is_expired")>>
    [] form = "certificate.jarm.web_constraints" ->
         <<Exact("jarm", "text"), Equals("status_code", n[1]), Contains("header", w)>>
    [] form = "certificate.issuer_subject_mismatch" -> <<IsFalse("cert.is_equal")>>
    [] form = "certificate.country.domain_mismatch" ->
         <<Contains("country", w), IsFalse("cert.is_match")>>
    [] form = "certificate.country.ja3s" -> <<Contains("country", w), Exact("tls.ja3s", "text")>>
    [] form = "certificate.issuer_cn.serial" ->
         <<Exact("cert.issuer.cn", "text"), Typed("cert.sn", "certificate_serial", w)>>

AdvancedParts(form, w) ==
  CASE form = "advanced.domain.regex_two_single_labels" ->
         <<Predicate("domain", "*=", "regex", "escaped", 0)>>
    [] form = "advanced.ip.derived_16"    -> <<Typed("ip", "cidr", w)>>
    [] form = "advanced.migration.shodan" -> <<Contains("header", "nginx"), Exact("title", "Welcome")>>
    [] form = "advanced.migration.google_dork" ->
         <<Contains("title", "Grafana"), Contains("body", "JavaScript")>>
    [] form = "advanced.repair.fofa_quotes_order" ->
         <<Contains("region", "HK"), Exact("server", "Apache"),
           Predicate("asn", "!=", "integer", "text", 4134)>>

(* The four rules that put their predicates in a tree of their own. *)
BooleanTime ==
  LET p == Leaves(<<Contains("title", "Jenkins"), Contains("body", "jenkins"),
                      Excludes("country", "CN"), Typed("after", "timestamp", "2026-08-01")>>)
  IN [constraints |-> DOMAIN p, node |-> And(<<Or(<<p[1], p[2]>>), p[3], p[4]>>)]

Urlscan ==
  LET p == Leaves(<<Contains("body", "login"), Contains("domain", "bet"),
                      Contains("domain", "casino"), Contains("domain", "kasino")>>)
  IN [constraints |-> DOMAIN p, node |-> And(<<p[1], Or(<<p[2], p[3], p[4]>>)>>)]

Precedence ==
  LET p == Leaves(<<Contains("app", "HFS"), Equals("port", 80), Contains("app", "HFS"),
                      Equals("port", 8080), Equals("status_code", 200)>>)
  IN [constraints |-> DOMAIN p,
      node |-> Or(<<And(<<p[1], p[2]>>), And(<<p[3], p[4], p[5]>>)>>)]

(* Fault: the last address of the range is left out. *)
HalfOpenRange(n) ==
  LET ips   == [i \in 1..n[2] - n[1] |->
                  Predicate("ip", "=", "ipv4", "text", n[1] + i - 1)]
      parts == Leaves(ips \o <<Equals("port", n[3]), Equals("port", n[4])>>)
      addresses == Len(ips)
  IN [constraints |-> DOMAIN parts,
      node |-> And(<<Or(SubSeq(parts, 1, addresses)), Or(SubSeq(parts, addresses + 1, addresses + 2))>>)]

ClosedRange(n) ==
  LET ips   == [i \in 1..n[2] - n[1] + 1 |->
                  Predicate("ip", "=", "ipv4", "text", n[1] + i - 1)]
      parts == Leaves(ips \o <<Equals("port", n[3]), Equals("port", n[4])>>)
      addresses == Len(ips)
  IN [constraints |-> DOMAIN parts,
      node |-> And(<<Or(SubSeq(parts, 1, addresses)), Or(SubSeq(parts, addresses + 1, addresses + 2))>>)]

-------------------------------------------------------------------------------
(* The sentences that are asked, with the texts and numbers they capture.  *)
Of(forms, words) == {Sentence(f, w, <<>>) : f \in forms, w \in words}
OfNumber(forms)  == {Sentence(f, "text", <<n>>) : f \in forms, n \in Numbers}

CoreSentences ==
  Of({"core.ip.exact", "core.ip.cidr", "core.country.exact"}, {"text", "malformed"})
  \cup Of({"core.domain.contains"}, {"text", "escaped"})
  \cup Of({"core.domain.exact", "core.host.exact", "core.protocol.exact",
           "core.protocol.service", "core.country.protocol", "core.product.app"}, {"text"})
  \cup OfNumber({"core.asn.exact", "core.port.exact", "core.protocol.port"})

WebSentences ==
  Of({"web.body.literal", "web.body.literal_escaped", "web.body.contains",
      "web.body.resource_reference", "web.banner.contains", "web.header.contains"},
     {"text", "escaped"})
  \cup OfNumber({"web.status_code.exact"})

CertificateSentences ==
  Of({"certificate.issuer_org.unexpired", "certificate.subject_cn.domain_exclusion",
      "certificate.content", "certificate.subject_org", "certificate.domain",
      "certificate.content.domain_exclusion"}, {"text", "escaped"})
  \cup Of({"certificate.tls_version.unexpired", "certificate.issuer_subject_mismatch"}, {"text"})
  \cup Of({"certificate.country.domain_mismatch", "certificate.country.ja3s"},
          {"text", "malformed"})
  \cup {Sentence("certificate.issuer_cn.serial", w, <<>>) : w \in {"text", "malformed", "colons"}}
  \cup OfNumber({"certificate.jarm.web_constraints"})

AdvancedSentences ==
  Of({"advanced.boolean.time", "advanced.domain.regex_two_single_labels",
      "advanced.migration.shodan", "advanced.migration.google_dork",
      "advanced.migration.urlscan", "advanced.repair.fofa_quotes_order",
      "advanced.repair.fofa_precedence"}, {"text"})
  \cup Of({"advanced.ip.derived_16"}, {"text", "malformed"})
  \cup {Sentence("advanced.ip.closed_range.ports", w, <<r[1], r[2], p, q>>) :
          w \in {"text", "malformed"}, r \in Ranges, p \in {80}, q \in {443, 65536}}

(* Sentences only classify_unsupported knows, and one nobody knows. *)
UnsupportedSentences ==
  OfNumber({"open.port"})
  \cup Of({"address", "country.contradiction"}, {"text", "malformed"})
  \cup Of({"safest.website", "container.memory", "unknown"}, {"text"})

Sentences == CoreSentences \cup WebSentences \cup CertificateSentences
               \cup AdvancedSentences \cup UnsupportedSentences

(* classify_unsupported; the two country codes of the contradiction are    *)
(* the same in the "malformed" sentence.                                   *)
Unsupported(s) ==
  \/ s.form = "open.port" /\ s.numbers[1] \notin 1..65535
  \/ s.form \in {"address", "country.contradiction"} /\ s.word = "malformed"
  \/ s.form \in {"safest.website", "container.memory"}

(* Sentences that match a pattern and get no translation: a country that   *)
(* is not mapped, a range that is reversed or too long.                    *)
UnmappedCountry(s) ==
  /\ s.form \in {"core.country.exact", "certificate.country.domain_mismatch",
                 "certificate.country.ja3s"}
  /\ s.word = "malformed"

RangeRefused(s) ==
  /\ s.form = "advanced.ip.closed_range.ports" /\ s.word # "malformed"
  /\ s.numbers[2] < s.numbers[1] \/ s.numbers[2] - s.numbers[1] > 255

Untranslated(s) == s \in UnsupportedSentences \/ UnmappedCountry(s) \/ RangeRefused(s)

(* ip_address and int raise on what the pattern lets through. *)
AddressRaises(s) ==
  s.form \in {"advanced.ip.derived_16", "advanced.ip.closed_range.ports"} /\ s.word = "malformed"

SerialRaises(s) == s.form = "certificate.issuer_cn.serial" /\ s.word = "colons"

CaptureRaises(s) == AddressRaises(s) \/ SerialRaises(s)

Translation(s) ==
  CASE s \in CoreSentences        -> Result(CoreParts(s.form, s.word, s.numbers))
    [] s \in WebSentences         -> Result(WebParts(s.form, s.word, s.numbers))
    [] s \in CertificateSentences -> Result(CertificateParts(s.form, s.word, s.numbers))
    [] s.form = "advanced.boolean.time"           -> BooleanTime
    [] s.form = "advanced.migration.urlscan"      -> Urlscan
    [] s.form = "advanced.repair.fofa_precedence" -> Precedence
    [] s.form = "advanced.ip.closed_range.ports"  -> ClosedRange(s.numbers)
    [] OTHER                      -> Result(AdvancedParts(s.form, s.word))
===============================================================================
