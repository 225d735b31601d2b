-------------------------- MODULE QuestionCompilerMC --------------------------
(***************************************************************************)
(* Numbers at the edges of ports, status codes and AS numbers; ranges of   *)
(* one, three and the most addresses, one too long and one reversed; every *)
(* tree that is at most two connectives deep, over ports, a title and an   *)
(* address with a network, which may contain it.                           *)
(***************************************************************************)
EXTENDS QuestionCompiler

MCNumbers == {0, 1, 80, 99, 100, 599, 600, 65535, 65536, 100000, 100001}
MCRanges  == {<<11, 11>>, <<11, 13>>, <<11, 266>>, <<11, 267>>, <<13, 11>>}

MCExactFields == {"asn", "cert.is_equal", "cert.is_expired", "cert.is_match", "cert.is_valid",
                  "port", "status_code"}

MCLeaves == {Leaf(p) : p \in {Equals("port", 80), Equals("port", 443),
                              Predicate("port", "!=", "integer", "text", 80),
                              Exact("title", "text"), Excludes("title", "text"),
                              Typed("ip", "cidr", "text"),
                              Predicate("ip", "=", "ipv4", "text", 11)}}

Over(trees) ==
  {And(<<a, b>>) : a \in trees, b \in trees} \cup {Or(<<a, b>>) : a \in trees, b \in trees}
  \cup {Not(a) : a \in trees} \cup {Group(a) : a \in trees}

Shallow == MCLeaves \cup Over(MCLeaves)

MCProposals == Shallow \cup Over(Shallow)
===============================================================================
