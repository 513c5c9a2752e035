------------------------------ MODULE RuleSets ------------------------------
(***************************************************************************)
(* compileRuleSet of core/rule_set.go: what a rule set's source is, and    *)
(* the keys that stand for it in the .mrs the config loads instead.        *)
(*                                                                         *)
(* An entry is cut at its first comma: [rule, value, more].  With no comma *)
(* rule is Nothing; more says there is a second one.  Values are the       *)
(* shapes that differ: a domain, the wildcards of domain sets over it, an  *)
(* address, a range, nothing, and text no parser accepts.  A list is the   *)
(* set of its entries: neither their order nor a second copy of one makes  *)
(* a difference to the code or to what mihomo matches.                     *)
(***************************************************************************)

Nothing == "nothing"

Domains == {"d", "+.d", "*.d", ".d"}
Values == Domains \cup {"", "range", "address", "junk"}
RuleTypes == {Nothing, "DOMAIN", "DOMAIN-SUFFIX", "IP-CIDR", "PROCESS-NAME"}

Entry(rule, value, more) == [rule |-> rule, value |-> value, more |-> more]

Entries == {e \in [rule : RuleTypes, value : Values, more : BOOLEAN] :
                e.rule = Nothing => ~e.more /\ e.value # ""}

CONSTANT Lists  \* the lists that sources are made of

ASSUME ListsAssumption == Lists \subseteq SUBSET Entries

-----------------------------------------------------------------------------
(* Helpers.  What a domain set reads for a value with "+." before it.      *)

Suffix(value) ==
    CASE value = "d" -> "+.d" [] value = "address" -> "+.address" [] OTHER -> "+.junk"

ParsesAsPrefix(value) == value = "range"

TakesAny(value) == value # ""

plainDomain(value) == value \in {"d", "address", "junk"}

(* A lone address is the range that holds only it.                         *)
parseCIDR(value) ==
    CASE value = "range" -> "range" [] value = "address" -> "address/32" [] OTHER -> Nothing

-----------------------------------------------------------------------------
(* Classification.                                                         *)

Found(behavior, keys) == [behavior |-> behavior, keys |-> keys, error |-> Nothing]
Classical == Found("classical", {})
Failed(error) == [behavior |-> "classical", keys |-> {}, mrs |-> {}, error |-> error]

(* The key of one entry of the form TYPE,value, or Nothing.                *)
DomainKey(e) ==
    CASE e.rule = "DOMAIN" /\ plainDomain(e.value) -> e.value
      [] e.rule = "DOMAIN-SUFFIX" /\ plainDomain(e.value) -> Suffix(e.value)
      [] OTHER -> Nothing

RangeKey(e) == IF e.rule = "IP-CIDR" /\ ParsesAsPrefix(e.value) THEN e.value ELSE Nothing

classifyClassical(entries) ==
    LET All(Key(_)) == \A e \in entries : ~e.more /\ Key(e) # Nothing
        Keys(Key(_)) == {Key(e) : e \in entries}
    IN  IF All(DomainKey) THEN Found("domain", Keys(DomainKey))
        ELSE IF All(RangeKey) THEN Found("ipcidr", Keys(RangeKey))
        ELSE Classical

classifyRuleSet(entries) ==
    LET IsCIDR(e) == parseCIDR(e.value) # Nothing
    IN  IF entries = {} THEN Failed("empty")
        ELSE IF \E e \in entries : e.rule # Nothing THEN classifyClassical(entries)
        ELSE IF \A e \in entries : ~IsCIDR(e) THEN Found("domain", {e.value : e \in entries})
        ELSE IF \A e \in entries : IsCIDR(e)
        THEN Found("ipcidr", {parseCIDR(e.value) : e \in entries})
        ELSE Failed("mixed")

-----------------------------------------------------------------------------
(* Sources: an .mrs already, a YAML document with one list or two, lines.  *)

Blank == Entry(Nothing, "", FALSE)
Comment == Entry("comment", "", FALSE)

ruleSetEntries(source) ==
    IF source.format = "yaml"
    THEN (source.payload \cup source.rules) \ {Blank}
    ELSE source.lines \ {Blank, Comment}

(* A converter drops the keys it cannot parse and fails if none is left.   *)
ConvertToMrs(keys) == keys \ {"junk", "+.junk"}

Info(format, behavior, mrs) == [format |-> format, behavior |-> behavior, mrs |-> mrs, error |-> Nothing]

compileRuleSet(source, allowEmpty) ==
    IF source.format = "mrs"
    THEN IF source.behavior = Nothing
         THEN Failed("invalid")
         ELSE Info("mrs", source.behavior, {})
    ELSE LET entries == ruleSetEntries(source)
             found == classifyRuleSet(entries)
             mrs == ConvertToMrs(found.keys)
         IN  IF entries = {} /\ allowEmpty THEN Info(source.format, "classical", {})
             ELSE IF found.error # Nothing THEN found
             ELSE IF found.behavior = "classical" THEN Info(source.format, "classical", {})
             ELSE IF mrs = {} THEN Failed("empty")
             ELSE Info(source.format, found.behavior, mrs)

-----------------------------------------------------------------------------
(* What entries and keys match, by mihomo: of the names d, a child of it   *)
(* and a grandchild, and of an address in the range and the address alone. *)

Matched(key) ==
    CASE key = "d" -> {"d"}
      [] key = "+.d" -> {"d", "child", "grandchild"}
      [] key = ".d" -> {"child", "grandchild"}
      [] key = "*.d" -> {"child"}
      [] key = "range" -> {"inside", "alone"}
      [] key = "address/32" -> {"alone"}
      [] key = "+.address" -> {"name like an address", "child of it"}
      [] key = "address" -> {"name like an address"}
      [] OTHER -> {}

(* A classical rule takes its value as it stands: it knows no wildcard.    *)
Meant(e, plain) ==
    IF plain THEN Matched(IF parseCIDR(e.value) # Nothing THEN parseCIDR(e.value) ELSE e.value)
    ELSE IF e.rule = "PROCESS-NAME" THEN {"process"}
    ELSE IF e.rule = "DOMAIN" /\ e.value \in {"d", "address"} THEN Matched(e.value)
    ELSE IF e.rule = "DOMAIN-SUFFIX" /\ e.value \in {"d", "address"} THEN Matched(Suffix(e.value))
    ELSE IF e.rule = "IP-CIDR" /\ e.value = "range" THEN Matched("range")
    ELSE {}

(* Sources: lists of entries with a blank or a comment among them.         *)
Sources ==
    [format : {"text"}, lines : {a \cup b \cup {noise} : a, b \in Lists, noise \in {Blank, Comment}}]
    \cup [format : {"yaml"}, payload : Lists, rules : {list \cup {Blank} : list \in Lists}]

(* The .mrs that is loaded in place of a source matches exactly what the   *)
(* source's own entries match, whatever they are and in whichever form     *)
(* they come; and a set is compiled or kept, or refused because it mixes   *)
(* bare domains with bare ranges or has nothing a parser accepts.          *)
MeansSource(source) ==
    LET entries == ruleSetEntries(source)
        plain == \A e \in entries : e.rule = Nothing
        meant == UNION {Meant(e, plain) : e \in entries}
        made == compileRuleSet(source, FALSE)
    IN  /\ made.mrs # {} => UNION {Matched(key) : key \in made.mrs} = meant
        /\ made.error = "empty" => meant = {}
        /\ made.error = "mixed" => plain /\ meant \cap {"inside", "alone"} # {}
=============================================================================
