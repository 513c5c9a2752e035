---------------------------- MODULE ProfileMerge ----------------------------
(***************************************************************************)
(* core/profile_base.go: the profile's large sections merged into the      *)
(* overlay the host sends, and the document written as config.yaml in      *)
(* pieces.  Nodes are those of the YAML library: [kind, text, content],    *)
(* the content of a mapping its keys and values in turn, that of an alias  *)
(* the node it stands for.                                                 *)
(***************************************************************************)
EXTENDS Naturals, Sequences, SequencesExt, FiniteSetsExt

CONSTANT EncodeSliceLength  \* encodeSliceLength

ASSUME SliceAssumption == EncodeSliceLength \in Nat \ {0}

Node(kind, text, content) == [kind |-> kind, text |-> text, content |-> content]

Scalar(t) == Node("scalar", t, <<>>)
List(items) == Node("list", "", items)
Mapping(pairs) == Node("mapping", "", pairs)
Alias(node) == Node("alias", "", <<node>>)
Null == Scalar("null")
Nil == Node("nil", "", <<>>)
Merge == "<<"

PairStarts(mapping) == {i \in DOMAIN mapping.content : i % 2 = 1}

-----------------------------------------------------------------------------
(* Reading and changing a mapping.                                         *)

resolveAlias(node) == IF node.kind = "alias" THEN node.content[1] ELSE node

isNull(node) == node = Null

(* An empty document is an empty mapping; anything else is refused.        *)
documentMapping(node) ==
    LET root == resolveAlias(node)
    IN  IF root \in {Nil, Null} THEN Mapping(<<>>)
        ELSE IF root.kind = "mapping" THEN root ELSE Nil

(* The mappings a merge key names, one or a list of them.                  *)
Candidates(source) ==
    LET node == resolveAlias(source)
        all == IF node.kind = "list" THEN node.content ELSE <<node>>
    IN  SelectSeq([i \in DOMAIN all |-> resolveAlias(all[i])], LAMBDA n : n.kind = "mapping")

(* The key itself, or the first of its merge keys that has it.             *)
RECURSIVE mappingValue(_, _)
mappingValue(mapping, key) ==
    LET at(k) == {i \in PairStarts(mapping) : mapping.content[i].text = k}
        sources == FlattenSeq([j \in 1..Len(mapping.content) |->
                       IF j - 1 \in at(Merge) THEN Candidates(mapping.content[j]) ELSE <<>>])
        inherited == SelectSeq([i \in DOMAIN sources |-> mappingValue(sources[i], key)],
                               LAMBDA v : v # Nil)
    IN  IF at(key) # {} THEN mapping.content[1 + CHOOSE i \in at(key) : \A j \in at(key) : i <= j]
        ELSE IF inherited # <<>> THEN Head(inherited) ELSE Nil

setMappingValue(mapping, key, value) ==
    LET found == {i \in PairStarts(mapping) : mapping.content[i].text = key}
    IN  IF found = {}
        THEN Mapping(mapping.content \o <<Scalar(key), value>>)
        ELSE Mapping([mapping.content EXCEPT
                          ![1 + CHOOSE i \in found : \A j \in found : i <= j] = value])

-----------------------------------------------------------------------------
(* mergeProfileBase.                                                       *)

profileBaseSections == <<"proxies", "proxy-groups", "sub-rules">>

(* Nil where the overlay's rules stay as they are; "bad" is the error.     *)
appendRules(added, profile) ==
    LET first == resolveAlias(added)
        second == resolveAlias(profile)
    IN  IF profile = Nil THEN Nil
        ELSE IF first \in {Nil, Null, List(<<>>)} THEN second
        ELSE IF isNull(second) THEN first
        ELSE IF first.kind # "list" \/ second.kind # "list" THEN Scalar("bad")
        ELSE List(first.content \o second.content)

WithSection(profile, root, key) ==
    IF mappingValue(profile, key) = Nil
    THEN root
    ELSE setMappingValue(root, key, mappingValue(profile, key))

mergeProfileBase(profileDocument, overlayDocument) ==
    LET profile == documentMapping(profileDocument)
        overlay == documentMapping(overlayDocument)
        root == FoldLeft(LAMBDA acc, key : WithSection(profile, acc, key), overlay,
                         profileBaseSections)
        rules == appendRules(mappingValue(root, "rules"), mappingValue(profile, "rules"))
    IN  IF Nil \in {profile, overlay} \/ rules = Scalar("bad") THEN Nil
        ELSE IF rules = Nil THEN root
        ELSE setMappingValue(root, "rules", rules)

-----------------------------------------------------------------------------
(* Writing.  The file is a sequence of tokens: a key, a whole value, one   *)
(* item of a list, and the marker that ends a document.                    *)

Token(kind, node) == [kind |-> kind, node |-> node]
End == Token("end", Nil)

(* An anchor may be in a section that was replaced: no alias is written.   *)
RECURSIVE inlineAliases(_)
inlineAliases(node) ==
    LET target == resolveAlias(node)
    IN  [target EXCEPT !.content =
            [i \in DOMAIN target.content |-> inlineAliases(target.content[i])]]

(* The encoder ends each piece as a document of its own; that is taken off. *)
Encode(tokens) == Append(tokens, End)

encodeYamlPiece(tokens) == SelectSeq(Encode(tokens), LAMBDA token : token # End)

EndsEarly(items, start) == SubSeq(items, start, Min({start + EncodeSliceLength, Len(items)}) - 1)

Slice(items, start) == SubSeq(items, start, Min({start + EncodeSliceLength - 1, Len(items)}))

Slices(items) ==
    FlattenSeq([i \in DOMAIN items |->
        IF (i - 1) % EncodeSliceLength = 0 THEN encodeYamlPiece(Slice(items, i)) ELSE <<>>])

encodePair(key, value) ==
    IF value.kind # "list" \/ Len(value.content) <= EncodeSliceLength
    THEN encodeYamlPiece(<<Token("key", key), Token("value", value)>>)
    ELSE encodeYamlPiece(<<Token("key", key)>>)
         \o Slices([i \in DOMAIN value.content |-> Token("item", value.content[i])])

encodeConfigMapping(mapping) ==
    FlattenSeq([i \in DOMAIN mapping.content |->
        IF i \in PairStarts(mapping) THEN encodePair(mapping.content[i], mapping.content[i + 1])
        ELSE <<>>])

-----------------------------------------------------------------------------
(* What a reader of the file finds: all there is before the first end of a *)
(* document.                                                               *)
ReadBack(tokens) ==
    LET ends == {i \in DOMAIN tokens : tokens[i] = End}
        file == IF ends = {} THEN tokens ELSE SubSeq(tokens, 1, Min(ends) - 1)
        ItemsAfter(i) == {j \in DOMAIN file : j > i /\ \A n \in (i + 1)..j : file[n].kind = "item"}
        ValueAfter(i) ==
            IF i < Len(file) /\ file[i + 1].kind = "value" THEN file[i + 1].node
            ELSE List([j \in 1..Cardinality(ItemsAfter(i)) |-> file[i + j].node])
    IN  Mapping(FlattenSeq([i \in DOMAIN file |->
            IF file[i].kind = "key" THEN <<file[i].node, ValueAfter(i)>> ELSE <<>>]))

(* The documents: a section that is there, null, an alias or merged in,    *)
(* and rules that are any of these or no list at all.                      *)
Section(key, value) == <<Scalar(key), value>>
Merged(key, value) == <<Scalar(Merge), Alias(Mapping(<<Scalar(key), value>>))>>
Forms(key, value) ==
    {<<>>, Section(key, value), Section(key, Null), Section(key, Alias(value)), Merged(key, value)}

Rules(names) == List([i \in DOMAIN names |-> Scalar(names[i])])

Profiles ==
    {Mapping(a \o b) : a \in Forms("proxies", Scalar("profile's")),
        b \in UNION {Forms("rules", r) :
                         r \in {Rules(<<>>), Rules(<<"a", "b", "c", "d">>), Scalar("no list"),
                                List(<<Alias(Scalar("a"))>>)}}}
    \cup {Nil, Null, List(<<>>)}

Overlays ==
    {Mapping(Section("dns", Scalar("overlay's")) \o a \o b) :
        a \in Forms("proxies", Scalar("overlay's")),
        b \in UNION {Forms("rules", r) : r \in {Rules(<<>>), Rules(<<"x">>)}}}

ListLike(node) == node.kind = "list" \/ node \in {Nil, Null}

Items(node) == IF node.kind = "list" THEN node.content ELSE <<>>

(* The written config has the overlay's sections, but the profile's where  *)
(* the profile has one of its large sections, however it spells it, and    *)
(* the overlay's rules before the profile's; every list is whole and in    *)
(* order though it was written in slices, and nothing in the file refers   *)
(* to an anchor that is not there.  Only a document that is no mapping, or *)
(* rules that are no list, make the merge fail.                            *)
WrittenIsMerged ==
    \A profile \in Profiles, overlay \in Overlays :
        LET merged == mergeProfileBase(profile, overlay)
            file == ReadBack(encodeConfigMapping(inlineAliases(merged)))
            has(document, key) == inlineAliases(mappingValue(documentMapping(document), key))
            written(key) == mappingValue(file, key)
            sound == profile.kind # "list" /\ ListLike(has(profile, "rules"))
        IN  /\ merged = Nil => ~sound
            /\ sound =>
                 /\ written("dns") = has(overlay, "dns")
                 /\ written("proxies") =
                       IF has(profile, "proxies") # Nil THEN has(profile, "proxies")
                       ELSE has(overlay, "proxies")
                 /\ Items(written("rules")) = Items(has(overlay, "rules")) \o Items(has(profile, "rules"))
=============================================================================
