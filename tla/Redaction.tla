------------------------------ MODULE Redaction ------------------------------
(***************************************************************************)
(* The Redactor and what stands around it: the escaping of Issue text and  *)
(* the validators of the publisher, which run the Redactor once more over  *)
(* the escaped and serialised result.                                      *)
(*                                                                         *)
(* A JSON value is the set of its leaves, each at its path: the keys and   *)
(* positions that lead to it, through the borders of the texts on its way  *)
(* that are JSON documents themselves.  A leaf is a text, a number (or     *)
(* null, or a boolean) or an empty list or mapping.  A text is a sequence  *)
(* of parts.  A part is prose, a bare credential, an authorization header, *)
(* a query parameter or assignment of a sensitive key, with what stands in *)
(* the place of the credential, or the hidden comment by which an Issue is *)
(* found.                                                                  *)
(***************************************************************************)
EXTENDS Orderings

CONSTANTS
  SensitiveKeys,  \* the JSON keys that _is_sensitive_key accepts
  SafeKey         \* what _redact_text makes of every JSON key

(* A key that was redacted stays as it is.  The sentinel in the place of a *)
(* credential may be a sensitive key, where the credential was none; "" is *)
(* no key.                                                                 *)
ASSUME RedactionAssumption ==
  /\ SensitiveKeys \subseteq DOMAIN SafeKey /\ "" \notin DOMAIN SafeKey
  /\ \A k \in DOMAIN SafeKey :
       SafeKey[k] \in DOMAIN SafeKey /\ SafeKey[SafeKey[k]] = SafeKey[k]

Shapes == {"prose", "token", "header", "query", "assignment", "marker"}

(* "escaped": a sentinel whose brackets _safe_inline escaped.  "open": the *)
(* text ends after the key and its "=" or ":"; or it is prose of which the *)
(* rules make one thing alone and another escaped and among other texts:   *)
(* an unfinished quotation, a scheme without credentials, a key that is    *)
(* the value of another.  "followed": the same with a text after it.       *)
(* "surrogate": characters that may have no UTF-8 encoding.                *)
Values == {"plain", "secret", "approved", "unapproved", "escaped", "open",
           "followed", "surrogate"}

(* The key of a query or assignment: one sensitive word, a sensitive pair  *)
(* joined by an underscore, or that pair with its underscore escaped.      *)
KeyForms == {"word", "pair", "split"}

Part(shape, value, key) == [shape |-> shape, value |-> value, key |-> key]

Parts == [shape : Shapes, value : Values, key : KeyForms]

(* The steps of a path.                                                    *)
Item(n) == [key |-> "", at |-> n]

Under(key) == [key |-> key, at |-> 0]

Border == [key |-> "", at |-> 0]

Leaf(kind, parts) == [path |-> <<>>, kind |-> kind, parts |-> parts]

Text(parts) == {Leaf("text", parts)}

Number == {Leaf("number", <<>>)}

Empty == {Leaf("empty", <<>>)}

Within(step, v) == {[l EXCEPT !.path = <<step>> \o @] : l \in v}

Document(v) == Within(Border, v)

List(vs) ==
  IF vs = <<>> THEN Empty
  ELSE UNION {Within(Item(i), vs[i]) : i \in DOMAIN vs}

Mapping(m) ==
  IF DOMAIN m = {} THEN Empty
  ELSE UNION {Within(Under(k), m[k]) : k \in DOMAIN m}

(* The exception of a sensitive key over something that is no text.        *)
Raised == {}

Sentinel == <<Part("prose", "approved", "word")>>

-----------------------------------------------------------------------------
(* The rules of _redact_text: unapproved sentinels, tokens and headers,    *)
(* query parameters and assignments.  A sentinel after "=" stops the last  *)
(* two (the lookahead), an escaped one does not; nor do blanks and line    *)
(* feeds before the next text stop an assignment.  A pair split by the     *)
(* escape of its underscore is no sensitive key any more.  The mistake:    *)
(* keys of one word only.                                                  *)
ReplacedOfWords(p) ==
  \/ p.value = "unapproved"
  \/ p.shape \in {"token", "header"}
  \/ /\ p.shape \in {"query", "assignment"} /\ p.key = "word"
     /\ p.value \in {"secret", "escaped", "followed"}

Replaced(p) ==
  \/ p.value = "unapproved"
  \/ p.shape \in {"token", "header"}
  \/ /\ p.shape \in {"query", "assignment"} /\ p.key # "split"
     /\ p.value \in {"secret", "escaped", "followed"}

RedactPart(p) ==
  IF ~Replaced(p) THEN p
  ELSE IF p.shape \in {"token", "header"} THEN Part("prose", "approved", "word")
  ELSE Part(p.shape, "approved", p.key)

RedactParts(parts) == [i \in DOMAIN parts |-> RedactPart(parts[i])]

(* The flag "sensitive" of _redact_json where the first n steps lead: a    *)
(* key on the way there, within the same document, is sensitive.           *)
Sensitive(path, n) ==
  \E i \in 1..n : /\ path[i].key \in SensitiveKeys
                  /\ \A j \in i..n : path[j] # Border

(* The texts on the way to a leaf, or the leaf, that are under it.         *)
Hidden(path) ==
  {n \in 0..Len(path) : /\ Sensitive(path, n)
                        /\ n = Len(path) \/ path[n + 1] = Border}

Outermost(path) ==
  CHOOSE n \in Hidden(path) : \A m \in Hidden(path) : n <= m

(* What a JSON value is, and a text: a document or none.                   *)
IsStep(step) ==
  \/ step.key = ""
  \/ step.key \in DOMAIN SafeKey /\ step = Under(step.key)

IsLeaf(l) ==
  /\ DOMAIN l = {"path", "kind", "parts"} /\ l = [f \in DOMAIN l |-> l[f]]
  /\ IsSeq(l.path) /\ \A i \in DOMAIN l.path : IsStep(l.path[i])
  /\ IsSeq(l.parts) /\ Elements(l.parts) \subseteq Parts

IsJson(v) == v # {} /\ \A l \in v : IsLeaf(l)

IsText(v) == IsJson(v) /\ \A l \in v : l.path = <<>> \/ l.path[1] = Border

(* Every credential of a value is a token or header, stands after a query  *)
(* key or in an assignment whose key is not split, or is in a text under a *)
(* sensitive key: what the Redactor is there for.                          *)
Known(p) ==
  p.shape \in Shapes \ {"prose", "marker"} /\ p.key \in {"word", "pair"}

Recognised(v) ==
  /\ IsJson(v)
  /\ \A l \in v : \A i \in DOMAIN l.parts :
       l.parts[i].value = "secret" => Known(l.parts[i]) \/ Hidden(l.path) # {}

(* A mapping's keys are redacted as texts, its list positions are not.     *)
SafePath(path) ==
  [i \in DOMAIN path |->
     IF path[i].key = "" THEN path[i] ELSE Under(SafeKey[path[i].key])]

(* _redact_sensitive_field for the whole text under a sensitive key, a     *)
(* JSON document or not; elsewhere _redact_embedded_json parses a text     *)
(* that is a JSON document and redacts it as one.                          *)
RedactLeaf(l) ==
  IF Hidden(l.path) = {}
  THEN [path |-> SafePath(l.path), kind |-> l.kind,
        parts |-> RedactParts(l.parts)]
  ELSE [path |-> SafePath(SubSeq(l.path, 1, Outermost(l.path))),
        kind |-> "text", parts |-> Sentinel]

Keyed(v) == {l \in v : \E n \in DOMAIN l.path : l.path[n].key # ""}

(* Two keys of one mapping become one: the paths part at these keys.  In a *)
(* text that is replaced as a whole nobody looks.                          *)
Collide(l, m) ==
  \E n \in DOMAIN l.path \cap DOMAIN m.path :
    /\ \A i \in 1..(n - 1) : l.path[i] = m.path[i]
    /\ l.path[n] # m.path[n]
    /\ SafePath(l.path)[n] = SafePath(m.path)[n]
    /\ \A h \in Hidden(l.path) : n <= h

(* Under a sensitive key anything that is not text raises, an empty list   *)
(* or mapping included; so do two keys that become one.                    *)
Raises(v) ==
  \/ \E l \in v : /\ l.kind # "text" /\ Hidden(l.path) # {}
                  /\ Outermost(l.path) = Len(l.path)
  \/ \E l, m \in Keyed(v) : Collide(l, m)

(* _redact_json and _redact_mapping.                                       *)
RedactJson(v) == IF Raises(v) THEN Raised ELSE {RedactLeaf(l) : l \in v}

PartsOf(v) == UNION {{l.parts[i] : i \in DOMAIN l.parts} : l \in v}

(* No replacement is reported and nothing is changed: what the checks of   *)
(* the publisher want of the redacted bundle.                              *)
Clean(v) ==
  RedactJson(v) = v /\ \A p \in PartsOf(v) : ~Replaced(p)

-----------------------------------------------------------------------------
(* brief.py: a text as it appears in the Issue.  _safe_inline escapes the  *)
(* brackets of sentinels and comments and the underscores of keys; and no  *)
(* text is the last one, for its citations, the next line or the next      *)
(* heading follow, and after all the others the classification.            *)
EscapePart(p) ==
  [shape |-> IF p.shape = "marker" THEN "prose" ELSE p.shape,
   value |-> CASE p.value \in {"approved", "unapproved"} -> "escaped"
               [] p.value = "open" -> "followed"
               [] OTHER -> p.value,
   key |-> IF p.key = "pair" THEN "split" ELSE p.key]

SafeInline(parts) == [i \in DOMAIN parts |-> EscapePart(parts[i])]

(* github.validate_issue_markdown: one more pass of the Redactor over the  *)
(* whole Markdown must find nothing, and nobody but GitHubPublisher writes *)
(* the hidden comment.                                                     *)
CleanMarkdown(issue) ==
  \A p \in PartsOf(issue) : ~Replaced(p) /\ p.shape # "marker"

(* How much a value is: its leaves and their parts.                        *)
Size(v) == Cardinality(UNION {{l} \X (0..Len(l.parts)) : l \in v})

(* The credentials that a JSON value still shows.                          *)
Secrets(v) == {p \in PartsOf(v) : p.value = "secret"}
=============================================================================
