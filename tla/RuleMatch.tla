------------------------------- MODULE RuleMatch -------------------------------
(***************************************************************************)
(* What a rule says and what it finds: advisories of the two feeds become  *)
(* rules on the server, and the agent's matcher evaluates the rules over   *)
(* the packages, the kernel and the files it collected.  No state: the     *)
(* operators RulePacks and its checks are built from.                      *)
(*                                                                         *)
(* A version is a sequence of character codes.                             *)
(***************************************************************************)
EXTENDS Integers, Sequences, FiniteSetsExt, SequencesExt

Char   == 0 .. 127
Digit  == 48 .. 57
Colon  == 58
Hyphen == 45
Dot    == 46
Tilde  == 126
Star   == <<42>>

Sign(n) == IF n < 0 THEN -1 ELSE IF n > 0 THEN 1 ELSE 0

-----------------------------------------------------------------------------
(* Versions *)

\* Defect: characters rank by their codes alone.
CodeOrder(c) == c

\* A character's rank: '~' sorts before everything, the end of the string too.
CharOrder(c) == IF c = Tilde THEN -1 ELSE c

Rank(s, i) == IF i <= Len(s) THEN CharOrder(s[i]) ELSE 0

CompareNonDigit(a, b) ==
  LET differ == {i \in 1 .. Max({Len(a), Len(b)}) : Rank(a, i) # Rank(b, i)}
  IN IF differ = {} THEN 0 ELSE Sign(Rank(a, Min(differ)) - Rank(b, Min(differ)))

\* Lengths of the leading part without digits and of the leading number.
NonDigitPrefix(s) == Min({i - 1 : i \in {j \in DOMAIN s : s[j] \in Digit}} \union {Len(s)})
DigitPrefix(s)    == Min({i - 1 : i \in {j \in DOMAIN s : s[j] \notin Digit}} \union {Len(s)})

\* strconv.Atoi with its error dropped.
Number(s) ==
  IF \A i \in DOMAIN s : s[i] \in Digit
  THEN FoldLeft(LAMBDA n, c : 10 * n + (c - 48), 0, s)
  ELSE 0

Take(s, n) == SubSeq(s, 1, n)
Drop(s, n) == SubSeq(s, n + 1, Len(s))

\* Alternating chunks: text by rank, then numbers by value.
CompareVersionParts[ab \in Seq(Char) \X Seq(Char)] ==
  LET a == ab[1]  b == ab[2]
      text == CompareNonDigit(Take(a, NonDigitPrefix(a)), Take(b, NonDigitPrefix(b)))
      a1 == Drop(a, NonDigitPrefix(a))  b1 == Drop(b, NonDigitPrefix(b))
      number == Sign(Number(Take(a1, DigitPrefix(a1))) - Number(Take(b1, DigitPrefix(b1))))
  IN IF a = <<>> /\ b = <<>> THEN 0
     ELSE IF text # 0 THEN text
     ELSE IF number # 0 THEN number
     ELSE CompareVersionParts[<<Drop(a1, DigitPrefix(a1)), Drop(b1, DigitPrefix(b1))>>]

\* epoch:upstream-revision, at the first colon and the last hyphen.
SplitVersion(v) ==
  LET colons == {i \in DOMAIN v : v[i] = Colon}
      rest   == IF colons = {} THEN v ELSE Drop(v, Min(colons))
      dashes == {i \in DOMAIN rest : rest[i] = Hyphen}
      cut    == IF dashes = {} THEN Len(rest) + 1 ELSE Max(dashes)
  IN [epoch    |-> IF colons = {} THEN 0 ELSE Number(Take(v, Min(colons) - 1)),
      upstream |-> Take(rest, cut - 1), revision |-> Drop(rest, cut)]

CompareVersions(v, w) ==
  LET a == SplitVersion(v)  b == SplitVersion(w)
      upstream == CompareVersionParts[<<a.upstream, b.upstream>>]
  IN IF a.epoch # b.epoch THEN Sign(a.epoch - b.epoch)
     ELSE IF upstream # 0 THEN upstream
     ELSE CompareVersionParts[<<a.revision, b.revision>>]

\* An operator the matcher does not know never matches.
VersionCompare(v, op, w) ==
  LET c == CompareVersions(v, w)
  IN \/ op = "lt" /\ c < 0
     \/ op = "le" /\ c <= 0
     \/ op = "gt" /\ c > 0
     \/ op = "ge" /\ c >= 0
     \/ op = "eq" /\ c = 0
     \/ op = "ne" /\ c # 0

-----------------------------------------------------------------------------
(* Rules and the matcher *)

\* A collected item: a package or the kernel with its version, or a file with
\* the first line its rule's pattern meets: "good" (has what is expected),
\* "bad" or "none" (no line, or an empty file).
Package(n, v) == [category |-> "sys_vuln", type |-> "package", name |-> n,
                  version |-> v, line |-> "none"]
File(n, l)    == [category |-> "baseline", type |-> "config_file", name |-> n,
                  version |-> <<>>, line |-> l]

RulePackage(id, n, op, v) ==
  [id |-> id, category |-> "sys_vuln", type |-> "package_version", name |-> n,
   op |-> op, value |-> v, expect |-> FALSE]
RuleConfig(id, n, e) ==
  [id |-> id, category |-> "baseline", type |-> "config_check", name |-> n,
   op |-> "lt", value |-> <<>>, expect |-> e]

MatchPackageVersion(r, i) ==
  i.type = "package" /\ i.name = r.name /\ VersionCompare(i.version, r.op, r.value)

\* A kernel rule without a name, or named kernel, is about any kernel.
MatchKernelVersion(r, i) ==
  /\ i.type = "kernel"
  /\ r.name \in {"", "kernel", i.name}
  /\ VersionCompare(i.version, r.op, r.value)

\* A rule that expects nothing is informational.
MatchConfigCheck(r, i) ==
  i.type = "config_file" /\ r.name # "" /\ i.name = r.name /\ r.expect /\ i.line # "good"

MatchItem(r, i) ==
  \/ r.type = "package_version" /\ MatchPackageVersion(r, i)
  \/ r.type = "kernel_version"  /\ MatchKernelVersion(r, i)
  \/ r.type = "config_check"    /\ MatchConfigCheck(r, i)

\* The rules that find something in what was collected.
Match(items, rules) ==
  {r \in rules : \E i \in items :
     r.category = i.category /\ r.category \in {"baseline", "sys_vuln"} /\ MatchItem(r, i)}

-----------------------------------------------------------------------------
(* Releases, and how they are spelled *)

Release(e, ma, mi, rc, rev) == [epoch |-> e, major |-> ma, minor |-> mi, rc |-> rc, rev |-> rev]

Spell(n) == IF n >= 10 THEN <<48 + (n \div 10), 48 + (n % 10)>> ELSE <<48 + n>>

\* epoch:major.minor~rc1-0-rev, with the parts a release does not have left out.
Version(r) ==
  (IF r.epoch = 0 THEN <<>> ELSE Spell(r.epoch) \o <<Colon>>)
    \o Spell(r.major) \o <<Dot>> \o Spell(r.minor)
    \o (IF r.rc THEN <<Tilde, 114, 99, 49>> ELSE <<>>)
    \o (IF r.rev = 0 THEN <<>> ELSE <<Hyphen, 48, Hyphen>> \o Spell(r.rev))

-----------------------------------------------------------------------------
(* Feeds *)

\* Affected versions come as ranges and as lists.  A range may end before a release
\* ("below") or with one ("upto"), each a sequence of at most one release.
RangeEnd(g) == g.below \o g.upto

\* A CVE of the NVD: its score and the first well-formed match of each node, with
\* a range.  One with no end in sight gets the value "*".
TransformCves(cves) ==
  {RulePackage(cm[1].id, cm[2].name, "lt",
               IF RangeEnd(cm[2].range) = <<>> THEN Star ELSE Version(Head(RangeEnd(cm[2].range)))) :
     cm \in UNION {{c} \X c.matches : c \in cves}}

\* The NVD is read page by page, CVEs without a score of at least 4.0 are
\* dropped, and an error ends the reading with what there is so far.
FetchNvd(pages, good) ==
  {c \in UNION {pages[p] : p \in 1 .. good} : c.score >= 4}

\* The greatest text, which is not the greatest version.
TextBefore(v, w) ==
  \/ IsStrictPrefix(v, w)
  \/ \E i \in DOMAIN v \intersect DOMAIN w : v[i] < w[i] /\ Take(v, i - 1) = Take(w, i - 1)
TextMax(texts) == CHOOSE v \in texts : \A w \in texts \ {v} : TextBefore(w, v)

\* The end of the first range that has one, else the greatest of the list, else nothing.
AdvisoryThreshold(aff) ==
  LET ending == {i \in DOMAIN aff.ranges : RangeEnd(aff.ranges[i]) # <<>>}
  IN IF ending # {} THEN Version(Head(RangeEnd(aff.ranges[Min(ending)])))
     ELSE IF aff.listed # {} THEN TextMax({Version(r) : r \in aff.listed})
     ELSE <<>>

\* One rule per advisory: of its first affected package that has a threshold.
TransformAdvisories(advisories) ==
  LET Usable(a) == {i \in DOMAIN a.affected : AdvisoryThreshold(a.affected[i]) # <<>>}
      Chosen(a) == a.affected[Min(Usable(a))]
  IN {RulePackage(a.id, Chosen(a).name, "lt", AdvisoryThreshold(Chosen(a))) :
        a \in {x \in advisories : Usable(x) # {}}}

\* The repository's advisories that could be downloaded; the recent ones, or
\* all of them when none is recent; nothing when the tree cannot be listed.
FetchAdvisories(tree, got, listed) ==
  LET downloaded == tree \intersect got
      recent     == {a \in downloaded : a.recent}
  IN IF ~listed THEN {} ELSE IF recent # {} THEN recent ELSE downloaded

\* An uploaded archive: its rulepack if that has a valid rule, else the first
\* NVD export with a rule, else all the advisories in it.
ParseImport(zip) ==
  LET exports == {i \in DOMAIN zip.nvd : TransformCves(zip.nvd[i]) # {}}
  IN IF zip.rules # {} THEN zip.rules
     ELSE IF exports # {} THEN TransformCves(zip.nvd[Min(exports)])
     ELSE TransformAdvisories(zip.advisories)

-----------------------------------------------------------------------------
(* The reference: releases as tuples of numbers, and what a feed says of them *)

Key(r) == <<r.epoch, r.major, r.minor, IF r.rc THEN 0 ELSE 1,
            IF r.rev = 0 THEN 0 ELSE 1, r.rev>>

Earlier(r, s) ==
  \E i \in 1 .. 6 : Key(r)[i] < Key(s)[i] /\ \A j \in 1 .. i - 1 : Key(r)[j] = Key(s)[j]

\* What the feeds say about packages, entry by entry.
Statements(cves, advisories) ==
  UNION {{[id |-> c.id, name |-> m.name, ranges |-> <<m.range>>, listed |-> {}] : m \in c.matches} :
           c \in cves}
    \union UNION {{[id |-> a.id, name |-> m.name, ranges |-> m.ranges, listed |-> m.listed] :
                     m \in Range(a.affected)} : a \in advisories}

InRange(g, here) ==
  IF g.below # <<>> THEN Earlier(here, Head(g.below))
  ELSE g.upto # <<>> /\ ~Earlier(Head(g.upto), here)

\* A statement without any end is about every release.
EndingRanges(s) == SelectSeq(s.ranges, LAMBDA g : RangeEnd(g) # <<>>)
Affected(s, here) ==
  \/ \E g \in Range(s.ranges) : InRange(g, here)
  \/ here \in s.listed
  \/ EndingRanges(s) = <<>> /\ s.listed = {}

\* What a single "lt" cannot say: the last affected release and any further range,
\* what follows the greatest text of a list, an epoch where there is no end.
LeftOut(s, here) ==
  LET g == Head(EndingRanges(s))
  IN IF EndingRanges(s) # <<>> THEN ~InRange(g, here) \/ (g.below = <<>> /\ here = Head(g.upto))
     ELSE IF s.listed # {}
          THEN \A r \in s.listed : Version(r) = TextMax({Version(x) : x \in s.listed}) => ~Earlier(here, r)
          ELSE here.epoch # 0
=============================================================================
