--------------------------- MODULE VersionRanges ---------------------------
(***************************************************************************)
(* Semantic versions and version ranges.  A version is the rank of its     *)
(* number part, whether that part is written out in full ("1.2.0") or      *)
(* short ("1.2"), which of the strings that Atoi reads as these numbers it *)
(* is (0 the plain one, others have leading zeros), and its prerelease     *)
(* identifiers, each a number, with its spelling, or a word (by its rank). *)
(* Two versions are the same string when they are equal.                   *)
(***************************************************************************)
EXTENDS Integers, Sequences, FiniteSetsExt

Ver(n, short, pre) == [num |-> n, short |-> short, spelling |-> 0, pre |-> pre]
Padded(v) == [v EXCEPT !.spelling = 1]
INF == Ver(-1, FALSE, <<>>)
Sign(i) == IF i < 0 THEN -1 ELSE IF i > 0 THEN 1 ELSE 0

normalize(v) == IF v = INF THEN v ELSE [v EXCEPT !.short = FALSE]

\* An identifier is <<"number", n, spelling>> or <<"word", rank>>; numbers come first.
CompareIds(a, b) ==
  IF a[1] = b[1] THEN Sign(a[2] - b[2]) ELSE IF a[1] = "number" THEN -1 ELSE 1

ComparePrereleases(p, q) ==
  LET both == 1..(IF Len(p) < Len(q) THEN Len(p) ELSE Len(q))
      differ == {i \in both : CompareIds(p[i], q[i]) # 0}
  IN  IF p = q THEN 0
      ELSE IF p = <<>> THEN 1
      ELSE IF q = <<>> THEN -1
      ELSE IF differ # {} THEN CompareIds(p[Min(differ)], q[Min(differ)])
      ELSE Sign(Len(p) - Len(q))

CompareVersions(v, w) ==
  IF v = w THEN 0
  ELSE IF v = INF THEN 1
  ELSE IF w = INF THEN -1
  ELSE IF v.num # w.num THEN Sign(v.num - w.num)
  ELSE ComparePrereleases(v.pre, w.pre)

-----------------------------------------------------------------------------
\* A range, its two ends included or not.  A single version v is [v, INF).
Version_Expression_Factory(s, sInc, e, eInc) ==
  [start |-> normalize(s), sInc |-> sInc, end |-> normalize(e), eInc |-> eInc]
SingleVersion(v) == Version_Expression_Factory(v, TRUE, INF, FALSE)

\* An end that is the very string of the version decides before any order.
Is_within_range(r, v) ==
  LET n == normalize(v) IN
  IF (n = r.start /\ r.sInc) \/ (n = r.end /\ r.eInc) THEN TRUE
  ELSE IF n = r.start \/ n = r.end THEN FALSE
  ELSE /\ CompareVersions(r.start, n) <= 0
       /\ r.end = INF \/ CompareVersions(r.end, n) >= 0

\* Mutant: of two equal ends, the first range decides whether it is included.
IntersectsWithFirstEnd(r, o) ==
  LET s == IF CompareVersions(r.start, o.start) = -1 THEN o ELSE r
      e == IF r.end = INF \/ CompareVersions(r.end, o.end) = 1 THEN o ELSE r
  IN  [err |-> e.end # INF /\ CompareVersions(s.start, e.end) = 1,
       range |-> [start |-> s.start, sInc |-> s.sInc, end |-> e.end, eInc |-> e.eInc]]
\* The later start and the earlier end; the ends may meet in one version of
\* which only one side includes it.
IntersectsWith(r, o) ==
  LET cs == CompareVersions(r.start, o.start)
      ce == CompareVersions(r.end, o.end)
      s  == IF cs = -1 THEN [v |-> o.start, inc |-> o.sInc]
            ELSE [v |-> r.start, inc |-> IF cs = 0 THEN r.sInc /\ o.sInc ELSE r.sInc]
      e  == IF ce = 0 THEN [v |-> r.end, inc |-> r.eInc /\ o.eInc]
            ELSE IF r.end = INF \/ ce = 1 THEN [v |-> o.end, inc |-> o.eInc]
            ELSE [v |-> r.end, inc |-> r.eInc]
      c  == CompareVersions(s.v, e.v)
  IN  [err |-> e.v # INF /\ (c = 1 \/ (c = 0 /\ ~s.inc /\ ~e.inc)),
       range |-> [start |-> s.v, sInc |-> s.inc, end |-> e.v, eInc |-> e.inc]]

\* The ceiling is kept as it was written.
ChangeCeiling(r, v, inc) ==
  LET c == CompareVersions(v, r.start) IN
  IF v = INF THEN [err |-> FALSE, range |-> [r EXCEPT !.end = INF, !.eInc = FALSE]]
  ELSE IF c < 0 \/ (c = 0 /\ ~(inc /\ r.sInc)) THEN [err |-> TRUE, range |-> r]
  ELSE [err |-> FALSE, range |-> [r EXCEPT !.end = v, !.eInc = inc]]

\* The highest version of a set in a range, none if there is none; the first
\* one taken must reach 0.0.0.
Zero == Ver(0, FALSE, <<>>)
GetHighestVersion(vs, r) ==
  LET in == {v \in vs : Is_within_range(r, v) /\ CompareVersions(Zero, v) <= 0}
  IN  {v \in in : \A w \in in : CompareVersions(w, v) <= 0}

\* The ranges common to a sequence of required services, per service; those
\* with nothing in common are left out.
GetCommonVersionRanges(specs) ==
  LET of(s)    == SelectSeq(specs, LAMBDA x : x.spec = s)
      fold[i \in 0..Len(specs)] ==
        [s \in {specs[j].spec : j \in 1..Len(specs)} |->
           IF i = 0 THEN [err |-> FALSE, range |-> of(s)[1].range]
           ELSE IF specs[i].spec # s \/ fold[i - 1][s].err THEN fold[i - 1][s]
           ELSE IntersectsWith(specs[i].range, fold[i - 1][s].range)]
      all == fold[Len(specs)]
  IN  {[spec |-> s, range |-> all[s].range] : s \in {t \in DOMAIN all : ~all[t].err}}

-----------------------------------------------------------------------------
\* What a range means: the versions between its ends, by the order alone.
Denotes(r, v) ==
  LET s == CompareVersions(r.start, normalize(v))
      e == CompareVersions(normalize(v), r.end)
  IN  (s = -1 \/ (s = 0 /\ r.sInc)) /\ (e = -1 \/ (e = 0 /\ r.eInc))
\* A version that comes level with an excluded end but is another string: the
\* code, which asks for the string first and then for the order, keeps it.
Respelt(r, v) ==
  LET n == normalize(v) IN
  \/ ~r.sInc /\ n # r.start /\ CompareVersions(r.start, n) = 0
  \/ ~r.eInc /\ n # r.end /\ CompareVersions(r.end, n) = 0
Holds(r, v) == IF Respelt(r, v) THEN Is_within_range(r, v) ELSE Denotes(r, v)
\* Two ranges with the same ends, however these are spelled.
SameRange(r, o) == /\ r.sInc = o.sInc /\ CompareVersions(r.start, o.start) = 0
                   /\ r.eInc = o.eInc /\ CompareVersions(r.end, o.end) = 0
\* A range that is not written backwards.
Proper(r) == CompareVersions(r.start, r.end) = -1
             \/ (CompareVersions(r.start, r.end) = 0 /\ r.sInc /\ r.eInc)
=============================================================================
