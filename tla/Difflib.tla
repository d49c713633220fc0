------------------------------ MODULE Difflib ------------------------------
(***************************************************************************)
(* internal.SequenceMatcher, with which testutil shows how the metrics of a *)
(* test differ from what was expected: the longest matches, the operations  *)
(* that turn one sequence of lines into the other, and their groups, which  *)
(* WriteUnifiedDiff prints. Blocks and operations are cached until one of   *)
(* the sequences is set.                                                    *)
(*                                                                          *)
(* Positions count from 0, as in the code: line i of a is a[i + 1].         *)
(***************************************************************************)
EXTENDS Integers, Sequences, FiniteSets, SequencesExt

CONSTANTS
    DiffPairs,     \* pairs of sequences of lines to compare
    Replacements,  \* sequences for SetSeq1 and SetSeq2
    JunkSets,      \* what IsJunk holds for
    AutoJunkLen,   \* lines from which popular ones are left out: 200 in the code
    AutoJunkPart,  \* what fraction is popular: 100 in the code
    Contexts,      \* numbers of context lines
    MaxDiffCalls   \* bound on the calls on one matcher

VARIABLES
    matcher,    \* a, b, junk and the caches
    answer,     \* what the last call returned
    diffCalls   \* calls so far

dVars == <<matcher, answer, diffCalls>>

NoCache == <<>>
LineAt(s, i) == s[i + 1]
MaxInt(x, y) == IF x > y THEN x ELSE y
MinInt(x, y) == IF x < y THEN x ELSE y

-----------------------------------------------------------------------------
(* findLongestMatch *)

Occurrences(b, s) == {j \in 0 .. Len(b) - 1 : LineAt(b, j) = s}

Popular(b, junk) ==
    IF Len(b) < AutoJunkLen THEN {}
    ELSE {s \in Range(b) \ junk : Cardinality(Occurrences(b, s)) > Len(b) \div AutoJunkPart + 1}

\* chainB: where a line is in b, for lines that are neither junk nor popular.
B2J(b, junk) == [s \in Range(b) \ (junk \cup Popular(b, junk)) |-> Occurrences(b, s)]

\* One line of a, a[i]: the lengths of the matches that end there, and the best so far.
Scan(a, b2j, blo, bhi, st, i) ==
    LET js == IF LineAt(a, i) \in DOMAIN b2j THEN {j \in b2j[LineAt(a, i)] : blo <= j /\ j < bhi} ELSE {}
        new == [j \in js |-> 1 + IF j - 1 \in DOMAIN st.j2len THEN st.j2len[j - 1] ELSE 0]
        longest == {j \in js : \A k \in js : new[k] <= new[j]}
        j == CHOOSE j \in longest : \A k \in longest : j <= k
    IN [j2len |-> new,
        best |-> IF js # {} /\ new[j] > st.best.size
                 THEN [a |-> i - new[j] + 1, b |-> j - new[j] + 1, size |-> new[j]] ELSE st.best]

\* The match grows on its left, then on its right, by lines that are, or are not, junk.
Extends(a, b, junk, wanted, i, j) == (LineAt(b, j) \in junk) = wanted /\ LineAt(a, i) = LineAt(b, j)
ExtendLeft(a, b, alo, blo, junk, wanted, m) ==
    LET k == Max({n \in 0 .. MinInt(m.a - alo, m.b - blo) :
                    \A d \in 1 .. n : Extends(a, b, junk, wanted, m.a - d, m.b - d)})
    IN [a |-> m.a - k, b |-> m.b - k, size |-> m.size + k]
ExtendRight(a, b, ahi, bhi, junk, wanted, m) ==
    LET i == m.a + m.size
        j == m.b + m.size
        k == Max({n \in 0 .. MinInt(ahi - i, bhi - j) :
                    \A d \in 0 .. n - 1 : Extends(a, b, junk, wanted, i + d, j + d)})
    IN [m EXCEPT !.size = @ + k]

FindLongestMatch(a, b, junk, alo, ahi, blo, bhi) ==
    LET b2j == B2J(b, junk)
        found == FoldLeft(LAMBDA st, i : Scan(a, b2j, blo, bhi, st, i),
                          [j2len |-> << >>, best |-> [a |-> alo, b |-> blo, size |-> 0]],
                          [k \in 1 .. ahi - alo |-> alo + k - 1]).best
        grown(m, wanted) == ExtendRight(a, b, ahi, bhi, junk, wanted,
                                        ExtendLeft(a, b, alo, blo, junk, wanted, m))
    IN grown(grown(found, FALSE), TRUE)

-----------------------------------------------------------------------------
(* Matching blocks and operations. *)

\* The longest match of a range, between those of the ranges before and after it.
RECURSIVE MatchBlocks(_, _, _, _), Around(_, _, _, _, _)
MatchBlocks(a, b, junk, r) == Around(a, b, junk, r, FindLongestMatch(a, b, junk, r[1], r[2], r[3], r[4]))
Around(a, b, junk, r, m) ==
    IF m.size = 0 THEN <<>>
    ELSE (IF r[1] < m.a /\ r[3] < m.b THEN MatchBlocks(a, b, junk, <<r[1], m.a, r[3], m.b>>) ELSE <<>>)
         \o <<m>> \o
         (IF m.a + m.size < r[2] /\ m.b + m.size < r[4]
          THEN MatchBlocks(a, b, junk, <<m.a + m.size, r[2], m.b + m.size, r[4]>>) ELSE <<>>)

\* Blocks that touch are made one; the one that was there first is a dummy of size 0.
Collapsed(bs, m) ==
    LET l == bs[Len(bs)] IN
    IF l.a + l.size = m.a /\ l.b + l.size = m.b
    THEN [bs EXCEPT ![Len(bs)].size = @ + m.size]
    ELSE IF l.size > 0 THEN Append(bs, m) ELSE [bs EXCEPT ![Len(bs)] = m]

MatchingBlocks(a, b, junk) ==
    LET joined == FoldLeft(Collapsed, <<[a |-> 0, b |-> 0, size |-> 0]>>,
                           MatchBlocks(a, b, junk, <<0, Len(a), 0, Len(b)>>))
    IN SelectSeq(joined, LAMBDA m : m.size > 0) \o <<[a |-> Len(a), b |-> Len(b), size |-> 0]>>

Op(tag, i1, i2, j1, j2) == [tag |-> tag, i1 |-> i1, i2 |-> i2, j1 |-> j1, j2 |-> j2]

\* The operation before a block, if any, and the block.
BeforeBlock(i, j, m) == IF i < m.a /\ j < m.b THEN <<Op("r", i, m.a, j, m.b)>>
                        ELSE IF i < m.a THEN <<Op("d", i, m.a, j, m.b)>>
                        ELSE IF j < m.b THEN <<Op("i", i, m.a, j, m.b)>> ELSE <<>>

OpCodes(blocks) ==
    FoldLeft(LAMBDA st, m :
               [i |-> m.a + m.size, j |-> m.b + m.size,
                ops |-> st.ops \o BeforeBlock(st.i, st.j, m) \o
                        IF m.size > 0 THEN <<Op("e", m.a, m.a + m.size, m.b, m.b + m.size)>> ELSE <<>>],
             [i |-> 0, j |-> 0, ops |-> <<>>], blocks).ops

-----------------------------------------------------------------------------
(* Groups. *)

TrimFront(c, n) == [c EXCEPT !.i1 = MaxInt(c.i1, c.i2 - n), !.j1 = MaxInt(c.j1, c.j2 - n)]
TrimBack(c, n) == [c EXCEPT !.i2 = MinInt(c.i2, c.i1 + n), !.j2 = MinInt(c.j2, c.j1 + n)]

\* The first and the last operation, where they change nothing, are cut to the context.
Trimmed(codes, n) ==
    LET c0 == IF codes = <<>> THEN <<Op("e", 0, 1, 0, 1)>> ELSE codes
        c1 == IF c0[1].tag = "e" THEN [c0 EXCEPT ![1] = TrimFront(@, n)] ELSE c0
    IN IF c1[Len(c1)].tag = "e" THEN [c1 EXCEPT ![Len(c1)] = TrimBack(@, n)] ELSE c1

\* A long run without changes ends a group and starts the next.
Splits(c, n) == c.tag = "e" /\ c.i2 - c.i1 > n + n

Groups(codes, n) ==
    LET step(st, c) ==
          IF Splits(c, n)
          THEN [groups |-> Append(st.groups, Append(st.group, TrimBack(c, n))), group |-> <<TrimFront(c, n)>>]
          ELSE [st EXCEPT !.group = Append(@, c)]
        end == FoldLeft(step, [groups |-> <<>>, group |-> <<>>], codes)
    IN IF end.group # <<>> /\ (Len(end.group) # 1 \/ end.group[1].tag # "e")
       THEN Append(end.groups, end.group) ELSE end.groups

-----------------------------------------------------------------------------
(* The number of matches each of the three ratios counts. *)

RatioMatches(blocks) == FoldLeft(LAMBDA n, m : n + m.size, 0, blocks)
QuickMatches(a, b) ==
    FoldLeft(LAMBDA st, s : [avail |-> [st.avail EXCEPT ![s] = @ - 1],
                             matches |-> st.matches + IF st.avail[s] > 0 THEN 1 ELSE 0],
             [avail |-> [s \in Range(a) \cup Range(b) |-> Cardinality(Occurrences(b, s))], matches |-> 0],
             a).matches
RealQuickMatches(a, b) == MinInt(Len(a), Len(b))

-----------------------------------------------------------------------------
(* The unified diff: what it says of each group. *)

\* formatRangeUnified: an empty range begins at the line before it.
FormatRange(start, stop) ==
    [beginning |-> IF stop = start THEN start ELSE start + 1, length |-> stop - start]

Lines(s, i, k) == [n \in 1 .. k - i |-> LineAt(s, i + n - 1)]
Prefixed(mark, ls) == [n \in DOMAIN ls |-> <<mark, ls[n]>>]

Hunk(a, b, g) ==
    [from |-> FormatRange(g[1].i1, g[Len(g)].i2), to |-> FormatRange(g[1].j1, g[Len(g)].j2),
     text |-> FoldLeft(LAMBDA t, c :
                         t \o (IF c.tag = "e" THEN Prefixed(" ", Lines(a, c.i1, c.i2)) ELSE <<>>)
                           \o (IF c.tag \in {"r", "d"} THEN Prefixed("-", Lines(a, c.i1, c.i2)) ELSE <<>>)
                           \o (IF c.tag \in {"r", "i"} THEN Prefixed("+", Lines(b, c.j1, c.j2)) ELSE <<>>),
                       <<>>, g)]

-----------------------------------------------------------------------------
(* The matcher and its caches. *)

DiffInit ==
    /\ \E p \in DiffPairs, j \in JunkSets :
         matcher = [a |-> p[1], b |-> p[2], junk |-> j, blocks |-> NoCache, codes |-> NoCache, cut |-> FALSE]
    /\ answer = [kind |-> "none"]
    /\ diffCalls = 0

DiffCall == diffCalls < MaxDiffCalls /\ diffCalls' = diffCalls + 1

SetSeq1(x) ==
    /\ DiffCall
    /\ matcher' = [matcher EXCEPT !.a = x, !.blocks = NoCache, !.codes = NoCache, !.cut = FALSE]
    /\ answer' = [kind |-> "none"]

\* Mutation of SetB: the operations for the sequence before are kept.
SetB_KeepsCodes(x) == [matcher EXCEPT !.b = x, !.blocks = NoCache]
SetB(x) == [matcher EXCEPT !.b = x, !.blocks = NoCache, !.codes = NoCache, !.cut = FALSE]

SetSeq2(x) ==
    /\ DiffCall
    /\ matcher' = SetB(x)
    /\ answer' = [kind |-> "none"]

GetMatchingBlocks == IF matcher.blocks = NoCache THEN MatchingBlocks(matcher.a, matcher.b, matcher.junk)
                     ELSE matcher.blocks[1]

GetOpCodes ==
    /\ DiffCall
    /\ LET codes == IF matcher.codes = NoCache THEN OpCodes(GetMatchingBlocks) ELSE matcher.codes[1] IN
       /\ matcher' = [matcher EXCEPT !.blocks = <<GetMatchingBlocks>>, !.codes = <<codes>>]
       /\ answer' = [kind |-> "codes", codes |-> codes]

\* The first and the last operation are cut in the cache itself.
GetGroupedOpCodes(n) ==
    /\ DiffCall
    /\ LET codes == IF matcher.codes = NoCache THEN OpCodes(GetMatchingBlocks) ELSE matcher.codes[1] IN
       /\ matcher' = [matcher EXCEPT !.blocks = <<GetMatchingBlocks>>, !.cut = TRUE,
                                     !.codes = <<IF codes = <<>> THEN codes ELSE Trimmed(codes, n)>>]
       /\ answer' = [kind |-> "groups", context |-> n, again |-> matcher.cut, groups |-> Groups(Trimmed(codes, n), n)]

DiffNext ==
    \/ GetOpCodes
    \/ \E x \in Replacements : SetSeq1(x) \/ SetSeq2(x)
    \/ \E n \in Contexts : GetGroupedOpCodes(n)

-----------------------------------------------------------------------------
(* What a reader of a diff makes of it. *)

\* Turning a into b with the operations, which must begin at 0 and leave nothing out.
Follows(codes, la, lb) ==
    /\ codes # <<>> => codes[1].i1 = 0 /\ codes[1].j1 = 0 /\ codes[Len(codes)].i2 = la /\ codes[Len(codes)].j2 = lb
    /\ codes = <<>> => la = 0 /\ lb = 0
    /\ \A k \in 2 .. Len(codes) : codes[k].i1 = codes[k - 1].i2 /\ codes[k].j1 = codes[k - 1].j2

Applied(a, b, codes) ==
    FoldLeft(LAMBDA s, c : s \o IF c.tag = "e" THEN Lines(a, c.i1, c.i2) ELSE Lines(b, c.j1, c.j2), <<>>, codes)

\* patch: what each hunk says is in a at its place is replaced by what it says is in b.
SideOfHunk(h, mark) == LET s == SelectSeq(h.text, LAMBDA l : l[1] \in {" ", mark}) IN [k \in DOMAIN s |-> s[k][2]]
Preceding(r) == IF r.length = 0 THEN r.beginning ELSE r.beginning - 1
Patched(a, hunks) ==
    LET step(st, h) == [out |-> st.out \o Lines(a, st.at, Preceding(h.from)) \o SideOfHunk(h, "+"),
                        at |-> Preceding(h.from) + h.from.length]
        end == FoldLeft(step, [out |-> <<>>, at |-> 0], hunks)
    IN end.out \o Lines(a, end.at, Len(a))

\* The longest match is what the comment on findLongestMatch says, without junk; the
\* operations turn a into b, also after a sequence was set anew (unless the cache was
\* cut by GetGroupedOpCodes before); the groups, and the hunks printed of them, patch a
\* into b, each with a change and with no more context than asked for; and the quick
\* ratios are upper bounds.
DiffTransforms ==
    LET a == matcher.a
        b == matcher.b IN
    /\ answer.kind = "codes" /\ ~matcher.cut =>
         /\ Follows(answer.codes, Len(a), Len(b))
         /\ Applied(a, b, answer.codes) = b
         /\ \A k \in DOMAIN answer.codes :
              LET c == answer.codes[k] IN
              /\ (c.tag = "e") => Lines(a, c.i1, c.i2) = Lines(b, c.j1, c.j2)
              /\ (c.tag = "d") => c.j1 = c.j2
              /\ (c.tag = "i") => c.i1 = c.i2
         /\ RatioMatches(GetMatchingBlocks) <= QuickMatches(a, b)
         /\ QuickMatches(a, b) <= RealQuickMatches(a, b)
    /\ answer.kind = "groups" =>
         LET hunks == [k \in DOMAIN answer.groups |-> Hunk(a, b, answer.groups[k])] IN
         /\ a # b => Patched(a, hunks) = b
         /\ a = b => hunks = <<>>
         /\ \A k \in DOMAIN hunks :
              /\ SideOfHunk(hunks[k], "-") = Lines(a, Preceding(hunks[k].from), Preceding(hunks[k].from) + hunks[k].from.length)
              /\ Len(SideOfHunk(hunks[k], "+")) = hunks[k].to.length
              /\ \E l \in DOMAIN hunks[k].text : hunks[k].text[l][1] # " "
              /\ ~answer.again => \A l \in 1 .. MinInt(answer.context, Preceding(hunks[k].from)) :
                                    k = 1 => hunks[k].text[l][1] = " "
              /\ \A l \in 1 .. Len(hunks[k].text) - 2 * answer.context :
                   \E i \in l .. l + 2 * answer.context : hunks[k].text[i][1] # " "
    /\ matcher.junk = {} /\ Len(b) < AutoJunkLen =>
         LET m == FindLongestMatch(a, b, {}, 0, Len(a), 0, Len(b))
             matches == {<<i, j, k>> \in (0 .. Len(a)) \X (0 .. Len(b)) \X (0 .. Len(a)) :
                           i + k <= Len(a) /\ j + k <= Len(b) /\ Lines(a, i, i + k) = Lines(b, j, j + k)}
         IN \A t \in matches : \/ t[3] < m.size
                               \/ t[3] = m.size /\ (m.a < t[1] \/ (m.a = t[1] /\ m.b <= t[2]))
=============================================================================
