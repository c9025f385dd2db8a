------------------------------ MODULE Retrieval ------------------------------
(***************************************************************************)
(* Hybrid search (retrieval.service.ts): the chunks of a workspace are       *)
(* ranked by distance and by keywords, each list is cut to a pool, and the    *)
(* two are fused by reciprocal rank.  One statement, so one step.            *)
(*                                                                         *)
(* A chunk's distance and its keyword score are small numbers; a chunk whose  *)
(* embedding has not been saved yet has no distance, one that shares no word  *)
(* with the question no score.  Ranks are compared as fractions, exactly.     *)
(* Left out: how texts are embedded and matched.                             *)
(***************************************************************************)
EXTENDS Naturals, Sequences, FiniteSets, SequencesExt

CONSTANTS NumChunks,       \* of the workspace
          Pool, RrfK, K,   \* CANDIDATE_POOL, RRF_K, k
          Grades           \* bound: the distances and scores told apart

ASSUME RetrievalAssumption ==
  /\ NumChunks \in Nat /\ Pool \in Nat \ {0} /\ RrfK \in Nat \ {0} /\ K \in Nat \ {0}
  /\ Grades \subseteq Nat \ {0}
  \* As in the code: 20 and 60.
  /\ Pool < RrfK + 2

ChunkIds == 1..NumChunks

VARIABLES
  distance,     \* of each chunk to the question; 0 if it is not embedded
  score,        \* ts_rank of each chunk; 0 if no word matches
  vectorRank, keywordRank,   \* the two lists: the rank of each hit
  found         \* the chunks returned, best first

retrievalVars == <<distance, score, vectorRank, keywordRank, found>>

RetrievalTypeOK ==
  /\ distance \in [ChunkIds -> {0} \cup Grades] /\ score \in [ChunkIds -> {0} \cup Grades]
  /\ \A rank \in {vectorRank, keywordRank} :
       /\ DOMAIN rank \subseteq ChunkIds
       \* The ranks are the first numbers, each once.
       /\ {rank[c] : c \in DOMAIN rank} = 1..Cardinality(DOMAIN rank)
  /\ found \in Seq(ChunkIds) /\ Len(found) <= K /\ IsInjective(found)

RetrievalInit ==
  /\ distance \in [ChunkIds -> {0} \cup Grades] /\ score \in [ChunkIds -> {0} \cup Grades]
  /\ vectorRank = <<>> /\ keywordRank = <<>> /\ found = <<>>

-----------------------------------------------------------------------------
\* The ranks an order gives: ROW_NUMBER() and LIMIT.  Chunks that tie come in any
\* order where the statement does not say.
RankedBy(hits, Ahead(_, _)) ==
  {[c \in {d \in hits : row[d] <= Pool} |-> row[c]] :
     row \in {r \in [hits -> 1..Cardinality(hits)] :
               \A a, b \in hits : a # b => r[a] # r[b] /\ (Ahead(a, b) => r[a] < r[b])}}

Embedded == {c \in ChunkIds : distance[c] # 0}
Matching == {c \in ChunkIds : score[c] # 0}

Closer(a, b) == distance[a] < distance[b]
Likelier(a, b) == score[a] > score[b] \/ (score[a] = score[b] /\ a < b)

\* 1 / (K + rank) for each list the chunk is in, over a common denominator.
Fraction(rank, c) == IF c \in DOMAIN rank THEN <<1, RrfK + rank[c]>> ELSE <<0, 1>>
Plus(p, q) == <<p[1] * q[2] + q[1] * p[2], p[2] * q[2]>>
Greater(p, q) == p[1] * q[2] > q[1] * p[2]
Equal(p, q) == p[1] * q[2] = q[1] * p[2]

Rrf(v, kw, c) == Plus(Fraction(v, c), Fraction(kw, c))

\* FULL OUTER JOIN.
Fused(v, kw) == DOMAIN v \cup DOMAIN kw

\* Mutant of Better: the best place in either list decides.
BetterByPlace(v, kw, a, b) ==
  LET place(c) == IF c \in DOMAIN v /\ (c \in DOMAIN kw => v[c] < kw[c]) THEN v[c] ELSE kw[c]
  IN place(a) < place(b) \/ (place(a) = place(b) /\ a < b)

\* ORDER BY rrf_score DESC, id.
Better(v, kw, a, b) ==
  \/ Greater(Rrf(v, kw, a), Rrf(v, kw, b))
  \/ Equal(Rrf(v, kw, a), Rrf(v, kw, b)) /\ a < b

InOrderOf(v, kw) ==
  {rows \in [1..Cardinality(Fused(v, kw)) -> Fused(v, kw)] :
     \A i, j \in DOMAIN rows : i < j => Better(v, kw, rows[i], rows[j])}

\* The outer LIMIT.
Best(rows) == SubSeq(rows, 1, Min({K, Len(rows)}))

Retrieve ==
  /\ vectorRank = <<>> /\ keywordRank = <<>> /\ Embedded \cup Matching # {}
  /\ \E v \in RankedBy(Embedded, Closer), kw \in RankedBy(Matching, Likelier) :
       /\ vectorRank' = v /\ keywordRank' = kw
       /\ \E rows \in InOrderOf(v, kw) : found' = Best(rows)
  /\ UNCHANGED <<distance, score>>

RetrievalNext == Retrieve
RetrievalSpec == RetrievalInit /\ [][RetrievalNext]_retrievalVars

-----------------------------------------------------------------------------
Returned == {found[i] : i \in DOMAIN found}
Ranked == DOMAIN vectorRank \cup DOMAIN keywordRank

\* A chunk both searches found comes before any that only one of them found, even
\* before the first of that list: the damping of the fusion is large enough for
\* its pool.
BothListsWin ==
  \A i, j \in DOMAIN found :
    /\ found[i] \in DOMAIN vectorRank \cap DOMAIN keywordRank
    /\ found[j] \notin DOMAIN vectorRank \cap DOMAIN keywordRank
    => i < j

\* As many chunks as asked for are returned if either search has them; and one that
\* is behind in no list is not left out for one that is.
NoneBetterLeftOut ==
  /\ Cardinality(Returned) = IF Cardinality(Ranked) < K THEN Cardinality(Ranked) ELSE K
  /\ \A c \in Ranked \ Returned, d \in Returned :
       ~(/\ d \in DOMAIN vectorRank => c \in DOMAIN vectorRank /\ vectorRank[c] < vectorRank[d]
         /\ d \in DOMAIN keywordRank => c \in DOMAIN keywordRank /\ keywordRank[c] < keywordRank[d])

\* The fusion is fair to both searches: what they agree on comes first, and what is
\* left out is behind in one of them.
FusionIsFair == RetrievalTypeOK /\ BothListsWin /\ NoneBetterLeftOut
=============================================================================
